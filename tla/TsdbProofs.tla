---------------------------- MODULE TsdbProofs ----------------------------
(***************************************************************************)
(* Proofs about the time-series database, for every geometry, every length *)
(* of blobs and any number of failures: type correctness, the inductive    *)
(* invariant, that data never overlap (DataApart) and that programming     *)
(* only clears bits (TsProgramOnlyClears).                                 *)
(***************************************************************************)
EXTENDS TsdbInv, TLAPS, WellFoundedInduction, SequenceTheorems

----------------------------------------------------------------------------
(* Numbers and sectors *)

LEMMA Geometry ==
  /\ N \in Nat /\ N >= 2 /\ SecSize \in Nat /\ MaxLen \in Nat
  /\ SECTOR_HDR_DATA_SIZE = 32 /\ LOG_IDX_DATA_SIZE = 16
  /\ 48 + MaxLen <= SecSize /\ 0 \in Sector
BY GeometryAssumption, MaxLenAssumption DEF SECTOR_HDR_DATA_SIZE, LOG_IDX_DATA_SIZE, Sector

\* A set of numbers has a first one.
LEMMA LeastExists ==
  ASSUME NEW S, S \subseteq Nat, S # {}
  PROVE  Least(S) \in S /\ \A y \in S : Least(S) <= y
<1> DEFINE R == {ss \in Nat \X Nat : ss[1] < ss[2]}
<1>1. IsWellFoundedOn(R, Nat)
  BY NatLessThanWellFounded DEF OpToRel
<1>2. \A x, y \in Nat : x < y => <<x, y>> \in R
  OBVIOUS
<1> HIDE DEF R
<1>3. PICK x \in S : \A y \in S : ~ (<<y, x>> \in R)
  BY <1>1, WFMin
<1>4. \A y \in S : x <= y
  <2> TAKE y \in S
  <2>1. x \in Nat /\ y \in Nat /\ ~ (y < x)
    BY <1>2, <1>3
  <2> QED BY <2>1
<1> QED BY <1>3, <1>4 DEF Least

\* A bounded one has a last one.
LEMMA GreatestExists ==
  ASSUME NEW n \in Nat, NEW S, S \subseteq 0 .. n, S # {}
  PROVE  Greatest(S) \in S /\ \A y \in S : y <= Greatest(S)
<1> DEFINE T == {i \in 0 .. n : n - i \in S}
<1>1. T \subseteq Nat /\ T # {}
  <2>1. PICK s \in S : TRUE
    OBVIOUS
  <2>2. n - s \in 0 .. n /\ n - (n - s) = s
    BY <2>1
  <2> QED BY <2>2
<1>2. PICK i \in T : \A j \in T : i <= j
  <2> DEFINE R == {ss \in Nat \X Nat : ss[1] < ss[2]}
  <2>1. IsWellFoundedOn(R, Nat)
    BY NatLessThanWellFounded DEF OpToRel
  <2>2. \A x, y \in Nat : x < y => <<x, y>> \in R
    OBVIOUS
  <2> HIDE DEF R, T
  <2>3. PICK x \in T : \A y \in T : ~ (<<y, x>> \in R)
    BY <1>1, <2>1, WFMin
  <2>4. \A y \in T : x <= y
    <3> TAKE y \in T
    <3>1. x \in Nat /\ y \in Nat /\ ~ (y < x)
      BY <1>1, <2>2, <2>3
    <3> QED BY <3>1
  <2> QED BY <2>3, <2>4
<1>3. \A y \in S : n - y \in T
  OBVIOUS
<1>4. \A y \in S : n - i >= y
  <2> TAKE y \in S
  <2>1. i <= n - y /\ i \in Int /\ y \in Int
    BY <1>2, <1>3
  <2> QED BY <2>1
<1>5. n - i \in S
  BY <1>2 DEF T
<1>6. PICK x : x = Greatest(S)
  OBVIOUS
<1>7. x \in S /\ \A y \in S : x >= y
  BY <1>4, <1>5, <1>6 DEF Greatest
<1>8. \A y \in S : y <= x
  BY <1>7
<1> QED BY <1>6, <1>7, <1>8

\* The next sector is another one.
LEMMA NextSectorType ==
  ASSUME NEW s \in Sector
  PROVE  NextSector(s) \in Sector /\ NextSector(s) # s
<1>1. CASE s + 1 < N
  BY <1>1, Geometry DEF NextSector, Sector
<1>2. CASE s + 1 = N
  BY <1>2, Geometry DEF NextSector, Sector
<1> QED BY <1>1, <1>2, Geometry DEF Sector

LEMMA LastSectorType ==
  ASSUME NEW s \in Sector
  PROVE  LastSector(s) \in Sector
BY Geometry DEF LastSector, Sector

----------------------------------------------------------------------------
(* What is read from an image *)

Image == [Sector -> SectorImage]

LEMMA ErasedType == Erased \in SectorImage
<1>1. NoEnd \in EndInfo
  BY DEF NoEnd, EndInfo, EndStatus, ErasedTime
<1>2. <<>> \in Seq(IndexRecord)
  OBVIOUS
<1> QED BY <1>1, <1>2 DEF Erased, SectorImage, SectorStoreStatus, ErasedTime

\* The fields of a sector.
LEMMA ImageFields ==
  ASSUME NEW img \in Image, NEW s \in Sector
  PROVE  /\ img[s].ok \in BOOLEAN /\ img[s].store \in SectorStoreStatus /\ img[s].start \in Int
         /\ img[s].ends \in [1 .. 2 -> EndInfo]
         /\ \A e \in 1 .. 2 : /\ img[s].ends[e].stat \in EndStatus
                              /\ img[s].ends[e].time \in Int /\ img[s].ends[e].idx \in Nat
         /\ img[s].tsls \in Seq(IndexRecord)
BY DEF Image, SectorImage, EndInfo

LEMMA BlankType ==
  ASSUME NEW s \in Sector \cup {NoAddr}
  PROVE  Blank(s) \in SecInfo
BY DEF Blank, SecInfo, SectorStoreStatus, EndStatus

LEMMA EndOfType ==
  ASSUME NEW img \in Image, NEW s \in Sector
  PROVE  EndOf(img[s]).time \in Int /\ EndOf(img[s]).idx \in Nat
BY ImageFields DEF EndOf, NoEnd

LEMMA HeaderType ==
  ASSUME NEW img \in Image, NEW s \in Sector
  PROVE  read_header(img, s) \in SecInfo
<1>1. CASE img[s].ok
  <2>1. [e \in 1 .. 2 |-> img[s].ends[e].stat] \in [1 .. 2 -> EndStatus]
    BY ImageFields
  <2> QED BY <1>1, <2>1, ImageFields, EndOfType, Geometry DEF read_header, SecInfo
<1>2. CASE ~img[s].ok
  BY <1>2, BlankType DEF read_header
<1> QED BY <1>1, <1>2

\* A sector that has records has a last one, and a length of it that a torn one hides.
LEMMA LastType ==
  ASSUME NEW img \in Image, NEW s \in Sector, img[s].tsls # <<>>
  PROVE  /\ Len(img[s].tsls) \in Nat \ {0}
         /\ LastRecord(img[s]) \in IndexRecord
         /\ LastRecord(img[s]) = img[s].tsls[Len(img[s].tsls)]
         /\ ReadLen(LastRecord(img[s])) \in Nat
<1>1. img[s].tsls \in Seq(IndexRecord)
  BY ImageFields
<1>2. Len(img[s].tsls) \in Nat \ {0} /\ LastRecord(img[s]) \in IndexRecord
  BY <1>1 DEF LastRecord
<1>3. ReadLen(LastRecord(img[s])) \in Nat
  BY <1>2, Geometry DEF ReadLen, IndexRecord
<1> QED BY <1>2, <1>3 DEF LastRecord

LEMMA DataType ==
  ASSUME NEW img \in Image, NEW s \in Sector
  PROVE  EmptyData(img[s]) \in Int /\ Free(img[s]) \in Nat
<1>1. EmptyData(img[s]) \in Int
  <2>1. CASE img[s].tsls = <<>>
    BY <2>1, Geometry DEF EmptyData
  <2>2. CASE img[s].tsls # <<>>
    BY <2>2, LastType DEF EmptyData, IndexRecord
  <2> QED BY <2>1, <2>2
<1>2. Len(img[s].tsls) \in Nat
  BY ImageFields
<1> QED BY <1>1, <1>2, Geometry DEF Free

LEMMA CommittedTime ==
  ASSUME NEW img \in Image, NEW s \in Sector, Committed(img[s]) # {}
  PROVE  img[s].tsls[Greatest(Committed(img[s]))].time \in Int
<1>1. img[s].tsls \in Seq(IndexRecord)
  BY ImageFields
<1>2. Committed(img[s]) \subseteq 0 .. Len(img[s].tsls) /\ Len(img[s].tsls) \in Nat
  BY <1>1 DEF Committed
<1>3. Greatest(Committed(img[s])) \in Committed(img[s])
  BY <1>2, GreatestExists
<1>4. Greatest(Committed(img[s])) \in 1 .. Len(img[s].tsls)
  BY <1>1, <1>3 DEF Committed
<1>5. img[s].tsls[Greatest(Committed(img[s]))] \in IndexRecord
  BY <1>1, <1>4
<1> QED BY <1>5 DEF IndexRecord

LEMMA FilledType ==
  ASSUME NEW h \in SecInfo, NEW t \in Int, NEW n \in Nat, NEW f \in Int, NEW d \in Int
  PROVE  [h EXCEPT !.endTime = t, !.endIdx = n, !.idx = n, !.remain = f, !.data = d] \in SecInfo
BY DEF SecInfo

LEMMA SecInfoType ==
  ASSUME NEW img \in Image, NEW s \in Sector \cup {NoAddr}
  PROVE  read_sector_info(img, s) \in SecInfo
<1>1. CASE s = NoAddr
  BY <1>1, BlankType DEF read_sector_info
<1>2. CASE s # NoAddr
  <2> DEFINE h == read_header(img, s)
             t == IF Committed(img[s]) = {} THEN h.endTime
                  ELSE img[s].tsls[Greatest(Committed(img[s]))].time
             n == Len(img[s].tsls)
  <2>1. s \in Sector /\ h \in SecInfo
    BY <1>2, HeaderType
  <2>2. t \in Int
    BY <2>1, CommittedTime DEF SecInfo
  <2>3. n \in Nat /\ Free(img[s]) \in Int /\ EmptyData(img[s]) \in Int
    BY <2>1, DataType, ImageFields
  <2> HIDE DEF h, t, n
  <2>4. [h EXCEPT !.endTime = t, !.endIdx = n, !.idx = n, !.remain = Free(img[s]),
                  !.data = EmptyData(img[s])] \in SecInfo
    BY <2>1, <2>2, <2>3, FilledType
  <2>5. \/ read_sector_info(img, s) = h
        \/ read_sector_info(img, s)
             = [h EXCEPT !.endTime = t, !.endIdx = n, !.idx = n, !.remain = Free(img[s]),
                         !.data = EmptyData(img[s])]
    <3>1. h.endTime = h.endTime
      OBVIOUS
    <3>2. CASE ~h.ok \/ h.status # "Using" \/ img[s].tsls = <<>>
      BY <1>2, <3>2 DEF read_sector_info, h
    <3>3. CASE ~(~h.ok \/ h.status # "Using" \/ img[s].tsls = <<>>)
      BY <1>2, <2>1, <3>3 DEF read_sector_info, h, t, n
    <3> QED BY <3>2, <3>3
  <2> QED BY <2>1, <2>4, <2>5
<1> QED BY <1>1, <1>2

\* What a sector that is not in use says of itself is all that is read of it.
LEMMA HeaderAgrees ==
  ASSUME NEW img \in Image, NEW s \in Sector, SectorOK(img[s]),
         read_header(img, s).status # "Using"
  PROVE  Agrees(read_header(img, s), img)
<1> DEFINE h == read_header(img, s)
<1>1. CASE ~img[s].ok
  BY <1>1 DEF Agrees, read_header, Blank
<1>2. CASE img[s].ok
  <2>1. /\ h.sec = s /\ h.status = img[s].store /\ h.idx = 0 /\ h.data = SecSize
        /\ h.remain = SecSize - SECTOR_HDR_DATA_SIZE
    BY <1>2 DEF read_header
  <2>2. \A e \in 1 .. 2 : h.stat[e] = img[s].ends[e].stat
    BY <1>2 DEF read_header
  <2> HIDE DEF h
  <2>3. StatAgrees(h, img[s])
    BY <2>2 DEF StatAgrees
  <2>4. RoomAgrees(h, img[s], 0)
    BY <2>1, Geometry DEF RoomAgrees, IndexEnd
  <2>5. h.status # "Using"
    BY DEF h
  <2>6. Agrees(h, img)
    BY <2>1, <2>3, <2>4, <2>5 DEF Agrees
  <2> QED BY <2>6 DEF h
<1> QED BY <1>1, <1>2

\* The header of an empty sector.
LEMMA HeaderOfEmpty ==
  ASSUME NEW img \in Image, NEW s \in Sector, img[s].store = "Empty"
  PROVE  read_header(img, s).status # "Using"
BY DEF read_header, Blank

LEMMA HeaderEmptyOK ==
  ASSUME NEW img \in Image, NEW s \in Sector, read_header(img, s).status = "Empty"
  PROVE  /\ read_header(img, s).ok /\ read_header(img, s).sec = s
         /\ img[s].ok /\ img[s].store = "Empty"
BY DEF read_header, Blank

\* The end of the data that is computed from the last record is in front of all data.
LEMMA DataInFront ==
  ASSUME NEW img \in Image, NEW s \in Sector, SectorOK(img[s])
  PROVE  /\ EmptyData(img[s]) <= SecSize
         /\ \A j \in DOMAIN img[s].tsls : EmptyData(img[s]) <= LogAddr(img[s].tsls[j])
<1>1. CASE img[s].tsls = <<>>
  BY <1>1, Geometry DEF EmptyData
<1>2. CASE img[s].tsls # <<>>
  <2> DEFINE T == img[s].tsls
             n == Len(T)
             r == T[n]
  <2>1. T \in Seq(IndexRecord) /\ n \in Nat \ {0} /\ DOMAIN T = 1 .. n
    BY <1>2, ImageFields
  <2>2. \A j \in 1 .. n : /\ T[j].top \in Int /\ T[j].len \in Nat /\ T[j].len <= MaxLen
                          /\ T[j].top <= SecSize
                          /\ \A k \in 1 .. j-1 : T[j].top <= LogAddr(T[k])
    <3> TAKE j \in 1 .. n
    <3>1. T[j] \in IndexRecord
      BY <2>1
    <3> QED BY <2>1, <3>1 DEF SectorOK, SectorApart, IndexRecord
  <2>3. EmptyData(img[s]) = r.top - ReadLen(r)
    BY <1>2 DEF EmptyData, LastRecord
  <2>4. ReadLen(r) \in {r.len, MaxLen}
    BY DEF ReadLen
  <2>5. n \in 1 .. n
    BY <2>1
  <2>6. r.top \in Int /\ r.len \in Nat /\ r.len <= MaxLen /\ r.top <= SecSize
    BY <2>2, <2>5
  <2>7. EmptyData(img[s]) <= r.top - r.len /\ EmptyData(img[s]) <= r.top
        /\ EmptyData(img[s]) \in Int
    <3> HIDE DEF r
    <3> QED BY <2>3, <2>4, <2>6, Geometry
  <2>8. ASSUME NEW j \in 1 .. n PROVE EmptyData(img[s]) <= LogAddr(T[j])
    <3>1. CASE j = n
      BY <3>1, <2>7 DEF LogAddr
    <3>2. CASE j # n
      <4>1. j \in 1 .. n-1
        BY <3>2, <2>1
      <4>2. r.top <= LogAddr(T[j])
        BY <4>1, <2>2, <2>5
      <4>3. LogAddr(T[j]) \in Int
        BY <2>2 DEF LogAddr
      <4> QED BY <4>2, <4>3, <2>6, <2>7
    <3> QED BY <3>1, <3>2
  <2> QED BY <2>1, <2>6, <2>7, <2>8, Geometry
<1> QED BY <1>1, <1>2

\* What is read of a sector as a whole describes it, whatever failed while it was written.
LEMMA InfoAgrees ==
  ASSUME NEW img \in Image, NEW s \in Sector, SectorOK(img[s])
  PROVE  Agrees(read_sector_info(img, s), img)
<1> DEFINE h == read_header(img, s)
           c == read_sector_info(img, s)
           n == Len(img[s].tsls)
<1>0. s # NoAddr
  BY NoAddrAssumption
<1>1. CASE h.status # "Using"
  BY <1>0, <1>1, HeaderAgrees DEF read_sector_info
<1>2. CASE h.status = "Using"
  <2>1. img[s].ok /\ h.ok /\ img[s].store = "Using"
    BY <1>2 DEF read_header, Blank
  <2>2. /\ h.sec = s /\ h.idx = 0 /\ h.data = SecSize
        /\ h.remain = SecSize - SECTOR_HDR_DATA_SIZE
        /\ \A e \in 1 .. 2 : h.stat[e] = img[s].ends[e].stat
    BY <2>1 DEF read_header
  <2>3. n \in Nat /\ DOMAIN img[s].tsls = 1 .. n
    BY ImageFields
  <2>4. h \in SecInfo
    BY HeaderType
  <2>5. CASE img[s].tsls = <<>>
    <3>1. c = h /\ n = 0
      BY <1>0, <2>5 DEF read_sector_info
    <3> HIDE DEF h, c, n
    <3>2. StatAgrees(c, img[s])
      BY <2>2, <3>1 DEF StatAgrees
    <3>3. RoomAgrees(c, img[s], n)
      BY <2>2, <3>1, Geometry DEF RoomAgrees, IndexEnd
    <3>4. Agrees(c, img)
      BY <1>2, <2>1, <2>2, <3>1, <3>2, <3>3 DEF Agrees, n
    <3> QED BY <3>4 DEF c
  <2>6. CASE img[s].tsls # <<>>
    <3>1. /\ c.sec = s /\ c.idx = n /\ c.remain = Free(img[s]) /\ c.data = EmptyData(img[s])
          /\ c.status = "Using" /\ c.stat = h.stat
      BY <1>0, <1>2, <2>1, <2>2, <2>4, <2>6 DEF read_sector_info, SecInfo
    <3>2. /\ c.remain >= 0
          /\ c.remain > 0 => IndexEnd(n) + c.remain <= c.data
      <4>1. Free(img[s]) \in Nat /\ EmptyData(img[s]) \in Int
        BY DataType
      <4> HIDE DEF c
      <4> QED BY <3>1, <4>1, <2>3, Geometry DEF Free, IndexEnd
    <3> HIDE DEF h, c
    <3>3. RoomAgrees(c, img[s], n)
      BY <2>3, <3>1, <3>2, DataInFront DEF RoomAgrees
    <3>4. StatAgrees(c, img[s])
      BY <2>2, <3>1 DEF StatAgrees
    <3>5. Agrees(c, img)
      BY <2>1, <3>1, <3>3, <3>4 DEF Agrees
    <3> QED BY <3>5 DEF c
  <2> QED BY <2>5, <2>6
<1> QED BY <1>1, <1>2

----------------------------------------------------------------------------
(* What init finds *)

LEMMA FirstOpenType ==
  ASSUME NEW img \in Image
  PROVE  FirstOpen(img) \in Sector \cup {NoAddr}
<1> DEFINE S == Empties(img) \cup Usings(img)
<1>1. S \subseteq Nat /\ S \subseteq Sector
  BY DEF Empties, Usings, Sector
<1>2. S # {} => Least(S) \in S
  BY <1>1, LeastExists
<1> HIDE DEF S
<1>3. FirstOpen(img) = IF S = {} THEN NoAddr ELSE Least(S)
  BY DEF FirstOpen, S
<1> QED BY <1>1, <1>2, <1>3

LEMMA OldestType ==
  ASSUME NEW img \in Image
  PROVE  FindOldest(img) \in Sector \cup {NoAddr}
<1>1. ASSUME Empties(img) # {} PROVE Greatest(Empties(img)) \in Sector
  <2>1. Empties(img) \subseteq Sector /\ Empties(img) \subseteq 0 .. N /\ N \in Nat
    BY Geometry DEF Empties, Sector
  <2> QED BY <1>1, <2>1, GreatestExists
<1>2. FirstOpen(img) # NoAddr => FirstOpen(img) \in Sector
  BY FirstOpenType
<1> QED BY <1>1, <1>2, NextSectorType DEF FindOldest

LEMMA LastTimeType ==
  ASSUME NEW img \in Image, NEW s \in Sector \cup {NoAddr}, NEW old,
         NEW c, c = read_sector_info(img, s)
  PROVE  FindLastTime(img, c, old) \in Int
<1>1. c \in SecInfo
  BY SecInfoType
<1>2. ASSUME c.status = "Empty" PROVE c.sec \in Sector
  <2>1. s # NoAddr
    BY <1>2 DEF read_sector_info, Blank
  <2>2. c.sec = s
    <3>1. read_header(img, s).sec = s /\ read_header(img, s) \in SecInfo
      BY <2>1, HeaderType DEF read_header, Blank
    <3> QED BY <2>1, <3>1 DEF read_sector_info, SecInfo
  <2> QED BY <2>1, <2>2
<1>3. ASSUME c.status = "Empty" PROVE read_header(img, LastSector(c.sec)).endTime \in Int
  BY <1>2, <1>3, LastSectorType, HeaderType DEF SecInfo
<1>4. c.endTime \in Int
  BY <1>1 DEF SecInfo
<1> QED BY <1>3, <1>4 DEF FindLastTime

----------------------------------------------------------------------------
(* Steps in general *)

RamType == /\ cur \in SecInfo /\ oldest \in Sector \cup {NoAddr} /\ lastTime \in Int
           /\ rollover \in BOOLEAN
RunType == pc \in Labels /\ call \in Call /\ result \in Results
MediumType == failing \in BOOLEAN /\ failures \in 0 .. MaxFailures
ClientType == clock \in 0 .. MaxTime /\ marks \in 0 .. MaxMarks /\ ruined \in BOOLEAN

LEMMA TypeParts ==
  TsTypeOK <=> flash \in Image /\ RamType /\ RunType /\ MediumType /\ ClientType
BY DEF TsTypeOK, Image, RamType, RunType, MediumType, ClientType

LEMMA TypePartsNext ==
  TsTypeOK' <=> (flash' \in Image /\ RamType' /\ RunType' /\ MediumType' /\ ClientType')
BY DEF TsTypeOK, Image, RamType, RunType, MediumType, ClientType

LEMMA SameRam == ASSUME RamType, UNCHANGED ram PROVE RamType'
BY DEF RamType, ram

LEMMA SameClient == ASSUME ClientType, UNCHANGED client PROVE ClientType'
BY DEF ClientType, client

\* What programming leaves of the medium.
LEMMA Programmed ==
  ASSUME NEW s, NEW image, NEW ok \in BOOLEAN, MediumType, Program(s, image, ok)
  PROVE  /\ MediumType'
         /\ failing' = ~ok
         /\ ok => ~failing /\ flash' = [flash EXCEPT ![s] = image]
         /\ ~ok => flash' = flash
<1>1. CASE ok
  BY <1>1 DEF Program, Outcome, MediumType
<1>2. CASE ~ok
  <2>1. failures' \in 0 .. MaxFailures
    BY <1>2, TsBoundsAssumption DEF Program, Outcome, MediumType
  <2> QED BY <1>2, <2>1 DEF Program, Outcome, MediumType
<1> QED BY <1>1, <1>2

LEMMA ThenType ==
  ASSUME RunType, NEW ok \in BOOLEAN, NEW label \in Labels, Then(ok, label)
  PROVE  RunType' /\ (ok => pc' = label /\ call' = call)
<1>1. NoCall \in Call
  BY Geometry DEF NoCall, Call
<1> QED BY <1>1 DEF Then, Goto, Return, RunType, Labels, Results

LEMMA ReturnType ==
  ASSUME NEW r \in Results, Return(r)
  PROVE  RunType' /\ pc' = "Idle" /\ call' = NoCall
<1>1. NoCall \in Call
  BY Geometry DEF NoCall, Call
<1> QED BY <1>1 DEF Return, RunType, Labels

\* A write that fails leaves nothing to show.
LEMMA Failed ==
  ASSUME TsIInv, flash' = flash, failing', MediumType', RamType', RunType', ClientType'
  PROVE  TsIInv'
<1>1. flash' \in Image
  BY TypeParts DEF TsIInv
<1>2. MediumOK'
  BY DEF TsIInv, MediumOK
<1> QED BY <1>1, <1>2, TypePartsNext DEF TsIInv

\* A write to one sector leaves the medium in order if it leaves that sector in order.
LEMMA Written ==
  ASSUME flash \in Image, MediumOK, NEW s \in Sector, NEW image \in SectorImage, SectorOK(image),
         flash' = [flash EXCEPT ![s] = image]
  PROVE  /\ flash' \in Image /\ MediumOK'
         /\ flash'[s] = image /\ \A q \in Sector : q # s => flash'[q] = flash[q]
<1>1. \A q \in Sector : flash'[q] = IF q = s THEN image ELSE flash[q]
  BY DEF Image
<1>2. flash' \in Image
  BY DEF Image
<1>3. MediumOK'
  BY <1>1 DEF MediumOK
<1> QED BY <1>1, <1>2, <1>3

\* What is in memory is right if a step leaves it in the middle of an append.
LEMMA InAppend ==
  ASSUME call'.op = "Append", call'.len <= MaxLen,
         pc' \in EndLabels \cup FirstLabels \cup RecordLabels,
         pc' \in EndLabels => EndAgrees',
         pc' \in FirstLabels => FirstAgrees',
         pc' \in RecordLabels => RecordAgrees'
  PROVE  MemoryOK'
<1>1. pc' \notin {"Idle", "CleanEnd"} \cup FormatLabels
  BY DEF EndLabels, FirstLabels, RecordLabels, FormatLabels
<1>2. CallAgrees'
  BY <1>1 DEF CallAgrees
<1>3. FormatAgrees'
  BY <1>1 DEF FormatAgrees, FormatLabels
<1> QED BY <1>1, <1>2, <1>3 DEF MemoryOK

\* ... or between two calls.
LEMMA AtRest ==
  ASSUME call' = NoCall, pc' \in {"Idle", "Off"},
         pc' = "Idle" /\ cur'.ok => Agrees(cur', flash')
  PROVE  MemoryOK'
<1>1. pc' \notin {"CleanEnd"} \cup FormatLabels \cup EndLabels \cup FirstLabels \cup RecordLabels
  BY DEF EndLabels, FirstLabels, RecordLabels, FormatLabels
<1>2. call'.op = "None"
  BY DEF NoCall
<1>3. CallAgrees'
  BY <1>1, <1>2 DEF CallAgrees
<1>4. FormatAgrees'
  BY <1>1, <1>2 DEF FormatAgrees, FormatLabels
<1> QED BY <1>1, <1>3, <1>4 DEF MemoryOK

----------------------------------------------------------------------------
(* Programming only clears bits *)

OnlyClears == \A s \in Sector : Programs(s, flash[s], flash'[s])

LEMMA Ranks ==
  /\ \A st \in SectorStoreStatus : StoreRank[st] \in Nat
  /\ \A st \in TslStatus : StatusRank[st] \in Nat
BY DEF SectorStoreStatus, StoreRank, TslStatus, StatusRank

LEMMA RecordSame ==
  ASSUME NEW r \in IndexRecord PROVE RecordForward(r, r)
<1>1. StatusRank[r.status] \in Nat
  BY Ranks DEF IndexRecord
<1>2. r = [r EXCEPT !.status = r.status]
  BY DEF IndexRecord
<1> QED BY <1>1, <1>2 DEF RecordForward, TimeOnce

LEMMA EndSame ==
  ASSUME NEW e \in EndInfo PROVE EndForward(e, e)
<1>1. StatusRank[e.stat] \in Nat
  BY Ranks DEF EndInfo, EndStatus, TslStatus
<1> QED BY <1>1 DEF EndForward, TimeOnce

LEMMA SectorSame ==
  ASSUME NEW sec \in SectorImage PROVE Forward1(sec, sec)
<1>1. sec.store \in SectorStoreStatus /\ sec.tsls \in Seq(IndexRecord)
      /\ \A e \in 1 .. 2 : sec.ends[e] \in EndInfo
  BY DEF SectorImage
<1>2. StoreRank[sec.store] \in Nat /\ Len(sec.tsls) \in Nat
  BY <1>1, Ranks
<1>3. \A j \in DOMAIN sec.tsls : RecordForward(sec.tsls[j], sec.tsls[j])
  BY <1>1, RecordSame
<1>4. \A e \in 1 .. 2 : EndForward(sec.ends[e], sec.ends[e])
  BY <1>1, EndSame
<1> QED BY <1>2, <1>3, <1>4 DEF Forward1, TimeOnce

LEMMA WrittenClears ==
  ASSUME flash \in Image, NEW s \in Sector, NEW image, flash' = [flash EXCEPT ![s] = image],
         \/ Forward1(flash[s], image) \/ image = Erased
         \/ pc = "Idle" /\ (MarksOne(flash[s], image) \/ HidesHeader(s, flash[s], image))
  PROVE  OnlyClears
<1>1. \A q \in Sector : flash'[q] = IF q = s THEN image ELSE flash[q]
  BY DEF Image
<1>2. \A q \in Sector : Forward1(flash[q], flash[q])
  BY SectorSame DEF Image
<1> QED BY <1>1, <1>2 DEF OnlyClears, Programs

LEMMA NothingClears ==
  ASSUME flash \in Image, flash' = flash
  PROVE  OnlyClears
BY SectorSame DEF OnlyClears, Programs, Image

----------------------------------------------------------------------------
(* The images that are programmed *)

PutEnd(sec, slot, end) == [sec EXCEPT !.ends[slot] = end]
PutRecord(sec, j, r) == [sec EXCEPT !.tsls[j] = r]

\* A copy of the end information.
LEMMA EndImage ==
  ASSUME NEW sec \in SectorImage, SectorOK(sec), sec.store = "Using", NEW slot \in 1 .. 2,
         NEW end \in EndInfo, end.stat # "Unused", EndForward(sec.ends[slot], end),
         NEW image, image = PutEnd(sec, slot, end)
  PROVE  /\ image \in SectorImage /\ SectorOK(image) /\ Forward1(sec, image)
         /\ image.store = "Using" /\ image.ends[slot] = end
<1>1. sec.ends \in [1 .. 2 -> EndInfo] /\ sec.tsls \in Seq(IndexRecord)
  BY DEF SectorImage
<1>2. /\ image.ok = sec.ok /\ image.store = sec.store /\ image.start = sec.start
      /\ image.tsls = sec.tsls /\ image.ends = [sec.ends EXCEPT ![slot] = end]
  BY DEF SectorImage, PutEnd
<1>3. image \in SectorImage
  BY <1>1 DEF SectorImage, PutEnd
<1>4. \A e \in 1 .. 2 : image.ends[e] = IF e = slot THEN end ELSE sec.ends[e]
  BY <1>1, <1>2
<1>5. SectorOK(image)
  <2>1. SectorApart(image)
    BY <1>2 DEF SectorOK, SectorApart
  <2>2. \A e \in 1 .. 2 : image.ends[e].stat = "Unused" => image.ends[e] = NoEnd
    BY <1>4 DEF SectorOK
  <2> QED BY <1>2, <2>1, <2>2 DEF SectorOK
<1>6. Forward1(sec, image)
  <2>1. Forward1(sec, sec)
    BY SectorSame
  <2> QED BY <1>2, <1>4, <2>1 DEF Forward1
<1> QED BY <1>2, <1>3, <1>4, <1>5, <1>6

\* The last record of a sector in use.
LEMMA LastImage ==
  ASSUME NEW sec \in SectorImage, SectorOK(sec), sec.store = "Using", NEW n \in Nat,
         n = Len(sec.tsls) - 1,
         NEW r \in IndexRecord, r.len <= MaxLen, r.top = sec.tsls[n+1].top,
         IndexEnd(n + 1) <= LogAddr(r), ~Torn(r) => r.data, RecordForward(sec.tsls[n+1], r),
         NEW image, image = PutRecord(sec, n+1, r)
  PROVE  /\ image \in SectorImage /\ SectorOK(image) /\ Forward1(sec, image)
         /\ image.store = "Using" /\ image.ends = sec.ends
         /\ Len(image.tsls) = n + 1 /\ image.tsls[n+1] = r
         /\ \A j \in 1 .. n : image.tsls[j] = sec.tsls[j]
<1>1. sec.tsls \in Seq(IndexRecord)
  BY DEF SectorImage
<1>2. /\ image.ok = sec.ok /\ image.store = sec.store /\ image.start = sec.start
      /\ image.ends = sec.ends /\ image.tsls = [sec.tsls EXCEPT ![n+1] = r]
  BY DEF SectorImage, PutRecord
<1>3. n + 1 \in 1 .. Len(sec.tsls) /\ Len(sec.tsls) = n + 1
  BY <1>1
<1>4. /\ image.tsls \in Seq(IndexRecord) /\ Len(image.tsls) = n + 1
      /\ \A j \in 1 .. n + 1 : image.tsls[j] = IF j = n + 1 THEN r ELSE sec.tsls[j]
  BY <1>1, <1>2, <1>3, ExceptSeq
<1>5. DOMAIN image.tsls = 1 .. n + 1 /\ DOMAIN sec.tsls = 1 .. n + 1
  BY <1>1, <1>3, <1>4
<1>6. image \in SectorImage
  BY <1>1, <1>2, <1>4 DEF SectorImage, PutRecord
<1>7. SectorApart(image)
  <2>1. \A j \in 1 .. n + 1 :
           /\ IndexEnd(n + 1) <= LogAddr(sec.tsls[j]) /\ sec.tsls[j].top <= SecSize
           /\ \A k \in 1 .. j-1 : sec.tsls[j].top <= LogAddr(sec.tsls[k])
           /\ ~Torn(sec.tsls[j]) => sec.tsls[j].data
    BY <1>3, <1>5 DEF SectorOK, SectorApart
  <2>2. ASSUME NEW j \in 1 .. n + 1
        PROVE  /\ IndexEnd(n + 1) <= LogAddr(image.tsls[j]) /\ image.tsls[j].top <= SecSize
               /\ \A k \in 1 .. j-1 : image.tsls[j].top <= LogAddr(image.tsls[k])
               /\ ~Torn(image.tsls[j]) => image.tsls[j].data
    <3>1. \A k \in 1 .. j-1 : image.tsls[k] = sec.tsls[k]
      BY <1>4
    <3>2. image.tsls[j].top = sec.tsls[j].top
      BY <1>4
    <3>3. CASE j = n + 1
      BY <1>4, <2>1, <3>1, <3>2, <3>3
    <3>4. CASE j # n + 1
      BY <1>4, <2>1, <3>1, <3>4
    <3> QED BY <3>3, <3>4
  <2> QED BY <1>4, <1>5, <2>2 DEF SectorApart
<1>8. SectorOK(image)
  <2>1. \A j \in 1 .. n + 1 : image.tsls[j].len <= MaxLen
    BY <1>4, <1>5 DEF SectorOK
  <2> QED BY <1>2, <1>5, <1>7, <2>1 DEF SectorOK
<1>9. Forward1(sec, image)
  <2>1. Forward1(sec, sec)
    BY SectorSame
  <2>2. \A j \in 1 .. n + 1 : RecordForward(sec.tsls[j], image.tsls[j])
    BY <1>4, <1>5, <2>1 DEF Forward1
  <2> QED BY <1>2, <1>3, <1>4, <1>5, <2>1, <2>2 DEF Forward1
<1> QED BY <1>2, <1>4, <1>6, <1>8, <1>9

----------------------------------------------------------------------------
(* The end information *)

\* What the three writes have in common.
LEMMA EndWritten ==
  ASSUME TsIInv, ~failing, pc \in EndLabels \ {"SetFull"},
         NEW end \in EndInfo, end.stat # "Unused", EndForward(End, end),
         NEW label \in EndLabels, Program(cur.sec, WithEnd(end), TRUE), Then(TRUE, label),
         UNCHANGED <<ram, client>>,
         label = "EndData" => end.stat = "PreWrite" /\ end.time = ErasedTime,
         label = "EndWrite" => end.stat = "PreWrite", label # "EndPre"
  PROVE  TsIInv' /\ OnlyClears
<1>1. /\ flash \in Image /\ RamType /\ RunType /\ MediumType /\ ClientType /\ MediumOK /\ MemoryOK
  BY TypeParts DEF TsIInv
<1>2. EndAgrees /\ call.op = "Append" /\ call.len <= MaxLen
  BY <1>1 DEF MemoryOK, CallAgrees, EndLabels
<1>3. cur.sec \in Sector /\ flash[cur.sec].store = "Using" /\ call.slot \in 1 .. 2
  BY <1>1, <1>2 DEF EndAgrees, RunType, Call
<1>4. flash[cur.sec] \in SectorImage /\ SectorOK(flash[cur.sec])
  BY <1>1, <1>3 DEF Image, MediumOK
<1>5. /\ WithEnd(end) \in SectorImage /\ SectorOK(WithEnd(end))
      /\ Forward1(flash[cur.sec], WithEnd(end))
      /\ WithEnd(end).store = "Using" /\ WithEnd(end).ends[call.slot] = end
  <2> DEFINE sec == flash[cur.sec]
             slot == call.slot
             image == WithEnd(end)
  <2>1. image = PutEnd(sec, slot, end) /\ EndForward(sec.ends[slot], end)
    BY DEF WithEnd, End, PutEnd
  <2>2. sec \in SectorImage /\ SectorOK(sec) /\ sec.store = "Using" /\ slot \in 1 .. 2
    BY <1>3, <1>4
  <2> HIDE DEF sec, image, slot
  <2>3. /\ image \in SectorImage /\ SectorOK(image) /\ Forward1(sec, image)
        /\ image.store = "Using" /\ image.ends[slot] = end
    BY <2>1, <2>2, EndImage
  <2> QED BY <2>3 DEF sec, image, slot
<1>6. MediumType' /\ ~failing' /\ flash' = [flash EXCEPT ![cur.sec] = WithEnd(end)]
  BY <1>1, Programmed
<1>7. RunType' /\ pc' = label /\ call' = call
  BY <1>1, ThenType DEF EndLabels, Labels
<1>8. RamType' /\ ClientType' /\ cur' = cur
  BY <1>1, SameRam, SameClient DEF ram
<1>9. flash' \in Image /\ MediumOK' /\ flash'[cur.sec] = WithEnd(end)
  BY <1>1, <1>3, <1>5, <1>6, Written
<1>10. EndAgrees'
  <2>1. End' = end
    BY <1>5, <1>7, <1>8, <1>9 DEF End
  <2> QED BY <1>3, <1>5, <1>7, <1>8, <1>9, <2>1 DEF EndAgrees, EndLabels
<1>11. MemoryOK'
  <2>1. pc' \in EndLabels /\ pc' \notin FirstLabels \cup RecordLabels
    BY <1>7 DEF EndLabels, FirstLabels, RecordLabels
  <2> QED BY <1>2, <1>7, <1>10, <2>1, InAppend
<1>12. OnlyClears
  BY <1>1, <1>3, <1>5, <1>6, WrittenClears
<1> QED BY <1>6, <1>7, <1>8, <1>9, <1>11, <1>12, TypePartsNext DEF TsIInv

LEMMA EndType ==
  ASSUME TsIInv, cur.sec \in Sector
  PROVE  End \in EndInfo
BY TypeParts, ImageFields DEF TsIInv, End, RunType, Call, Image, SectorImage

LEMMA EndPreStep ==
  ASSUME TsIInv, NEW ok \in BOOLEAN, EndPre(ok)
  PROVE  TsIInv' /\ OnlyClears
<1>1. /\ flash \in Image /\ RamType /\ RunType /\ MediumType /\ ClientType
  BY TypeParts DEF TsIInv
<1>2. CASE ok
  <2> DEFINE end == [End EXCEPT !.stat = "PreWrite"]
  <2>1. ~failing
    BY <1>1, <1>2, Programmed DEF EndPre
  <2>2. cur.sec \in Sector /\ End = NoEnd
    BY <2>1 DEF EndPre, TsIInv, MemoryOK, EndAgrees, EndLabels
  <2>3. end \in EndInfo /\ end.stat = "PreWrite" /\ end.time = ErasedTime
    BY <2>2, EndType DEF NoEnd, EndInfo, EndStatus
  <2>4. EndForward(End, end)
    BY <2>2 DEF EndForward, NoEnd, TimeOnce, StatusRank
  <2>5. pc \in EndLabels \ {"SetFull"} /\ "EndData" \in EndLabels
    BY DEF EndPre, EndLabels
  <2> HIDE DEF end
  <2>6. /\ Program(cur.sec, WithEnd(end), TRUE) /\ Then(TRUE, "EndData") /\ UNCHANGED <<ram, client>>
    BY <1>2 DEF EndPre, end
  <2> QED BY <2>1, <2>3, <2>4, <2>5, <2>6, EndWritten
<1>3. CASE ~ok
  <2>1. MediumType' /\ failing' /\ flash' = flash
    BY <1>1, <1>3, Programmed DEF EndPre
  <2>2. RunType' /\ RamType' /\ ClientType'
    BY <1>1, ThenType, SameRam, SameClient DEF EndPre, Labels
  <2> QED BY <1>1, <2>1, <2>2, Failed, NothingClears
<1> QED BY <1>2, <1>3

LEMMA EndDataStep ==
  ASSUME TsIInv, NEW ok \in BOOLEAN, EndData(ok)
  PROVE  TsIInv' /\ OnlyClears
<1>1. /\ flash \in Image /\ RamType /\ RunType /\ MediumType /\ ClientType
  BY TypeParts DEF TsIInv
<1>2. CASE ok
  <2> DEFINE end == [End EXCEPT !.time = lastTime, !.idx = cur.idx]
  <2>1. ~failing
    BY <1>1, <1>2, Programmed DEF EndData
  <2>2. cur.sec \in Sector /\ End.stat = "PreWrite" /\ End.time = ErasedTime
    BY <2>1 DEF EndData, TsIInv, MemoryOK, EndAgrees, EndLabels
  <2>3. lastTime \in Int /\ cur.idx \in Nat
    BY <1>1 DEF RamType, SecInfo
  <2>4. end \in EndInfo /\ end.stat = "PreWrite"
    BY <2>2, <2>3, EndType DEF EndInfo, EndStatus
  <2>5. EndForward(End, end)
    BY <2>2, <2>4 DEF EndForward, TimeOnce, StatusRank
  <2>6. pc \in EndLabels \ {"SetFull"} /\ "EndWrite" \in EndLabels
    BY DEF EndData, EndLabels
  <2> HIDE DEF end
  <2>7. /\ Program(cur.sec, WithEnd(end), TRUE) /\ Then(TRUE, "EndWrite") /\ UNCHANGED <<ram, client>>
    BY <1>2 DEF EndData, end
  <2> QED BY <2>1, <2>4, <2>5, <2>6, <2>7, EndWritten
<1>3. CASE ~ok
  <2>1. MediumType' /\ failing' /\ flash' = flash
    BY <1>1, <1>3, Programmed DEF EndData
  <2>2. RunType' /\ RamType' /\ ClientType'
    BY <1>1, ThenType, SameRam, SameClient DEF EndData, Labels
  <2> QED BY <1>1, <2>1, <2>2, Failed, NothingClears
<1> QED BY <1>2, <1>3

LEMMA EndWriteStep ==
  ASSUME TsIInv, NEW ok \in BOOLEAN, EndWrite(ok)
  PROVE  TsIInv' /\ OnlyClears
<1>1. /\ flash \in Image /\ RamType /\ RunType /\ MediumType /\ ClientType
  BY TypeParts DEF TsIInv
<1>2. CASE ok
  <2> DEFINE end == [End EXCEPT !.stat = "Write"]
  <2>1. ~failing
    BY <1>1, <1>2, Programmed DEF EndWrite
  <2>2. cur.sec \in Sector /\ End.stat = "PreWrite"
    BY <2>1 DEF EndWrite, TsIInv, MemoryOK, EndAgrees, EndLabels
  <2>3. end \in EndInfo /\ end.stat = "Write" /\ end.time = End.time
    BY <2>2, EndType DEF EndInfo, EndStatus
  <2>4. EndForward(End, end)
    BY <2>2, <2>3 DEF EndForward, TimeOnce, StatusRank
  <2>5. pc \in EndLabels \ {"SetFull"} /\ "SetFull" \in EndLabels
    BY DEF EndWrite, EndLabels
  <2> HIDE DEF end
  <2>6. /\ Program(cur.sec, WithEnd(end), TRUE) /\ Then(TRUE, "SetFull") /\ UNCHANGED <<ram, client>>
    BY <1>2 DEF EndWrite, end
  <2> QED BY <2>1, <2>3, <2>4, <2>5, <2>6, EndWritten
<1>3. CASE ~ok
  <2>1. MediumType' /\ failing' /\ flash' = flash
    BY <1>1, <1>3, Programmed DEF EndWrite
  <2>2. RunType' /\ RamType' /\ ClientType'
    BY <1>1, ThenType, SameRam, SameClient DEF EndWrite, Labels
  <2> QED BY <1>1, <2>1, <2>2, Failed, NothingClears
<1> QED BY <1>2, <1>3

----------------------------------------------------------------------------
(* The next sector *)

\* A header of which a part changes.
LEMMA HeaderKeeps ==
  ASSUME NEW sec, SectorOK(sec), NEW image,
         image.ends = sec.ends, image.tsls = sec.tsls,
         image.store \in {"Unused", "Empty"} => sec.store = image.store \/ sec.store = "Unused",
         image.start # sec.start => image.store \in {"Using", "Full"}
  PROVE  SectorOK(image)
<1>1. SectorApart(image)
  BY DEF SectorOK, SectorApart
<1>2. image.store \in {"Unused", "Empty"} => Fresh(image)
  BY DEF SectorOK, Fresh
<1> QED BY <1>1, <1>2 DEF SectorOK

LEMMA HeaderImage ==
  ASSUME NEW sec \in SectorImage, SectorOK(sec), NEW image \in SectorImage,
         image.ends = sec.ends, image.tsls = sec.tsls, sec.ok => image.ok,
         StoreRank[sec.store] <= StoreRank[image.store], TimeOnce(sec.start, image.start),
         image.store \in {"Unused", "Empty"} => sec.store = image.store \/ sec.store = "Unused",
         image.start # sec.start => image.store \in {"Using", "Full"}
  PROVE  SectorOK(image) /\ Forward1(sec, image)
<1>1. Forward1(sec, sec)
  BY SectorSame
<1>2. Forward1(sec, image)
  BY <1>1 DEF Forward1
<1> QED BY <1>2, HeaderKeeps

\* The sector that is taken: it is empty, or it is formatted first.
LEMMA Taken ==
  ASSUME flash \in Image, MediumOK, RunType, NEW s \in Sector, TakeSector(s), oldest \in Sector \cup {NoAddr}
  PROVE  /\ cur' \in SecInfo /\ oldest' \in Sector \cup {NoAddr} /\ RunType'
         /\ \/ /\ pc' = "SetUsing" /\ call' = call /\ cur' = read_header(flash, s)
               /\ cur'.status = "Empty" /\ cur'.ok /\ cur'.sec = s
               /\ flash[s].store = "Empty" /\ Agrees(cur', flash)
            \/ pc' = "FmtErase" /\ call' = [call EXCEPT !.sec = s]
<1>1. cur' = read_header(flash, s) /\ cur' \in SecInfo
  BY HeaderType DEF TakeSector
<1>2. CASE cur'.status = "Empty"
  <2>1. oldest' = oldest /\ pc' = "SetUsing" /\ call' = call /\ result' = result
    BY <1>1, <1>2 DEF TakeSector, Goto
  <2>2. cur'.ok /\ cur'.sec = s /\ flash[s].store = "Empty"
    BY <1>1, <1>2, HeaderEmptyOK
  <2>3. Agrees(cur', flash)
    BY <1>1, <1>2, HeaderAgrees DEF MediumOK
  <2> QED BY <1>1, <1>2, <2>1, <2>2, <2>3 DEF RunType, Labels
<1>3. CASE cur'.status # "Empty"
  <2>1. /\ oldest' = NextSector(s) /\ pc' = "FmtErase" /\ call' = [call EXCEPT !.sec = s]
        /\ result' = result
    BY <1>1, <1>3 DEF TakeSector
  <2>2. call' \in Call
    BY <2>1 DEF RunType, Call
  <2> QED BY <1>1, <2>1, <2>2, NextSectorType DEF RunType, Labels
<1> QED BY <1>2, <1>3

\* What a step that goes on with a format leaves behind.
LEMMA AtFormat ==
  ASSUME call'.op = "Append", call'.len <= MaxLen, pc' = "FmtErase"
  PROVE  MemoryOK'
<1>1. CallAgrees' /\ FormatAgrees'
  BY DEF CallAgrees, FormatAgrees, EndLabels, FirstLabels, RecordLabels, FormatLabels
<1> QED BY <1>1 DEF MemoryOK, EndLabels, FirstLabels, RecordLabels

\* An empty sector has room for any blob.
LEMMA EmptyRoom ==
  ASSUME NEW c \in SecInfo, NEW img, Agrees(c, img), c.status = "Empty", NEW n \in Nat, n <= MaxLen
  PROVE  c.remain >= Cost(n)
BY Geometry DEF Agrees, Cost

LEMMA SetFullStep ==
  ASSUME TsIInv, NEW ok \in BOOLEAN, SetFull(ok)
  PROVE  TsIInv' /\ OnlyClears
<1>1. /\ flash \in Image /\ RamType /\ RunType /\ MediumType /\ ClientType /\ MediumOK
  BY TypeParts DEF TsIInv
<1>2. ClientType' /\ lastTime' \in Int /\ rollover' \in BOOLEAN
  BY <1>1, SameClient DEF SetFull, RamType
<1>3. CASE ok
  <2> DEFINE image == [flash[cur.sec] EXCEPT !.store = "Full"]
  <2>1. MediumType' /\ ~failing /\ ~failing' /\ flash' = [flash EXCEPT ![cur.sec] = image]
    BY <1>1, <1>3, Programmed DEF SetFull
  <2>2. /\ cur.sec \in Sector /\ flash[cur.sec].store = "Using"
        /\ call.op = "Append" /\ call.len <= MaxLen /\ call.len \in Nat
    BY <1>1, <2>1 DEF SetFull, TsIInv, MemoryOK, EndAgrees, EndLabels, CallAgrees, RunType, Call
  <2>3. flash[cur.sec] \in SectorImage /\ SectorOK(flash[cur.sec])
    BY <1>1, <2>2 DEF Image, MediumOK
  <2>4. /\ image \in SectorImage /\ image.store = "Full" /\ image.start = flash[cur.sec].start
        /\ image.ok = flash[cur.sec].ok
        /\ image.ends = flash[cur.sec].ends /\ image.tsls = flash[cur.sec].tsls
    BY <2>3 DEF SectorImage, SectorStoreStatus
  <2>5. SectorOK(image) /\ Forward1(flash[cur.sec], image)
    <3> HIDE DEF image
    <3>1. StoreRank[flash[cur.sec].store] <= StoreRank[image.store]
      BY <2>2, <2>4 DEF StoreRank
    <3> QED BY <2>3, <2>4, <3>1, HeaderImage DEF TimeOnce
  <2> HIDE DEF image
  <2>6. /\ flash' \in Image /\ MediumOK'
        /\ \A q \in Sector : q # cur.sec => flash'[q] = flash[q]
    BY <1>1, <2>1, <2>2, <2>4, <2>5, Written
  <2>7. OnlyClears
    BY <1>1, <2>1, <2>2, <2>5, WrittenClears
  <2>8. CASE TakeSector(NextSector(cur.sec))
    <3> DEFINE q == NextSector(cur.sec)
    <3>1. q \in Sector /\ q # cur.sec
      BY <2>2, NextSectorType
    <3> HIDE DEF q
    <3>2. /\ cur' \in SecInfo /\ oldest' \in Sector \cup {NoAddr} /\ RunType'
          /\ \/ /\ pc' = "SetUsing" /\ call' = call /\ cur' = read_header(flash, q)
                /\ cur'.status = "Empty" /\ cur'.ok /\ cur'.sec = q
                /\ flash[q].store = "Empty" /\ Agrees(cur', flash)
             \/ pc' = "FmtErase" /\ call' = [call EXCEPT !.sec = q]
      BY <1>1, <2>8, <3>1, Taken DEF RamType, q
    <3>3. RamType'
      BY <1>2, <3>2 DEF RamType
    <3>4. CASE pc' = "SetUsing"
      <4>1. cur'.sec = q /\ flash'[q] = flash[q] /\ Agrees(cur', flash)
            /\ cur'.ok /\ cur'.status = "Empty" /\ call' = call
        BY <2>6, <3>1, <3>2, <3>4
      <4>2. Agrees(cur', flash')
        BY <4>1 DEF Agrees
      <4>3. FirstAgrees'
        BY <3>4, <4>1, <4>2 DEF FirstAgrees
      <4>4. pc' \in FirstLabels /\ pc' \notin EndLabels \cup RecordLabels
        BY <3>4 DEF FirstLabels, EndLabels, RecordLabels
      <4>5. MemoryOK'
        BY <2>2, <4>1, <4>3, <4>4, InAppend
      <4> QED BY <1>2, <2>1, <2>6, <2>7, <3>2, <3>3, <4>5, TypePartsNext DEF TsIInv
    <3>5. CASE pc' = "FmtErase"
      <4>1. call' = [call EXCEPT !.sec = q]
        BY <3>2, <3>5
      <4>2. call'.op = "Append" /\ call'.len <= MaxLen
        BY <1>1, <2>2, <4>1 DEF RunType, Call
      <4>3. MemoryOK'
        BY <3>5, <4>2, AtFormat
      <4> QED BY <1>2, <2>1, <2>6, <2>7, <3>2, <3>3, <4>3, TypePartsNext DEF TsIInv
    <3> QED BY <3>2, <3>4, <3>5
  <2>9. CASE ~TakeSector(NextSector(cur.sec))
    <3>1. cur' = [cur EXCEPT !.status = "Full"] /\ Return("SavedFull") /\ oldest' = oldest
      BY <1>3, <2>9 DEF SetFull
    <3>2. RunType' /\ pc' = "Idle" /\ call' = NoCall
      BY <3>1, ReturnType DEF Results
    <3>3. cur' \in SecInfo /\ cur'.sec = cur.sec /\ cur'.status = "Full"
      BY <1>1, <3>1 DEF RamType, SecInfo, SectorStoreStatus
    <3>4. RamType'
      BY <1>1, <1>2, <3>1, <3>3 DEF RamType
    <3>5. Agrees(cur', flash')
      BY <2>2, <3>3 DEF Agrees
    <3>6. MemoryOK'
      BY <3>2, <3>5, AtRest
    <3> QED BY <1>2, <2>1, <2>6, <2>7, <3>2, <3>4, <3>6, TypePartsNext DEF TsIInv
  <2> QED BY <2>8, <2>9
<1>4. CASE ~ok
  <2>1. MediumType' /\ failing' /\ flash' = flash
    BY <1>1, <1>4, Programmed, ZenonT(30) DEF SetFull
  <2>2. Return("WriteErr") /\ UNCHANGED <<cur, oldest>>
    BY <1>4 DEF SetFull
  <2>3. RunType' /\ RamType'
    BY <1>1, <1>2, <2>2, ReturnType DEF RamType, Results
  <2> QED BY <1>1, <1>2, <2>1, <2>3, Failed, NothingClears
<1> QED BY <1>3, <1>4

\* What is known in front of the three writes that follow.
LEMMA AtFirst ==
  ASSUME TsIInv, ~failing, pc \in FirstLabels
  PROVE  /\ cur.sec \in Sector /\ cur \in SecInfo /\ cur.ok
         /\ flash[cur.sec] \in SectorImage /\ SectorOK(flash[cur.sec])
         /\ FirstAgrees /\ Agrees(cur, flash)
         /\ call.op = "Append" /\ call.len <= MaxLen /\ call.len \in Nat
<1>1. FirstAgrees /\ CallAgrees
  BY DEF TsIInv, MemoryOK
<1>2. cur.sec \in Sector /\ Agrees(cur, flash)
  BY <1>1 DEF FirstAgrees, Agrees
<1>3. flash \in Image /\ RamType /\ RunType /\ MediumOK
  BY TypeParts DEF TsIInv
<1> QED BY <1>1, <1>2, <1>3 DEF Image, MediumOK, RamType, RunType, Call, CallAgrees, FirstAgrees

LEMMA SetUsingStep ==
  ASSUME TsIInv, NEW ok \in BOOLEAN, SetUsing(ok)
  PROVE  TsIInv' /\ OnlyClears
<1>1. /\ flash \in Image /\ RamType /\ RunType /\ MediumType /\ ClientType /\ MediumOK
  BY TypeParts DEF TsIInv
<1>2. ClientType' /\ RunType' /\ (ok => pc' = "SetStart" /\ call' = call)
  BY <1>1, SameClient, ThenType DEF SetUsing, Labels
<1>3. RamType' /\ cur' = [cur EXCEPT !.status = "Using", !.start = call.time]
  BY <1>1 DEF SetUsing, RamType, RunType, Call, SecInfo, SectorStoreStatus
<1>4. CASE ok
  <2> DEFINE image == [flash[cur.sec] EXCEPT !.store = "Using"]
  <2>1. MediumType' /\ ~failing /\ ~failing' /\ flash' = [flash EXCEPT ![cur.sec] = image]
    BY <1>1, <1>4, Programmed DEF SetUsing
  <2>2. /\ cur.sec \in Sector /\ cur \in SecInfo /\ cur.ok
        /\ flash[cur.sec] \in SectorImage /\ SectorOK(flash[cur.sec])
        /\ FirstAgrees /\ Agrees(cur, flash)
        /\ call.op = "Append" /\ call.len <= MaxLen /\ call.len \in Nat
    BY <2>1, AtFirst DEF SetUsing, FirstLabels
  <2>3. cur.status = "Empty" /\ flash[cur.sec].store = "Empty"
    BY <2>2 DEF SetUsing, FirstAgrees, Agrees
  <2>4. /\ image \in SectorImage /\ image.store = "Using" /\ image.start = flash[cur.sec].start
        /\ image.ok = flash[cur.sec].ok
        /\ image.ends = flash[cur.sec].ends /\ image.tsls = flash[cur.sec].tsls
    BY <2>2 DEF SectorImage, SectorStoreStatus
  <2> HIDE DEF image
  <2>5. SectorOK(image) /\ Forward1(flash[cur.sec], image)
    <3>1. StoreRank[flash[cur.sec].store] <= StoreRank[image.store]
      BY <2>3, <2>4 DEF StoreRank
    <3> QED BY <2>2, <2>4, <3>1, HeaderImage DEF TimeOnce
  <2>6. flash' \in Image /\ MediumOK' /\ flash'[cur.sec] = image
    BY <1>1, <2>1, <2>2, <2>4, <2>5, Written
  <2>7. OnlyClears
    BY <1>1, <2>1, <2>2, <2>5, WrittenClears
  <2>8. /\ cur'.sec = cur.sec /\ cur'.status = "Using" /\ cur'.ok /\ cur'.idx = cur.idx
        /\ cur'.remain = cur.remain /\ cur'.data = cur.data /\ cur'.stat = cur.stat
    BY <1>3, <2>2 DEF SecInfo
  <2>9. image.tsls = <<>> /\ image.start = ErasedTime
    BY <2>2, <2>3, <2>4 DEF SectorOK, Fresh
  <2>10. RoomAgrees(cur, flash[cur.sec], 0) /\ StatAgrees(cur, flash[cur.sec])
    BY <2>2, <2>3 DEF Agrees
  <2>11. RoomAgrees(cur', image, Len(image.tsls)) /\ StatAgrees(cur', image)
    BY <2>4, <2>8, <2>9, <2>10 DEF RoomAgrees, StatAgrees
  <2>12. Agrees(cur', flash')
    BY <2>2, <2>4, <2>6, <2>8, <2>11 DEF Agrees
  <2>13. RoomEnough'
    <3>1. cur.remain >= Cost(call.len)
      BY <2>2, <2>3, EmptyRoom
    <3> QED BY <1>2, <1>4, <2>8, <3>1 DEF RoomEnough, Cost
  <2>14. FirstAgrees'
    BY <1>2, <1>4, <2>6, <2>8, <2>9, <2>12, <2>13 DEF FirstAgrees
  <2>15. MemoryOK'
    <3>1. pc' \in FirstLabels /\ pc' \notin EndLabels \cup RecordLabels
      BY <1>2, <1>4 DEF EndLabels, FirstLabels, RecordLabels
    <3> QED BY <1>2, <1>4, <2>2, <2>14, <3>1, InAppend
  <2> QED BY <1>2, <1>3, <2>1, <2>6, <2>7, <2>15, TypePartsNext DEF TsIInv
<1>5. CASE ~ok
  <2>1. MediumType' /\ failing' /\ flash' = flash
    BY <1>1, <1>5, Programmed, ZenonT(30) DEF SetUsing
  <2> QED BY <1>1, <1>2, <1>3, <2>1, Failed, NothingClears
<1> QED BY <1>4, <1>5

LEMMA SetStartStep ==
  ASSUME TsIInv, NEW ok \in BOOLEAN, SetStart(ok)
  PROVE  TsIInv' /\ OnlyClears
<1>1. /\ flash \in Image /\ RamType /\ RunType /\ MediumType /\ ClientType /\ MediumOK
  BY TypeParts DEF TsIInv
<1>2. /\ ClientType' /\ RamType' /\ cur' = cur /\ RunType'
      /\ (ok => pc' = "TslPre" /\ call' = call)
  BY <1>1, SameClient, SameRam, ThenType DEF SetStart, Labels, ram
<1>3. CASE ok
  <2> DEFINE image == [flash[cur.sec] EXCEPT !.start = call.time]
  <2>1. MediumType' /\ ~failing /\ ~failing' /\ flash' = [flash EXCEPT ![cur.sec] = image]
    BY <1>1, <1>3, Programmed DEF SetStart
  <2>2. /\ cur.sec \in Sector /\ cur \in SecInfo /\ cur.ok
        /\ flash[cur.sec] \in SectorImage /\ SectorOK(flash[cur.sec])
        /\ FirstAgrees /\ Agrees(cur, flash)
        /\ call.op = "Append" /\ call.len <= MaxLen /\ call.len \in Nat
    BY <2>1, AtFirst DEF SetStart, FirstLabels
  <2>3. /\ cur.status = "Using" /\ flash[cur.sec].store = "Using" /\ RoomEnough
        /\ flash[cur.sec].start = ErasedTime
    BY <2>2 DEF SetStart, FirstAgrees, Agrees
  <2>4. /\ image \in SectorImage /\ image.store = flash[cur.sec].store
        /\ image.ok = flash[cur.sec].ok
        /\ image.ends = flash[cur.sec].ends /\ image.tsls = flash[cur.sec].tsls
    BY <1>1, <2>2 DEF SectorImage, RunType, Call
  <2> HIDE DEF image
  <2>5. SectorOK(image) /\ Forward1(flash[cur.sec], image)
    <3>1. StoreRank[flash[cur.sec].store] <= StoreRank[image.store]
      BY <2>3, <2>4 DEF StoreRank
    <3> QED BY <2>2, <2>3, <2>4, <3>1, HeaderImage DEF TimeOnce
  <2>6. flash' \in Image /\ MediumOK' /\ flash'[cur.sec] = image
    BY <1>1, <2>1, <2>2, <2>4, <2>5, Written
  <2>7. OnlyClears
    BY <1>1, <2>1, <2>2, <2>5, WrittenClears
  <2>8. RoomAgrees(cur, image, Len(image.tsls)) /\ StatAgrees(cur, image)
    BY <2>2, <2>3, <2>4 DEF Agrees, RoomAgrees, StatAgrees
  <2>9. Agrees(cur', flash')
    BY <1>2, <2>2, <2>3, <2>4, <2>6, <2>8 DEF Agrees
  <2>10. RoomEnough'
    BY <1>2, <1>3, <2>3 DEF RoomEnough, Cost
  <2>11. FirstAgrees'
    BY <1>2, <1>3, <2>2, <2>3, <2>9, <2>10 DEF FirstAgrees
  <2>12. MemoryOK'
    <3>1. pc' \in FirstLabels /\ pc' \notin EndLabels \cup RecordLabels
      BY <1>2, <1>3 DEF EndLabels, FirstLabels, RecordLabels
    <3> QED BY <1>2, <1>3, <2>2, <2>11, <3>1, InAppend
  <2> QED BY <1>2, <2>1, <2>6, <2>7, <2>12, TypePartsNext DEF TsIInv
<1>4. CASE ~ok
  <2>1. MediumType' /\ failing' /\ flash' = flash
    BY <1>1, <1>4, Programmed, ZenonT(30) DEF SetStart
  <2> QED BY <1>1, <1>2, <2>1, Failed, NothingClears
<1> QED BY <1>3, <1>4

----------------------------------------------------------------------------
(* A record *)

PutNew(sec, r) == [sec EXCEPT !.tsls = Append(@, r)]

\* The status of a new record; its data will lie in front of all others.
LEMMA NewImage ==
  ASSUME NEW sec \in SectorImage, SectorOK(sec), sec.store = "Using", NEW n, n = Len(sec.tsls),
         NEW r \in IndexRecord, r.status = "PreWrite", r.len = 0,
         IndexEnd(n + 1) <= r.top, r.top <= SecSize,
         \A j \in 1 .. n : r.top <= LogAddr(sec.tsls[j]),
         NEW image, image = PutNew(sec, r)
  PROVE  /\ image \in SectorImage /\ SectorOK(image) /\ Forward1(sec, image)
         /\ image.store = "Using" /\ image.ends = sec.ends /\ n \in Nat
         /\ Len(image.tsls) = n + 1 /\ image.tsls[n+1] = r
         /\ \A j \in 1 .. n : image.tsls[j] = sec.tsls[j]
<1>1. sec.tsls \in Seq(IndexRecord) /\ n \in Nat /\ DOMAIN sec.tsls = 1 .. n
  BY DEF SectorImage
<1>2. /\ image.ok = sec.ok /\ image.store = sec.store /\ image.start = sec.start
      /\ image.ends = sec.ends /\ image.tsls = Append(sec.tsls, r)
  BY DEF SectorImage, PutNew
<1>3. /\ image.tsls \in Seq(IndexRecord) /\ Len(image.tsls) = n + 1
      /\ DOMAIN image.tsls = 1 .. n + 1 /\ image.tsls[n+1] = r
      /\ \A j \in 1 .. n : image.tsls[j] = sec.tsls[j]
  BY <1>1, <1>2, AppendProperties
<1>4. image \in SectorImage
  BY <1>1, <1>2, <1>3 DEF SectorImage, PutNew
<1>5. \A j \in 1 .. n : /\ sec.tsls[j].len <= MaxLen /\ sec.tsls[j].top <= SecSize
                        /\ \A k \in 1 .. j-1 : sec.tsls[j].top <= LogAddr(sec.tsls[k])
                        /\ ~Torn(sec.tsls[j]) => sec.tsls[j].data
                        /\ LogAddr(sec.tsls[j]) \in Int
  <2> TAKE j \in 1 .. n
  <2>1. sec.tsls[j] \in IndexRecord
    BY <1>1
  <2>2. LogAddr(sec.tsls[j]) \in Int
    BY <2>1 DEF LogAddr, IndexRecord
  <2> QED BY <1>1, <2>2 DEF SectorOK, SectorApart
<1>6. r.top \in Int /\ LogAddr(r) = r.top /\ Torn(r) /\ IndexEnd(n + 1) \in Int
  BY <1>1, Geometry DEF IndexRecord, LogAddr, Torn, IndexEnd
<1>7. ASSUME NEW j \in 1 .. n + 1
      PROVE  /\ IndexEnd(n + 1) <= LogAddr(image.tsls[j]) /\ image.tsls[j].top <= SecSize
             /\ \A k \in 1 .. j-1 : image.tsls[j].top <= LogAddr(image.tsls[k])
             /\ ~Torn(image.tsls[j]) => image.tsls[j].data
             /\ image.tsls[j].len <= MaxLen
  <2>1. CASE j = n + 1
    <3>1. image.tsls[j] = r
      BY <1>3, <2>1
    <3>2. \A k \in 1 .. j-1 : k \in 1 .. n
      BY <1>1, <2>1
    <3> QED BY <1>3, <1>6, <3>1, <3>2, Geometry
  <2>2. CASE j # n + 1
    <3>1. j \in 1 .. n
      BY <1>1, <2>2
    <3>2. \A k \in 1 .. j-1 : k \in 1 .. n
      BY <1>1, <3>1
    <3>3. IndexEnd(n + 1) <= LogAddr(sec.tsls[j])
      BY <1>5, <1>6, <3>1
    <3> QED BY <1>3, <1>5, <3>1, <3>2, <3>3
  <2> QED BY <2>1, <2>2
<1>8. SectorOK(image)
  <2>1. SectorApart(image)
    BY <1>3, <1>7 DEF SectorApart
  <2>2. \A j \in DOMAIN image.tsls : image.tsls[j].len <= MaxLen
    BY <1>3, <1>7
  <2> QED BY <1>2, <2>1, <2>2 DEF SectorOK
<1>9. Forward1(sec, image)
  <2>1. Forward1(sec, sec)
    BY SectorSame
  <2>2. \A j \in DOMAIN sec.tsls : RecordForward(sec.tsls[j], image.tsls[j])
    BY <1>1, <1>3, <2>1 DEF Forward1
  <2> QED BY <1>1, <1>2, <1>3, <2>1, <2>2 DEF Forward1
<1> QED BY <1>1, <1>2, <1>3, <1>4, <1>8, <1>9

LEMMA TslPreStep ==
  ASSUME TsIInv, NEW ok \in BOOLEAN, TslPre(ok)
  PROVE  TsIInv' /\ OnlyClears
<1>1. /\ flash \in Image /\ RamType /\ RunType /\ MediumType /\ ClientType /\ MediumOK
  BY TypeParts DEF TsIInv
<1>2. /\ ClientType' /\ RamType' /\ cur' = cur /\ RunType'
      /\ (ok => pc' = "TslIdx" /\ call' = call)
  BY <1>1, SameClient, SameRam, ThenType DEF TslPre, Labels, ram
<1>3. CASE ok
  <2> DEFINE sec == flash[cur.sec]
             n == Len(sec.tsls)
             image == PutNew(sec, Reserved)
  <2>1. MediumType' /\ ~failing /\ ~failing' /\ flash' = [flash EXCEPT ![cur.sec] = image]
    <3>1. Program(cur.sec, image, ok)
      BY DEF TslPre, PutNew
    <3> HIDE DEF image
    <3> QED BY <1>1, <1>3, <3>1, Programmed
  <2>2. /\ cur.sec \in Sector /\ cur \in SecInfo /\ cur.ok
        /\ sec \in SectorImage /\ SectorOK(sec)
        /\ FirstAgrees /\ Agrees(cur, flash)
        /\ call.op = "Append" /\ call.len <= MaxLen /\ call.len \in Nat
    BY <2>1, AtFirst DEF TslPre, FirstLabels
  <2>3. /\ cur.status = "Using" /\ sec.store = "Using" /\ RoomEnough
        /\ RoomAgrees(cur, sec, n) /\ StatAgrees(cur, sec)
    BY <2>2 DEF TslPre, FirstAgrees, Agrees
  <2>4. Reserved \in IndexRecord /\ Reserved.top = cur.data /\ Reserved.len = 0
        /\ Reserved.status = "PreWrite" /\ Reserved.time = ErasedTime /\ Reserved.data = FALSE
    BY <2>2 DEF Reserved, IndexRecord, TslStatus, ErasedTime, SecInfo
  <2>5. n \in Nat /\ cur.data \in Int /\ cur.remain \in Int
    BY <2>2 DEF SecInfo, SectorImage
  <2>6. IndexEnd(n + 1) <= cur.data
    <3> HIDE DEF n
    <3> QED BY <2>2, <2>3, <2>5, Geometry DEF RoomEnough, RoomAgrees, IndexEnd, Cost
  <2>7. cur.data <= SecSize /\ \A j \in 1 .. n : cur.data <= LogAddr(sec.tsls[j])
    BY <2>3 DEF RoomAgrees
  <2>8. sec \in SectorImage /\ SectorOK(sec) /\ sec.store = "Using" /\ n = Len(sec.tsls)
    BY <2>2, <2>3
  <2> HIDE DEF sec, image, n
  <2>9. /\ image \in SectorImage /\ SectorOK(image) /\ Forward1(sec, image)
        /\ image.store = "Using" /\ image.ends = sec.ends
        /\ Len(image.tsls) = n + 1 /\ image.tsls[n+1] = Reserved
        /\ \A j \in 1 .. n : image.tsls[j] = sec.tsls[j]
    <3>1. image = PutNew(sec, Reserved)
      BY DEF image
    <3>2. IndexEnd(n + 1) <= Reserved.top /\ Reserved.top <= SecSize
          /\ \A j \in 1 .. n : Reserved.top <= LogAddr(sec.tsls[j])
      BY <2>4, <2>6, <2>7
    <3>3. Reserved \in IndexRecord /\ Reserved.status = "PreWrite" /\ Reserved.len = 0
      BY <2>4
    <3> HIDE DEF Reserved
    <3> QED BY ONLY <2>8, <3>1, <3>2, <3>3, NewImage
  <2>10. flash' \in Image /\ MediumOK' /\ flash'[cur.sec] = image
    BY <1>1, <2>1, <2>2, <2>9, Written
  <2>11. OnlyClears
    BY <1>1, <2>1, <2>2, <2>9, WrittenClears DEF sec
  <2>12. RoomAgrees(cur, image, n) /\ StatAgrees(cur, image)
    BY <2>3, <2>9 DEF RoomAgrees, StatAgrees
  <2>13. Record' = Reserved
    BY <1>2, <2>9, <2>10 DEF Record, LastRecord
  <2>14. RecordAgrees'
    <3>1. Len(flash'[cur'.sec].tsls) - 1 = n /\ flash'[cur'.sec] = image /\ pc' = "TslIdx"
      BY <1>2, <1>3, <2>5, <2>9, <2>10
    <3>2. RoomEnough'
      BY <1>2, <1>3, <2>3 DEF RoomEnough, Cost
    <3> QED BY <1>2, <2>2, <2>3, <2>4, <2>5, <2>9, <2>12, <2>13, <3>1, <3>2 DEF RecordAgrees
  <2>15. MemoryOK'
    <3>1. pc' \in RecordLabels /\ pc' \notin EndLabels \cup FirstLabels
      BY <1>2, <1>3 DEF EndLabels, FirstLabels, RecordLabels
    <3> QED BY <1>2, <1>3, <2>2, <2>14, <3>1, InAppend
  <2> QED BY <1>2, <2>1, <2>10, <2>11, <2>15, TypePartsNext DEF TsIInv
<1>4. CASE ~ok
  <2>1. MediumType' /\ failing' /\ flash' = flash
    BY <1>1, <1>4, Programmed, ZenonT(30) DEF TslPre
  <2> QED BY <1>1, <1>2, <2>1, Failed, NothingClears
<1> QED BY <1>3, <1>4

\* What is known while a record is written.
LEMMA AtRecord ==
  ASSUME TsIInv, ~failing, pc \in RecordLabels
  PROVE  /\ cur.sec \in Sector /\ cur \in SecInfo
         /\ flash[cur.sec] \in SectorImage /\ SectorOK(flash[cur.sec])
         /\ RecordAgrees /\ Record \in IndexRecord /\ Len(flash[cur.sec].tsls) \in Nat
         /\ call.op = "Append" /\ call.len <= MaxLen /\ call.len \in Nat /\ call.time \in Int
<1>1. RecordAgrees /\ CallAgrees /\ cur.sec \in Sector
  BY DEF TsIInv, MemoryOK, RecordAgrees
<1>2. flash \in Image /\ RamType /\ RunType /\ MediumOK
  BY TypeParts DEF TsIInv
<1>3. flash[cur.sec].tsls # <<>>
  <2>1. Len(flash[cur.sec].tsls) - 1 \in Nat
    BY <1>1 DEF RecordAgrees
  <2> QED BY <2>1
<1>4. Record \in IndexRecord /\ Len(flash[cur.sec].tsls) \in Nat
  BY <1>1, <1>2, <1>3, LastType DEF Record
<1> QED BY <1>1, <1>2, <1>4 DEF Image, MediumOK, RamType, RunType, Call, CallAgrees

\* What the three writes have in common; sec is the image they leave.
LEMMA RecordWritten ==
  ASSUME TsIInv, ~failing, pc \in RecordLabels,
         NEW r \in IndexRecord, r.top = cur.data, r.len <= call.len, ~Torn(r) => r.data,
         RecordForward(Record, r), Program(cur.sec, WithLast(r), TRUE),
         NEW n, n = Len(flash[cur.sec].tsls) - 1, NEW sec, sec = flash'[cur.sec]
  PROVE  /\ flash' \in Image /\ MediumOK' /\ OnlyClears
         /\ sec.store = "Using" /\ n \in Nat /\ Len(sec.tsls) = n + 1 /\ sec.tsls[n+1] = r
         /\ RoomAgrees(cur, sec, n) /\ StatAgrees(cur, sec)
<1> DEFINE old == flash[cur.sec]
           image == WithLast(r)
<1>1. /\ cur.sec \in Sector /\ cur \in SecInfo /\ old \in SectorImage /\ SectorOK(old)
      /\ call.len <= MaxLen /\ call.len \in Nat /\ RecordAgrees /\ flash \in Image /\ MediumOK
  BY AtRecord, TypeParts DEF TsIInv
<1>2. /\ n \in Nat /\ n = Len(old.tsls) - 1 /\ Len(old.tsls) = n + 1 /\ old.store = "Using"
      /\ RoomAgrees(cur, old, n) /\ RoomEnough /\ StatAgrees(cur, old)
      /\ Record = old.tsls[n+1] /\ Record.top = cur.data
  <2>1. Len(old.tsls) \in Nat
    BY <1>1 DEF SectorImage
  <2>2. n \in Nat /\ Len(old.tsls) = n + 1
    BY <1>1, <2>1 DEF RecordAgrees
  <2>3. Record = old.tsls[n+1]
    BY <2>2 DEF Record, LastRecord
  <2> QED BY <1>1, <2>2, <2>3 DEF RecordAgrees
<1>3. image = PutRecord(old, n+1, r)
  BY <1>2 DEF WithLast, PutRecord
<1> HIDE DEF old, image
<1>4. IndexEnd(n + 1) <= LogAddr(r) /\ r.len <= MaxLen
  <2>1. cur.data \in Int /\ cur.remain \in Int /\ r.len \in Nat /\ r.top \in Int
    BY <1>1 DEF SecInfo, IndexRecord
  <2>2. cur.remain >= 16 + call.len
    BY <1>2, Geometry DEF RoomEnough, Cost
  <2>3. cur.remain > 0 => 32 + 16 * n + cur.remain <= cur.data
    BY <1>2, Geometry DEF RoomAgrees, IndexEnd
  <2>4. IndexEnd(n + 1) = 32 + 16 * (n + 1) /\ LogAddr(r) = cur.data - r.len
    BY <1>2, Geometry DEF IndexEnd, LogAddr
  <2>5. 32 + 16 * (n + 1) <= cur.data - call.len
    <3>1. call.len \in Nat /\ n \in Nat
      BY <1>1, <1>2
    <3> QED BY ONLY <2>1, <2>2, <2>3, <3>1
  <2>6. r.len <= call.len
    OBVIOUS
  <2>7. IndexEnd(n + 1) <= LogAddr(r)
    BY <1>1, <1>2, <2>1, <2>4, <2>5, <2>6
  <2>8. r.len <= MaxLen
    BY <1>1, <2>1, <2>6, Geometry
  <2> QED BY <2>7, <2>8
<1>5. /\ image \in SectorImage /\ SectorOK(image) /\ Forward1(old, image)
      /\ image.store = "Using" /\ image.ends = old.ends
      /\ Len(image.tsls) = n + 1 /\ image.tsls[n+1] = r
      /\ \A j \in 1 .. n : image.tsls[j] = old.tsls[j]
  <2>1. r.top = old.tsls[n+1].top /\ RecordForward(old.tsls[n+1], r)
    BY <1>2
  <2>2. old \in SectorImage /\ SectorOK(old) /\ old.store = "Using" /\ n \in Nat /\ n = Len(old.tsls) - 1
    BY <1>1, <1>2
  <2> QED BY ONLY <1>3, <1>4, <2>1, <2>2, LastImage, r \in IndexRecord, ~Torn(r) => r.data, SMTT(30)
<1>6. flash' = [flash EXCEPT ![cur.sec] = image]
  BY TypeParts, Programmed DEF TsIInv, image
<1>7. flash' \in Image /\ MediumOK' /\ sec = image
  BY <1>1, <1>5, <1>6, Written
<1>8. OnlyClears
  BY <1>1, <1>5, <1>6, WrittenClears DEF old
<1>9. RoomAgrees(cur, sec, n) /\ StatAgrees(cur, sec)
  BY <1>2, <1>5, <1>7 DEF RoomAgrees, StatAgrees
<1> QED BY <1>2, <1>5, <1>7, <1>8, <1>9

\* The step from one of the writes to the next one.
LEMMA RecordGoes ==
  ASSUME TsIInv, ~failing, pc \in RecordLabels, NEW label \in {"TslData", "TslWrite"},
         NEW r \in IndexRecord, r.top = cur.data, r.len = call.len, r.status = "PreWrite",
         (r.data <=> label = "TslWrite"), RecordForward(Record, r),
         Program(cur.sec, WithLast(r), TRUE), Then(TRUE, label), UNCHANGED <<ram, client>>
  PROVE  TsIInv' /\ OnlyClears
<1> DEFINE n == Len(flash[cur.sec].tsls) - 1
           sec == flash'[cur.sec]
<1>1. RamType /\ RunType /\ MediumType /\ ClientType
  BY TypeParts DEF TsIInv
<1>2. MediumType' /\ ~failing' /\ flash' = [flash EXCEPT ![cur.sec] = WithLast(r)]
  BY <1>1, Programmed, ZenonT(30)
<1>3. RunType' /\ pc' = label /\ call' = call
  BY <1>1, ThenType DEF Labels
<1>4. RamType' /\ ClientType' /\ cur' = cur
  BY <1>1, SameRam, SameClient DEF ram
<1>5. RecordAgrees /\ call.op = "Append" /\ call.len <= MaxLen /\ call.len \in Nat /\ cur.sec \in Sector
  BY AtRecord
<1>6. n = Len(flash[cur.sec].tsls) - 1 /\ sec = flash'[cur.sec]
  OBVIOUS
<1>7. (~Torn(r) => r.data) /\ r.len <= call.len
  BY <1>5 DEF Torn
<1> HIDE DEF n, sec
<1>8. /\ flash' \in Image /\ MediumOK' /\ OnlyClears
      /\ sec.store = "Using" /\ n \in Nat /\ Len(sec.tsls) = n + 1 /\ sec.tsls[n+1] = r
      /\ RoomAgrees(cur, sec, n) /\ StatAgrees(cur, sec)
  BY <1>6, <1>7, RecordWritten
<1>9. Record' = r
  BY <1>4, <1>6, <1>8 DEF Record, LastRecord
<1>10. RecordAgrees'
  <2>1. Len(flash'[cur'.sec].tsls) - 1 = n /\ flash'[cur'.sec] = sec
    BY <1>4, <1>6, <1>8
  <2>2. RoomEnough' /\ cur.ok /\ cur.status = "Using"
    BY <1>3, <1>4, <1>5 DEF RecordAgrees, RoomEnough, Cost
  <2> QED BY <1>3, <1>4, <1>5, <1>8, <1>9, <2>1, <2>2 DEF RecordAgrees
<1>11. MemoryOK'
  <2>1. pc' \in RecordLabels /\ pc' \notin EndLabels \cup FirstLabels
    BY <1>3 DEF EndLabels, FirstLabels, RecordLabels
  <2> QED BY <1>3, <1>5, <1>10, <2>1, InAppend
<1> QED BY <1>2, <1>3, <1>4, <1>8, <1>11, TypePartsNext DEF TsIInv

LEMMA TslIdxStep ==
  ASSUME TsIInv, NEW ok \in BOOLEAN, TslIdx(ok)
  PROVE  TsIInv' /\ OnlyClears
<1>1. flash \in Image /\ RamType /\ RunType /\ MediumType /\ ClientType
  BY TypeParts DEF TsIInv
<1>2. CASE ok
  <2> DEFINE r == [Record EXCEPT !.time = call.time, !.len = call.len]
  <2>1. ~failing /\ pc \in RecordLabels
    BY <1>1, <1>2, Programmed DEF TslIdx, RecordLabels
  <2>2. /\ RecordAgrees /\ Record \in IndexRecord
        /\ call.len \in Nat /\ call.time \in Int
    BY <2>1, AtRecord
  <2>3. Record.status = "PreWrite" /\ Record.top = cur.data /\ Record.time = ErasedTime /\ ~Record.data
    BY <2>2 DEF TslIdx, RecordAgrees
  <2>4. /\ r \in IndexRecord /\ r.top = cur.data /\ r.len = call.len /\ r.status = "PreWrite"
        /\ r.data = Record.data
    BY <2>2, <2>3 DEF IndexRecord
  <2>5. r.data <=> "TslData" = "TslWrite"
    BY <2>2, <2>3, <2>4 DEF IndexRecord
  <2>6. RecordForward(Record, r)
    BY <2>2, <2>3, <2>4 DEF RecordForward, TimeOnce, StatusRank
  <2> HIDE DEF r
  <2>7. /\ Program(cur.sec, WithLast(r), TRUE) /\ Then(TRUE, "TslData") /\ UNCHANGED <<ram, client>>
    BY <1>2 DEF TslIdx, r
  <2> QED BY <2>1, <2>4, <2>5, <2>6, <2>7, RecordGoes
<1>3. CASE ~ok
  <2>1. MediumType' /\ failing' /\ flash' = flash
    BY <1>1, <1>3, Programmed DEF TslIdx
  <2>2. RunType' /\ RamType' /\ ClientType'
    BY <1>1, ThenType, SameRam, SameClient DEF TslIdx, Labels
  <2> QED BY <1>1, <2>1, <2>2, Failed, NothingClears
<1> QED BY <1>2, <1>3

LEMMA TslDataStep ==
  ASSUME TsIInv, NEW ok \in BOOLEAN, TslData(ok)
  PROVE  TsIInv' /\ OnlyClears
<1>1. flash \in Image /\ RamType /\ RunType /\ MediumType /\ ClientType
  BY TypeParts DEF TsIInv
<1>2. CASE ok
  <2> DEFINE r == [Record EXCEPT !.data = TRUE]
  <2>1. ~failing /\ pc \in RecordLabels
    BY <1>1, <1>2, Programmed DEF TslData, RecordLabels
  <2>2. RecordAgrees /\ Record \in IndexRecord
    BY <2>1, AtRecord
  <2>3. Record.status = "PreWrite" /\ Record.top = cur.data /\ Record.len = call.len /\ ~Record.data
    BY <2>2 DEF TslData, RecordAgrees
  <2>4. /\ r \in IndexRecord /\ r.top = cur.data /\ r.len = call.len /\ r.status = "PreWrite"
        /\ r.data = TRUE /\ r.time = Record.time
    BY <2>2, <2>3 DEF IndexRecord
  <2>5. r.data <=> "TslWrite" = "TslWrite"
    BY <2>4
  <2>6. RecordForward(Record, r)
    BY <2>2, <2>3, <2>4 DEF RecordForward, TimeOnce, StatusRank
  <2> HIDE DEF r
  <2>7. /\ Program(cur.sec, WithLast(r), TRUE) /\ Then(TRUE, "TslWrite") /\ UNCHANGED <<ram, client>>
    BY <1>2 DEF TslData, r
  <2> QED BY <2>1, <2>4, <2>5, <2>6, <2>7, RecordGoes
<1>3. CASE ~ok
  <2>1. MediumType' /\ failing' /\ flash' = flash
    BY <1>1, <1>3, Programmed DEF TslData
  <2>2. RunType' /\ RamType' /\ ClientType'
    BY <1>1, ThenType, SameRam, SameClient DEF TslData, Labels
  <2> QED BY <1>1, <2>1, <2>2, Failed, NothingClears
<1> QED BY <1>2, <1>3

\* What the append keeps of the sector once the record is there.
LEMMA RecordCounted ==
  ASSUME cur \in SecInfo, call.len \in Nat, call.time \in Int, NEW c, c = WithRecord(cur)
  PROVE  /\ c \in SecInfo /\ c.sec = cur.sec /\ c.status = cur.status /\ c.ok = cur.ok
         /\ c.stat = cur.stat /\ c.idx = cur.idx + 1 /\ c.data = cur.data - call.len
         /\ c.remain = cur.remain - (16 + call.len)
<1>1. /\ cur.idx \in Nat /\ cur.data \in Int /\ cur.remain \in Int /\ Cost(call.len) = 16 + call.len
  BY Geometry DEF SecInfo, Cost
<1>2. cur.idx + 1 \in Nat /\ cur.data - call.len \in Int /\ cur.remain - (16 + call.len) \in Int
  BY <1>1
<1> QED BY <1>1, <1>2 DEF SecInfo, WithRecord

LEMMA TslWriteStep ==
  ASSUME TsIInv, NEW ok \in BOOLEAN, TslWrite(ok)
  PROVE  TsIInv' /\ OnlyClears
<1>1. flash \in Image /\ RamType /\ RunType /\ MediumType /\ ClientType
  BY TypeParts DEF TsIInv
<1>2. ClientType' /\ oldest' = oldest /\ rollover' = rollover
  BY <1>1, SameClient DEF TslWrite
<1>3. CASE ok
  <2> DEFINE r == [Record EXCEPT !.status = "Write"]
             n == Len(flash[cur.sec].tsls) - 1
             sec == flash'[cur.sec]
  <2>1. MediumType' /\ ~failing /\ ~failing' /\ pc \in RecordLabels
    BY <1>1, <1>3, Programmed DEF TslWrite, RecordLabels
  <2>2. /\ RecordAgrees /\ Record \in IndexRecord /\ cur \in SecInfo /\ cur.sec \in Sector
        /\ call.len \in Nat /\ call.time \in Int
    BY <2>1, AtRecord
  <2>3. /\ Record.status = "PreWrite" /\ Record.top = cur.data /\ Record.len = call.len /\ Record.data
        /\ cur.status = "Using" /\ RoomEnough /\ cur.ok
    BY <2>2 DEF TslWrite, RecordAgrees
  <2>4. /\ r \in IndexRecord /\ r.top = cur.data /\ r.len = call.len
        /\ r.data /\ r.time = Record.time
    BY <2>2, <2>3 DEF IndexRecord, TslStatus
  <2>5. RecordForward(Record, r)
    BY <2>2, <2>3, <2>4 DEF RecordForward, TimeOnce, StatusRank, IndexRecord
  <2>6. /\ cur' = WithRecord(cur) /\ lastTime' = call.time /\ Return("Ok")
    BY <1>3 DEF TslWrite
  <2> HIDE DEF r
  <2>7. Program(cur.sec, WithLast(r), TRUE)
    BY <1>3 DEF TslWrite, r
  <2>8. n = Len(flash[cur.sec].tsls) - 1 /\ sec = flash'[cur.sec]
    OBVIOUS
  <2> HIDE DEF n, sec
  <2>9. (~Torn(r) => r.data) /\ r.len <= call.len
    BY <2>2, <2>4
  <2>10. /\ flash' \in Image /\ MediumOK' /\ OnlyClears
         /\ sec.store = "Using" /\ n \in Nat /\ Len(sec.tsls) = n + 1 /\ sec.tsls[n+1] = r
         /\ RoomAgrees(cur, sec, n) /\ StatAgrees(cur, sec)
    BY <2>1, <2>4, <2>5, <2>7, <2>8, <2>9, RecordWritten
  <2>11. RunType' /\ pc' = "Idle" /\ call' = NoCall
    BY <2>6, ReturnType DEF Results
  <2>12. /\ cur' \in SecInfo /\ cur'.sec = cur.sec /\ cur'.status = "Using" /\ cur'.ok
         /\ cur'.stat = cur.stat /\ cur'.idx = cur.idx + 1 /\ cur'.data = cur.data - call.len
         /\ cur'.remain = cur.remain - (16 + call.len)
    BY <2>2, <2>3, <2>6, RecordCounted
  <2>13. RamType'
    BY <1>1, <1>2, <2>2, <2>6, <2>12 DEF RamType
  <2>14. RoomAgrees(cur', sec, n + 1)
    <3>1. /\ cur.idx = n /\ cur.data <= SecSize /\ cur.remain >= 16 + call.len
          /\ cur.remain > 0 => 32 + 16 * n + cur.remain <= cur.data
          /\ \A j \in 1 .. n : cur.data <= LogAddr(sec.tsls[j])
      BY <2>3, <2>10, Geometry DEF RoomAgrees, IndexEnd, RoomEnough, Cost
    <3>2. cur.data \in Int /\ cur.remain \in Int /\ call.len \in Nat /\ n \in Nat
      BY <2>2, <2>10 DEF SecInfo
    <3>3. /\ cur'.idx = n + 1 /\ cur'.remain >= 0 /\ cur'.data <= SecSize
          /\ cur'.remain > 0 => 32 + 16 * (n + 1) + cur'.remain <= cur'.data
      BY ONLY <2>12, <3>1, <3>2, Geometry
    <3>4. IndexEnd(n + 1) = 32 + 16 * (n + 1)
      BY Geometry DEF IndexEnd
    <3>5. ASSUME NEW j \in 1 .. n + 1 PROVE cur'.data <= LogAddr(sec.tsls[j])
      <4>1. CASE j = n + 1
        <5>1. LogAddr(sec.tsls[j]) = cur.data - call.len
          BY <2>4, <2>10, <4>1 DEF LogAddr
        <5> QED BY <2>12, <3>2, <5>1
      <4>2. CASE j # n + 1
        <5>1. j \in 1 .. n
          BY <3>2, <4>2
        <5>2. sec.tsls[j] \in IndexRecord
          <6>1. sec \in SectorImage
            BY <2>2, <2>8, <2>10 DEF Image
          <6>2. sec.tsls \in Seq(IndexRecord)
            BY <6>1 DEF SectorImage
          <6> QED BY <2>10, <6>2
        <5>3. LogAddr(sec.tsls[j]) \in Int
          BY <5>2 DEF LogAddr, IndexRecord
        <5> QED BY <2>12, <3>1, <3>2, <5>1, <5>3
      <4> QED BY <4>1, <4>2
    <3> QED BY <3>3, <3>4, <3>5 DEF RoomAgrees
  <2>15. StatAgrees(cur', sec)
    BY <2>10, <2>12 DEF StatAgrees
  <2>16. Agrees(cur', flash')
    BY <2>2, <2>8, <2>10, <2>12, <2>14, <2>15 DEF Agrees
  <2>17. MemoryOK'
    BY <2>11, <2>16, AtRest
  <2> QED BY <1>2, <2>1, <2>10, <2>11, <2>13, <2>17, TypePartsNext DEF TsIInv
<1>4. CASE ~ok
  <2>1. MediumType' /\ failing' /\ flash' = flash
    BY <1>1, <1>4, Programmed DEF TslWrite
  <2>2. Return("WriteErr") /\ cur' = cur /\ lastTime' = lastTime
    BY <1>4 DEF TslWrite
  <2>3. RunType' /\ RamType'
    BY <1>1, <1>2, <2>2, ReturnType DEF RamType, Results
  <2> QED BY <1>1, <1>2, <2>1, <2>3, Failed, NothingClears
<1> QED BY <1>3, <1>4

----------------------------------------------------------------------------
(* The beginning of an append *)

\* A step that leaves the medium alone.
LEMMA Unwritten ==
  ASSUME TsIInv, flash' = flash, MediumType', RamType', RunType', ClientType', ~failing' => MemoryOK'
  PROVE  TsIInv' /\ OnlyClears
<1>1. flash \in Image
  BY TypeParts DEF TsIInv
<1>2. MediumOK'
  BY DEF TsIInv, MediumOK
<1> QED BY <1>1, <1>2, NothingClears, TypePartsNext DEF TsIInv

LEMMA QuietType ==
  ASSUME TsIInv, Quiet
  PROVE  flash' = flash /\ MediumType' /\ failing' = failing
BY TypeParts DEF TsIInv, Quiet, medium, MediumType

\* What is known between two calls.
LEMMA AtIdle ==
  ASSUME TsIInv, ~failing, pc = "Idle", cur.ok
  PROVE  /\ Agrees(cur, flash) /\ cur.sec \in Sector /\ SectorOK(flash[cur.sec])
BY DEF TsIInv, MemoryOK, Agrees, MediumOK

LEMMA BeginType ==
  ASSUME NEW len \in Nat, NEW t \in Int, NEW label \in Labels, NEW slot \in 1 .. 2,
         Begin(len, t, label, slot)
  PROVE  /\ RunType' /\ pc' = label /\ call'.op = "Append" /\ call'.len = len /\ call'.slot = slot
<1>1. NoCall \in Call
  BY Geometry DEF NoCall, Call
<1> QED BY <1>1 DEF Begin, RunType, Call, Results

\* A call that is answered at once.
LEMMA Answered ==
  ASSUME TsIInv, pc = "Idle", Quiet, UNCHANGED ram, NEW r \in Results, Return(r), ClientType'
  PROVE  TsIInv' /\ OnlyClears
<1>1. flash' = flash /\ MediumType' /\ failing' = failing
  BY QuietType
<1>2. RunType' /\ pc' = "Idle" /\ call' = NoCall
  BY ReturnType
<1>3. RamType' /\ cur' = cur
  BY TypeParts, SameRam DEF TsIInv, ram
<1>4. ASSUME ~failing PROVE MemoryOK'
  <2>1. cur'.ok => Agrees(cur', flash')
    BY <1>1, <1>3, <1>4, AtIdle DEF Agrees
  <2> QED BY <1>2, <2>1, AtRest
<1> QED BY <1>1, <1>2, <1>3, <1>4, Unwritten

LEMMA SlotFree ==
  ASSUME EndSlots # {}
  PROVE  Least(EndSlots) \in 1 .. 2 /\ cur.stat[Least(EndSlots)] = "Unused"
<1>1. EndSlots \subseteq Nat
  BY DEF EndSlots
<1>2. Least(EndSlots) \in EndSlots
  BY <1>1, LeastExists
<1> QED BY <1>2 DEF EndSlots

\* An append that has to do with the end of the sector first.
LEMMA BeginEnd ==
  ASSUME TsIInv, pc = "Idle", Quiet, UNCHANGED ram, ClientType', cur.ok, cur.status = "Using",
         NEW len \in Nat, len <= MaxLen, NEW t \in Int, NEW label \in {"EndPre", "SetFull"},
         NEW slot \in 1 .. 2, Begin(len, t, label, slot), label = "EndPre" => cur.stat[slot] = "Unused"
  PROVE  TsIInv' /\ OnlyClears
<1>1. flash' = flash /\ MediumType' /\ failing' = failing
  BY QuietType
<1>2. RunType' /\ pc' = label /\ call'.op = "Append" /\ call'.len = len /\ call'.slot = slot
  BY BeginType DEF Labels
<1>3. RamType' /\ cur' = cur
  BY TypeParts, SameRam DEF TsIInv, ram
<1>4. ASSUME ~failing PROVE MemoryOK'
  <2>1. Agrees(cur, flash) /\ cur.sec \in Sector /\ SectorOK(flash[cur.sec])
    BY <1>4, AtIdle
  <2>2. flash[cur.sec].store = "Using" /\ StatAgrees(cur, flash[cur.sec])
    BY <2>1 DEF Agrees
  <2>3. label = "EndPre" => flash[cur.sec].ends[slot] = NoEnd
    BY <2>1, <2>2 DEF StatAgrees, SectorOK
  <2>4. EndAgrees'
    BY <1>1, <1>2, <1>3, <2>1, <2>2, <2>3 DEF EndAgrees, End
  <2>5. pc' \in EndLabels /\ pc' \notin FirstLabels \cup RecordLabels
    BY <1>2 DEF EndLabels, FirstLabels, RecordLabels
  <2> QED BY <1>2, <2>4, <2>5, InAppend
<1> QED BY <1>1, <1>2, <1>3, <1>4, Unwritten

\* One that begins with the sector or with the record.
LEMMA BeginFirst ==
  ASSUME TsIInv, pc = "Idle", Quiet, UNCHANGED ram, ClientType', cur.ok,
         NEW len \in Nat, len <= MaxLen, NEW t \in Int, NEW label \in {"SetUsing", "TslPre"},
         Begin(len, t, label, 1), label = "SetUsing" => cur.status = "Empty",
         label = "TslPre" => cur.status = "Using" /\ cur.remain >= Cost(len)
  PROVE  TsIInv' /\ OnlyClears
<1>1. flash' = flash /\ MediumType' /\ failing' = failing
  BY QuietType
<1>2. RunType' /\ pc' = label /\ call'.op = "Append" /\ call'.len = len
  BY BeginType DEF Labels
<1>3. RamType' /\ cur' = cur
  BY TypeParts, SameRam DEF TsIInv, ram
<1>4. ASSUME ~failing PROVE MemoryOK'
  <2>1. Agrees(cur, flash)
    BY <1>4, AtIdle
  <2>2. Agrees(cur', flash')
    BY <1>1, <1>3, <2>1 DEF Agrees
  <2>3. label = "TslPre" => RoomEnough'
    BY <1>2, <1>3 DEF RoomEnough
  <2>4. FirstAgrees'
    BY <1>2, <1>3, <2>2, <2>3 DEF FirstAgrees
  <2>5. pc' \in FirstLabels /\ pc' \notin EndLabels \cup RecordLabels
    BY <1>2 DEF EndLabels, FirstLabels, RecordLabels
  <2> QED BY <1>2, <2>4, <2>5, InAppend
<1> QED BY <1>1, <1>2, <1>3, <1>4, Unwritten

LEMMA TslAppendStep ==
  ASSUME TsIInv, NEW len \in Lens, NEW t \in Int, TslAppend(len, t), ClientType'
  PROVE  TsIInv' /\ OnlyClears
<1>1. pc = "Idle" /\ Quiet /\ UNCHANGED ram /\ len \in Nat
  BY LensAssumption DEF TslAppend
<1>2. CASE Refused(len, t)
  <2>1. Return("WriteErr")
    BY <1>2 DEF TslAppend
  <2> QED BY <1>1, <2>1, Answered DEF Results
<1>3. CASE ~Refused(len, t)
  <2>1. len <= MaxLen /\ cur.ok
    BY <1>1, <1>3, Geometry DEF Refused, TslAppend
  <2>2. CASE cur.status = "Using" /\ NoRoom(len)
    <3>1. CASE EndSlots # {}
      <4>1. Begin(len, t, "EndPre", Least(EndSlots))
        BY <1>3, <2>2, <3>1 DEF TslAppend
      <4> QED BY <1>1, <2>1, <2>2, <3>1, <4>1, SlotFree, BeginEnd
    <3>2. CASE EndSlots = {}
      <4>1. Begin(len, t, "SetFull", 1)
        BY <1>3, <2>2, <3>2 DEF TslAppend
      <4>2. 1 \in 1 .. 2
        OBVIOUS
      <4> QED BY <1>1, <2>1, <2>2, <4>1, <4>2, BeginEnd
    <3> QED BY <3>1, <3>2
  <2>3. CASE cur.status = "Using" /\ ~NoRoom(len)
    <3>1. Begin(len, t, "TslPre", 1)
      BY <1>3, <2>3 DEF TslAppend
    <3>2. cur.remain >= Cost(len)
      <4>1. cur.remain \in Int
        BY TypeParts DEF TsIInv, RamType, SecInfo
      <4>2. Cost(len) \in Int
        BY <1>1, Geometry DEF Cost
      <4> QED BY <2>3, <4>1, <4>2 DEF NoRoom
    <3> QED BY <1>1, <2>1, <2>3, <3>1, <3>2, BeginFirst
  <2>4. CASE cur.status = "Full"
    <3>1. Return("SavedFull")
      BY <1>3, <2>4 DEF TslAppend
    <3> QED BY <1>1, <3>1, Answered DEF Results
  <2>5. CASE cur.status = "Empty"
    <3>1. Begin(len, t, "SetUsing", 1)
      BY <1>3, <2>5 DEF TslAppend
    <3> QED BY <1>1, <2>1, <2>5, <3>1, BeginFirst
  <2> QED BY <1>3, <2>2, <2>3, <2>4, <2>5 DEF TslAppend
<1> QED BY <1>2, <1>3

\* The write to address 0 takes the magic word of sector 0 and nothing else.
LEMMA AppendNowhereStep ==
  ASSUME TsIInv, NEW len \in Lens, NEW t \in Int, NEW ok \in BOOLEAN, AppendNowhere(len, t, ok), ClientType'
  PROVE  TsIInv' /\ OnlyClears
<1>1. /\ flash \in Image /\ RamType /\ RunType /\ MediumType /\ MediumOK
  BY TypeParts DEF TsIInv
<1>2. RunType' /\ RamType' /\ pc' = "Idle" /\ call' = NoCall /\ ~cur'.ok
  BY <1>1, SameRam, ReturnType DEF AppendNowhere, Results, ram
<1>3. CASE ok
  <2> DEFINE image == [flash[0] EXCEPT !.ok = FALSE]
  <2>1. MediumType' /\ ~failing' /\ flash' = [flash EXCEPT ![0] = image]
    BY <1>1, <1>3, Programmed DEF AppendNowhere
  <2>2. 0 \in Sector /\ flash[0] \in SectorImage /\ SectorOK(flash[0])
    BY <1>1, Geometry DEF Image, MediumOK
  <2>3. /\ image \in SectorImage /\ image.store = flash[0].store /\ image.start = flash[0].start
        /\ image.ends = flash[0].ends /\ image.tsls = flash[0].tsls
    BY <2>2 DEF SectorImage
  <2>4. pc = "Idle" /\ HidesHeader(0, flash[0], image)
    BY DEF AppendNowhere, HidesHeader
  <2> HIDE DEF image
  <2>5. flash' \in Image /\ MediumOK'
    <3>1. SectorOK(image)
      BY <2>2, <2>3, HeaderKeeps
    <3> QED BY <1>1, <2>1, <2>2, <2>3, <3>1, Written
  <2>6. OnlyClears
    BY <1>1, <2>1, <2>2, <2>4, WrittenClears
  <2>7. MemoryOK'
    BY <1>2, AtRest
  <2> QED BY <1>2, <2>1, <2>5, <2>6, <2>7, TypePartsNext DEF TsIInv
<1>4. CASE ~ok
  <2>1. MediumType' /\ failing' /\ flash' = flash
    <3>1. PICK image : Program(0, image, ok)
      BY DEF AppendNowhere
    <3> QED BY <1>1, <1>4, <3>1, Programmed
  <2> QED BY <1>1, <1>2, <2>1, Failed, NothingClears
<1> QED BY <1>3, <1>4

\* The end of the program.
LEMMA ResetStep ==
  ASSUME TsIInv, Reset, result' \in Results, flash' = flash, MediumType', ClientType'
  PROVE  TsIInv' /\ OnlyClears
<1>1. RamType'
  BY BlankType DEF Reset, RamType
<1>2. NoCall \in Call
  BY Geometry DEF NoCall, Call
<1>3. RunType'
  BY <1>2 DEF Reset, RunType, Labels
<1>4. MemoryOK'
  BY AtRest DEF Reset
<1> QED BY <1>1, <1>3, <1>4, Unwritten

LEMMA AppendStep ==
  ASSUME TsIInv, NEW len \in Lens, NEW t \in 0 .. MaxTime, AppendAt(len, t)
  PROVE  TsIInv' /\ OnlyClears
<1>1. ClientType /\ MediumType
  BY TypeParts DEF TsIInv
<1>2. clock' \in 0 .. MaxTime
  BY <1>1 DEF AppendAt, ClientType
<1>3. t \in Int
  OBVIOUS
<1>4. CASE TslAppend(len, t)
  <2>1. ClientType'
    BY <1>1, <1>2, <1>4 DEF TslAppend, ClientType
  <2> QED BY <1>3, <1>4, <2>1, TslAppendStep
<1>5. CASE AppendPanics(len, t)
  <2>1. ClientType'
    BY <1>1, <1>2, <1>5 DEF AppendPanics, ClientType
  <2>2. Reset /\ result' \in Results /\ flash' = flash /\ MediumType'
    BY <1>1, <1>5 DEF AppendPanics, Results, MediumType
  <2> QED BY <2>1, <2>2, ResetStep
<1>6. ASSUME NEW ok \in BOOLEAN, AppendNowhere(len, t, ok)
      PROVE  TsIInv' /\ OnlyClears
  <2>1. ClientType'
    BY <1>1, <1>2, <1>6 DEF AppendNowhere, ClientType
  <2> QED BY <1>3, <1>6, <2>1, AppendNowhereStep
<1> QED BY <1>4, <1>5, <1>6 DEF AppendAt

----------------------------------------------------------------------------
(* set_status and set_rollover *)

\* Another status for a committed record.
LEMMA MarkImage ==
  ASSUME NEW sec \in SectorImage, SectorOK(sec), NEW j \in DOMAIN sec.tsls, ~Torn(sec.tsls[j]),
         NEW st \in TslStatus \ {"Unused", "PreWrite"},
         NEW r, r = [sec.tsls[j] EXCEPT !.status = st],
         NEW image, image = PutRecord(sec, j, r)
  PROVE  /\ image \in SectorImage /\ SectorOK(image)
         /\ image.store = sec.store /\ image.ends = sec.ends /\ Len(image.tsls) = Len(sec.tsls)
         /\ \A k \in 1 .. Len(sec.tsls) : LogAddr(image.tsls[k]) = LogAddr(sec.tsls[k])
<1> DEFINE n == Len(sec.tsls)
<1>1. sec.tsls \in Seq(IndexRecord) /\ n \in Nat /\ DOMAIN sec.tsls = 1 .. n
  BY DEF SectorImage
<1>2. /\ image.ok = sec.ok /\ image.store = sec.store /\ image.start = sec.start
      /\ image.ends = sec.ends /\ image.tsls = [sec.tsls EXCEPT ![j] = r]
  BY DEF SectorImage, PutRecord
<1>3. sec.tsls[j] \in IndexRecord
  BY <1>1
<1>4. r \in IndexRecord /\ r.top = sec.tsls[j].top /\ r.len = sec.tsls[j].len
      /\ r.data = sec.tsls[j].data /\ r.time = sec.tsls[j].time /\ r.status = st
  BY <1>3 DEF IndexRecord
<1>5. /\ image.tsls \in Seq(IndexRecord) /\ Len(image.tsls) = n /\ DOMAIN image.tsls = 1 .. n
      /\ \A k \in 1 .. n : image.tsls[k] = IF k = j THEN r ELSE sec.tsls[k]
  BY <1>1, <1>2, <1>4, ExceptSeq, SMTT(30)
<1> HIDE DEF n
<1>6. image \in SectorImage
  BY <1>1, <1>2, <1>5 DEF SectorImage, PutRecord
<1>7. \A k \in 1 .. n : /\ image.tsls[k].top = sec.tsls[k].top /\ image.tsls[k].len = sec.tsls[k].len
                        /\ image.tsls[k].data = sec.tsls[k].data
                        /\ LogAddr(image.tsls[k]) = LogAddr(sec.tsls[k])
                        /\ Torn(image.tsls[k]) <=> Torn(sec.tsls[k])
  BY <1>4, <1>5, ZenonT(30) DEF LogAddr, Torn
<1>8. sec.store \notin {"Unused", "Empty"}
  <2>1. j \in 1 .. n
    BY <1>1
  <2>2. sec.tsls # <<>>
    BY <1>1, <2>1
  <2> QED BY <2>2 DEF SectorOK, Fresh
<1>9. SectorOK(image)
  <2>1. \A k \in 1 .. n :
           /\ IndexEnd(n) <= LogAddr(sec.tsls[k]) /\ sec.tsls[k].top <= SecSize
           /\ \A i \in 1 .. k-1 : sec.tsls[k].top <= LogAddr(sec.tsls[i])
           /\ ~Torn(sec.tsls[k]) => sec.tsls[k].data
           /\ sec.tsls[k].len <= MaxLen
    BY <1>1 DEF SectorOK, SectorApart, n
  <2>2. \A k \in 1 .. n : \A i \in 1 .. k-1 : i \in 1 .. n
    BY <1>1
  <2>3. SectorApart(image)
    <3>1. ASSUME NEW k \in 1 .. n
          PROVE  /\ IndexEnd(n) <= LogAddr(image.tsls[k]) /\ image.tsls[k].top <= SecSize
                 /\ \A i \in 1 .. k-1 : image.tsls[k].top <= LogAddr(image.tsls[i])
                 /\ ~Torn(image.tsls[k]) => image.tsls[k].data
      <4>1. \A i \in 1 .. k-1 : LogAddr(image.tsls[i]) = LogAddr(sec.tsls[i])
        BY <1>7, <2>2
      <4>2. /\ image.tsls[k].top = sec.tsls[k].top /\ image.tsls[k].data = sec.tsls[k].data
            /\ LogAddr(image.tsls[k]) = LogAddr(sec.tsls[k])
            /\ Torn(image.tsls[k]) <=> Torn(sec.tsls[k])
        BY <1>7
      <4>3. \A i \in 1 .. k-1 : image.tsls[k].top <= LogAddr(image.tsls[i])
        BY <2>1, <4>1, <4>2
      <4>4. IndexEnd(n) <= LogAddr(image.tsls[k]) /\ image.tsls[k].top <= SecSize
        BY <2>1, <4>2
      <4>5. ~Torn(image.tsls[k]) => image.tsls[k].data
        <5>1. ~Torn(image.tsls[k]) => ~Torn(sec.tsls[k])
          BY <4>2
        <5>2. ~Torn(sec.tsls[k]) => sec.tsls[k].data
          BY <2>1, Zenon
        <5> QED BY <4>2, <5>1, <5>2
      <4> QED BY <4>3, <4>4, <4>5, Zenon
    <3> QED BY <1>5, <3>1 DEF SectorApart
  <2>4. \A k \in DOMAIN image.tsls : image.tsls[k].len <= MaxLen
    BY <1>5, <1>7, <2>1
  <2> QED BY <1>2, <1>8, <2>3, <2>4 DEF SectorOK
<1> QED BY <1>2, <1>5, <1>6, <1>7, <1>9 DEF n

LEMMA MarkType ==
  ASSUME NEW st \in Marks PROVE st \in TslStatus \ {"Unused", "PreWrite"}
BY MarksAssumption DEF TslStatus

LEMMA SetStatusStep ==
  ASSUME TsIInv, NEW s \in Sector, NEW j, NEW st \in Marks, NEW ok \in BOOLEAN, SetStatus(s, j, st, ok)
  PROVE  TsIInv' /\ OnlyClears
<1>1. /\ flash \in Image /\ RamType /\ RunType /\ MediumType /\ ClientType /\ MediumOK
  BY TypeParts DEF TsIInv
<1>2. marks' \in 0 .. MaxMarks /\ ClientType'
  BY <1>1, TsBoundsAssumption DEF SetStatus, ClientType
<1>3. RunType' /\ RamType' /\ pc' = "Idle" /\ call' = NoCall /\ cur' = cur
  <2>1. CASE ok
    BY <1>1, <2>1, ReturnType, SameRam DEF SetStatus, Results, ram
  <2>2. CASE ~ok
    BY <1>1, <2>2, ReturnType, SameRam DEF SetStatus, Results, ram
  <2> QED BY <2>1, <2>2
<1>4. CASE ok
  <2> DEFINE sec == flash[s]
             r == [sec.tsls[j] EXCEPT !.status = st]
             image == PutRecord(sec, j, r)
  <2>1. Program(s, image, ok)
    BY DEF SetStatus, PutRecord
  <2>2. sec \in SectorImage /\ SectorOK(sec) /\ j \in DOMAIN sec.tsls /\ ~Torn(sec.tsls[j])
    BY <1>1 DEF Image, MediumOK, SetStatus, Committed
  <2>3. MarksOne(sec, image)
    BY DEF SetStatus, MarksOne, PutRecord
  <2>4. st \in TslStatus \ {"Unused", "PreWrite"}
    BY MarkType
  <2>5. r = [sec.tsls[j] EXCEPT !.status = st] /\ image = PutRecord(sec, j, r) /\ sec = flash[s]
    OBVIOUS
  <2> HIDE DEF sec, r, image
  <2>6. MediumType' /\ ~failing /\ ~failing' /\ flash' = [flash EXCEPT ![s] = image]
    BY <1>1, <1>4, <2>1, Programmed
  <2>7. /\ image \in SectorImage /\ SectorOK(image)
        /\ image.store = sec.store /\ image.ends = sec.ends /\ Len(image.tsls) = Len(sec.tsls)
        /\ \A k \in 1 .. Len(sec.tsls) : LogAddr(image.tsls[k]) = LogAddr(sec.tsls[k])
    BY <2>2, <2>4, <2>5, MarkImage
  <2>8. /\ flash' \in Image /\ MediumOK' /\ flash'[s] = image
        /\ \A q \in Sector : q # s => flash'[q] = flash[q]
    BY <1>1, <2>6, <2>7, Written
  <2>9. OnlyClears
    <3>1. pc = "Idle"
      BY DEF SetStatus
    <3> QED BY <1>1, <2>3, <2>5, <2>6, <3>1, WrittenClears
  <2>10. ASSUME cur.ok PROVE Agrees(cur, flash')
    <3>1. Agrees(cur, flash) /\ cur.sec \in Sector
      BY <2>6, <2>10, AtIdle DEF SetStatus
    <3>2. CASE cur.sec # s
      BY <2>8, <3>1, <3>2 DEF Agrees
    <3>3. CASE cur.sec = s
      <4>1. flash[cur.sec] = sec /\ flash'[cur.sec] = image
        BY <2>5, <2>8, <3>3
      <4>2. StatAgrees(cur, sec) => StatAgrees(cur, image)
        BY <2>7 DEF StatAgrees
      <4>3. RoomAgrees(cur, sec, Len(sec.tsls)) => RoomAgrees(cur, image, Len(image.tsls))
        BY <2>7 DEF RoomAgrees
      <4>4. RoomAgrees(cur, sec, 0) => RoomAgrees(cur, image, 0)
        BY DEF RoomAgrees
      <4> QED BY <2>7, <3>1, <4>1, <4>2, <4>3, <4>4 DEF Agrees
    <3> QED BY <3>2, <3>3
  <2>11. MemoryOK'
    BY <1>3, <2>10, AtRest
  <2> QED BY <1>2, <1>3, <2>6, <2>8, <2>9, <2>11, TypePartsNext DEF TsIInv
<1>5. CASE ~ok
  <2>1. MediumType' /\ failing' /\ flash' = flash
    <3>1. PICK image : Program(s, image, ok)
      BY DEF SetStatus
    <3> QED BY <1>1, <1>5, <3>1, Programmed
  <2> QED BY <1>1, <1>2, <1>3, <2>1, Failed, NothingClears
<1> QED BY <1>4, <1>5

LEMMA SetRolloverStep ==
  ASSUME TsIInv, SetRollover
  PROVE  TsIInv' /\ OnlyClears
<1>1. flash' = flash /\ MediumType' /\ failing' = failing
  BY QuietType DEF SetRollover
<1>2. RunType' /\ pc' = "Idle" /\ call' = NoCall
  BY ReturnType DEF SetRollover, Results
<1>3. RamType' /\ cur' = cur /\ ClientType'
  BY TypeParts, SameClient DEF TsIInv, SetRollover, RamType
<1>4. ASSUME ~failing PROVE MemoryOK'
  <2>1. cur'.ok => Agrees(cur', flash')
    BY <1>1, <1>3, <1>4, AtIdle DEF Agrees, SetRollover
  <2> QED BY <1>2, <2>1, AtRest
<1> QED BY <1>1, <1>2, <1>3, <1>4, Unwritten

----------------------------------------------------------------------------
(* format_sector *)

LEMMA FmtReturnType ==
  ASSUME RunType, NEW ok \in BOOLEAN, NEW err \in Results, FmtReturn(ok, err)
  PROVE  RunType'
<1>1. CASE call.op = "Append"
  <2>1. CASE ok
    BY <1>1, <2>1 DEF FmtReturn, Goto, RunType, Labels
  <2>2. CASE ~ok
    <3>1. Return(err)
      BY <1>1, <2>2 DEF FmtReturn
    <3> QED BY <3>1, ReturnType
  <2> QED BY <2>1, <2>2
<1>2. CASE call.op # "Append"
  <2>1. CASE call.sec + 1 < N
    <3>1. call.sec + 1 \in Sector
      BY <2>1, Geometry DEF RunType, Call, Sector
    <3> QED BY <1>2, <2>1, <3>1 DEF FmtReturn, RunType, Labels, Call
  <2>2. CASE ~(call.sec + 1 < N)
    BY <1>2, <2>2 DEF FmtReturn, RunType, Labels
  <2> QED BY <2>1, <2>2
<1> QED BY <1>1, <1>2

\* What is known while a sector is formatted.
LEMMA InFormat ==
  ASSUME TsIInv, pc \in FormatLabels
  PROVE  /\ call \in Call /\ call.sec \in Sector
         /\ flash[call.sec] \in SectorImage /\ SectorOK(flash[call.sec])
         /\ ~failing => call.op # "None" /\ (call.op = "Append" => call.len <= MaxLen) /\ FormatAgrees
<1>1. flash \in Image /\ RunType /\ MediumOK
  BY TypeParts DEF TsIInv
<1>2. ~failing => CallAgrees /\ FormatAgrees
  BY DEF TsIInv, MemoryOK
<1> QED BY <1>1, <1>2 DEF Image, RunType, Call, MediumOK, CallAgrees

\* The step from one of the writes to the next one.
LEMMA FormatGoes ==
  ASSUME TsIInv, ~failing, pc \in FormatLabels, NEW image \in SectorImage, SectorOK(image),
         Forward1(flash[call.sec], image) \/ image = Erased, Program(call.sec, image, TRUE),
         NEW label \in {"FmtStatus", "FmtMagic"}, Goto(label), RamType', ClientType',
         image.store = IF label = "FmtStatus" THEN "Unused" ELSE "Empty"
  PROVE  TsIInv' /\ OnlyClears
<1>1. flash \in Image /\ MediumOK /\ MediumType /\ RunType
  BY TypeParts DEF TsIInv
<1>2. /\ call \in Call /\ call.sec \in Sector /\ call.op # "None"
      /\ (call.op = "Append" => call.len <= MaxLen) /\ FormatAgrees
  BY InFormat
<1>3. MediumType' /\ ~failing' /\ flash' = [flash EXCEPT ![call.sec] = image]
  BY <1>1, Programmed
<1>4. /\ flash' \in Image /\ MediumOK' /\ flash'[call.sec] = image
      /\ \A q \in Sector : q # call.sec => flash'[q] = flash[q]
  BY <1>1, <1>2, <1>3, Written
<1>5. OnlyClears
  BY <1>1, <1>2, <1>3, WrittenClears
<1>6. pc' = label /\ call' = call /\ RunType'
  BY <1>1 DEF Goto, RunType, Labels
<1>7. pc' \notin EndLabels \cup FirstLabels \cup RecordLabels \cup {"Idle", "CleanEnd"}
  BY <1>6 DEF EndLabels, FirstLabels, RecordLabels
<1>8. CallAgrees'
  BY <1>2, <1>6, <1>7 DEF CallAgrees
<1>9. FormatAgrees'
  <2>1. ASSUME call.op \in {"Clean", "Open"}, NEW q \in Sector, q < call.sec
        PROVE  flash'[q].store = "Empty" /\ flash'[q].ok
    <3>1. flash[q].store = "Empty" /\ flash[q].ok
      BY <1>2, <2>1 DEF FormatAgrees
    <3>2. q # call.sec
      BY <1>2, <2>1 DEF Sector
    <3> QED BY <1>4, <2>1, <3>1, <3>2
  <2> QED BY <1>4, <1>6, <1>7, <2>1 DEF FormatAgrees
<1>10. MemoryOK'
  BY <1>7, <1>8, <1>9 DEF MemoryOK
<1> QED BY <1>3, <1>4, <1>5, <1>6, <1>10, TypePartsNext DEF TsIInv

LEMMA FmtEraseStep ==
  ASSUME TsIInv, NEW ok \in BOOLEAN, FmtErase(ok)
  PROVE  TsIInv' /\ OnlyClears
<1>1. /\ flash \in Image /\ RamType /\ RunType /\ MediumType /\ ClientType /\ pc \in FormatLabels
  BY TypeParts DEF TsIInv, FmtErase, FormatLabels
<1>2. RamType' /\ ClientType'
  BY <1>1, SameRam, SameClient DEF FmtErase
<1>3. CASE ok
  <2>1. ~failing
    BY <1>1, <1>3, Programmed DEF FmtErase
  <2>2. Erased \in SectorImage /\ SectorOK(Erased) /\ Erased.store = "Unused"
    BY ErasedType DEF Erased, SectorOK, Fresh, SectorApart, NoEnd
  <2>3. Program(call.sec, Erased, TRUE) /\ Goto("FmtStatus")
    BY <1>3 DEF FmtErase
  <2> QED BY <1>1, <1>2, <2>1, <2>2, <2>3, FormatGoes
<1>4. CASE ~ok
  <2>1. MediumType' /\ failing' /\ flash' = flash
    BY <1>1, <1>4, Programmed DEF FmtErase
  <2>2. FmtReturn(FALSE, "EraseErr")
    BY <1>4 DEF FmtErase
  <2>3. RunType'
    BY <1>1, <2>2, FmtReturnType DEF Results
  <2> QED BY <1>1, <1>2, <2>1, <2>3, Failed, NothingClears
<1> QED BY <1>3, <1>4

LEMMA FmtStatusStep ==
  ASSUME TsIInv, NEW ok \in BOOLEAN, FmtStatus(ok)
  PROVE  TsIInv' /\ OnlyClears
<1>1. /\ flash \in Image /\ RamType /\ RunType /\ MediumType /\ ClientType /\ pc \in FormatLabels
  BY TypeParts DEF TsIInv, FmtStatus, FormatLabels
<1>2. RamType' /\ ClientType'
  BY <1>1, SameRam, SameClient DEF FmtStatus
<1>3. PICK image : image = [flash[call.sec] EXCEPT !.store = "Empty"] /\ Program(call.sec, image, ok)
  BY DEF FmtStatus
<1>4. CASE ok
  <2>1. ~failing
    BY <1>1, <1>3, <1>4, Programmed
  <2>2. /\ flash[call.sec] \in SectorImage /\ SectorOK(flash[call.sec]) /\ flash[call.sec].store = "Unused"
    BY <1>1, <2>1, InFormat DEF FmtStatus, FormatAgrees
  <2>3. /\ image \in SectorImage /\ image.store = "Empty" /\ image.start = flash[call.sec].start
        /\ image.ok = flash[call.sec].ok
        /\ image.ends = flash[call.sec].ends /\ image.tsls = flash[call.sec].tsls
    BY <1>3, <2>2 DEF SectorImage, SectorStoreStatus
  <2>4. SectorOK(image) /\ Forward1(flash[call.sec], image)
    <3>1. StoreRank[flash[call.sec].store] <= StoreRank[image.store]
      BY <2>2, <2>3 DEF StoreRank
    <3> QED BY <2>2, <2>3, <3>1, HeaderImage DEF TimeOnce
  <2>5. Goto("FmtMagic")
    BY <1>4 DEF FmtStatus
  <2> QED BY <1>1, <1>2, <1>3, <1>4, <2>1, <2>3, <2>4, <2>5, FormatGoes
<1>5. CASE ~ok
  <2>1. MediumType' /\ failing' /\ flash' = flash
    BY <1>1, <1>3, <1>5, Programmed
  <2>2. FmtReturn(FALSE, "WriteErr")
    BY <1>5 DEF FmtStatus
  <2>3. RunType'
    BY <1>1, <2>2, FmtReturnType DEF Results
  <2> QED BY <1>1, <1>2, <2>1, <2>3, Failed, NothingClears
<1> QED BY <1>4, <1>5

LEMMA FmtMagicStep ==
  ASSUME TsIInv, NEW ok \in BOOLEAN, FmtMagic(ok)
  PROVE  TsIInv' /\ OnlyClears
<1>1. /\ flash \in Image /\ RamType /\ RunType /\ MediumType /\ ClientType /\ MediumOK
      /\ pc \in FormatLabels
  BY TypeParts DEF TsIInv, FmtMagic, FormatLabels
<1>2. PICK image : image = [flash[call.sec] EXCEPT !.ok = TRUE] /\ Program(call.sec, image, ok)
  BY DEF FmtMagic
<1>3. RunType' /\ ClientType'
  BY <1>1, FmtReturnType, SameClient DEF FmtMagic, Results
<1>4. cur' = (IF ok /\ call.op = "Append" THEN read_header(flash', call.sec) ELSE cur)
      /\ oldest' = oldest /\ lastTime' = lastTime /\ rollover' = rollover
  BY DEF FmtMagic
<1>5. CASE ok
  <2>1. MediumType' /\ ~failing /\ ~failing' /\ flash' = [flash EXCEPT ![call.sec] = image]
    BY <1>1, <1>2, <1>5, Programmed
  <2>2. /\ call \in Call /\ call.sec \in Sector /\ call.op # "None"
        /\ flash[call.sec] \in SectorImage /\ SectorOK(flash[call.sec])
        /\ (call.op = "Append" => call.len <= MaxLen) /\ FormatAgrees
    BY <1>1, <2>1, InFormat
  <2>3. flash[call.sec].store = "Empty"
    BY <2>2 DEF FmtMagic, FormatAgrees
  <2>4. /\ image \in SectorImage /\ image.store = "Empty" /\ image.ok
        /\ image.start = flash[call.sec].start
        /\ image.ends = flash[call.sec].ends /\ image.tsls = flash[call.sec].tsls
    BY <1>2, <2>2, <2>3 DEF SectorImage
  <2>5. SectorOK(image) /\ Forward1(flash[call.sec], image)
    <3>1. StoreRank[flash[call.sec].store] <= StoreRank[image.store]
      BY <2>3, <2>4 DEF StoreRank
    <3> QED BY <2>2, <2>3, <2>4, <3>1, HeaderImage DEF TimeOnce
  <2>6. /\ flash' \in Image /\ MediumOK' /\ flash'[call.sec] = image
        /\ \A q \in Sector : q # call.sec => flash'[q] = flash[q]
    BY <1>1, <2>1, <2>2, <2>4, <2>5, Written
  <2>7. OnlyClears
    BY <1>1, <2>1, <2>2, <2>5, WrittenClears
  <2>8. RamType'
    <3>1. read_header(flash', call.sec) \in SecInfo
      BY <2>2, <2>6, HeaderType
    <3> QED BY <1>1, <1>4, <3>1 DEF RamType
  <2>9. MemoryOK'
    <3>1. CASE call.op = "Append"
      <4>1. pc' = "SetUsing" /\ call' = call
        BY <1>5, <3>1 DEF FmtMagic, FmtReturn, Goto
      <4>2. cur' = read_header(flash', call.sec)
        BY <1>4, <1>5, <3>1
      <4>3. cur'.ok /\ cur'.status = "Empty"
        BY <2>4, <2>6, <4>2 DEF read_header
      <4>4. Agrees(cur', flash')
        BY <2>2, <2>5, <2>6, <4>2, <4>3, HeaderAgrees
      <4>5. FirstAgrees'
        BY <4>1, <4>3, <4>4 DEF FirstAgrees
      <4>6. pc' \in FirstLabels /\ pc' \notin EndLabels \cup RecordLabels
        BY <4>1 DEF EndLabels, FirstLabels, RecordLabels
      <4> QED BY <2>2, <3>1, <4>1, <4>5, <4>6, InAppend
    <3>2. CASE call.op # "Append"
      <4>1. call.op \in {"Clean", "Open"}
        BY <2>2, <3>2 DEF Call
      <4>2. \A q \in Sector : q <= call.sec => flash'[q].store = "Empty" /\ flash'[q].ok
        <5> SUFFICES ASSUME NEW q \in Sector, q <= call.sec
                     PROVE  flash'[q].store = "Empty" /\ flash'[q].ok
          OBVIOUS
        <5>1. CASE q = call.sec
          BY <2>4, <2>6, <5>1
        <5>2. CASE q # call.sec
          <6>1. q < call.sec
            BY <2>2, <5>2 DEF Sector
          <6> QED BY <2>2, <2>6, <4>1, <5>2, <6>1 DEF FormatAgrees
        <5> QED BY <5>1, <5>2
      <4>3. CASE call.sec + 1 < N
        <5>1. pc' = "FmtErase" /\ call' = [call EXCEPT !.sec = @ + 1]
          BY <3>2, <4>3 DEF FmtMagic, FmtReturn
        <5>2. call'.op = call.op /\ call'.len = call.len /\ call'.sec = call.sec + 1
          BY <2>2, <5>1 DEF Call
        <5>3. \A q \in Sector : q < call'.sec => q <= call.sec
          BY <2>2, <5>2 DEF Sector
        <5>4. CallAgrees' /\ FormatAgrees'
          BY <2>2, <3>2, <4>2, <5>1, <5>2, <5>3
             DEF CallAgrees, FormatAgrees, EndLabels, FirstLabels, RecordLabels, FormatLabels
        <5> QED BY <5>1, <5>4 DEF MemoryOK, EndLabels, FirstLabels, RecordLabels
      <4>4. CASE ~(call.sec + 1 < N)
        <5>1. pc' = "CleanEnd" /\ call' = call
          BY <3>2, <4>4 DEF FmtMagic, FmtReturn
        <5>2. \A q \in Sector : q <= call.sec
          BY <2>2, <4>4, Geometry DEF Sector
        <5>3. CallAgrees' /\ FormatAgrees'
          BY <3>2, <4>1, <4>2, <5>1, <5>2
             DEF CallAgrees, FormatAgrees, EndLabels, FirstLabels, RecordLabels, FormatLabels
        <5> QED BY <5>1, <5>3 DEF MemoryOK, EndLabels, FirstLabels, RecordLabels
      <4> QED BY <4>3, <4>4
    <3> QED BY <3>1, <3>2
  <2> QED BY <1>3, <2>1, <2>6, <2>7, <2>8, <2>9, TypePartsNext DEF TsIInv
<1>6. CASE ~ok
  <2>1. MediumType' /\ failing' /\ flash' = flash
    BY <1>1, <1>2, <1>6, Programmed
  <2>2. RamType'
    BY <1>1, <1>4, <1>6 DEF RamType
  <2> QED BY <1>1, <1>3, <2>1, <2>2, Failed, NothingClears
<1> QED BY <1>5, <1>6

----------------------------------------------------------------------------
(* clean and init *)

\* The call that formats every sector, from the first one on.
LEMMA CleanCallStep ==
  ASSUME TsIInv, Quiet, UNCHANGED ram, ClientType', NEW op \in {"Clean", "Open"}, CleanCall(op)
  PROVE  TsIInv' /\ OnlyClears
<1>1. flash' = flash /\ MediumType' /\ failing' = failing
  BY QuietType
<1>2. RamType'
  BY TypeParts, SameRam DEF TsIInv
<1>3. /\ pc' = "FmtErase" /\ result' = "None" /\ call' = [NoCall EXCEPT !.op = op]
  BY DEF CleanCall
<1>4. call' \in Call /\ call'.op = op /\ call'.sec = 0
  BY <1>3, Geometry DEF NoCall, Call
<1>5. RunType'
  BY <1>3, <1>4 DEF RunType, Labels, Results
<1>6. ~\E s \in Sector : s < 0
  BY DEF Sector
<1>7. CallAgrees' /\ FormatAgrees'
  BY <1>3, <1>4, <1>6 DEF CallAgrees, FormatAgrees, EndLabels, FirstLabels, RecordLabels, FormatLabels
<1>8. MemoryOK'
  BY <1>3, <1>7 DEF MemoryOK, EndLabels, FirstLabels, RecordLabels
<1> QED BY <1>1, <1>2, <1>5, <1>8, Unwritten

LEMMA CleanStep ==
  ASSUME TsIInv, Clean
  PROVE  TsIInv' /\ OnlyClears
<1>1. ClientType'
  BY TypeParts, SameClient DEF TsIInv, Clean
<1> QED BY <1>1, CleanCallStep DEF Clean

LEMMA CleanEndStep ==
  ASSUME TsIInv, CleanEnd
  PROVE  TsIInv' /\ OnlyClears
<1>1. flash \in Image /\ MediumOK /\ RamType /\ ClientType /\ pc = "CleanEnd" /\ 0 \in Sector
  BY TypeParts, Geometry DEF TsIInv, CleanEnd
<1>2. flash' = flash /\ MediumType' /\ failing' = failing
  BY QuietType DEF CleanEnd
<1>3. RunType' /\ pc' = "Idle" /\ call' = NoCall
  BY ReturnType DEF CleanEnd, Results
<1>4. ClientType' /\ rollover' = rollover /\ oldest' = 0
  BY <1>1 DEF CleanEnd, ClientType, client
<1>5. CleanLastTime \in Int
  BY <1>1, LastTimeType DEF CleanLastTime
<1>6. cur' = (IF call.op = "Open" THEN read_sector_info(flash, 0) ELSE read_header(flash, 0))
      /\ lastTime' = CleanLastTime
  BY DEF CleanEnd
<1>7. cur' \in SecInfo
  BY <1>1, <1>6, SecInfoType, HeaderType
<1>8. RamType'
  BY <1>1, <1>4, <1>5, <1>6, <1>7 DEF RamType
<1>9. ASSUME ~failing PROVE MemoryOK'
  <2>1. SectorOK(flash[0])
    BY <1>1 DEF MediumOK
  <2>2. call.op \in {"Clean", "Open"} /\ flash[0].store = "Empty"
    BY <1>1, <1>9 DEF TsIInv, MemoryOK, CallAgrees, FormatAgrees
  <2>3. Agrees(cur', flash)
    <3>1. Agrees(read_sector_info(flash, 0), flash)
      BY <1>1, <2>1, InfoAgrees
    <3>2. Agrees(read_header(flash, 0), flash)
      BY <1>1, <2>1, <2>2, HeaderOfEmpty, HeaderAgrees
    <3> QED BY <1>6, <3>1, <3>2
  <2> QED BY <1>2, <1>3, <2>3, AtRest
<1> QED BY <1>2, <1>3, <1>4, <1>8, <1>9, Unwritten

\* What init reads of the medium agrees with it, also when it finds no current sector.
LEMMA OpenedStep ==
  ASSUME TsIInv, Quiet, Opened, Return("Ok"), UNCHANGED <<rollover, clock, marks>>
  PROVE  TsIInv' /\ OnlyClears
<1>1. flash \in Image /\ MediumOK /\ RamType /\ ClientType
  BY TypeParts DEF TsIInv
<1>2. flash' = flash /\ MediumType' /\ failing' = failing
  BY QuietType
<1>3. RunType' /\ pc' = "Idle" /\ call' = NoCall
  BY ReturnType DEF Results
<1>4. PICK s \in Sector \cup {NoAddr} : s = FirstOpen(flash)
  BY <1>1, FirstOpenType
<1>5. cur' = read_sector_info(flash, s) /\ oldest' = FindOldest(flash)
      /\ lastTime' = FindLastTime(flash, cur', oldest')
  BY <1>4 DEF Opened
<1>6. RamType'
  <2>1. cur' \in SecInfo
    BY <1>1, <1>5, SecInfoType
  <2>2. oldest' \in Sector \cup {NoAddr}
    BY <1>1, <1>5, OldestType
  <2>3. lastTime' \in Int
    BY <1>1, <1>5, LastTimeType
  <2> QED BY <1>1, <2>1, <2>2, <2>3 DEF RamType
<1>7. ruined' \in BOOLEAN
  BY <1>1 DEF Opened, ClientType
<1>8. ClientType'
  BY <1>1, <1>7 DEF ClientType
<1>9. cur'.ok => Agrees(cur', flash)
  <2>1. CASE s = NoAddr
    BY <1>5, <2>1 DEF read_sector_info, Blank
  <2>2. CASE s \in Sector
    <3>1. SectorOK(flash[s])
      BY <1>1, <2>2 DEF MediumOK
    <3> QED BY <1>1, <1>5, <2>2, <3>1, InfoAgrees
  <2> QED BY <2>1, <2>2
<1>10. MemoryOK'
  BY <1>2, <1>3, <1>9, AtRest
<1> QED BY <1>2, <1>3, <1>6, <1>8, <1>10, Unwritten

\* An open that does not get as far as changing anything in memory.
LEMMA RefusedOpen ==
  ASSUME TsIInv, pc = "Off", Quiet, UNCHANGED <<ram, pc, call>>, result' \in Results, ClientType'
  PROVE  TsIInv' /\ OnlyClears
<1>1. flash' = flash /\ MediumType' /\ failing' = failing
  BY QuietType
<1>2. RamType' /\ RunType'
  BY TypeParts, SameRam DEF TsIInv, RunType
<1>3. ASSUME ~failing PROVE MemoryOK'
  <2>1. CallAgrees /\ FormatAgrees
    BY <1>3 DEF TsIInv, MemoryOK
  <2>2. CallAgrees' /\ FormatAgrees'
    BY <1>1, <2>1 DEF CallAgrees, FormatAgrees
  <2> QED BY <2>2 DEF MemoryOK, EndLabels, FirstLabels, RecordLabels
<1> QED BY <1>1, <1>2, <1>3, Unwritten

LEMMA OpenStep ==
  ASSUME TsIInv, NEW strict \in BOOLEAN, Open(strict)
  PROVE  TsIInv' /\ OnlyClears
<1>1. ClientType /\ pc = "Off" /\ Quiet /\ UNCHANGED <<rollover, clock, marks>>
  BY TypeParts DEF TsIInv, Open
<1>2. CASE Opened /\ Return("Ok")
  BY <1>1, <1>2, OpenedStep
<1>3. CASE result' = "ReadErr" /\ UNCHANGED <<cur, oldest, lastTime, pc, call, ruined>>
  <2>1. ClientType' /\ UNCHANGED <<ram, pc, call>> /\ result' \in Results
    BY <1>1, <1>3 DEF ClientType, ram, Results
  <2> QED BY <1>1, <2>1, RefusedOpen
<1>4. CASE CleanCall("Open") /\ UNCHANGED <<cur, oldest, lastTime, ruined>>
  <2>1. ClientType' /\ UNCHANGED ram
    BY <1>1, <1>4 DEF ClientType, ram
  <2> QED BY <1>1, <1>4, <2>1, CleanCallStep
<1> QED BY <1>2, <1>3, <1>4 DEF Open

LEMMA OpenPanicsStep ==
  ASSUME TsIInv, OpenPanics
  PROVE  TsIInv' /\ OnlyClears
<1>1. ClientType'
  BY TypeParts, SameClient DEF TsIInv, OpenPanics
<1> QED BY <1>1, RefusedOpen DEF OpenPanics, Results

----------------------------------------------------------------------------
(* The end of a session, and the whole *)

LEMMA CloseStep ==
  ASSUME TsIInv, Close
  PROVE  TsIInv' /\ OnlyClears
<1>1. ClientType' /\ MediumType'
  BY TypeParts, SameClient DEF TsIInv, Close, MediumType
<1> QED BY <1>1, ResetStep DEF Close, Results

LEMMA PowerLossStep ==
  ASSUME TsIInv, PowerLoss
  PROVE  TsIInv' /\ OnlyClears
<1>1. ClientType'
  BY TypeParts, SameClient DEF TsIInv, PowerLoss
<1>2. MediumType'
  <2>1. failures \in 0 .. MaxFailures /\ MaxFailures \in Nat
    BY TypeParts, TsBoundsAssumption DEF TsIInv, MediumType
  <2>2. failures > 0 /\ failures' = failures - 1 /\ failing' = FALSE
    BY DEF PowerLoss
  <2>3. failures' \in 0 .. MaxFailures
    BY <2>1, <2>2
  <2> QED BY <2>2, <2>3 DEF MediumType
<1> QED BY <1>1, <1>2, ResetStep DEF PowerLoss, Results

LEMMA ClientStep ==
  ASSUME TsIInv, Client
  PROVE  TsIInv' /\ OnlyClears
<1>1. ASSUME NEW len \in Lens, AppendNow(len) PROVE TsIInv' /\ OnlyClears
  <2>1. \A t \in NextTimes : t \in 0 .. MaxTime
    BY TimesAssumption DEF NextTimes
  <2> QED BY <1>1, <2>1, AppendStep DEF AppendNow
<1>2. ASSUME NEW len \in Lens, AppendAgain(len) PROVE TsIInv' /\ OnlyClears
  <2>1. clock \in 0 .. MaxTime
    BY TypeParts DEF TsIInv, ClientType
  <2> QED BY <1>2, <2>1, AppendStep DEF AppendAgain
<1> QED BY <1>1, <1>2, SetStatusStep, OpenStep, OpenPanicsStep, SetRolloverStep, CleanStep, CloseStep
        DEF Client

LEMMA CallStep ==
  ASSUME TsIInv, Step
  PROVE  TsIInv' /\ OnlyClears
<1> QED BY EndPreStep, EndDataStep, EndWriteStep, SetFullStep, SetUsingStep, SetStartStep, TslPreStep,
           TslIdxStep, TslDataStep, TslWriteStep, FmtEraseStep, FmtStatusStep, FmtMagicStep,
           CleanEndStep
        DEF Step

LEMMA NextStep ==
  ASSUME TsIInv, [Next]_vars
  PROVE  TsIInv' /\ OnlyClears
<1>1. CASE Next
  BY <1>1, ClientStep, CallStep, PowerLossStep DEF Next
<1>2. CASE UNCHANGED vars
  <2>1. /\ flash' = flash /\ UNCHANGED ram /\ UNCHANGED client /\ UNCHANGED medium
        /\ pc' = pc /\ call' = call /\ result' = result
    BY <1>2 DEF vars, ram, client, medium
  <2>2. RamType' /\ ClientType' /\ MediumType' /\ RunType'
    BY <2>1, TypeParts, SameRam, SameClient DEF TsIInv, MediumType, RunType, medium
  <2>3. ASSUME ~failing' PROVE MemoryOK'
    <3>1. MemoryOK /\ cur' = cur
      BY <2>1, <2>3 DEF TsIInv, medium, ram
    <3> QED BY <2>1, <3>1 DEF MemoryOK, CallAgrees, EndAgrees, End, FirstAgrees, RoomEnough, Cost,
                              RecordAgrees, Record, FormatAgrees
  <2> QED BY <2>1, <2>2, <2>3, Unwritten
<1> QED BY <1>1, <1>2

LEMMA InitOK ==
  ASSUME Init
  PROVE  TsIInv
<1>1. flash \in Image /\ \A s \in Sector : flash[s] = Erased
  BY ErasedType DEF Init, Image
<1>2. SectorOK(Erased)
  BY DEF Erased, SectorOK, Fresh, SectorApart, NoEnd
<1>3. MediumOK
  BY <1>1, <1>2 DEF MediumOK
<1>4. RamType
  BY BlankType DEF Init, Closed, RamType
<1>5. NoCall \in Call /\ NoCall.op = "None"
  BY Geometry DEF NoCall, Call
<1>6. RunType
  BY <1>5 DEF Init, Closed, RunType, Labels, Results
<1>7. MediumType /\ ClientType
  <2>1. MaxFailures \in Nat /\ MaxMarks \in Nat /\ MaxTime \in Nat
    BY TsBoundsAssumption, TimesAssumption
  <2>2. /\ failing = FALSE /\ failures = MaxFailures /\ clock = 0 /\ marks = MaxMarks
        /\ ruined = FALSE
    BY DEF Init
  <2>3. failures \in 0 .. MaxFailures /\ clock \in 0 .. MaxTime /\ marks \in 0 .. MaxMarks
    BY <2>1, <2>2
  <2> QED BY <2>2, <2>3 DEF MediumType, ClientType
<1>8. MemoryOK
  BY <1>5 DEF Init, Closed, MemoryOK, CallAgrees, FormatAgrees, EndLabels, FirstLabels, RecordLabels,
              FormatLabels
<1> QED BY <1>1, <1>3, <1>4, <1>6, <1>7, <1>8, TypeParts DEF TsIInv

----------------------------------------------------------------------------
(* The theorems *)

\* Every write of update_sec_status, write_tsl and format_sector finds the place it
\* programs as the write before it left it, and cur_sec describes what is on the medium:
\* through power losses, errors of the storage, and whatever an earlier session left.
THEOREM TsInductive == Spec => []TsIInv
<1>1. TsIInv /\ [Next]_vars => TsIInv'
  BY NextStep
<1> QED BY <1>1, InitOK, PTL DEF Spec

\* The variables keep their types: an address is that of a sector or DATA_UNUSED.
THEOREM TsTypeCorrect == Spec => []TsTypeOK
<1>1. TsIInv => TsTypeOK
  BY DEF TsIInv
<1> QED BY <1>1, TsInductive, PTL

\* In every sector the index and the data stay apart, so do the data of any two records,
\* and a committed record has its data (write_tsl, the remainder kept in cur_sec).
THEOREM TsDataApart == Spec => []DataApart
<1>1. TsIInv => DataApart
  BY DEF TsIInv, MediumOK, SectorOK, DataApart
<1> QED BY <1>1, TsInductive, PTL

\* No write of tsdb.rs programs a byte again with something else, and none sets a bit that
\* is cleared, except by the erase of a whole sector, but for two calls between which
\* nothing else changes: set_status with an earlier state, and an append without a current
\* sector.
THEOREM TsOnlyClears == Spec => TsProgramOnlyClears
<1> DEFINE Clears == \A s \in Sector : Programs(s, flash[s], flash'[s])
<1>1. TsIInv /\ [Next]_vars => [Clears]_flash
  BY NextStep DEF OnlyClears
<1>2. Spec => [][TsIInv /\ [Next]_vars]_vars
  BY TsInductive, PTL DEF Spec
<1> QED BY <1>1, TsInductive, PTL DEF Spec, TsProgramOnlyClears
=============================================================================
