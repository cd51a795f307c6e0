---------------------------- MODULE KvdbProofs ----------------------------
(***************************************************************************)
(* Type correctness of the key-value database, the order of its log and    *)
(* what a step may do to the medium, for every geometry, every set of keys *)
(* and values and any number of power losses and faults.                   *)
(*                                                                         *)
(* TypeOK is not inductive: the length of a node is a number only if the   *)
(* node has a key, so the proof also keeps track of what the frames of the *)
(* functions in execution hold (ArgsOK) and of the nodes whose CRC is      *)
(* right (NamesOK).  There is one lemma per group of actions.  Before      *)
(* them come facts about the operators of KvFlash: what a walk over the    *)
(* sectors meets, and what alloc_kv and find_kv return.                    *)
(***************************************************************************)
EXTENDS KvdbInv, TLAPS, WellFoundedInduction

Flash == [Sector -> SectorImage]

----------------------------------------------------------------------------
(* Walks *)

\* The first sector, where find_oldest_addr and set_default begin, is one.
LEMMA ZeroSector == 0 \in Sector
BY GeometryAssumption DEF Sector

\* The geometry is made of numbers.
LEMMA GeometryType == N \in Nat /\ N >= 2 /\ SecSize \in Nat
BY GeometryAssumption

\* A set of positions has a first one: every search of a walk for the first sector
\* or node of a kind finds it.
LEMMA LeastExists ==
  ASSUME NEW S, S \subseteq Nat, S # {}
  PROVE  /\ Least(S) \in S
         /\ \A y \in S : Least(S) <= y
<1> DEFINE R == {ss \in Nat \X Nat : ss[1] < ss[2]}
<1>1. IsWellFoundedOn(R, Nat)
  BY NatLessThanWellFounded DEF OpToRel
<1>2. \A x, y \in Nat : x < y => <<x, y>> \in R
  OBVIOUS
<1> HIDE DEF R
<1>3. PICK x \in S : \A y \in S : ~ (<<y, x>> \in R)
  BY <1>1, WFMin
<1>4. \A y \in S : x <= y
  <2> TAKE y \in S
  <2>1. x \in Nat /\ y \in Nat
    OBVIOUS
  <2>2. ~ (y < x)
    BY <1>2, <1>3, <2>1
  <2> QED BY <2>1, <2>2
<1> QED BY <1>3, <1>4 DEF Least

\* And a last one.
LEMMA GreatestExists ==
  ASSUME NEW S, S \subseteq Sector, S # {}
  PROVE  Greatest(S) \in S
<1> DEFINE T == {i \in Nat : i < N /\ N - 1 - i \in S}
<1>1. PICK i \in T : \A j \in T : i <= j
  <2>1. T \subseteq Nat /\ T # {}
    <3>1. PICK s \in S : TRUE
      OBVIOUS
    <3>2. N - 1 - s \in Nat /\ N - 1 - s < N /\ N - 1 - (N - 1 - s) = s
      BY <3>1, GeometryAssumption DEF Sector
    <3> QED BY <3>2
  <2> QED BY <2>1, LeastExists
<1>2. \A y \in S : N - 1 - y \in T
  BY GeometryAssumption DEF Sector
<1>3. \A y \in S : N - 1 - i >= y
  <2> TAKE y \in S
  <2>1. y \in Int /\ i \in Int /\ N \in Int
    BY GeometryAssumption DEF Sector
  <2> QED BY <1>1, <1>2, <2>1
<1> QED BY <1>1, <1>3 DEF Greatest

\* A walk stays within the database: it wraps around at its end.
LEMMA NthType ==
  ASSUME NEW b \in Sector, NEW i \in Nat
  PROVE  Nth(b, i) \in Sector
BY GeometryAssumption DEF Nth, Sector

\* A walk of N steps meets every sector, wherever it starts.
LEMMA NthOnto ==
  ASSUME NEW b \in Sector, NEW s \in Sector
  PROVE  \E i \in Sector : Nth(b, i) = s
<1>1. CASE s >= b
  <2>1. s - b \in Sector
    BY <1>1, GeometryAssumption DEF Sector
  <2>2. b + (s - b) = s
    BY DEF Sector
  <2>3. s % N = s
    BY GeometryAssumption DEF Sector
  <2> QED BY <2>1, <2>2, <2>3 DEF Nth
<1>2. CASE s < b
  <2>1. s - b + N \in Sector
    BY <1>2, GeometryAssumption DEF Sector
  <2>2. b + (s - b + N) = s + N
    BY GeometryAssumption DEF Sector
  <2>3. (s + N) % N = s
    BY GeometryAssumption DEF Sector
  <2> QED BY <2>1, <2>2, <2>3 DEF Nth
<1> QED BY <1>1, <1>2 DEF Sector

\* The first member of a set that a walk meets is a member of it.
LEMMA FirstMetIn ==
  ASSUME NEW b \in Sector, NEW S, S \subseteq Sector, S # {}
  PROVE  FirstMet(b, S) \in S
<1> DEFINE I == {i \in Sector : Nth(b, i) \in S}
<1>1. I # {}
  <2>1. PICK s \in S : TRUE
    OBVIOUS
  <2> QED BY <2>1, NthOnto
<1>2. I \subseteq Nat
  BY DEF Sector
<1>3. Least(I) \in I
  BY <1>1, <1>2, LeastExists
<1> QED BY <1>3 DEF FirstMet

\* get_next_sector_addr after the last sector is the first one.
LEMMA NextSectorType ==
  ASSUME NEW s \in Sector
  PROVE  get_next_sector_addr(s) \in Sector
BY GeometryAssumption DEF get_next_sector_addr, Sector

\* find_oldest_addr returns the address of a sector, whatever is on the medium.
LEMMA OldestType ==
  ASSUME NEW img
  PROVE  find_oldest_addr(img) \in Sector
<1> DEFINE S == {s \in Sector \ {0} : /\ img[s - 1].ok /\ img[s - 1].store = "Empty"
                                     /\ s \in InUse(img)}
<1>1. S \subseteq Sector
  OBVIOUS
<1>2. find_oldest_addr(img) = IF S = {} THEN 0 ELSE Greatest(S)
  BY DEF find_oldest_addr
<1> HIDE DEF S
<1> QED BY <1>1, <1>2, ZeroSector, GreatestExists

----------------------------------------------------------------------------
(* Sizes *)

\* A node is at least as long as its header.
LEMMA KvLenType ==
  ASSUME NEW k \in Keys, NEW v \in Values
  PROVE  kv_len(k, v) \in Nat /\ kv_len(k, v) >= KV_HDR_DATA_SIZE
BY LengthAssumption DEF kv_len, KV_HDR_DATA_SIZE

\* The nodes of a typed sector are typed.
LEMMA NodeType ==
  ASSUME NEW sec \in SectorImage, NEW j \in DOMAIN sec.kvs
  PROVE  sec.kvs[j] \in KvNode
BY DEF SectorImage

\* The last node of a sector that has nodes.
LEMMA LastNodeType ==
  ASSUME NEW sec \in SectorImage, sec.kvs # <<>>
  PROVE  /\ Len(sec.kvs) \in DOMAIN sec.kvs
         /\ LastNode(sec) = sec.kvs[Len(sec.kvs)]
         /\ LastNode(sec) \in KvNode
BY DEF SectorImage, LastNode

\* The end of the nodes of a sector (empty_kv_addr) is an address.
LEMMA EmptyKvType ==
  ASSUME NEW sec \in SectorImage
  PROVE  empty_kv(sec) \in Nat
<1>1. CASE sec.kvs # <<>>
  BY <1>1, LastNodeType DEF empty_kv, KvNode
<1>2. CASE sec.kvs = <<>>
  BY <1>2 DEF empty_kv, SECTOR_HDR_DATA_SIZE, KV_HDR_DATA_SIZE
<1> QED BY <1>1, <1>2

\* The room left in a sector is a number.
LEMMA RemainType ==
  ASSUME NEW sec \in SectorImage
  PROVE  remain(sec) \in Int
BY EmptyKvType, GeometryType DEF remain

----------------------------------------------------------------------------
(* The search and the allocation *)

\* What find_kv_no_cache returns is the address of a node.
LEMMA FindType ==
  ASSUME NEW img \in Flash, NEW b \in Sector, NEW k
  PROVE  /\ find_name(img, b, k) \in [found: BOOLEAN, sec: Sector, idx: Nat]
         /\ find_kv(img, b, k) \in [found: BOOLEAN, sec: Sector, idx: Nat]
<1> DEFINE Hits(s) == {j \in DOMAIN img[s].kvs : Readable(img[s].kvs[j], k)}
           S == {s \in InUse(img) : Hits(s) # {}}
           s1 == FirstMet(b, S)
<1>1. S \subseteq Sector
  BY DEF InUse
<1>a. \A s \in Sector : DOMAIN img[s].kvs \subseteq Nat
  BY DEF Flash, SectorImage
<1>2. ASSUME S # {} PROVE s1 \in Sector /\ Least(Hits(s1)) \in Nat
  <2>1. s1 \in S
    BY <1>1, <1>2, FirstMetIn
  <2>2. s1 \in Sector /\ Hits(s1) # {}
    BY <1>1, <2>1
  <2>3. DOMAIN img[s1].kvs \subseteq Nat
    BY <1>a, <2>2
  <2>4. Hits(s1) \subseteq Nat
    BY <2>3
  <2>5. Least(Hits(s1)) \in Hits(s1)
    BY <2>2, <2>4, LeastExists
  <2> QED BY <2>2, <2>4, <2>5
<1>3. find_name(img, b, k) = IF S = {} THEN [found |-> FALSE, sec |-> 0, idx |-> 0]
                             ELSE [found |-> TRUE, sec |-> s1, idx |-> Least(Hits(s1))]
  BY DEF find_name
<1> HIDE DEF Hits, S, s1
<1>4. find_name(img, b, k) \in [found: BOOLEAN, sec: Sector, idx: Nat]
  BY <1>2, <1>3, ZeroSector
<1> QED BY <1>4, ZeroSector DEF find_kv

\* The sector alloc_kv finds is in use or empty, and there is room for the node and
\* SEC_REMAIN_THRESHOLD bytes more behind the nodes of that sector.
LEMMA AllocFound ==
  ASSUME NEW img \in Flash, NEW b \in Sector, NEW req \in BOOLEAN, NEW len
  PROVE  LET a == alloc_kv(img, b, req, len)
         IN  /\ a.found \in BOOLEAN /\ a.sec \in Sector /\ a.gcReq \in BOOLEAN
             /\ a.found => /\ img[a.sec].ok
                           /\ img[a.sec].store \in {"Empty", "Using"}
                           /\ remain(img[a.sec]) > len + SEC_REMAIN_THRESHOLD
<1> DEFINE using == {s \in Sector : HasRoom(img[s], "Using", len, req)}
           empty == {s \in Sector : HasRoom(img[s], "Empty", len, req)}
           spare == MayTakeEmpty(img, req)
           from  == IF using # {} THEN using
                    ELSE IF Empties(img) # {} /\ spare THEN empty ELSE {}
           a == alloc_kv(img, b, req, len)
<1>1. from \subseteq Sector
  OBVIOUS
<1>2. \A s \in from : /\ img[s].ok /\ img[s].store \in {"Empty", "Using"}
                      /\ remain(img[s]) > len + SEC_REMAIN_THRESHOLD
  BY DEF HasRoom, Fits
<1>3. from # {} => FirstMet(b, from) \in from
  BY <1>1, FirstMetIn
<1>4. /\ a.found = (from # {})
      /\ a.sec = IF from # {} THEN FirstMet(b, from) ELSE 0
      /\ a.gcReq = (req \/ (using = {} /\ Empties(img) # {} /\ ~spare))
  BY DEF alloc_kv
<1> HIDE DEF a, from, using, spare
<1>5. a.found \in BOOLEAN /\ a.gcReq \in BOOLEAN
  BY <1>4
<1>6. a.sec \in Sector
  BY <1>1, <1>3, <1>4, ZeroSector
<1>7. a.found => a.sec \in from
  BY <1>3, <1>4
<1> QED BY <1>2, <1>5, <1>6, <1>7 DEF a

----------------------------------------------------------------------------
(* The database *)

\* What the frames are after a step that does not go on to the body of a node.
LocalOK(label, l) == label \in Labels \ {"PutBody"} /\ l \in Local /\ ArgsOK(label, l)

----------------------------------------------------------------------------
(* Frames *)

\* The locals between two calls are typed.
LEMMA NoLocalType == NoLocal \in Local
<1>1. NoLocal.job \in Job
  BY ZeroSector DEF NoLocal, Job, Ptr, NoPtr
<1>2. NoLocal.new \in NewFrame
  BY DEF NoLocal, NewFrame
<1>3. NoLocal.del \in DelFrame
  BY ZeroSector DEF NoLocal, DelFrame, Ptr, NoPtr
<1>4. NoLocal.put \in PutFrame
  BY ZeroSector DEF NoLocal, PutFrame
<1>5. NoLocal.gc \in GcFrame
  BY ZeroSector DEF NoLocal, GcFrame
<1>6. NoLocal.mv \in MvFrame
  BY ZeroSector DEF NoLocal, MvFrame, Ptr, NoPtr
<1>7. /\ NoLocal.fmt \in FmtFrame /\ NoLocal.def \in DefFrame
      /\ NoLocal.load \in LoadFrame
  BY ZeroSector DEF NoLocal, FmtFrame, DefFrame, LoadFrame
<1> QED BY <1>1, <1>2, <1>3, <1>4, <1>5, <1>6, <1>7 DEF NoLocal, Local

\* Outside of a call, and at the places a call returns to, no argument is in use.
LEMMA NoLocalOK ==
  /\ \A label \in {"Idle", "Off"} : LocalOK(label, NoLocal)
  /\ FramesOK(NoLocal)
BY NoLocalType DEF LocalOK, Labels, ArgsOK, FramesOK, InSet, PutLive, PutWaits, MvLive,
                   PutPcs, DelPcs, NoLocal

\* The frames of a set of locals are typed.
LEMMA FrameTypes ==
  ASSUME NEW l \in Local
  PROVE  /\ l.job \in Job /\ l.new \in NewFrame /\ l.del \in DelFrame /\ l.put \in PutFrame
         /\ l.gc \in GcFrame /\ l.mv \in MvFrame /\ l.fmt \in FmtFrame
         /\ l.def \in DefFrame /\ l.load \in LoadFrame
BY DEF Local

\* A change of one frame that does not hold an argument keeps FramesOK.
LEMMA FrameUpdate ==
  ASSUME NEW l \in Local, FramesOK(l)
  PROVE  /\ \A x \in DelFrame : LET m == [l EXCEPT !.del = x] IN m \in Local /\ FramesOK(m)
         /\ \A x \in PutFrame : LET m == [l EXCEPT !.put = x] IN m \in Local /\ FramesOK(m)
         /\ \A x \in MvFrame : LET m == [l EXCEPT !.mv = x] IN m \in Local /\ FramesOK(m)
         /\ \A x \in FmtFrame : LET m == [l EXCEPT !.fmt = x] IN m \in Local /\ FramesOK(m)
         /\ \A x \in DefFrame : LET m == [l EXCEPT !.def = x] IN m \in Local /\ FramesOK(m)
         /\ \A x \in LoadFrame : LET m == [l EXCEPT !.load = x] IN m \in Local /\ FramesOK(m)
         /\ \A x \in GcFrame : (x.ret = "NewKv" => NewOK(l)) =>
               LET m == [l EXCEPT !.gc = x] IN m \in Local /\ FramesOK(m)
<1>1. ASSUME NEW x \in DelFrame
      PROVE  LET m == [l EXCEPT !.del = x] IN m \in Local /\ FramesOK(m)
  BY DEF Local, FramesOK, NewOK
<1>2. ASSUME NEW x \in PutFrame
      PROVE  LET m == [l EXCEPT !.put = x] IN m \in Local /\ FramesOK(m)
  BY DEF Local, FramesOK, NewOK
<1>3. ASSUME NEW x \in MvFrame
      PROVE  LET m == [l EXCEPT !.mv = x] IN m \in Local /\ FramesOK(m)
  BY DEF Local, FramesOK, NewOK
<1>4. ASSUME NEW x \in FmtFrame
      PROVE  LET m == [l EXCEPT !.fmt = x] IN m \in Local /\ FramesOK(m)
  BY DEF Local, FramesOK, NewOK
<1>5. ASSUME NEW x \in DefFrame
      PROVE  LET m == [l EXCEPT !.def = x] IN m \in Local /\ FramesOK(m)
  BY DEF Local, FramesOK, NewOK
<1>6. ASSUME NEW x \in LoadFrame
      PROVE  LET m == [l EXCEPT !.load = x] IN m \in Local /\ FramesOK(m)
  BY DEF Local, FramesOK, NewOK
<1>7. ASSUME NEW x \in GcFrame, x.ret = "NewKv" => NewOK(l)
      PROVE  LET m == [l EXCEPT !.gc = x] IN m \in Local /\ FramesOK(m)
  BY <1>7 DEF Local, FramesOK, NewOK
<1> QED BY <1>1, <1>2, <1>3, <1>4, <1>5, <1>6, <1>7

\* The labels at which no argument of a key or a value is in use.
Plain == {"GcStart", "GcSector", "GcNode", "GcFormatted", "FmtErase", "FmtHdr", "DefFormat",
          "DefKv", "LoadHdr", "LoadGc", "LoadScan", "LoadPass", "LoadCollect"}

\* At a plain label the frames have only to be typed.
LEMMA PlainOK ==
  ASSUME NEW l \in Local, FramesOK(l), NEW label \in Plain
  PROVE  LocalOK(label, l)
BY DEF LocalOK, ArgsOK, Plain, Labels, InSet, PutLive, PutWaits, MvLive, PutPcs, DelPcs

----------------------------------------------------------------------------
(* Calls and returns *)

\* A call of del_kv finds its arguments, and keeps those of the function that waits for it.
LEMMA DelCallOK ==
  ASSUME NEW l \in Local, FramesOK(l), NEW p \in Ptr, NEW c \in BOOLEAN,
         NEW r \in {"PutSec", "SetEnd", "Idle", "MvAlloc", "MvReturn"},
         r \in {"PutSec", "SetEnd"} => l.job.op = "Set",
         r = "PutSec" => Stored(l.put.key, l.put.val),
         r = "MvAlloc" => Stored(l.mv.key, l.mv.val),
         DelCall(l, p, c, r)
  PROVE  LocalOK(pc', local')
<1> DEFINE x == [ptr |-> p, complete |-> c, ret |-> r]
           m == [l EXCEPT !.del = x]
<1>1. x \in DelFrame
  BY DEF DelFrame
<1>2. m \in Local /\ FramesOK(m)
  BY <1>1, FrameUpdate
<1>3. /\ m.del.ret = r /\ m.job = l.job /\ m.put = l.put /\ m.mv = l.mv
  BY DEF Local
<1>4. pc' = "DelStatus" /\ local' = m
  BY DEF DelCall, Goto
<1> HIDE DEF m, x
<1>5. ArgsOK("DelStatus", m)
  BY <1>2, <1>3 DEF ArgsOK, InSet, PutLive, PutWaits, MvLive, PutPcs, DelPcs
<1> QED BY <1>2, <1>4, <1>5 DEF LocalOK, Labels

\* A call of gc_collect_by_free_size; new_kv goes on with its own arguments behind it.
LEMMA GcCallOK ==
  ASSUME NEW l \in Local, FramesOK(l), NEW free \in Nat,
         NEW r \in {"NewKv", "Idle", "LoadGc", "LoadScan"}, r = "NewKv" => NewOK(l),
         GcCall(l, free, r)
  PROVE  LocalOK(pc', local')
<1> DEFINE x == [NoLocal.gc EXCEPT !.free = free, !.ret = r]
           m == [l EXCEPT !.gc = x]
<1>1. x \in GcFrame /\ x.ret = r
  BY ZeroSector DEF GcFrame, NoLocal
<1>2. m \in Local /\ FramesOK(m)
  BY <1>1, FrameUpdate
<1>3. pc' = "GcStart" /\ local' = m
  BY DEF GcCall, Goto
<1> HIDE DEF m
<1> QED BY <1>2, <1>3, PlainOK DEF Plain

\* gc_collect_by_free_size returns to where it was called.
LEMMA GcReturnOK ==
  ASSUME NEW l \in Local, FramesOK(l), GcReturn(l)
  PROVE  LocalOK(pc', local') /\ gcRequest' \in BOOLEAN
<1>1. CASE l.gc.ret = "Idle"
  BY <1>1, NoLocalOK DEF GcReturn, Goto
<1>2. CASE l.gc.ret # "Idle"
  <2> DEFINE m == [l EXCEPT !.gc = NoLocal.gc]
  <2>1. l.gc.ret \in {"NewKv", "LoadGc", "LoadScan"}
    BY <1>2, FrameTypes DEF GcFrame
  <2>2. NoLocal.gc \in GcFrame /\ NoLocal.gc.ret = "Idle"
    BY NoLocalType, FrameTypes DEF NoLocal
  <2>3. m \in Local /\ FramesOK(m) /\ (NewOK(l) => NewOK(m))
    BY <2>2, FrameUpdate DEF NewOK, Local
  <2>4. pc' = l.gc.ret /\ local' = m
    BY <1>2 DEF GcReturn, Goto
  <2>5. l.gc.ret = "NewKv" => NewOK(l)
    BY DEF FramesOK
  <2> HIDE DEF m
  <2>6. ArgsOK(l.gc.ret, m)
    BY <2>1, <2>3, <2>5 DEF ArgsOK, InSet, PutLive, PutWaits, MvLive, PutPcs, DelPcs
  <2>7. l.gc.ret \in Labels \ {"PutBody"}
    BY <2>1 DEF Labels
  <2> QED BY <2>3, <2>4, <2>6, <2>7 DEF LocalOK, GcReturn
<1> QED BY <1>1, <1>2 DEF GcReturn

\* A call of format_sector with a sector of the database.
LEMMA FmtCallOK ==
  ASSUME NEW l \in Local, FramesOK(l), NEW s \in Sector,
         NEW r \in {"GcFormatted", "LoadHdr", "DefFormat"}, FmtCall(l, s, r)
  PROVE  LocalOK(pc', local')
<1> DEFINE x == [sec |-> s, ret |-> r]
           m == [l EXCEPT !.fmt = x]
<1>1. x \in FmtFrame
  BY DEF FmtFrame
<1>2. m \in Local /\ FramesOK(m)
  BY <1>1, FrameUpdate
<1>3. pc' = "FmtErase" /\ local' = m
  BY DEF FmtCall, Goto
<1> HIDE DEF m
<1> QED BY <1>2, <1>3, PlainOK DEF Plain

\* A call of new_kv with a key and a value of the database.
LEMMA NewCallOK ==
  ASSUME NEW l \in Local, FramesOK(l), NEW k \in Keys, NEW v \in Values,
         NEW r \in {"SetFind", "DefKv"}, r = "SetFind" => l.job.op = "Set",
         NewCall(l, k, v, r)
  PROVE  LocalOK(pc', local')
<1> DEFINE x == [key |-> k, val |-> v, tried |-> FALSE, ret |-> r]
           m == [l EXCEPT !.new = x]
<1>1. x \in NewFrame
  BY DEF NewFrame
<1>2. m \in Local
  BY <1>1 DEF Local
<1>3. m.new = x /\ m.job = l.job /\ m.gc = l.gc
  BY DEF Local
<1>4. NewOK(m)
  BY <1>3 DEF NewOK, Stored
<1>5. pc' = "NewKv" /\ local' = m
  BY DEF NewCall, Goto
<1> HIDE DEF m
<1>6. FramesOK(m)
  BY <1>3, <1>4 DEF FramesOK
<1>7. ArgsOK("NewKv", m)
  BY <1>4, <1>6 DEF ArgsOK, InSet, PutLive, PutWaits, MvLive, PutPcs, DelPcs
<1> QED BY <1>2, <1>5, <1>7 DEF LocalOK, Labels

\* kv_load begins to look for interrupted collections.
LEMMA LoadGcCallOK ==
  ASSUME NEW l \in Local, FramesOK(l), NEW base \in Sector, LoadGcCall(l, base)
  PROVE  LocalOK(pc', local')
<1> DEFINE x == [NoLocal.load EXCEPT !.from = base]
           m1 == [l EXCEPT !.load = x]
           m == [m1 EXCEPT !.def = NoLocal.def]
<1>1. x \in LoadFrame /\ NoLocal.def \in DefFrame
  BY ZeroSector DEF LoadFrame, DefFrame, NoLocal
<1>2. m1 \in Local /\ FramesOK(m1)
  BY <1>1, FrameUpdate
<1>3. m \in Local /\ FramesOK(m)
  <2> HIDE DEF m1
  <2> QED BY <1>1, <1>2, FrameUpdate
<1>4. pc' = "LoadGc" /\ local' = m
  BY DEF LoadGcCall, Goto
<1> HIDE DEF m
<1> QED BY <1>3, <1>4, PlainOK DEF Plain

\* The history variable of the job is no argument.
LEMMA JobDone ==
  ASSUME NEW l \in Local, FramesOK(l), NEW b \in BOOLEAN
  PROVE  LET m == [l EXCEPT !.job.done = b]
         IN  /\ m \in Local /\ FramesOK(m)
             /\ m.job.op = l.job.op /\ m.job.old = l.job.old
             /\ m.new = l.new /\ m.del = l.del /\ m.put = l.put /\ m.gc = l.gc
             /\ m.mv = l.mv /\ m.fmt = l.fmt /\ m.def = l.def /\ m.load = l.load
<1> DEFINE m == [l EXCEPT !.job.done = b]
<1>1. m \in Local
  BY DEF Local, Job
<1>2. /\ m.job.op = l.job.op /\ m.job.old = l.job.old
      /\ m.job.key = l.job.key /\ m.job.val = l.job.val
      /\ m.new = l.new /\ m.del = l.del /\ m.put = l.put /\ m.gc = l.gc
      /\ m.mv = l.mv /\ m.fmt = l.fmt /\ m.def = l.def /\ m.load = l.load
  BY DEF Local, Job
<1> HIDE DEF m
<1>3. FramesOK(m)
  BY <1>2 DEF FramesOK, NewOK
<1> QED BY <1>1, <1>2, <1>3 DEF m

\* move_kv is called with a node of the image whose CRC is right.
LEMMA MvCallOK ==
  ASSUME flash \in Flash, NodesNamed,
         NEW l \in Local, FramesOK(l), NEW s \in Sector,
         NEW j \in DOMAIN flash[s].kvs, flash[s].kvs[j].crc,
         NEW r \in {"GcNode", "LoadPass"}, MvCall(l, s, j, r)
  PROVE  LocalOK(pc', local')
<1> DEFINE n == flash[s].kvs[j]
           p == [found |-> TRUE, sec |-> s, idx |-> j]
           x == [ptr |-> p, key |-> n.key, val |-> n.val, len |-> n.len,
                 pre |-> n.status = "PreDelete", ok |-> FALSE, ret |-> r]
           m == [l EXCEPT !.mv = x]
<1>1. flash[s] \in SectorImage
  BY DEF Flash
<1>2. n \in KvNode /\ j \in Nat
  BY <1>1, NodeType DEF SectorImage
<1>3. Stored(n.key, n.val)
  BY DEF NodesNamed
<1> HIDE DEF n
<1>4. p \in Ptr
  BY <1>2 DEF Ptr
<1> HIDE DEF p
<1>5. x \in MvFrame /\ Stored(x.key, x.val)
  BY <1>2, <1>3, <1>4 DEF MvFrame, KvNode
<1>6. m \in Local /\ FramesOK(m)
  BY <1>5, FrameUpdate
<1>7. m.mv = x
  BY DEF Local
<1>8. IF n.status = "Write" THEN DelCall(m, p, FALSE, "MvAlloc") ELSE Goto("MvAlloc", m)
  BY DEF MvCall, n, p
<1> HIDE DEF m, x
<1>9. CASE n.status = "Write"
  BY <1>4, <1>5, <1>6, <1>7, <1>8, <1>9, DelCallOK
<1>10. CASE n.status # "Write"
  <2>1. ArgsOK("MvAlloc", m)
    BY <1>5, <1>6, <1>7 DEF ArgsOK, InSet, PutLive, PutWaits, MvLive, PutPcs, DelPcs
  <2> QED BY <1>6, <1>8, <1>10, <2>1 DEF LocalOK, Labels, Goto
<1> QED BY <1>9, <1>10

\* move_kv returns to the walk over the nodes that called it.
LEMMA MvReturnOK ==
  ASSUME NEW l \in Local, FramesOK(l), NEW ok, MvReturn(l, ok)
  PROVE  LocalOK(pc', local')
<1> DEFINE m == [l EXCEPT !.mv = NoLocal.mv]
<1>1. NoLocal.mv \in MvFrame
  BY NoLocalType, FrameTypes
<1>2. m \in Local /\ FramesOK(m)
  BY <1>1, FrameUpdate
<1>3. pc' \in {"GcNode", "LoadPass", "LoadCollect"} /\ local' = m
  BY DEF MvReturn, Goto
<1> HIDE DEF m
<1> QED BY <1>2, <1>3, PlainOK DEF Plain

\* What a failed or a successful write makes a call return.
LEMMA WriteResultType == \A ok \in BOOLEAN : WriteResult(ok) \in Results
BY DEF WriteResult, Results

\* del_kv returns to a function that finds its arguments as it left them.
LEMMA DelReturnOK ==
  ASSUME pc \in DelPcs, local \in Local, ArgsOK(pc, local), result \in Results,
         NEW ok \in BOOLEAN, DelReturn(ok)
  PROVE  LocalOK(pc', local') /\ result' \in Results
<1> DEFINE r == local.del.ret
           l == [local EXCEPT !.del = NoLocal.del]
<1>1. FramesOK(local) /\ NoLocal.del \in DelFrame
  BY NoLocalType, FrameTypes DEF ArgsOK
<1>2. l \in Local /\ FramesOK(l)
  BY <1>1, FrameUpdate
<1>3. /\ l.job = local.job /\ l.put = local.put /\ l.mv = local.mv
  BY DEF Local
<1>4. /\ r \in {"PutSec", "SetEnd"} => local.job.op = "Set"
      /\ r = "PutSec" => Stored(local.put.key, local.put.val)
      /\ r = "MvAlloc" => Stored(local.mv.key, local.mv.val)
  BY DEF ArgsOK, InSet, PutLive, PutWaits, MvLive
<1>5. \/ r = "PutSec" /\ Goto("PutSec", l) /\ UNCHANGED result
      \/ r \in {"PutSec", "SetEnd"} /\ Goto("SetEnd", l)
           /\ result' \in {"WriteErr", WriteResult(ok)}
      \/ Return(WriteResult(ok))
      \/ r = "MvAlloc" /\ Goto("MvAlloc", l) /\ UNCHANGED result
      \/ MvReturn(l, l.mv.ok) /\ UNCHANGED result
  BY DEF DelReturn
<1> HIDE DEF l, r
<1>6. CASE r = "PutSec" /\ Goto("PutSec", l) /\ UNCHANGED result
  <2>1. ArgsOK("PutSec", l)
    BY <1>2, <1>3, <1>4, <1>6 DEF ArgsOK, InSet, PutLive, PutWaits, MvLive, PutPcs, DelPcs
  <2> QED BY <1>2, <1>6, <2>1 DEF LocalOK, Labels, Goto
<1>7. CASE r \in {"PutSec", "SetEnd"} /\ Goto("SetEnd", l)
           /\ result' \in {"WriteErr", WriteResult(ok)}
  <2>1. ArgsOK("SetEnd", l)
    BY <1>2, <1>3, <1>4, <1>7 DEF ArgsOK, InSet, PutLive, PutWaits, MvLive, PutPcs, DelPcs
  <2>2. result' \in Results
    BY <1>7, WriteResultType DEF Results
  <2> QED BY <1>2, <1>7, <2>1, <2>2 DEF LocalOK, Labels, Goto
<1>8. CASE Return(WriteResult(ok))
  BY <1>8, NoLocalOK, WriteResultType DEF Return, Goto
<1>9. CASE r = "MvAlloc" /\ Goto("MvAlloc", l) /\ UNCHANGED result
  <2>1. ArgsOK("MvAlloc", l)
    BY <1>2, <1>3, <1>4, <1>9 DEF ArgsOK, InSet, PutLive, PutWaits, MvLive, PutPcs, DelPcs
  <2> QED BY <1>2, <1>9, <2>1 DEF LocalOK, Labels, Goto
<1>10. CASE MvReturn(l, l.mv.ok) /\ UNCHANGED result
  BY <1>2, <1>10, MvReturnOK
<1> QED BY <1>5, <1>6, <1>7, <1>8, <1>9, <1>10

\* The index of the next default.
LEMMA DefNext ==
  ASSUME NEW l \in Local, FramesOK(l)
  PROVE  LET m == [l EXCEPT !.def.i = @ + 1] IN m \in Local /\ FramesOK(m)
<1> DEFINE x == [l.def EXCEPT !.i = @ + 1]
           m == [l EXCEPT !.def = x]
<1>1. l.def \in DefFrame
  BY FrameTypes
<1>2. x \in DefFrame
  BY <1>1 DEF DefFrame
<1>3. m \in Local /\ FramesOK(m)
  BY <1>2, FrameUpdate
<1>4. [l EXCEPT !.def.i = @ + 1] = m
  BY <1>1 DEF Local, DefFrame
<1> HIDE DEF m
<1> QED BY <1>3, <1>4

\* create_kv_blob and move_kv_body return, or go on to delete the old node.
LEMMA PutReturnOK ==
  ASSUME pc \in PutPcs, local \in Local, ArgsOK(pc, local), result \in Results,
         gcRequest \in BOOLEAN, NEW ok \in BOOLEAN, PutReturn(ok)
  PROVE  LocalOK(pc', local') /\ result' \in Results /\ gcRequest' \in BOOLEAN
<1> DEFINE r == local.put.ret
           l == [local EXCEPT !.put = NoLocal.put]
           done == [l EXCEPT !.job.done = ok]
           dl == [l EXCEPT !.def.i = @ + 1]
           x == [l.mv EXCEPT !.ok = ok]
           ml == [l EXCEPT !.mv.ok = ok]
<1>1. FramesOK(local) /\ NoLocal.put \in PutFrame
  BY NoLocalType, FrameTypes DEF ArgsOK
<1>2. l \in Local /\ FramesOK(l) /\ l.job = local.job
  BY <1>1, FrameUpdate DEF Local
<1>3. r = "SetEnd" => local.job.op = "Set"
  BY DEF ArgsOK, InSet
<1>4. \/ r = "SetEnd" /\ DelCall(done, l.job.old, TRUE, "SetEnd") /\ UNCHANGED result
      \/ r = "SetEnd" /\ Goto("SetEnd", done) /\ result' = WriteResult(ok)
      \/ Goto("DefKv", dl) /\ UNCHANGED result
      \/ DelCall(ml, l.mv.ptr, TRUE, "MvReturn") /\ UNCHANGED result
  BY DEF PutReturn
<1>5. gcRequest' \in BOOLEAN
  BY DEF PutReturn
<1> HIDE DEF l, r
<1>6. /\ done \in Local /\ FramesOK(done) /\ done.job.op = l.job.op
      /\ dl \in Local /\ FramesOK(dl)
  BY <1>2, JobDone, DefNext
<1>7. ml \in Local /\ FramesOK(ml)
  <2>1. x \in MvFrame
    BY <1>2, FrameTypes DEF MvFrame
  <2>2. ml = [l EXCEPT !.mv = x]
    BY <1>2 DEF Local
  <2> HIDE DEF x, ml
  <2> QED BY <1>2, <2>1, <2>2, FrameUpdate
<1>8. l.job.old \in Ptr /\ l.mv.ptr \in Ptr
  BY <1>2, FrameTypes DEF Job, MvFrame
<1> HIDE DEF done, dl, ml
<1>9. CASE r = "SetEnd" /\ DelCall(done, l.job.old, TRUE, "SetEnd") /\ UNCHANGED result
  BY <1>2, <1>3, <1>5, <1>6, <1>8, <1>9, DelCallOK
<1>10. CASE r = "SetEnd" /\ Goto("SetEnd", done) /\ result' = WriteResult(ok)
  <2>1. ArgsOK("SetEnd", done)
    BY <1>2, <1>3, <1>6, <1>10
    DEF ArgsOK, InSet, PutLive, PutWaits, MvLive, PutPcs, DelPcs
  <2> QED BY <1>5, <1>6, <1>10, <2>1, WriteResultType DEF LocalOK, Labels, Goto
<1>11. CASE Goto("DefKv", dl) /\ UNCHANGED result
  BY <1>5, <1>6, <1>11, PlainOK DEF Plain, Goto
<1>12. CASE DelCall(ml, l.mv.ptr, TRUE, "MvReturn") /\ UNCHANGED result
  BY <1>5, <1>7, <1>8, <1>12, DelCallOK
<1> QED BY <1>4, <1>9, <1>10, <1>11, <1>12

\* format_sector returns to where it was called.
LEMMA FmtReturnOK ==
  ASSUME local \in Local, FramesOK(local), result \in Results, oldest \in Sector,
         NEW ok, FmtReturn(ok)
  PROVE  LocalOK(pc', local') /\ result' \in Results
<1> DEFINE r == local.fmt.ret
           l == [local EXCEPT !.fmt = NoLocal.fmt]
<1>1. NoLocal.fmt \in FmtFrame /\ r \in {"GcFormatted", "LoadHdr", "DefFormat"}
  BY NoLocalType, FrameTypes DEF FmtFrame
<1>2. l \in Local /\ FramesOK(l)
  BY <1>1, FrameUpdate
<1>3. \/ Goto(r, l) /\ UNCHANGED result
      \/ Return("EraseErr") \/ Return("WriteErr")
      \/ LoadGcCall(l, oldest) /\ UNCHANGED result
  BY DEF FmtReturn
<1> HIDE DEF l, r
<1>4. CASE Goto(r, l) /\ UNCHANGED result
  BY <1>1, <1>2, <1>4, PlainOK DEF Plain, Goto
<1>5. CASE Return("EraseErr") \/ Return("WriteErr")
  BY <1>5, NoLocalOK DEF Return, Goto, Results
<1>6. CASE LoadGcCall(l, oldest) /\ UNCHANGED result
  BY <1>2, <1>6, LoadGcCallOK
<1> QED BY <1>3, <1>4, <1>5, <1>6

----------------------------------------------------------------------------
(* The storage calls *)

\* The nodes of a sector are named.
SecNamed(sec) == \A j \in DOMAIN sec.kvs : sec.kvs[j].crc => Stored(sec.kvs[j].key, sec.kvs[j].val)

MediumOK == failing \in BOOLEAN /\ losses \in 0 .. MaxPowerLoss /\ faults \in 0 .. MaxFaults
FlashOK == flash \in Flash /\ NodesNamed /\ MediumOK

\* The bounds are numbers.
LEMMA BoundsType == MaxPowerLoss \in Nat /\ MaxFaults \in Nat
BY BoundsAssumption

\* A storage call with a typed image keeps the image typed, whether or not it fails.
LEMMA ProgramOK ==
  ASSUME FlashOK, NEW s \in Sector, NEW image \in SectorImage, SecNamed(image),
         NEW ok \in BOOLEAN, Program(s, image, ok)
  PROVE  FlashOK'
<1>1. MediumOK'
  BY BoundsAssumption DEF FlashOK, MediumOK, Program, Call
<1>2. flash' = flash \/ flash' = [flash EXCEPT ![s] = image]
  BY DEF Program
<1>3. flash' \in Flash
  BY <1>2 DEF FlashOK, Flash
<1>4. NodesNamed'
  BY <1>2 DEF FlashOK, NodesNamed, Flash, SecNamed
<1> QED BY <1>1, <1>3, <1>4 DEF FlashOK

\* Without a call nothing changes.
LEMMA NoCallOK == ASSUME FlashOK, NoCall PROVE FlashOK'
BY DEF FlashOK, NoCall, NodesNamed, MediumOK, medium

\* The image of a sector with one node changed, or none when it is not there.
LEMMA WithNodeOK ==
  ASSUME FlashOK, NEW s \in Sector, NEW j \in Nat, NEW node,
         j \in DOMAIN flash[s].kvs =>
            node \in KvNode /\ (node.crc => Stored(node.key, node.val))
  PROVE  WithNode(s, j, node) \in SectorImage /\ SecNamed(WithNode(s, j, node))
<1> DEFINE sec == flash[s]
           kvs == [sec.kvs EXCEPT ![j] = node]
<1>1. sec \in SectorImage /\ SecNamed(sec)
  BY DEF FlashOK, Flash, NodesNamed, SecNamed
<1>2. WithNode(s, j, node) = [sec EXCEPT !.kvs = kvs]
  BY <1>1 DEF WithNode, SectorImage
<1> HIDE DEF sec
<1>3. kvs \in Seq(KvNode) /\ DOMAIN kvs = DOMAIN sec.kvs
  <2>1. sec.kvs \in Seq(KvNode)
    BY <1>1 DEF SectorImage
  <2>2. CASE j \in DOMAIN sec.kvs
    BY <2>1, <2>2 DEF sec
  <2>3. CASE j \notin DOMAIN sec.kvs
    <3>1. kvs = sec.kvs
      BY <2>1, <2>3
    <3> QED BY <2>1, <3>1
  <2> QED BY <2>2, <2>3
<1>4. \A i \in DOMAIN kvs : kvs[i].crc => Stored(kvs[i].key, kvs[i].val)
  BY <1>1, <1>3 DEF SecNamed, sec
<1> HIDE DEF kvs
<1>5. [sec EXCEPT !.kvs = kvs] \in SectorImage /\ [sec EXCEPT !.kvs = kvs].kvs = kvs
  BY <1>1, <1>3 DEF SectorImage
<1> QED BY <1>2, <1>4, <1>5 DEF SecNamed

\* A mark in the header of a sector.
LEMMA MarkOK ==
  ASSUME FlashOK, NEW s \in Sector
  PROVE  /\ \A x \in SectorDirtyStatus :
               LET img == [flash[s] EXCEPT !.dirty = x] IN img \in SectorImage /\ SecNamed(img)
         /\ \A x \in SectorStoreStatus :
               LET img == [flash[s] EXCEPT !.store = x] IN img \in SectorImage /\ SecNamed(img)
<1>1. flash[s] \in SectorImage /\ SecNamed(flash[s])
  BY DEF FlashOK, Flash, NodesNamed, SecNamed
<1> QED BY <1>1 DEF SectorImage, SecNamed

\* An erased and a formatted sector are typed.
LEMMA FormatOK == /\ Erased \in SectorImage /\ SecNamed(Erased)
                  /\ Formatted \in SectorImage /\ SecNamed(Formatted)
<1>1. <<>> \in Seq(KvNode) /\ DOMAIN <<>> = {}
  OBVIOUS
<1> QED BY <1>1 DEF Erased, Formatted, SectorImage, SecNamed, SectorStoreStatus, SectorDirtyStatus

----------------------------------------------------------------------------
(* The actions *)

RamOK == oldest \in Sector /\ gcRequest \in BOOLEAN /\ inRecovery \in BOOLEAN
TInv == TypeOK /\ ArgsOK(pc, local) /\ NamesOK

\* What an action starts from.
LEMMA TInvParts ==
  ASSUME TInv
  PROVE  /\ FlashOK /\ RamOK /\ result \in Results
         /\ pc \in Labels /\ local \in Local /\ FramesOK(local) /\ ArgsOK(pc, local)
         /\ \A s \in Sector : flash[s] \in SectorImage
BY DEF TInv, TypeOK, NamesOK, FlashOK, MediumOK, RamOK, Flash, ArgsOK

\* What an action has to establish when it does not go on to the body of a node.
LEMMA TInvNext ==
  ASSUME FlashOK', RamOK', result' \in Results, LocalOK(pc', local')
  PROVE  TInv'
BY DEF TInv, TypeOK, NamesOK, FlashOK, MediumOK, RamOK, Flash, LocalOK, BodyNamed

\* gc_collect_by_free_size begins.
LEMMA GcStartOK == ASSUME TInv, GcStart PROVE TInv'
<1>1. /\ FlashOK /\ RamOK /\ result \in Results /\ local \in Local /\ FramesOK(local)
  BY TInvParts
<1>2. FlashOK' /\ oldest' = oldest /\ inRecovery' = inRecovery /\ result' = result
  BY <1>1, NoCallOK DEF GcStart
<1>3. PICK last : /\ last \in Sector
                  /\ \/ /\ Goto("GcSector", [local EXCEPT !.gc.from = oldest, !.gc.last = last])
                        /\ UNCHANGED gcRequest
                     \/ GcReturn(local)
  <2> DEFINE E == {i \in Sector : Nth(oldest, i) \in Empties(flash)}
             last == IF E = {} THEN 0 ELSE Nth(oldest, Greatest(E))
  <2>1. last \in Sector
    <3>1. CASE E = {}
      BY <3>1, ZeroSector
    <3>2. CASE E # {}
      <4>1. Greatest(E) \in Sector
        BY <3>2, GreatestExists
      <4>2. Greatest(E) \in Nat
        BY <4>1, GeometryType DEF Sector
      <4> QED BY <1>1, <3>2, <4>2, NthType DEF RamOK
    <3> QED BY <3>1, <3>2
  <2>2. \/ /\ Goto("GcSector", [local EXCEPT !.gc.from = oldest, !.gc.last = last])
           /\ UNCHANGED gcRequest
        \/ GcReturn(local)
    BY DEF GcStart
  <2> QED BY <2>1, <2>2
<1> DEFINE x == [local.gc EXCEPT !.from = oldest, !.last = last]
           m == [local EXCEPT !.gc = x]
<1>4. CASE Goto("GcSector", [local EXCEPT !.gc.from = oldest, !.gc.last = last])
             /\ UNCHANGED gcRequest
  <2>1. x \in GcFrame /\ x.ret = local.gc.ret
    BY <1>1, <1>3, FrameTypes DEF GcFrame, RamOK
  <2>2. [local EXCEPT !.gc.from = oldest, !.gc.last = last] = m
    BY <1>1, FrameTypes DEF Local, GcFrame
  <2>3. m \in Local /\ FramesOK(m)
    BY <1>1, <2>1, FrameUpdate DEF FramesOK
  <2>4. pc' = "GcSector" /\ local' = m
    BY <1>4, <2>2 DEF Goto
  <2> HIDE DEF m
  <2>5. LocalOK(pc', local')
    BY <2>3, <2>4, PlainOK DEF Plain
  <2> QED BY <1>1, <1>2, <1>4, <2>5, TInvNext DEF RamOK
<1>5. CASE GcReturn(local)
  <2>1. LocalOK(pc', local') /\ gcRequest' \in BOOLEAN
    BY <1>1, <1>5, GcReturnOK
  <2> QED BY <1>1, <1>2, <2>1, TInvNext DEF RamOK
<1> QED BY <1>3, <1>4, <1>5

\* gc_collect_by_free_size: no dirty sector is left.
LEMMA GcEndOK == ASSUME TInv, GcEnd PROVE TInv'
<1>1. /\ FlashOK /\ RamOK /\ result \in Results /\ local \in Local /\ FramesOK(local)
  BY TInvParts
<1>2. FlashOK' /\ oldest' = oldest /\ inRecovery' = inRecovery /\ result' = result
  BY <1>1, NoCallOK DEF GcEnd
<1>3. LocalOK(pc', local') /\ gcRequest' \in BOOLEAN
  BY <1>1, GcReturnOK DEF GcEnd
<1> QED BY <1>1, <1>2, <1>3, TInvNext DEF RamOK

\* do_gc_one marks the next dirty sector of the walk.
LEMMA GcSectorOK == ASSUME TInv, NEW ok \in BOOLEAN, GcSector(ok) PROVE TInv'
<1> DEFINE i == Least(GcAhead)
           s == Nth(local.gc.from, i)
           x == [local.gc EXCEPT !.i = i, !.sec = s, !.idx = 0]
           m == [local EXCEPT !.gc = x]
<1>1. /\ FlashOK /\ RamOK /\ result \in Results /\ local \in Local /\ FramesOK(local)
  BY TInvParts
<1>2. local.gc \in GcFrame
  BY <1>1, FrameTypes
<1>3. i \in Nat
  <2>1. GcAhead \subseteq Nat /\ GcAhead # {}
    BY <1>2, GeometryType DEF GcSector, GcAhead, GcFrame
  <2> QED BY <2>1, LeastExists
<1>4. s \in Sector
  BY <1>2, <1>3, NthType DEF GcFrame
<1>5. /\ Program(s, [flash[s] EXCEPT !.dirty = "Gc"], ok)
      /\ Goto("GcNode", [local EXCEPT !.gc.i = i, !.gc.sec = s, !.gc.idx = 0])
      /\ UNCHANGED <<ram, result>>
  BY DEF GcSector
<1> HIDE DEF i, s
<1>6. FlashOK'
  BY <1>1, <1>4, <1>5, MarkOK, ProgramOK DEF SectorDirtyStatus
<1>7. x \in GcFrame /\ x.ret = local.gc.ret
  BY <1>2, <1>3, <1>4 DEF GcFrame
<1>8. [local EXCEPT !.gc.i = i, !.gc.sec = s, !.gc.idx = 0] = m
  BY <1>1, <1>2 DEF Local, GcFrame
<1>9. m \in Local /\ FramesOK(m)
  BY <1>1, <1>7, FrameUpdate DEF FramesOK
<1>10. pc' = "GcNode" /\ local' = m
  BY <1>5, <1>8 DEF Goto
<1> HIDE DEF m
<1>11. LocalOK(pc', local')
  BY <1>9, <1>10, PlainOK DEF Plain
<1> QED BY <1>1, <1>5, <1>6, <1>11, TInvNext DEF RamOK, ram

\* The walk over the nodes of the sector meets nodes of the image only.
LEMMA GcNodesOK ==
  ASSUME TInv, GcNodes # {}
  PROVE  LET j == Least(GcNodes)
         IN  j \in DOMAIN flash[local.gc.sec].kvs /\ flash[local.gc.sec].kvs[j].crc /\ j \in Nat
<1>1. local.gc.sec \in Sector /\ local.gc.idx \in Nat
  BY TInvParts, FrameTypes DEF GcFrame
<1>2. flash[local.gc.sec] \in SectorImage
  BY <1>1, TInvParts
<1>3. DOMAIN flash[local.gc.sec].kvs \subseteq Nat
  BY <1>2 DEF SectorImage
<1>4. GcNodes \subseteq Nat
  BY <1>3 DEF GcNodes, NodesFrom
<1>5. Least(GcNodes) \in GcNodes
  BY <1>4, LeastExists
<1> QED BY <1>4, <1>5 DEF GcNodes, NodesFrom, ToMove

\* do_gc_one moves a node.
LEMMA GcNodeOK == ASSUME TInv, GcNode PROVE TInv'
<1> DEFINE j == Least(GcNodes)
           x == [local.gc EXCEPT !.idx = j]
           m == [local EXCEPT !.gc = x]
<1>1. /\ FlashOK /\ RamOK /\ result \in Results /\ local \in Local /\ FramesOK(local)
  BY TInvParts
<1>2. local.gc \in GcFrame
  BY <1>1, FrameTypes
<1>3. j \in DOMAIN flash[local.gc.sec].kvs /\ flash[local.gc.sec].kvs[j].crc /\ j \in Nat
  BY GcNodesOK DEF GcNode
<1>4. /\ MvCall([local EXCEPT !.gc.idx = j], local.gc.sec, j, "GcNode")
      /\ NoCall /\ UNCHANGED <<ram, result>>
  BY DEF GcNode
<1> HIDE DEF j
<1>5. x \in GcFrame /\ x.ret = local.gc.ret /\ local.gc.sec \in Sector
  BY <1>2, <1>3 DEF GcFrame
<1>6. [local EXCEPT !.gc.idx = j] = m
  BY <1>1, <1>2 DEF Local, GcFrame
<1>7. m \in Local /\ FramesOK(m)
  BY <1>1, <1>5, FrameUpdate DEF FramesOK
<1>8. MvCall(m, local.gc.sec, j, "GcNode")
  BY <1>4, <1>6
<1> HIDE DEF m
<1>9. LocalOK(pc', local')
  BY <1>1, <1>3, <1>5, <1>7, <1>8, MvCallOK DEF FlashOK
<1>10. FlashOK'
  BY <1>1, <1>4, NoCallOK
<1> QED BY <1>1, <1>4, <1>9, <1>10, TInvNext DEF RamOK, ram

\* do_gc_one formats the sector it collected.
LEMMA GcEraseOK == ASSUME TInv, GcErase PROVE TInv'
<1>1. /\ FlashOK /\ RamOK /\ result \in Results /\ local \in Local /\ FramesOK(local)
  BY TInvParts
<1>2. local.gc.sec \in Sector
  BY <1>1, FrameTypes DEF GcFrame
<1>3. LocalOK(pc', local')
  BY <1>1, <1>2, FmtCallOK DEF GcErase
<1>4. FlashOK' /\ UNCHANGED <<ram, result>>
  BY <1>1, NoCallOK DEF GcErase
<1> QED BY <1>1, <1>3, <1>4, TInvNext DEF RamOK, ram

\* do_gc_one decides whether to go on, and rotates the oldest sector.
LEMMA GcFormattedOK == ASSUME TInv, GcFormatted PROVE TInv'
<1> DEFINE x == [local.gc EXCEPT !.i = local.gc.i + 1, !.last = local.gc.sec,
                                 !.sec = 0, !.idx = 0]
           m == [local EXCEPT !.gc = x]
<1>1. /\ FlashOK /\ RamOK /\ result \in Results /\ local \in Local /\ FramesOK(local)
  BY TInvParts
<1>2. local.gc \in GcFrame
  BY <1>1, FrameTypes
<1>3. /\ GcReturn(m) \/ (Goto("GcSector", m) /\ UNCHANGED gcRequest)
      /\ oldest' = get_next_sector_addr(local.gc.sec)
      /\ NoCall /\ UNCHANGED <<inRecovery, result>>
  <2>1. [local EXCEPT !.gc.i = local.gc.i + 1, !.gc.last = local.gc.sec,
                      !.gc.sec = 0, !.gc.idx = 0] = m
    BY <1>1, <1>2 DEF Local, GcFrame
  <2> HIDE DEF m
  <2> QED BY <2>1 DEF GcFormatted
<1>4. x \in GcFrame /\ x.ret = local.gc.ret
  <2>1. \A i \in Nat, t \in Sector :
           LET y == [local.gc EXCEPT !.i = i, !.last = t, !.sec = 0, !.idx = 0]
           IN  y \in GcFrame /\ y.ret = local.gc.ret
    BY <1>2, ZeroSector DEF GcFrame
  <2>2. local.gc.i + 1 \in Nat /\ local.gc.sec \in Sector
    BY <1>2 DEF GcFrame
  <2> QED BY <2>1, <2>2
<1>5. m \in Local /\ FramesOK(m)
  BY <1>1, <1>4, FrameUpdate DEF FramesOK
<1> HIDE DEF m
<1>6. LocalOK(pc', local') /\ gcRequest' \in BOOLEAN
  BY <1>1, <1>3, <1>5, GcReturnOK, PlainOK DEF Plain, Goto, RamOK
<1>7. oldest' \in Sector
  BY <1>2, <1>3, NextSectorType DEF GcFrame
<1> QED BY <1>1, <1>3, <1>6, <1>7, NoCallOK, TInvNext DEF RamOK

\* del_kv programs the status of a node; the address it has may be that of no node.
LEMMA DelStatusOK == ASSUME TInv, NEW ok \in BOOLEAN, DelStatus(ok) PROVE TInv'
<1> DEFINE del == local.del
           s == del.ptr.sec
           j == del.ptr.idx
           status == IF del.complete THEN "Deleted" ELSE "PreDelete"
           node == [flash[s].kvs[j] EXCEPT !.status = status]
           done == [local EXCEPT !.job.done = local.job.done \/ del.ret = "Idle"]
<1>1. /\ FlashOK /\ RamOK /\ result \in Results /\ local \in Local /\ FramesOK(local)
      /\ ArgsOK(pc, local)
  BY TInvParts
<1>2. s \in Sector /\ j \in Nat
  BY <1>1, FrameTypes DEF DelFrame, Ptr
<1>3. flash[s] \in SectorImage
  BY <1>2, TInvParts
<1>4. j \in DOMAIN flash[s].kvs => node \in KvNode /\ (node.crc => Stored(node.key, node.val))
  <2> SUFFICES ASSUME j \in DOMAIN flash[s].kvs
               PROVE  node \in KvNode /\ (node.crc => Stored(node.key, node.val))
    OBVIOUS
  <2>1. flash[s].kvs[j] \in KvNode
    BY <1>3, NodeType
  <2>2. flash[s].kvs[j].crc => Stored(flash[s].kvs[j].key, flash[s].kvs[j].val)
    BY <1>1, <1>2 DEF FlashOK, NodesNamed
  <2>3. status \in KvStatus
    BY DEF KvStatus
  <2> HIDE DEF status, s, j
  <2> QED BY <2>1, <2>2, <2>3 DEF KvNode
<1>5. /\ Program(s, WithNode(s, j, node), ok)
      /\ \/ Goto("DelDirty", done) /\ UNCHANGED result
         \/ DelReturn(FALSE)
      /\ UNCHANGED ram /\ pc = "DelStatus"
  BY DEF DelStatus
<1> HIDE DEF node
<1>6. FlashOK'
  BY <1>1, <1>2, <1>4, <1>5, WithNodeOK, ProgramOK
<1>7. LocalOK(pc', local') /\ result' \in Results
  <2>1. CASE Goto("DelDirty", done) /\ UNCHANGED result
    <3>1. /\ done \in Local /\ FramesOK(done)
          /\ done.job.op = local.job.op
          /\ done.del = local.del /\ done.put = local.put /\ done.mv = local.mv
      <4>1. (local.job.done \/ del.ret = "Idle") \in BOOLEAN
        BY <1>1, FrameTypes DEF Job
      <4> QED BY <1>1, <4>1, JobDone
    <3> HIDE DEF done
    <3>2. ArgsOK("DelDirty", done)
      BY <1>1, <1>5, <3>1 DEF ArgsOK, InSet, PutLive, PutWaits, MvLive, PutPcs, DelPcs
    <3> QED BY <1>1, <2>1, <3>1, <3>2 DEF LocalOK, Labels, Goto
  <2>2. CASE DelReturn(FALSE)
    BY <1>1, <1>5, <2>2, DelReturnOK DEF DelPcs
  <2> QED BY <1>5, <2>1, <2>2
<1> QED BY <1>1, <1>5, <1>6, <1>7, TInvNext DEF RamOK, ram

\* del_kv marks the sector of the node dirty.
LEMMA DelDirtyOK == ASSUME TInv, NEW ok \in BOOLEAN, DelDirty(ok) PROVE TInv'
<1> DEFINE s == local.del.ptr.sec
<1>1. /\ FlashOK /\ RamOK /\ result \in Results /\ local \in Local /\ FramesOK(local)
      /\ ArgsOK(pc, local)
  BY TInvParts
<1>2. s \in Sector
  BY <1>1, FrameTypes DEF DelFrame, Ptr
<1>3. /\ Program(s, [flash[s] EXCEPT !.dirty = "True"], ok) \/ NoCall
      /\ DelReturn(ok) /\ UNCHANGED ram /\ pc = "DelDirty"
  BY DEF DelDirty
<1> HIDE DEF s
<1>4. FlashOK'
  BY <1>1, <1>2, <1>3, NoCallOK, MarkOK, ProgramOK DEF SectorDirtyStatus
<1>5. LocalOK(pc', local') /\ result' \in Results
  BY <1>1, <1>3, DelReturnOK DEF DelPcs
<1> QED BY <1>1, <1>3, <1>4, <1>5, TInvNext DEF RamOK, ram

\* The next write to a node, or the return.
LEMMA PutNextOK ==
  ASSUME TInv, pc \in PutPcs, NEW ok \in BOOLEAN, NEW label \in PutPcs \ {"PutBody"},
         PutNext(ok, label)
  PROVE  LocalOK(pc', local') /\ result' \in Results /\ gcRequest' \in BOOLEAN
<1>1. /\ RamOK /\ result \in Results /\ local \in Local /\ FramesOK(local) /\ ArgsOK(pc, local)
  BY TInvParts
<1>2. CASE Goto(label, local) /\ UNCHANGED <<gcRequest, result>>
  <2>1. ArgsOK(label, local)
    BY <1>1 DEF ArgsOK, InSet, PutLive, PutWaits, MvLive, PutPcs, DelPcs
  <2>2. label \in Labels \ {"PutBody"}
    BY DEF Labels, PutPcs
  <2> QED BY <1>1, <1>2, <2>1, <2>2 DEF LocalOK, Goto, RamOK
<1>3. CASE PutReturn(FALSE)
  BY <1>1, <1>3, PutReturnOK DEF RamOK
<1> QED BY <1>2, <1>3 DEF PutNext

\* update_sec_status marks the sector the node goes to.
LEMMA PutSecOK == ASSUME TInv, NEW ok \in BOOLEAN, PutSec(ok) PROVE TInv'
<1> DEFINE s == local.put.sec
           sec == flash[s]
           full == sec.store = "Using" /\ remain(sec) - PutLen < SEC_REMAIN_THRESHOLD
           store == IF full THEN "Full" ELSE "Using"
           x == [local.put EXCEPT !.full = full /\ ok]
           m == [local EXCEPT !.put = x]
<1>1. /\ FlashOK /\ RamOK /\ result \in Results /\ local \in Local /\ FramesOK(local)
      /\ ArgsOK(pc, local)
  BY TInvParts
<1>2. local.put \in PutFrame /\ s \in Sector
  BY <1>1, FrameTypes DEF PutFrame
<1>3. [local EXCEPT !.put.full = full /\ ok] = m
  BY <1>1, <1>2 DEF Local, PutFrame
<1>4. /\ pc = "PutSec" /\ UNCHANGED <<oldest, inRecovery>>
      /\ \/ /\ Program(s, [sec EXCEPT !.store = store], ok)
            /\ \/ Goto("PutStatus", m) /\ UNCHANGED <<gcRequest, result>>
               \/ PutReturn(FALSE)
         \/ NoCall /\ PutNext(TRUE, "PutStatus")
  <2> HIDE DEF m
  <2> QED BY <1>3 DEF PutSec
<1>5. store \in SectorStoreStatus
  BY DEF SectorStoreStatus
<1>6. x \in PutFrame /\ x.key = local.put.key /\ x.val = local.put.val /\ x.ret = local.put.ret
  BY <1>2 DEF PutFrame
<1> HIDE DEF store, x
<1>7. m \in Local /\ FramesOK(m) /\ m.put = x /\ m.job = local.job
  BY <1>1, <1>6, FrameUpdate DEF Local
<1> HIDE DEF m, s
<1>8. FlashOK'
  BY <1>1, <1>2, <1>4, <1>5, NoCallOK, MarkOK, ProgramOK
<1>9. LocalOK(pc', local') /\ result' \in Results /\ gcRequest' \in BOOLEAN
  <2>1. CASE Goto("PutStatus", m) /\ UNCHANGED <<gcRequest, result>>
    <3>1. ArgsOK("PutStatus", m)
      BY <1>1, <1>4, <1>6, <1>7 DEF ArgsOK, InSet, PutLive, PutWaits, MvLive, PutPcs, DelPcs
    <3> QED BY <1>1, <1>7, <2>1, <3>1 DEF LocalOK, Labels, Goto, RamOK
  <2>2. CASE PutReturn(FALSE)
    BY <1>1, <1>4, <2>2, PutReturnOK DEF PutPcs, RamOK
  <2>3. CASE PutNext(TRUE, "PutStatus")
    BY <1>4, <2>3, PutNextOK DEF PutPcs
  <2> QED BY <1>4, <2>1, <2>2, <2>3
<1> QED BY <1>1, <1>4, <1>8, <1>9, TInvNext DEF RamOK

\* The byte of a status is appended to the log of the sector as a damaged node.
LEMMA PutStatusOK == ASSUME TInv, NEW ok \in BOOLEAN, PutStatus(ok) PROVE TInv'
<1> DEFINE s == local.put.sec
           len == IF local.put.addr = SECTOR_HDR_DATA_SIZE THEN KV_HDR_DATA_SIZE ELSE 1
           node == [addr |-> local.put.addr, len |-> len, status |-> "ErrHdr",
                    crc |-> FALSE, key |-> None, val |-> None]
           kvs == Append(flash[s].kvs, node)
           image == [flash[s] EXCEPT !.kvs = kvs]
<1>1. /\ FlashOK /\ RamOK /\ result \in Results /\ local \in Local /\ FramesOK(local)
  BY TInvParts
<1>2. s \in Sector /\ local.put.addr \in Nat
  BY <1>1, FrameTypes DEF PutFrame
<1>3. flash[s] \in SectorImage
  BY <1>2, TInvParts
<1>4. node \in KvNode /\ node.crc = FALSE
  <2>1. len \in Nat
    BY DEF KV_HDR_DATA_SIZE
  <2> HIDE DEF len
  <2> QED BY <1>2, <2>1 DEF KvNode, KvStatus
<1>5. /\ pc = "PutStatus" /\ UNCHANGED <<oldest, inRecovery>>
      /\ Program(s, image, ok) /\ PutNext(ok, "PutHdr")
  <2>1. [flash[s] EXCEPT !.kvs = Append(@, node)] = image
    BY <1>3 DEF SectorImage
  <2> HIDE DEF image
  <2> QED BY <2>1 DEF PutStatus
<1> HIDE DEF node
<1>6. image \in SectorImage /\ SecNamed(image)
  <2>1. kvs \in Seq(KvNode) /\ DOMAIN kvs = 1 .. Len(flash[s].kvs) + 1
    BY <1>3, <1>4 DEF SectorImage
  <2>2. \A j \in DOMAIN kvs : kvs[j].crc => j \in DOMAIN flash[s].kvs /\ kvs[j] = flash[s].kvs[j]
    BY <1>3, <1>4, <2>1 DEF SectorImage
  <2>3. SecNamed(flash[s])
    BY <1>1, <1>2 DEF FlashOK, NodesNamed, SecNamed
  <2> HIDE DEF kvs
  <2> QED BY <1>3, <2>1, <2>2, <2>3 DEF SectorImage, SecNamed
<1> HIDE DEF image, s
<1>7. FlashOK'
  BY <1>1, <1>2, <1>5, <1>6, ProgramOK
<1>8. LocalOK(pc', local') /\ result' \in Results /\ gcRequest' \in BOOLEAN
  BY <1>5, PutNextOK DEF PutPcs
<1> QED BY <1>1, <1>5, <1>7, <1>8, TInvNext DEF RamOK

\* The writes to the last node of a sector.
LEMMA PutNodeOK ==
  ASSUME TInv, NEW ok \in BOOLEAN, NEW node, PutNode(node, ok),
         flash[local.put.sec].kvs # <<>> =>
            node \in KvNode /\ (node.crc => Stored(node.key, node.val))
  PROVE  FlashOK'
<1> DEFINE s == local.put.sec
           j == Len(flash[s].kvs)
<1>1. FlashOK /\ s \in Sector
  BY TInvParts, FrameTypes DEF PutFrame
<1>2. flash[s] \in SectorImage
  BY <1>1, TInvParts
<1>3. j \in Nat /\ (j \in DOMAIN flash[s].kvs => flash[s].kvs # <<>>)
  BY <1>2 DEF SectorImage
<1>4. Program(s, WithNode(s, j, node), ok)
  BY DEF PutNode
<1> HIDE DEF j
<1> QED BY <1>1, <1>3, <1>4, WithNodeOK, ProgramOK

\* The header gives the node its key, its value and their length.
LEMMA PutHdrOK == ASSUME TInv, NEW ok \in BOOLEAN, PutHdr(ok) PROVE TInv'
<1> DEFINE s == local.put.sec
           node == [addr |-> local.put.addr, len |-> PutLen, status |-> "PreWrite",
                    crc |-> FALSE, key |-> local.put.key, val |-> local.put.val]
<1>1. /\ FlashOK /\ RamOK /\ result \in Results /\ local \in Local /\ FramesOK(local)
      /\ ArgsOK(pc, local) /\ pc = "PutHdr"
  BY TInvParts DEF PutHdr
<1>2. Stored(local.put.key, local.put.val)
  BY <1>1 DEF ArgsOK, PutLive, PutPcs
<1>3. s \in Sector /\ local.put.addr \in Nat
  BY <1>1, FrameTypes DEF PutFrame
<1>4. node \in KvNode /\ node.crc = FALSE /\ Stored(node.key, node.val)
  <2>1. PutLen \in Nat
    BY <1>2, KvLenType DEF PutLen, Stored
  <2> QED BY <1>2, <1>3, <2>1 DEF KvNode, KvStatus, Stored
<1>5. PutNode(node, ok) /\ PutNext(ok, "PutBody") /\ UNCHANGED <<oldest, inRecovery>>
  BY DEF PutHdr
<1> HIDE DEF node
<1>6. FlashOK'
  BY <1>4, <1>5, PutNodeOK
<1>7. CASE ok
  <2>1. pc' = "PutBody" /\ UNCHANGED <<ram, result, local>>
    BY <1>5, <1>7 DEF PutNext, Goto, ram
  <2>2. ArgsOK("PutBody", local)
    BY <1>1 DEF ArgsOK, InSet, PutLive, PutWaits, MvLive, PutPcs, DelPcs
  <2>3. flash'[s].kvs # <<>> => LastNode(flash'[s]) = node
    <3> DEFINE kvs == flash[s].kvs
               kvs2 == [kvs EXCEPT ![Len(kvs)] = node]
    <3>1. flash[s] \in SectorImage /\ flash \in Flash
      BY <1>1, <1>3, TInvParts DEF FlashOK
    <3>2. flash'[s] = [flash[s] EXCEPT !.kvs[Len(kvs)] = node]
      BY <1>3, <1>5, <1>7, <3>1 DEF PutNode, Program, WithNode, Flash
    <3>3. flash'[s].kvs = kvs2 /\ kvs \in Seq(KvNode)
      BY <3>1, <3>2 DEF SectorImage
    <3> HIDE DEF kvs
    <3>4. CASE kvs = <<>>
      BY <3>3, <3>4
    <3>5. CASE kvs # <<>>
      <4>1. Len(kvs) \in DOMAIN kvs
        BY <3>3, <3>5
      <4>2. Len(kvs2) = Len(kvs) /\ kvs2[Len(kvs)] = node
        BY <3>3, <4>1
      <4> QED BY <3>3, <4>2 DEF LastNode
    <3> QED BY <3>4, <3>5
  <2>4. BodyNamed'
    BY <1>4, <2>1, <2>3 DEF BodyNamed
  <2> QED BY <1>1, <1>6, <2>1, <2>2, <2>4
         DEF TInv, TypeOK, NamesOK, FlashOK, MediumOK, RamOK, Flash, ram, Labels
<1>8. CASE ~ok
  <2>1. LocalOK(pc', local') /\ result' \in Results /\ gcRequest' \in BOOLEAN
    BY <1>1, <1>5, <1>8, PutReturnOK DEF PutNext, PutPcs, RamOK
  <2> QED BY <1>1, <1>5, <1>6, <2>1, TInvNext DEF RamOK
<1> QED BY <1>7, <1>8

\* The CRC becomes right of a node that has a name and a value.
LEMMA PutBodyOK == ASSUME TInv, NEW ok \in BOOLEAN, PutBody(ok) PROVE TInv'
<1> DEFINE sec == flash[local.put.sec]
           node == [LastNode(sec) EXCEPT !.crc = TRUE]
<1>1. RamOK /\ local.put.sec \in Sector
  BY TInvParts, FrameTypes DEF PutFrame
<1>2. sec \in SectorImage
  BY <1>1, TInvParts
<1>3. pc = "PutBody" /\ PutNode(node, ok) /\ PutNext(ok, "PutCommit")
      /\ UNCHANGED <<oldest, inRecovery>>
  BY DEF PutBody
<1>4. sec.kvs # <<>> => node \in KvNode /\ Stored(node.key, node.val)
  <2> SUFFICES ASSUME sec.kvs # <<>> PROVE node \in KvNode /\ Stored(node.key, node.val)
    OBVIOUS
  <2>1. LastNode(sec) \in KvNode
    BY <1>2, LastNodeType
  <2>2. Stored(LastNode(sec).key, LastNode(sec).val)
    BY <1>3 DEF TInv, NamesOK, BodyNamed
  <2> HIDE DEF sec
  <2> QED BY <2>1, <2>2 DEF KvNode
<1> HIDE DEF node
<1>5. FlashOK'
  BY <1>3, <1>4, PutNodeOK
<1>6. LocalOK(pc', local') /\ result' \in Results /\ gcRequest' \in BOOLEAN
  BY <1>3, PutNextOK DEF PutPcs
<1> QED BY <1>1, <1>3, <1>5, <1>6, TInvNext DEF RamOK

\* The status WRITE makes the node valid.
LEMMA PutCommitOK == ASSUME TInv, NEW ok \in BOOLEAN, PutCommit(ok) PROVE TInv'
<1> DEFINE sec == flash[local.put.sec]
           node == [LastNode(sec) EXCEPT !.status = "Write"]
<1>1. /\ FlashOK /\ RamOK /\ result \in Results /\ local \in Local /\ ArgsOK(pc, local)
      /\ local.put.sec \in Sector
  BY TInvParts, FrameTypes DEF PutFrame
<1>2. sec \in SectorImage /\ SecNamed(sec)
  BY <1>1, TInvParts DEF FlashOK, NodesNamed, SecNamed
<1>3. pc = "PutCommit" /\ PutNode(node, ok) /\ PutReturn(ok) /\ UNCHANGED <<oldest, inRecovery>>
  BY DEF PutCommit
<1>4. sec.kvs # <<>> => node \in KvNode /\ (node.crc => Stored(node.key, node.val))
  <2> SUFFICES ASSUME sec.kvs # <<>>
               PROVE  node \in KvNode /\ (node.crc => Stored(node.key, node.val))
    OBVIOUS
  <2>1. LastNode(sec) \in KvNode
    BY <1>2, LastNodeType
  <2>2. LastNode(sec).crc => Stored(LastNode(sec).key, LastNode(sec).val)
    BY <1>2, LastNodeType DEF SecNamed
  <2> HIDE DEF sec
  <2> QED BY <2>1, <2>2 DEF KvNode, KvStatus
<1> HIDE DEF node
<1>5. FlashOK'
  BY <1>3, <1>4, PutNodeOK
<1>6. LocalOK(pc', local') /\ result' \in Results /\ gcRequest' \in BOOLEAN
  BY <1>1, <1>3, PutReturnOK DEF PutPcs, RamOK
<1> QED BY <1>1, <1>3, <1>5, <1>6, TInvNext DEF RamOK

\* The node that is moved has a place, is superseded, or stays where it is.
LEMMA MvAllocOK == ASSUME TInv, MvAlloc PROVE TInv'
<1> DEFINE mv == local.mv
           a == alloc_kv(flash, oldest, gcRequest, mv.len)
           put == [sec |-> a.sec, addr |-> empty_kv(flash[a.sec]), key |-> mv.key,
                   val |-> mv.val, full |-> FALSE, ret |-> "MvReturn"]
           x == [local.mv EXCEPT !.ok = TRUE]
           m1 == [local EXCEPT !.mv = x]
           m2 == [local EXCEPT !.put = put]
<1>1. /\ FlashOK /\ RamOK /\ result \in Results /\ local \in Local /\ FramesOK(local)
      /\ ArgsOK(pc, local) /\ mv \in MvFrame
  BY TInvParts, FrameTypes
<1>2. pc = "MvAlloc" /\ NoCall /\ UNCHANGED <<oldest, inRecovery, result>>
      /\ gcRequest' = a.gcReq
  BY DEF MvAlloc
<1>3. Stored(mv.key, mv.val)
  BY <1>1, <1>2 DEF ArgsOK, MvLive
<1>4. \/ MvReturn(local, FALSE)
      \/ DelCall(m1, mv.ptr, TRUE, "MvReturn")
      \/ Goto("PutSec", m2)
  <2>1. [local EXCEPT !.mv.ok = TRUE] = m1
    BY <1>1 DEF Local
  <2> HIDE DEF m1, m2
  <2> QED BY <2>1 DEF MvAlloc, m2
<1>5. a.sec \in Sector /\ a.gcReq \in BOOLEAN
  BY <1>1, AllocFound DEF FlashOK, RamOK
<1>6. flash[a.sec] \in SectorImage
  BY <1>5, TInvParts
<1>7. empty_kv(flash[a.sec]) \in Nat
  BY <1>6, EmptyKvType
<1> HIDE DEF a
<1>8. put \in PutFrame /\ put.key = mv.key /\ put.val = mv.val /\ put.ret = "MvReturn"
  BY <1>1, <1>5, <1>7 DEF PutFrame, MvFrame
<1> HIDE DEF put
<1>9. x \in MvFrame /\ mv.ptr \in Ptr
  BY <1>1 DEF MvFrame
<1>10. /\ m1 \in Local /\ FramesOK(m1)
       /\ m2 \in Local /\ FramesOK(m2) /\ m2.put = put
  <2>1. m1 \in Local /\ FramesOK(m1)
    BY <1>1, <1>9, FrameUpdate
  <2>2. m2 \in Local /\ FramesOK(m2) /\ m2.put = put
    BY <1>1, <1>8, FrameUpdate DEF Local
  <2> QED BY <2>1, <2>2
<1> HIDE DEF m1, m2
<1>11. LocalOK(pc', local')
  <2>1. CASE MvReturn(local, FALSE)
    BY <1>1, <2>1, MvReturnOK
  <2>2. CASE DelCall(m1, mv.ptr, TRUE, "MvReturn")
    BY <1>9, <1>10, <2>2, DelCallOK
  <2>3. CASE Goto("PutSec", m2)
    <3>1. ArgsOK("PutSec", m2)
      BY <1>3, <1>8, <1>10 DEF ArgsOK, InSet, PutLive, PutWaits, MvLive, PutPcs, DelPcs
    <3> QED BY <1>10, <2>3, <3>1 DEF LocalOK, Labels, Goto
  <2> QED BY <1>4, <2>1, <2>2, <2>3
<1> QED BY <1>1, <1>2, <1>5, <1>11, NoCallOK, TInvNext DEF RamOK

\* format_sector.
LEMMA FmtEraseOK == ASSUME TInv, NEW ok \in BOOLEAN, FmtErase(ok) PROVE TInv'
<1>1. /\ FlashOK /\ RamOK /\ result \in Results /\ local \in Local /\ FramesOK(local)
      /\ local.fmt.sec \in Sector
  BY TInvParts, FrameTypes DEF FmtFrame
<1>2. /\ Program(local.fmt.sec, Erased, ok) /\ UNCHANGED ram
      /\ \/ Goto("FmtHdr", local) /\ UNCHANGED result
         \/ FmtReturn(FALSE)
  BY DEF FmtErase
<1>3. FlashOK'
  BY <1>1, <1>2, FormatOK, ProgramOK
<1>4. LocalOK(pc', local') /\ result' \in Results
  BY <1>1, <1>2, PlainOK, FmtReturnOK DEF Plain, Goto, RamOK
<1> QED BY <1>1, <1>2, <1>3, <1>4, TInvNext DEF RamOK, ram

\* format_sector writes the header of the erased sector.
LEMMA FmtHdrOK == ASSUME TInv, NEW ok \in BOOLEAN, FmtHdr(ok) PROVE TInv'
<1>1. /\ FlashOK /\ RamOK /\ result \in Results /\ local \in Local /\ FramesOK(local)
      /\ local.fmt.sec \in Sector
  BY TInvParts, FrameTypes DEF FmtFrame
<1>2. Program(local.fmt.sec, Formatted, ok) /\ UNCHANGED ram /\ FmtReturn(ok)
  BY DEF FmtHdr
<1>3. FlashOK'
  BY <1>1, <1>2, FormatOK, ProgramOK
<1>4. LocalOK(pc', local') /\ result' \in Results
  BY <1>1, <1>2, FmtReturnOK DEF RamOK
<1> QED BY <1>1, <1>2, <1>3, <1>4, TInvNext DEF RamOK, ram

\* new_kv goes on with the place found, collects garbage first, or fails.
LEMMA NewKvOK == ASSUME TInv, NewKv PROVE TInv'
<1> DEFINE new == local.new
           a == alloc_kv(flash, oldest, gcRequest, NewKvLen)
           put == [sec |-> a.sec, addr |-> empty_kv(flash[a.sec]), key |-> new.key,
                   val |-> new.val, full |-> FALSE,
                   ret |-> IF new.ret = "SetFind" THEN "SetEnd" ELSE "DefKv"]
           label == IF new.ret = "SetFind" THEN "SetFind" ELSE "PutSec"
           m1 == [local EXCEPT !.put = put]
           m2 == [local EXCEPT !.new.tried = TRUE]
           m3 == [local EXCEPT !.def.i = @ + 1]
<1>1. /\ FlashOK /\ RamOK /\ result \in Results /\ local \in Local /\ FramesOK(local)
      /\ ArgsOK(pc, local) /\ new \in NewFrame
  BY TInvParts, FrameTypes
<1>2. NewOK(local)
  BY <1>1 DEF NewKv, ArgsOK
<1>3. /\ NoCall /\ UNCHANGED <<oldest, inRecovery>>
      /\ \/ Goto(label, m1) /\ gcRequest' = a.gcReq /\ UNCHANGED result
         \/ GcCall(m2, NewKvLen, "NewKv") /\ gcRequest' = TRUE /\ UNCHANGED result
         \/ Return("SavedFull") /\ gcRequest' = FALSE
         \/ Goto("DefKv", m3) /\ UNCHANGED result /\ gcRequest' = FALSE
  <2> HIDE DEF m2, m3
  <2> QED BY DEF NewKv, NewKvFound, NewKvFailed, m2, m3
<1>4. a.sec \in Sector /\ a.gcReq \in BOOLEAN
  BY <1>1, AllocFound DEF FlashOK, RamOK
<1>5. empty_kv(flash[a.sec]) \in Nat
  BY <1>4, TInvParts, EmptyKvType
<1> HIDE DEF a
<1>6. /\ put \in PutFrame /\ Stored(put.key, put.val)
      /\ new.ret = "SetFind" => put.ret = "SetEnd"
      /\ new.ret = "DefKv" => put.ret = "DefKv"
  BY <1>1, <1>2, <1>4, <1>5 DEF PutFrame, NewFrame, NewOK
<1> HIDE DEF put
<1>7. m1 \in Local /\ FramesOK(m1) /\ m1.put = put /\ m1.job = local.job
  BY <1>1, <1>6, FrameUpdate DEF Local
<1>8. m2 \in Local /\ FramesOK(m2) /\ NewOK(m2)
  <2>1. /\ m2 \in Local /\ m2.job = local.job /\ m2.gc = local.gc
        /\ m2.new.key = new.key /\ m2.new.val = new.val /\ m2.new.ret = new.ret
    BY <1>1 DEF Local, NewFrame
  <2> HIDE DEF m2
  <2> QED BY <1>1, <1>2, <2>1 DEF FramesOK, NewOK
<1>9. m3 \in Local /\ FramesOK(m3)
  BY <1>1, DefNext
<1> HIDE DEF m1, m2, m3
<1>10. CASE Goto(label, m1) /\ gcRequest' = a.gcReq /\ UNCHANGED result
  <2>1. new.ret \in {"SetFind", "DefKv"}
    BY <1>1 DEF NewFrame
  <2>2. ArgsOK(label, m1)
    BY <1>2, <1>6, <1>7, <2>1
    DEF NewOK, ArgsOK, InSet, PutLive, PutWaits, MvLive, PutPcs, DelPcs
  <2>3. LocalOK(pc', local')
    BY <1>7, <1>10, <2>2 DEF LocalOK, Labels, Goto
  <2> QED BY <1>1, <1>3, <1>4, <1>10, <2>3, NoCallOK, TInvNext DEF RamOK
<1>11. CASE GcCall(m2, NewKvLen, "NewKv") /\ gcRequest' = TRUE /\ UNCHANGED result
  <2>1. NewKvLen \in Nat
    BY <1>2, KvLenType DEF NewKvLen, NewOK, Stored
  <2>2. LocalOK(pc', local')
    BY <1>8, <1>11, <2>1, GcCallOK
  <2> QED BY <1>1, <1>3, <1>11, <2>2, NoCallOK, TInvNext DEF RamOK
<1>12. CASE Return("SavedFull") /\ gcRequest' = FALSE
  <2>1. LocalOK(pc', local') /\ result' \in Results
    BY <1>12, NoLocalOK DEF Return, Goto, Results
  <2> QED BY <1>1, <1>3, <1>12, <2>1, NoCallOK, TInvNext DEF RamOK
<1>13. CASE Goto("DefKv", m3) /\ UNCHANGED result /\ gcRequest' = FALSE
  <2>1. LocalOK(pc', local')
    BY <1>9, <1>13, PlainOK DEF Plain, Goto
  <2> QED BY <1>1, <1>3, <1>13, <2>1, NoCallOK, TInvNext DEF RamOK
<1> QED BY <1>3, <1>10, <1>11, <1>12, <1>13

----------------------------------------------------------------------------
(* The public operations *)

\* set begins.
LEMMA SetOK == ASSUME TInv, NEW u \in Updates, Set(u[1], u[2]) PROVE TInv'
<1> DEFINE k == u[1]
           v == u[2]
           x == [local.job EXCEPT !.op = "Set", !.key = k, !.val = v]
           m == [local EXCEPT !.job = x]
<1>1. /\ FlashOK /\ RamOK /\ local \in Local /\ FramesOK(local) /\ ArgsOK(pc, local)
      /\ local.job \in Job
  BY TInvParts, FrameTypes
<1>2. k \in Keys /\ v \in Values
  BY BoundsAssumption
<1>3. pc = "Idle" /\ result' = "None" /\ NoCall /\ UNCHANGED ram
  BY DEF Set, Idle
<1>4. NewCall(m, k, v, "SetFind")
  <2>1. [local EXCEPT !.job = [@ EXCEPT !.op = "Set", !.key = k, !.val = v]] = m
    BY <1>1 DEF Local
  <2> HIDE DEF m
  <2> QED BY <2>1 DEF Set
<1> HIDE DEF k, v
<1>5. x \in Job /\ x.op = "Set" /\ x.key = k /\ x.val = v
  BY <1>1, <1>2 DEF Job
<1> HIDE DEF x
<1>6. m \in Local /\ m.job = x /\ m.gc = local.gc /\ m.new = local.new
  BY <1>1, <1>5 DEF Local
<1> HIDE DEF m
<1>7. local.gc.ret = "Idle"
  BY <1>1, <1>3 DEF ArgsOK, NoLocal
<1>8. FramesOK(m)
  BY <1>2, <1>5, <1>6, <1>7 DEF FramesOK, Stored
<1>9. LocalOK(pc', local')
  BY <1>2, <1>4, <1>5, <1>6, <1>8, NewCallOK
<1> QED BY <1>1, <1>3, <1>9, NoCallOK, TInvNext DEF RamOK, ram, Results

\* set_kv looks for the old node of the key.
LEMMA SetFindOK == ASSUME TInv, SetFind PROVE TInv'
<1> DEFINE f == find_kv(flash, oldest, local.job.key)
           x == [local.job EXCEPT !.old = f]
           m == [local EXCEPT !.job = x]
<1>1. /\ FlashOK /\ RamOK /\ local \in Local /\ FramesOK(local) /\ ArgsOK(pc, local)
      /\ local.job \in Job /\ result \in Results
  BY TInvParts, FrameTypes
<1>2. f \in Ptr
  BY <1>1, FindType DEF FlashOK, RamOK, Ptr
<1>3. /\ pc = "SetFind" /\ NoCall /\ UNCHANGED ram
      /\ \/ DelCall(m, f, FALSE, "PutSec") /\ UNCHANGED result
         \/ Goto("SetEnd", m) /\ result' = "KvNameErr"
         \/ Goto("PutSec", m) /\ UNCHANGED result
  <2>1. [local EXCEPT !.job.old = f] = m
    BY <1>1 DEF Local
  <2> HIDE DEF m
  <2> QED BY <2>1 DEF SetFind
<1> HIDE DEF f
<1>4. x \in Job /\ x.op = local.job.op /\ x.key = local.job.key /\ x.val = local.job.val
  BY <1>1, <1>2 DEF Job
<1> HIDE DEF x
<1>5. m \in Local /\ m.job = x /\ m.gc = local.gc /\ m.new = local.new /\ m.put = local.put
  BY <1>1, <1>4 DEF Local
<1> HIDE DEF m
<1>6. FramesOK(m)
  BY <1>1, <1>4, <1>5 DEF FramesOK, NewOK
<1>7. Stored(local.put.key, local.put.val) /\ local.job.op = "Set"
  BY <1>1, <1>3 DEF ArgsOK, InSet, PutLive, PutWaits
<1>8. LocalOK(pc', local') /\ result' \in Results
  <2>1. CASE DelCall(m, f, FALSE, "PutSec") /\ UNCHANGED result
    BY <1>1, <1>2, <1>4, <1>5, <1>6, <1>7, <2>1, DelCallOK
  <2>2. CASE Goto("SetEnd", m) /\ result' = "KvNameErr"
    <3>1. ArgsOK("SetEnd", m)
      BY <1>1, <1>4, <1>5, <1>6, <1>7 DEF ArgsOK, InSet, PutLive, PutWaits, MvLive, PutPcs, DelPcs
    <3> QED BY <1>5, <2>2, <3>1 DEF LocalOK, Labels, Goto, Results
  <2>3. CASE Goto("PutSec", m) /\ UNCHANGED result
    <3>1. ArgsOK("PutSec", m)
      BY <1>1, <1>4, <1>5, <1>6, <1>7 DEF ArgsOK, InSet, PutLive, PutWaits, MvLive, PutPcs, DelPcs
    <3> QED BY <1>1, <1>5, <2>3, <3>1 DEF LocalOK, Labels, Goto
  <2> QED BY <1>3, <2>1, <2>2, <2>3
<1> QED BY <1>1, <1>3, <1>8, NoCallOK, TInvNext DEF RamOK, ram

\* set_kv returns, or collects garbage first.
LEMMA SetEndOK == ASSUME TInv, SetEnd PROVE TInv'
<1>1. /\ FlashOK /\ RamOK /\ local \in Local /\ FramesOK(local) /\ ArgsOK(pc, local)
      /\ result \in Results
  BY TInvParts
<1>2. Stored(local.job.key, local.job.val)
  BY <1>1 DEF SetEnd, ArgsOK, InSet, FramesOK
<1>3. kv_len(local.job.key, local.job.val) \in Nat
  BY <1>2, KvLenType DEF Stored
<1>4. LocalOK(pc', local')
  <2>1. CASE GcCall(local, kv_len(local.job.key, local.job.val), "Idle")
    BY <1>1, <1>3, <2>1, GcCallOK
  <2>2. CASE Goto("Idle", NoLocal)
    BY <2>2, NoLocalOK DEF Goto
  <2> QED BY <2>1, <2>2 DEF SetEnd
<1>5. FlashOK' /\ UNCHANGED <<ram, result>>
  BY <1>1, NoCallOK DEF SetEnd
<1> QED BY <1>1, <1>4, <1>5, TInvNext DEF RamOK, ram

\* del begins.
LEMMA DelOK == ASSUME TInv, NEW k \in Keys, Del(k) PROVE TInv'
<1> DEFINE f == find_kv(flash, oldest, k)
           job == [NoLocal.job EXCEPT !.op = "Del", !.key = k]
           m == [local EXCEPT !.job = job]
<1>1. /\ FlashOK /\ RamOK /\ local \in Local /\ FramesOK(local) /\ ArgsOK(pc, local)
  BY TInvParts
<1>2. f \in Ptr
  BY <1>1, FindType DEF FlashOK, RamOK, Ptr
<1>3. /\ pc = "Idle" /\ NoCall /\ UNCHANGED ram
      /\ \/ DelCall(m, f, TRUE, "Idle") /\ result' = "None"
         \/ Return("KvNameErr")
  BY DEF Del
<1> HIDE DEF f
<1>4. job \in Job /\ job.op = "Del"
  BY NoLocalType, FrameTypes DEF Job, NoLocal
<1> HIDE DEF job
<1>5. m \in Local /\ m.job = job /\ m.gc = local.gc
  BY <1>1, <1>4 DEF Local
<1> HIDE DEF m
<1>6. local.gc.ret = "Idle"
  BY <1>1, <1>3 DEF ArgsOK, NoLocal
<1>7. FramesOK(m)
  BY <1>4, <1>5, <1>6 DEF FramesOK
<1>8. LocalOK(pc', local') /\ result' \in Results
  <2>1. CASE DelCall(m, f, TRUE, "Idle") /\ result' = "None"
    BY <1>2, <1>5, <1>7, <2>1, DelCallOK DEF Results
  <2>2. CASE Return("KvNameErr")
    BY <2>2, NoLocalOK DEF Return, Goto, Results
  <2> QED BY <1>3, <2>1, <2>2
<1> QED BY <1>1, <1>3, <1>8, NoCallOK, TInvNext DEF RamOK, ram

\* set_default begins.
LEMMA SetDefaultOK == ASSUME TInv, SetDefault PROVE TInv'
<1> DEFINE x == [local.job EXCEPT !.op = "Default"]
           y == [local.def EXCEPT !.ret = "Idle"]
           m1 == [local EXCEPT !.job = x]
           m == [m1 EXCEPT !.def = y]
<1>1. /\ FlashOK /\ RamOK /\ local \in Local /\ FramesOK(local) /\ ArgsOK(pc, local)
      /\ local.job \in Job /\ local.def \in DefFrame
  BY TInvParts, FrameTypes
<1>2. x \in Job /\ x.op = "Default" /\ y \in DefFrame
  BY <1>1 DEF Job, DefFrame
<1>3. [local EXCEPT !.job.op = "Default", !.def.ret = "Idle"] = m
  BY <1>1 DEF Local, Job, DefFrame
<1> HIDE DEF x, y
<1>4. m1 \in Local /\ m1.job = x /\ m1.gc = local.gc
  BY <1>1, <1>2 DEF Local
<1> HIDE DEF m1
<1>5. local.gc.ret = "Idle"
  BY <1>1 DEF SetDefault, Idle, ArgsOK, NoLocal
<1>6. FramesOK(m1)
  BY <1>2, <1>4, <1>5 DEF FramesOK
<1>7. m \in Local /\ FramesOK(m)
  BY <1>2, <1>4, <1>6, FrameUpdate
<1>8. pc' = "DefFormat" /\ local' = m
  BY <1>3 DEF SetDefault, Goto
<1> HIDE DEF m
<1>9. LocalOK(pc', local')
  BY <1>7, <1>8, PlainOK DEF Plain
<1>10. FlashOK' /\ UNCHANGED ram /\ result' \in Results
  BY <1>1, NoCallOK DEF SetDefault, Idle, Results
<1> QED BY <1>1, <1>9, <1>10, TInvNext DEF RamOK, ram

\* set_default formats the next sector.
LEMMA DefFormatOK == ASSUME TInv, DefFormat PROVE TInv'
<1> DEFINE x == [local.def EXCEPT !.i = 0]
           m1 == [local EXCEPT !.def.i = @ + 1]
           m2 == [local EXCEPT !.def = x]
<1>1. /\ FlashOK /\ RamOK /\ local \in Local /\ FramesOK(local) /\ result \in Results
      /\ local.def \in DefFrame
  BY TInvParts, FrameTypes
<1>2. x \in DefFrame
  BY <1>1 DEF DefFrame
<1>3. [local EXCEPT !.def.i = 0] = m2
  BY <1>1 DEF Local, DefFrame
<1>4. /\ m1 \in Local /\ FramesOK(m1)
      /\ m2 \in Local /\ FramesOK(m2)
  BY <1>1, <1>2, DefNext, FrameUpdate
<1> HIDE DEF m1, m2
<1>5. LocalOK(pc', local')
  <2>1. CASE local.def.i < N
    <3>1. local.def.i \in Sector
      BY <1>1, <2>1, GeometryType DEF DefFrame, Sector
    <3>2. FmtCall(m1, local.def.i, "DefFormat")
      BY <2>1 DEF DefFormat, ToFormat, m1
    <3> QED BY <1>4, <3>1, <3>2, FmtCallOK
  <2>2. CASE ~(local.def.i < N)
    <3>1. Goto("DefKv", m2)
      BY <1>3, <2>2 DEF DefFormat, ToFormat
    <3> QED BY <1>4, <3>1, PlainOK DEF Plain, Goto
  <2> QED BY <2>1, <2>2
<1>6. FlashOK' /\ UNCHANGED <<ram, result>>
  BY <1>1, NoCallOK DEF DefFormat
<1> QED BY <1>1, <1>5, <1>6, TInvNext DEF RamOK, ram

\* set_default writes the next default.
LEMMA DefKvOK == ASSUME TInv, DefKv PROVE TInv'
<1> DEFINE kv == Defaults[local.def.i + 1]
           m == [local EXCEPT !.def.i = @ + 1]
<1>1. /\ FlashOK /\ RamOK /\ local \in Local /\ FramesOK(local) /\ result \in Results
      /\ local.def \in DefFrame
  BY TInvParts, FrameTypes
<1>2. m \in Local /\ FramesOK(m)
  BY <1>1, DefNext
<1>3. /\ \/ Goto("DefKv", m)
         \/ NewCall(local, kv.key, kv.val, "DefKv")
      /\ NoCall /\ UNCHANGED <<ram, result>>
  BY DEF DefKv
<1> HIDE DEF m
<1>4. CASE Goto("DefKv", m)
  BY <1>1, <1>2, <1>3, <1>4, PlainOK, NoCallOK, TInvNext DEF Plain, Goto, RamOK, ram
<1>5. CASE NewCall(local, kv.key, kv.val, "DefKv")
  <2>1. local.def.i + 1 \in DOMAIN Defaults
    BY <1>1, DefaultsAssumption DEF DefKv, DefFrame
  <2>2. kv.key \in Keys /\ kv.val \in Values
    <3>1. \A S, q, i : q \in Seq(S) /\ i \in DOMAIN q => q[i] \in S
      OBVIOUS
    <3>2. kv \in [key: Keys, val: Values]
      BY <2>1, <3>1, DefaultsAssumption, Zenon
    <3> QED BY <3>2
  <2> HIDE DEF kv
  <2>3. LocalOK(pc', local')
    BY <1>1, <1>5, <2>2, NewCallOK
  <2> QED BY <1>1, <1>3, <2>3, NoCallOK, TInvNext DEF RamOK, ram
<1> QED BY <1>3, <1>4, <1>5

\* set_default is done.
LEMMA DefEndOK == ASSUME TInv, DefEnd PROVE TInv'
<1>1. /\ FlashOK /\ RamOK /\ local \in Local /\ FramesOK(local) /\ result \in Results
  BY TInvParts
<1>2. /\ oldest' = 0 /\ NoCall /\ UNCHANGED <<gcRequest, inRecovery>>
      /\ \/ Return("Ok")
         \/ LoadGcCall(local, 0) /\ UNCHANGED result
  BY DEF DefEnd
<1>3. LocalOK(pc', local') /\ result' \in Results
  <2>1. CASE Return("Ok")
    BY <2>1, NoLocalOK DEF Return, Goto, Results
  <2>2. CASE LoadGcCall(local, 0) /\ UNCHANGED result
    BY <1>1, <2>2, ZeroSector, LoadGcCallOK
  <2> QED BY <1>2, <2>1, <2>2
<1> QED BY <1>1, <1>2, <1>3, ZeroSector, NoCallOK, TInvNext DEF RamOK

----------------------------------------------------------------------------
(* with_options and kv_load *)

\* with_options begins.
LEMMA OpenOK == ASSUME TInv, NEW strict \in BOOLEAN, Open(strict) PROVE TInv'
<1> DEFINE o == find_oldest_addr(flash)
           x == [NoLocal.job EXCEPT !.op = "Open"]
           y == [NoLocal.load EXCEPT !.from = o, !.strict = strict]
           m1 == [NoLocal EXCEPT !.job = x]
           m == [m1 EXCEPT !.load = y]
<1>1. FlashOK
  BY TInvParts
<1>2. o \in Sector
  BY OldestType
<1>3. [NoLocal EXCEPT !.job.op = "Open", !.load.from = o, !.load.strict = strict] = m
  BY NoLocalType DEF Local, Job, LoadFrame
<1>4. /\ oldest' = o /\ gcRequest' = FALSE /\ inRecovery' = TRUE /\ result' = "None"
      /\ NoCall /\ pc' = "LoadHdr" /\ local' = m
  <2> HIDE DEF m
  <2> QED BY <1>3 DEF Open, Goto
<1> HIDE DEF o
<1>5. x \in Job /\ x.op = "Open" /\ y \in LoadFrame
  BY <1>2, NoLocalType, FrameTypes DEF Job, LoadFrame, NoLocal
<1>6. m1 \in Local /\ m1.job = x /\ m1.gc.ret = "Idle"
  <2>1. NoLocal.gc.ret = "Idle"
    BY DEF NoLocal
  <2>2. m1 \in Local /\ m1.job = x /\ m1.gc = NoLocal.gc
    <3> HIDE DEF x
    <3> QED BY <1>5, NoLocalType DEF Local
  <2> HIDE DEF m1
  <2> QED BY <2>1, <2>2
<1> HIDE DEF x, y, m1
<1>7. FramesOK(m1)
  BY <1>5, <1>6 DEF FramesOK
<1>8. m \in Local /\ FramesOK(m)
  BY <1>5, <1>6, <1>7, FrameUpdate
<1> HIDE DEF m
<1>9. LocalOK(pc', local')
  BY <1>4, <1>8, PlainOK DEF Plain
<1> QED BY <1>1, <1>2, <1>4, <1>9, NoCallOK, TInvNext DEF RamOK, Results

\* A session ends, or is not begun.
LEMMA ResetOK ==
  ASSUME FlashOK', Reset, result' \in Results
  PROVE  TInv'
<1>1. LocalOK(pc', local')
  BY NoLocalOK DEF Reset, Goto
<1> QED BY <1>1, ZeroSector, TInvNext DEF RamOK, Reset

\* kv_load formats a sector with a damaged header.
LEMMA LoadHdrOK == ASSUME TInv, LoadHdr PROVE TInv'
<1> DEFINE i == Least(BadAhead)
           x == [local.load EXCEPT !.i = i + 1, !.bad = @ + 1]
           m == [local EXCEPT !.load = x]
<1>1. /\ FlashOK /\ RamOK /\ local \in Local /\ FramesOK(local) /\ result \in Results
      /\ local.load \in LoadFrame
  BY TInvParts, FrameTypes
<1>2. i \in Nat
  <2>1. BadAhead \subseteq Nat /\ BadAhead # {}
    BY <1>1, GeometryType DEF LoadHdr, BadAhead, LoadFrame
  <2> QED BY <2>1, LeastExists
<1>3. Nth(local.load.from, i) \in Sector
  BY <1>1, <1>2, NthType DEF LoadFrame
<1>4. FmtCall(m, Nth(local.load.from, i), "LoadHdr") /\ NoCall /\ UNCHANGED <<ram, result>>
  <2>1. [local EXCEPT !.load.i = i + 1, !.load.bad = @ + 1] = m
    BY <1>1 DEF Local, LoadFrame
  <2> HIDE DEF m
  <2> QED BY <2>1 DEF LoadHdr
<1> HIDE DEF i
<1>5. x \in LoadFrame
  <2>1. \A a, b \in Nat : [local.load EXCEPT !.i = a, !.bad = b] \in LoadFrame
    BY <1>1 DEF LoadFrame
  <2>2. i + 1 \in Nat /\ local.load.bad + 1 \in Nat
    BY <1>1, <1>2 DEF LoadFrame
  <2> QED BY <2>1, <2>2
<1>6. m \in Local /\ FramesOK(m)
  BY <1>1, <1>5, FrameUpdate
<1> HIDE DEF m
<1>7. LocalOK(pc', local')
  BY <1>3, <1>4, <1>6, FmtCallOK
<1> QED BY <1>1, <1>4, <1>7, NoCallOK, TInvNext DEF RamOK, ram

\* kv_load refuses a damaged sector of a database that is not to be formatted.
LEMMA LoadRefusedOK == ASSUME TInv, LoadRefused PROVE TInv'
BY TInvParts, NoCallOK, ResetOK DEF LoadRefused, Results

\* kv_load has read every sector header.
LEMMA LoadHdrEndOK == ASSUME TInv, LoadHdrEnd PROVE TInv'
<1> DEFINE y == [local.def EXCEPT !.ret = "LoadGc"]
           m1 == [local EXCEPT !.load = NoLocal.load]
           m == [m1 EXCEPT !.def = y]
<1>1. /\ FlashOK /\ RamOK /\ local \in Local /\ FramesOK(local) /\ result \in Results
      /\ local.def \in DefFrame
  BY TInvParts, FrameTypes
<1>2. y \in DefFrame /\ NoLocal.load \in LoadFrame
  BY <1>1, NoLocalType, FrameTypes DEF DefFrame
<1>3. [local EXCEPT !.load = NoLocal.load, !.def.ret = "LoadGc"] = m
  BY <1>1 DEF Local, DefFrame
<1> HIDE DEF y
<1>4. m1 \in Local /\ FramesOK(m1)
  BY <1>1, <1>2, FrameUpdate
<1> HIDE DEF m1
<1>5. m \in Local /\ FramesOK(m)
  BY <1>2, <1>4, FrameUpdate
<1> HIDE DEF m
<1>6. LocalOK(pc', local')
  <2>1. CASE Goto("DefFormat", m)
    BY <1>5, <2>1, PlainOK DEF Plain, Goto
  <2>2. CASE LoadGcCall(local, oldest)
    BY <1>1, <2>2, LoadGcCallOK DEF RamOK
  <2> QED BY <1>3, <2>1, <2>2 DEF LoadHdrEnd
<1>7. FlashOK' /\ UNCHANGED <<ram, result>>
  BY <1>1, NoCallOK DEF LoadHdrEnd
<1> QED BY <1>1, <1>6, <1>7, TInvNext DEF RamOK, ram

\* A marked sector is collected first.
LEMMA LoadGcOK == ASSUME TInv, LoadGc PROVE TInv'
<1> DEFINE i == Least(GcMarkedAhead)
           x == [local.load EXCEPT !.i = i + 1]
           m == [local EXCEPT !.load = x]
<1>1. /\ FlashOK /\ RamOK /\ local \in Local /\ FramesOK(local) /\ result \in Results
      /\ local.load \in LoadFrame
  BY TInvParts, FrameTypes
<1>2. FlashOK' /\ UNCHANGED <<oldest, inRecovery, result>>
  BY <1>1, NoCallOK DEF LoadGc
<1>3. CASE GcMarkedAhead # {}
  <2>1. i \in Nat
    <3>1. GcMarkedAhead \subseteq Nat
      BY <1>1, GeometryType DEF GcMarkedAhead, LoadFrame
    <3> QED BY <1>3, <3>1, LeastExists
  <2>2. GcCall(m, N * SecSize, "LoadGc") /\ gcRequest' = TRUE
    <3>1. [local EXCEPT !.load.i = i + 1] = m
      BY <1>1 DEF Local, LoadFrame
    <3> HIDE DEF m
    <3> QED BY <1>3, <3>1 DEF LoadGc
  <2> HIDE DEF i
  <2>3. x \in LoadFrame
    BY <1>1, <2>1 DEF LoadFrame
  <2>4. m \in Local /\ FramesOK(m)
    BY <1>1, <2>3, FrameUpdate
  <2> HIDE DEF m
  <2>5. N * SecSize \in Nat
    BY GeometryType
  <2>6. LocalOK(pc', local')
    BY <2>2, <2>4, <2>5, GcCallOK
  <2> QED BY <1>1, <1>2, <2>2, <2>6, TInvNext DEF RamOK
<1>4. CASE GcMarkedAhead = {}
  <2>1. Goto("LoadScan", local) /\ UNCHANGED gcRequest
    BY <1>4 DEF LoadGc
  <2>2. LocalOK(pc', local')
    BY <1>1, <2>1, PlainOK DEF Plain, Goto
  <2> QED BY <1>1, <1>2, <2>1, <2>2, TInvNext DEF RamOK
<1> QED BY <1>3, <1>4

\* A pass of recovery begins.
LEMMA LoadScanOK == ASSUME TInv, LoadScan PROVE TInv'
<1> DEFINE x == [NoLocal.load EXCEPT !.from = oldest]
           m == [local EXCEPT !.load = x]
<1>1. /\ FlashOK /\ RamOK /\ local \in Local /\ FramesOK(local) /\ result \in Results
  BY TInvParts
<1>2. x \in LoadFrame
  BY <1>1 DEF RamOK, LoadFrame, NoLocal
<1>3. m \in Local /\ FramesOK(m)
  BY <1>1, <1>2, FrameUpdate
<1>4. pc' = "LoadPass" /\ local' = m /\ UNCHANGED <<ram, result>> /\ NoCall
  BY DEF LoadScan, Goto
<1> HIDE DEF m
<1>5. LocalOK(pc', local')
  BY <1>3, <1>4, PlainOK DEF Plain
<1> QED BY <1>1, <1>4, <1>5, NoCallOK, TInvNext DEF RamOK, ram

\* The node a pass of recovery meets is one of the image.
LEMMA StepsOK ==
  ASSUME TInv, StepsAhead # {}
  PROVE  LET i == Least(StepsAhead)
             s == Nth(local.load.from, i)
             j == Least(InterruptedIn(i))
         IN  /\ i \in Nat /\ s \in Sector /\ j \in Nat
             /\ j \in DOMAIN flash[s].kvs /\ Interrupted(flash[s].kvs[j])
<1> DEFINE i == Least(StepsAhead)
           s == Nth(local.load.from, i)
           j == Least(InterruptedIn(i))
<1>1. local.load \in LoadFrame
  BY TInvParts, FrameTypes
<1>2. StepsAhead \subseteq Nat
  BY <1>1, GeometryType DEF StepsAhead, LoadFrame
<1>3. i \in StepsAhead
  BY <1>2, LeastExists
<1>4. i \in Nat /\ InterruptedIn(i) # {}
  BY <1>2, <1>3 DEF StepsAhead
<1> HIDE DEF i
<1>5. s \in Sector
  BY <1>1, <1>4, NthType DEF LoadFrame
<1>6. flash[s] \in SectorImage
  BY <1>5, TInvParts
<1>7. InterruptedIn(i) \subseteq Nat
  BY <1>6 DEF InterruptedIn, SectorImage
<1>8. j \in InterruptedIn(i)
  BY <1>4, <1>7, LeastExists
<1>9. j \in Nat /\ j \in DOMAIN flash[s].kvs /\ Interrupted(flash[s].kvs[j])
  <2> HIDE DEF j
  <2> QED BY <1>7, <1>8 DEF InterruptedIn
<1> QED BY <1>4, <1>5, <1>9 DEF i

\* recover_one_kv moves a half deleted node.
LEMMA LoadMoveOK == ASSUME TInv, LoadMove PROVE TInv'
<1> DEFINE i == Least(StepsAhead)
           s == Nth(local.load.from, i)
           j == Least(InterruptedIn(i))
           x == [local.load EXCEPT !.i = i, !.idx = j]
           m == [local EXCEPT !.load = x]
<1>1. /\ FlashOK /\ RamOK /\ local \in Local /\ FramesOK(local) /\ result \in Results
      /\ local.load \in LoadFrame
  BY TInvParts, FrameTypes
<1>2. /\ i \in Nat /\ s \in Sector /\ j \in Nat
      /\ j \in DOMAIN flash[s].kvs /\ Interrupted(flash[s].kvs[j])
  BY StepsOK DEF LoadMove
<1>3. /\ flash[s].kvs[j].status = "PreDelete"
      /\ MvCall(m, s, j, "LoadPass") /\ NoCall /\ UNCHANGED <<ram, result>>
  <2>1. [local EXCEPT !.load.i = i, !.load.idx = j] = m
    BY <1>1 DEF Local, LoadFrame
  <2> HIDE DEF m
  <2> QED BY <2>1 DEF LoadMove
<1> HIDE DEF i, j, s
<1>4. flash[s].kvs[j].crc
  BY <1>2, <1>3 DEF Interrupted
<1>5. x \in LoadFrame
  BY <1>1, <1>2 DEF LoadFrame
<1>6. m \in Local /\ FramesOK(m)
  BY <1>1, <1>5, FrameUpdate
<1> HIDE DEF m
<1>7. LocalOK(pc', local')
  BY <1>1, <1>2, <1>3, <1>4, <1>6, MvCallOK DEF FlashOK
<1> QED BY <1>1, <1>3, <1>7, NoCallOK, TInvNext DEF RamOK, ram

\* recover_one_kv marks a half written node as damaged.
LEMMA LoadErrHdrOK == ASSUME TInv, NEW ok \in BOOLEAN, LoadErrHdr(ok) PROVE TInv'
<1> DEFINE i == Least(StepsAhead)
           s == Nth(local.load.from, i)
           j == Least(InterruptedIn(i))
           node == [flash[s].kvs[j] EXCEPT !.status = "ErrHdr"]
<1>1. /\ FlashOK /\ RamOK /\ local \in Local /\ FramesOK(local) /\ result \in Results
  BY TInvParts
<1>2. s \in Sector /\ j \in Nat /\ j \in DOMAIN flash[s].kvs
  BY StepsOK DEF LoadErrHdr
<1>3. /\ Program(s, WithNode(s, j, node), ok)
      /\ Goto("LoadCollect", local) /\ UNCHANGED <<ram, result>>
  BY DEF LoadErrHdr
<1> HIDE DEF i, j, s
<1>4. flash[s] \in SectorImage /\ SecNamed(flash[s])
  BY <1>1, <1>2, TInvParts DEF FlashOK, NodesNamed, SecNamed
<1>5. node \in KvNode /\ (node.crc => Stored(node.key, node.val))
  <2>1. flash[s].kvs[j] \in KvNode
    BY <1>2, <1>4, NodeType
  <2>2. flash[s].kvs[j].crc => Stored(flash[s].kvs[j].key, flash[s].kvs[j].val)
    BY <1>2, <1>4 DEF SecNamed
  <2> QED BY <2>1, <2>2 DEF KvNode, KvStatus
<1> HIDE DEF node
<1>6. FlashOK'
  BY <1>1, <1>2, <1>3, <1>5, WithNodeOK, ProgramOK
<1>7. LocalOK(pc', local')
  BY <1>1, <1>3, PlainOK DEF Plain, Goto
<1> QED BY <1>1, <1>3, <1>6, <1>7, TInvNext DEF RamOK, ram

\* A pass of recovery met no interrupted node.
LEMMA LoadPassEndOK == ASSUME TInv, LoadPassEnd PROVE TInv'
<1>1. /\ FlashOK /\ RamOK /\ local \in Local /\ FramesOK(local) /\ result \in Results
  BY TInvParts
<1>2. Goto("LoadCollect", local) /\ NoCall /\ UNCHANGED <<ram, result>>
  BY DEF LoadPassEnd
<1>3. LocalOK(pc', local')
  BY <1>1, <1>2, PlainOK DEF Plain, Goto
<1> QED BY <1>1, <1>2, <1>3, NoCallOK, TInvNext DEF RamOK, ram

\* kv_load collects garbage and scans again, or is done.
LEMMA LoadCollectOK == ASSUME TInv, LoadCollect PROVE TInv'
<1>1. /\ FlashOK /\ RamOK /\ local \in Local /\ FramesOK(local) /\ result \in Results
  BY TInvParts
<1>2. /\ NoCall /\ UNCHANGED <<oldest, gcRequest>>
      /\ \/ GcCall(local, N * SecSize, "LoadScan") /\ UNCHANGED <<inRecovery, result>>
         \/ Return("Ok") /\ inRecovery' = FALSE
  BY DEF LoadCollect
<1>3. CASE GcCall(local, N * SecSize, "LoadScan") /\ UNCHANGED <<inRecovery, result>>
  <2>1. N * SecSize \in Nat
    BY GeometryType
  <2>2. LocalOK(pc', local')
    BY <1>1, <1>3, <2>1, GcCallOK
  <2> QED BY <1>1, <1>2, <1>3, <2>2, NoCallOK, TInvNext DEF RamOK
<1>4. CASE Return("Ok") /\ inRecovery' = FALSE
  <2>1. LocalOK(pc', local') /\ result' \in Results
    BY <1>4, NoLocalOK DEF Return, Goto, Results
  <2> QED BY <1>1, <1>2, <1>4, <2>1, NoCallOK, TInvNext DEF RamOK
<1> QED BY <1>2, <1>3, <1>4

----------------------------------------------------------------------------
(* The end of a session *)

\* The database is closed.
LEMMA CloseOK == ASSUME TInv, Close PROVE TInv'
<1>1. FlashOK'
  BY TInvParts DEF Close, FlashOK, NodesNamed, MediumOK
<1> QED BY <1>1, ResetOK DEF Close, Results

\* Power is lost.
LEMMA PowerLossOK == ASSUME TInv, PowerLoss PROVE TInv'
<1>1. FlashOK'
  <2>1. flash' = flash /\ faults' = faults /\ losses' = losses - 1 /\ losses > 0
        /\ failing' = FALSE
    BY DEF PowerLoss
  <2>2. MediumOK
    BY TInvParts DEF FlashOK
  <2>3. losses' \in 0 .. MaxPowerLoss
    BY <2>1, <2>2, BoundsType DEF MediumOK
  <2>4. MediumOK'
    BY <2>1, <2>2, <2>3 DEF MediumOK
  <2> QED BY <2>1, <2>4, TInvParts DEF FlashOK, NodesNamed
<1> QED BY <1>1, ResetOK DEF PowerLoss, Results

----------------------------------------------------------------------------
(* The theorem *)

\* The invariant holds on storage that was never a database.
LEMMA TInit == Init => TInv
<1> SUFFICES ASSUME Init PROVE TInv
  OBVIOUS
<1>1. flash \in Flash /\ NodesNamed
  BY FormatOK DEF Init, Flash, NodesNamed, SecNamed
<1>2. LocalOK(pc, local)
  BY NoLocalOK DEF Init
<1>3. FlashOK
  <2>1. failing = FALSE /\ losses = MaxPowerLoss /\ faults = MaxFaults
    BY DEF Init
  <2>2. MaxPowerLoss \in 0 .. MaxPowerLoss /\ MaxFaults \in 0 .. MaxFaults
    BY BoundsType
  <2>3. MediumOK
    BY <2>1, <2>2, Zenon DEF MediumOK
  <2> QED BY <1>1, <2>3 DEF FlashOK
<1>4. RamOK /\ result \in Results /\ pc # "PutBody"
  BY ZeroSector DEF Init, RamOK, Results
<1> QED BY <1>2, <1>3, <1>4
       DEF TInv, TypeOK, NamesOK, BodyNamed, Flash, LocalOK, FlashOK, MediumOK, RamOK

\* Every call of the API keeps the invariant.
LEMMA TClient == ASSUME TInv, Client PROVE TInv'
BY SetOK, DelOK, OpenOK, SetDefaultOK, CloseOK DEF Client

\* Every step of the storage code keeps the invariant.
LEMMA TStep == ASSUME TInv, Step PROVE TInv'
<1>1. CASE \E ok \in BOOLEAN : \/ DelStatus(ok) \/ DelDirty(ok) \/ PutSec(ok) \/ PutStatus(ok)
                               \/ PutHdr(ok) \/ PutBody(ok) \/ PutCommit(ok)
  BY <1>1, DelStatusOK, DelDirtyOK, PutSecOK, PutStatusOK, PutHdrOK, PutBodyOK, PutCommitOK
<1>2. CASE \E ok \in BOOLEAN : FmtErase(ok) \/ FmtHdr(ok) \/ GcSector(ok) \/ LoadErrHdr(ok)
  BY <1>2, FmtEraseOK, FmtHdrOK, GcSectorOK, LoadErrHdrOK
<1>3. CASE NewKv \/ SetFind \/ SetEnd \/ DefFormat \/ DefKv \/ DefEnd
  BY <1>3, NewKvOK, SetFindOK, SetEndOK, DefFormatOK, DefKvOK, DefEndOK
<1>4. CASE GcStart \/ GcNode \/ GcErase \/ GcFormatted \/ GcEnd \/ MvAlloc
  BY <1>4, GcStartOK, GcNodeOK, GcEraseOK, GcFormattedOK, GcEndOK, MvAllocOK
<1>5. CASE LoadHdr \/ LoadRefused \/ LoadHdrEnd \/ LoadGc \/ LoadScan
             \/ LoadMove \/ LoadPassEnd \/ LoadCollect
  BY <1>5, LoadHdrOK, LoadRefusedOK, LoadHdrEndOK, LoadGcOK, LoadScanOK, LoadMoveOK,
     LoadPassEndOK, LoadCollectOK
<1> QED BY <1>1, <1>2, <1>3, <1>4, <1>5 DEF Step

\* Every step keeps the invariant.
LEMMA TNext == TInv /\ [Next]_vars => TInv'
<1> SUFFICES ASSUME TInv, [Next]_vars PROVE TInv'
  OBVIOUS
<1>1. CASE Next
  BY <1>1, TClient, TStep, PowerLossOK DEF Next
<1>2. CASE UNCHANGED vars
  BY <1>2 DEF vars, TInv, TypeOK, NamesOK, NodesNamed, BodyNamed
<1> QED BY <1>1, <1>2

\* The database is type correct, whatever the geometry, the keys and the values, and
\* however often power fails and the medium begins to fail: every address is one of a
\* sector, every node read or written has a key and a value of the database.
THEOREM TypeCorrect == Spec => []TypeOK
<1>1. TInv => TypeOK
  BY DEF TInv
<1> QED BY <1>1, TInit, TNext, PTL DEF Spec

----------------------------------------------------------------------------
(***************************************************************************)
(* The log of a sector is well formed in every state: nodes do not         *)
(* overlap, and the margin alloc_kv leaves behind the last one is never    *)
(* used, so that no sector is ever marked full.                            *)
(*                                                                         *)
(* LogOK is not inductive.  The proof carries along that the place found   *)
(* for a node is the end of the log and has room for the node and the      *)
(* margin until the node is written (PlaceOK), that a node whose CRC is    *)
(* right is as long as its key and value make it (LensOK), so that the     *)
(* room found for a copy is enough, and that an empty sector has no nodes  *)
(* (EmptyOK).                                                              *)
(***************************************************************************)

\* A sector whose log is well formed.
SectorGood(sec) ==
    /\ SectorLogOK(sec)
    /\ sec.store \in {"Unused", "Empty"} => sec.kvs = <<>>
    /\ \A j \in DOMAIN sec.kvs : sec.kvs[j].crc => HasKvLen(sec.kvs[j])

FlashGood == \A s \in Sector : SectorGood(flash[s])
LInv == PlaceOK /\ LensOK /\ EmptyOK /\ LogOK

\* No place for a node is in use.
Calm(label, l) == ~PutLive(label, l) /\ ~MvLive(label, l)

\* The parts of the invariant that are about one sector.
LEMMA LInvFlash == ASSUME LInv PROVE FlashGood
BY DEF LInv, FlashGood, SectorGood, LensOK, EmptyOK, LogOK

\* A step after which no place is in use has only to leave the sectors well formed.
LEMMA CalmNext == ASSUME FlashGood', Calm(pc', local') PROVE LInv'
<1>1. pc' \notin PutPcs /\ ~PutWaits(pc', local') /\ ~MvLive(pc', local')
  BY DEF Calm, PutLive
<1>2. EmptyOK' /\ LogOK'
  BY DEF FlashGood, SectorGood, EmptyOK, LogOK
<1>3. LensOK'
  BY <1>1 DEF FlashGood, SectorGood, LensOK, PutPcs
<1>4. PlaceOK'
  BY <1>1 DEF PlaceOK, PutPcs, PutLive
<1> QED BY <1>2, <1>3, <1>4 DEF LInv

\* No place is in use at the labels that have nothing to do with a node ...
CalmPcs == Plain \cup {"Off", "Idle", "NewKv", "SetEnd"}

\* At these no sector header is about to be written, either.
RestPcs == CalmPcs \ {"FmtHdr"}

\* At these labels no place is in use, whatever the locals are.
LEMMA CalmLabels == \A l : \A label \in CalmPcs : Calm(label, l)
BY DEF CalmPcs, Plain, Calm, PutLive, PutWaits, MvLive, PutPcs, DelPcs

\* ... nor while a node is deleted for good.
LEMMA DelCallCalm ==
  ASSUME NEW l \in Local, NEW p, NEW c, NEW r, r \notin {"PutSec", "MvAlloc"},
         DelCall(l, p, c, r)
  PROVE  Calm(pc', local')
<1> DEFINE m == [l EXCEPT !.del = [ptr |-> p, complete |-> c, ret |-> r]]
<1>1. m.del.ret = r
  BY DEF Local
<1>2. pc' = "DelStatus" /\ local' = m
  BY DEF DelCall, Goto
<1> HIDE DEF m
<1> QED BY <1>1, <1>2 DEF Calm, PutLive, PutWaits, MvLive, PutPcs, DelPcs

----------------------------------------------------------------------------
(* Sectors *)

\* A sector looks the same to the allocation when its nodes are where they were.
SameShape(old, new) ==
    /\ new.ok = old.ok /\ new.store = old.store /\ DOMAIN new.kvs = DOMAIN old.kvs
    /\ \A j \in DOMAIN old.kvs : new.kvs[j].addr = old.kvs[j].addr
                                 /\ new.kvs[j].len = old.kvs[j].len

\* Sectors of the same shape have their last node, their end and their room in common.
LEMMA ShapeLast ==
  ASSUME NEW old \in SectorImage, NEW new \in SectorImage, SameShape(old, new)
  PROVE  /\ Len(new.kvs) = Len(old.kvs) /\ (new.kvs = <<>> <=> old.kvs = <<>>)
         /\ new.kvs # <<>> => /\ LastNode(new).addr = LastNode(old).addr
                              /\ LastNode(new).len = LastNode(old).len
         /\ empty_kv(new) = empty_kv(old)
         /\ LogEnd(new) = LogEnd(old)
<1>1. old.kvs \in Seq(KvNode) /\ new.kvs \in Seq(KvNode)
  BY DEF SectorImage
<1>2. Len(new.kvs) = Len(old.kvs)
  BY <1>1 DEF SameShape
<1>3. new.kvs = <<>> <=> old.kvs = <<>>
  BY <1>1, <1>2
<1>4. old.kvs # <<>> => Len(old.kvs) \in DOMAIN old.kvs
  BY <1>1
<1>5. new.kvs # <<>> => /\ LastNode(new).addr = LastNode(old).addr
                        /\ LastNode(new).len = LastNode(old).len
  BY <1>2, <1>3, <1>4 DEF SameShape, LastNode
<1> QED BY <1>2, <1>3, <1>5 DEF SameShape, empty_kv, LogEnd

\* The log of a sector is well formed if that of a sector of the same shape is.
LEMMA ShapeLog ==
  ASSUME NEW old \in SectorImage, NEW new \in SectorImage, SameShape(old, new),
         SectorLogOK(old)
  PROVE  SectorLogOK(new)
<1>1. /\ Len(new.kvs) = Len(old.kvs) /\ (new.kvs = <<>> <=> old.kvs = <<>>)
      /\ LogEnd(new) = LogEnd(old)
  BY ShapeLast
<1>2. DOMAIN old.kvs = 1 .. Len(old.kvs)
  BY DEF SectorImage
<1>3. \A j \in DOMAIN new.kvs : new.kvs[j].addr >= SECTOR_HDR_DATA_SIZE
  BY DEF SameShape, SectorLogOK
<1>4. \A j \in 1 .. Len(new.kvs)-1 : new.kvs[j+1].addr >= new.kvs[j].addr + new.kvs[j].len
  <2> SUFFICES ASSUME NEW j \in 1 .. Len(old.kvs)-1
               PROVE  new.kvs[j+1].addr >= new.kvs[j].addr + new.kvs[j].len
    BY <1>1
  <2>1. j \in DOMAIN old.kvs /\ j+1 \in DOMAIN old.kvs
    BY <1>2
  <2> QED BY <2>1 DEF SameShape, SectorLogOK
<1> QED BY <1>1, <1>3, <1>4 DEF SectorLogOK, SameShape

\* One node with another status, or none when it is not there.
LEMMA StatusGood ==
  ASSUME FlashOK, FlashGood, NEW s \in Sector, NEW j \in Nat, NEW x \in KvStatus,
         NEW image, image = WithNode(s, j, [flash[s].kvs[j] EXCEPT !.status = x])
  PROVE  /\ SectorGood(image) /\ SameShape(flash[s], image)
<1> DEFINE sec == flash[s]
           node == [sec.kvs[j] EXCEPT !.status = x]
           kvs == [sec.kvs EXCEPT ![j] = node]
<1>1. sec \in SectorImage /\ SectorGood(sec)
  BY DEF FlashOK, Flash, FlashGood
<1>2. image = [sec EXCEPT !.kvs = kvs]
  BY <1>1 DEF WithNode, SectorImage
<1> HIDE DEF sec
<1>3. sec.kvs \in Seq(KvNode)
  BY <1>1 DEF SectorImage
<1>4. CASE j \notin DOMAIN sec.kvs
  <2>1. kvs = sec.kvs
    BY <1>3, <1>4
  <2>2. image = sec
    BY <1>1, <1>2, <2>1 DEF SectorImage
  <2> QED BY <1>1, <2>2 DEF SameShape, sec
<1>5. CASE j \in DOMAIN sec.kvs
  <2>1. sec.kvs[j] \in KvNode
    BY <1>1, <1>5, NodeType
  <2>2. /\ node \in KvNode /\ node.addr = sec.kvs[j].addr /\ node.len = sec.kvs[j].len
        /\ node.crc = sec.kvs[j].crc /\ node.key = sec.kvs[j].key /\ node.val = sec.kvs[j].val
    BY <2>1 DEF KvNode
  <2> HIDE DEF node
  <2>3. kvs \in Seq(KvNode) /\ DOMAIN kvs = DOMAIN sec.kvs
    BY <1>3, <1>5, <2>2
  <2>4. \A i \in DOMAIN sec.kvs : kvs[i] = IF i = j THEN node ELSE sec.kvs[i]
    BY <1>3
  <2> HIDE DEF kvs
  <2>5. /\ image \in SectorImage /\ image.ok = sec.ok /\ image.store = sec.store
        /\ image.kvs = kvs
    BY <1>1, <1>2, <2>3 DEF SectorImage
  <2>6. SameShape(sec, image)
    BY <2>2, <2>3, <2>4, <2>5 DEF SameShape
  <2>7. SectorLogOK(image)
    BY <1>1, <2>5, <2>6, ShapeLog DEF SectorGood
  <2>8. \A i \in DOMAIN kvs : kvs[i].crc => HasKvLen(kvs[i])
    BY <1>1, <2>2, <2>3, <2>4 DEF SectorGood, HasKvLen
  <2>9. image.store \in {"Unused", "Empty"} => image.kvs = <<>>
    BY <1>1, <2>5, <2>6, ShapeLast DEF SectorGood
  <2> QED BY <2>5, <2>6, <2>7, <2>8, <2>9 DEF SectorGood, sec
<1> QED BY <1>4, <1>5

\* A mark in the header of a sector.
LEMMA DirtyGood ==
  ASSUME FlashOK, FlashGood, NEW s \in Sector, NEW x \in SectorDirtyStatus,
         NEW image, image = [flash[s] EXCEPT !.dirty = x]
  PROVE  SectorGood(image) /\ SameShape(flash[s], image)
<1>1. flash[s] \in SectorImage /\ SectorGood(flash[s])
  BY DEF FlashOK, Flash, FlashGood
<1>2. /\ image \in SectorImage /\ image.ok = flash[s].ok /\ image.store = flash[s].store
      /\ image.kvs = flash[s].kvs
  BY <1>1 DEF SectorImage
<1>3. SameShape(flash[s], image)
  BY <1>2 DEF SameShape
<1> QED BY <1>1, <1>2, <1>3, ShapeLog DEF SectorGood

\* An erased sector and a formatted one.
LEMMA FormatGood == SectorGood(Erased) /\ SectorGood(Formatted)
<1>1. DOMAIN <<>> = {} /\ Len(<<>>) = 0
  OBVIOUS
<1>2. 1 .. (Len(<<>>) - 1) = {}
  BY <1>1
<1> QED BY <1>1, <1>2 DEF Erased, Formatted, SectorGood, SectorLogOK

\* A storage call with a well formed image of one sector.
LEMMA ProgramGood ==
  ASSUME FlashOK, FlashGood, NEW s \in Sector, NEW image, SectorGood(image), NEW ok,
         Program(s, image, ok)
  PROVE  FlashGood'
BY DEF Program, FlashGood, FlashOK, Flash

\* Without a storage call the sectors stay as they are.
LEMMA NoCallGood == ASSUME FlashGood, NoCall PROVE FlashGood'
BY DEF NoCall, FlashGood

----------------------------------------------------------------------------
(* Calls and returns *)

\* gc_collect_by_free_size is never called while a place is in use.
LEMMA GcReturnCalm ==
  ASSUME NEW l \in Local, GcReturn(l)
  PROVE  Calm(pc', local') /\ pc' \in RestPcs
<1>1. l.gc.ret \in {"NewKv", "Idle", "LoadGc", "LoadScan"}
  BY FrameTypes DEF GcFrame
<1>2. pc' \in RestPcs
  BY <1>1 DEF GcReturn, Goto, RestPcs, CalmPcs, Plain
<1> QED BY <1>2, CalmLabels DEF RestPcs

\* move_kv returns when the node has been moved, or not.
LEMMA MvReturnCalm ==
  ASSUME NEW l, NEW ok, MvReturn(l, ok)
  PROVE  Calm(pc', local') /\ pc' \in RestPcs
<1>1. pc' \in RestPcs
  BY DEF MvReturn, Goto, RestPcs, CalmPcs, Plain
<1> QED BY <1>1, CalmLabels DEF RestPcs

\* format_sector is never called while a place is in use.
LEMMA FmtReturnCalm ==
  ASSUME local \in Local, NEW ok, FmtReturn(ok)
  PROVE  Calm(pc', local') /\ pc' \in RestPcs
<1>1. local.fmt.ret \in {"GcFormatted", "LoadHdr", "DefFormat"}
  BY FrameTypes DEF FmtFrame
<1>2. pc' \in RestPcs
  BY <1>1 DEF FmtReturn, Return, LoadGcCall, Goto, RestPcs, CalmPcs, Plain
<1> QED BY <1>2, CalmLabels DEF RestPcs

\* When the writes of a node are over its place is not in use any more.
LEMMA PutReturnCalm ==
  ASSUME local \in Local, NEW ok \in BOOLEAN, PutReturn(ok)
  PROVE  Calm(pc', local')
<1> DEFINE l == [local EXCEPT !.put = NoLocal.put]
           done == [l EXCEPT !.job.done = ok]
           ml == [l EXCEPT !.mv.ok = ok]
<1>1. l \in Local
  <2>1. NoLocal.put \in PutFrame
    BY NoLocalType, FrameTypes
  <2> QED BY <2>1 DEF Local
<1>2. \/ DelCall(done, l.job.old, TRUE, "SetEnd") \/ DelCall(ml, l.mv.ptr, TRUE, "MvReturn")
      \/ pc' \in {"SetEnd", "DefKv"}
  BY DEF PutReturn, Goto
<1> HIDE DEF l
<1>3. done \in Local /\ ml \in Local
  BY <1>1 DEF Local, Job, MvFrame
<1> HIDE DEF done, ml
<1>4. CASE DelCall(done, l.job.old, TRUE, "SetEnd")
  <2> DEFINE p == l.job.old
  <2>1. DelCall(done, p, TRUE, "SetEnd")
    BY <1>4
  <2> HIDE DEF p
  <2> QED BY <1>3, <2>1, DelCallCalm
<1>5. CASE DelCall(ml, l.mv.ptr, TRUE, "MvReturn")
  <2> DEFINE p == l.mv.ptr
  <2>1. DelCall(ml, p, TRUE, "MvReturn")
    BY <1>5
  <2> HIDE DEF p
  <2> QED BY <1>3, <2>1, DelCallCalm
<1>6. CASE pc' \in {"SetEnd", "DefKv"}
  BY <1>6, CalmLabels DEF CalmPcs, Plain
<1> QED BY <1>2, <1>4, <1>5, <1>6

\* del_kv returns to a node that waits to be written or moved only where it was called for it.
LEMMA DelReturnLive ==
  ASSUME local \in Local, NEW ok, DelReturn(ok)
  PROVE  \/ Calm(pc', local')
         \/ local.del.ret = "PutSec" /\ pc' = "PutSec" /\ local'.put = local.put
         \/ local.del.ret = "MvAlloc" /\ pc' = "MvAlloc" /\ local'.mv = local.mv
<1> DEFINE l == [local EXCEPT !.del = NoLocal.del]
<1>1. l.put = local.put /\ l.mv = local.mv
  BY DEF Local
<1>2. \/ local.del.ret = "PutSec" /\ Goto("PutSec", l)
      \/ Goto("SetEnd", l) \/ Return(WriteResult(ok))
      \/ local.del.ret = "MvAlloc" /\ Goto("MvAlloc", l)
      \/ MvReturn(l, l.mv.ok)
  BY DEF DelReturn
<1> HIDE DEF l
<1>3. CASE Goto("SetEnd", l) \/ Return(WriteResult(ok))
  BY <1>3, CalmLabels DEF Return, Goto, CalmPcs
<1>4. CASE MvReturn(l, l.mv.ok)
  BY <1>4, MvReturnCalm
<1> QED BY <1>1, <1>2, <1>3, <1>4 DEF Goto

\* The node of move_kv is one of the image.
LEMMA MvCallNext ==
  ASSUME FlashGood, NoCall, NEW l \in Local, NEW s \in Sector, NEW j \in DOMAIN flash[s].kvs,
         flash[s].kvs[j].crc, NEW r, MvCall(l, s, j, r)
  PROVE  LInv'
<1> DEFINE n == flash[s].kvs[j]
           p == [found |-> TRUE, sec |-> s, idx |-> j]
           x == [ptr |-> p, key |-> n.key, val |-> n.val, len |-> n.len,
                 pre |-> n.status = "PreDelete", ok |-> FALSE, ret |-> r]
           m == [l EXCEPT !.mv = x]
           d == [m EXCEPT !.del = [ptr |-> p, complete |-> FALSE, ret |-> "MvAlloc"]]
<1>1. HasKvLen(n)
  BY DEF FlashGood, SectorGood
<1>2. HasKvLen(x)
  BY <1>1 DEF HasKvLen
<1>3. \/ pc' = "DelStatus" /\ local' = d
      \/ pc' = "MvAlloc" /\ local' = m
  BY DEF MvCall, DelCall, Goto
<1>4. m.mv = x /\ d.mv = x /\ d.del.ret = "MvAlloc"
  BY DEF Local
<1> HIDE DEF m, d, x, n
<1>5. ~PutLive(pc', local') /\ pc' \notin PutPcs /\ ~PutWaits(pc', local')
  BY <1>3, <1>4 DEF PutLive, PutWaits, PutPcs, DelPcs
<1>6. HasKvLen(local'.mv)
  BY <1>2, <1>3, <1>4
<1>7. FlashGood'
  BY NoCallGood
<1>8. LensOK'
  BY <1>5, <1>6, <1>7 DEF LensOK, FlashGood, SectorGood, PutPcs, HasKvLen
<1>9. PlaceOK'
  BY <1>5 DEF PlaceOK, PutPcs
<1> QED BY <1>7, <1>8, <1>9 DEF LInv, FlashGood, SectorGood, EmptyOK, LogOK

----------------------------------------------------------------------------
(* The actions after which no place is in use *)

\* The actions that leave the medium alone and no place in use.
CalmAction ==
    \/ GcStart \/ GcEnd \/ GcErase \/ GcFormatted \/ SetEnd
    \/ DefFormat \/ DefKv \/ DefEnd \/ SetDefault
    \/ LoadHdr \/ LoadHdrEnd \/ LoadGc \/ LoadScan \/ LoadPassEnd \/ LoadCollect
    \/ LoadRefused \/ Close \/ PowerLoss
    \/ \E u \in Updates : Set(u[1], u[2])
    \/ \E strict \in BOOLEAN : Open(strict)

\* They do not go on to a node.
LEMMA CalmStep ==
  ASSUME TInv, CalmAction
  PROVE  flash' = flash /\ Calm(pc', local') /\ pc' \in RestPcs
<1>1. local \in Local /\ local.gc \in GcFrame
  BY TInvParts, FrameTypes
<1>2. flash' = flash
  BY DEF CalmAction, GcStart, GcEnd, GcErase, GcFormatted, SetEnd, DefFormat, DefKv, DefEnd,
         SetDefault, Idle, LoadHdr, LoadHdrEnd, LoadGc, LoadScan, LoadPassEnd, LoadCollect,
         LoadRefused, Close, PowerLoss, Set, Open, NoCall
<1>3. Calm(pc', local') /\ pc' \in RestPcs
  <2>1. CASE GcStart \/ GcEnd \/ GcFormatted
    <3>1. \/ GcReturn(local) \/ pc' = "GcSector"
          \/ GcReturn([local EXCEPT !.gc.i = local.gc.i + 1, !.gc.last = local.gc.sec,
                                    !.gc.sec = 0, !.gc.idx = 0])
      BY <2>1 DEF GcStart, GcEnd, GcFormatted, Goto
    <3>2. [local EXCEPT !.gc.i = local.gc.i + 1, !.gc.last = local.gc.sec,
                        !.gc.sec = 0, !.gc.idx = 0] \in Local
      <4>1. \A i \in Nat, t \in Sector :
               [local EXCEPT !.gc.i = i, !.gc.last = t, !.gc.sec = 0, !.gc.idx = 0] \in Local
        BY <1>1, ZeroSector, ZenonT(30) DEF Local, GcFrame
      <4>2. local.gc.i + 1 \in Nat /\ local.gc.sec \in Sector
        BY <1>1 DEF GcFrame
      <4> QED BY <4>1, <4>2
    <3> QED BY <1>1, <3>1, <3>2, GcReturnCalm, CalmLabels DEF RestPcs, CalmPcs, Plain
  <2>2. CASE GcErase \/ SetEnd \/ LoadCollect \/ DefFormat \/ LoadHdr
    <3>1. pc' \in RestPcs
      BY <2>2 DEF GcErase, SetEnd, LoadCollect, DefFormat, LoadHdr, FmtCall, GcCall, Goto,
                  Return, RestPcs, CalmPcs, Plain
    <3> QED BY <3>1, CalmLabels DEF RestPcs
  <2>3. CASE DefKv \/ DefEnd \/ SetDefault \/ LoadHdrEnd \/ LoadGc
    <3>1. pc' \in RestPcs
      BY <2>3 DEF DefKv, DefEnd, SetDefault, LoadHdrEnd, LoadGc, NewCall, LoadGcCall, GcCall,
                  Goto, Return, RestPcs, CalmPcs, Plain
    <3> QED BY <3>1, CalmLabels DEF RestPcs
  <2>4. CASE LoadScan \/ LoadPassEnd \/ LoadRefused \/ Close \/ PowerLoss
    <3>1. pc' \in RestPcs
      BY <2>4 DEF LoadScan, LoadPassEnd, LoadRefused, Close, PowerLoss, Reset, Goto,
                  RestPcs, CalmPcs, Plain
    <3> QED BY <3>1, CalmLabels DEF RestPcs
  <2>5. CASE \/ \E u \in Updates : Set(u[1], u[2])
             \/ \E strict \in BOOLEAN : Open(strict)
    <3>1. pc' \in RestPcs
      BY <2>5 DEF Set, Open, NewCall, Goto, RestPcs, CalmPcs, Plain
    <3> QED BY <3>1, CalmLabels DEF RestPcs
  <2> QED BY <2>1, <2>2, <2>3, <2>4, <2>5 DEF CalmAction
<1> QED BY <1>2, <1>3

\* So the log is as it was.
LEMMA CalmActions == ASSUME TInv, LInv, CalmAction PROVE LInv'
BY CalmStep, LInvFlash, CalmNext DEF FlashGood

\* del begins: it deletes for good.
LEMMA DelLog == ASSUME TInv, LInv, NEW k \in Keys, Del(k) PROVE LInv'
<1> DEFINE f == find_kv(flash, oldest, k)
           m == [local EXCEPT !.job = [NoLocal.job EXCEPT !.op = "Del", !.key = k]]
<1>1. local \in Local
  BY TInvParts
<1>2. DelCall(m, f, TRUE, "Idle") \/ Return("KvNameErr")
  BY DEF Del
<1>3. m \in Local
  BY <1>1, NoLocalType DEF Local, Job
<1> HIDE DEF m, f
<1>4. Calm(pc', local')
  BY <1>2, <1>3, DelCallCalm, CalmLabels DEF Return, Goto, CalmPcs
<1>5. FlashGood'
  BY LInvFlash, NoCallGood DEF Del
<1> QED BY <1>4, <1>5, CalmNext

\* format_sector leaves a sector without nodes.
LEMMA FmtLog == ASSUME TInv, LInv, NEW ok \in BOOLEAN, FmtErase(ok) \/ FmtHdr(ok) PROVE LInv'
<1>1. FlashOK /\ local \in Local /\ local.fmt.sec \in Sector /\ FlashGood
  BY TInvParts, LInvFlash, FrameTypes DEF FmtFrame
<1>2. \/ Program(local.fmt.sec, Erased, ok)
      \/ Program(local.fmt.sec, Formatted, ok)
  BY DEF FmtErase, FmtHdr
<1>3. FlashGood'
  BY <1>1, <1>2, FormatGood, ProgramGood
<1>4. pc' = "FmtHdr" \/ FmtReturn(FALSE) \/ FmtReturn(ok)
  BY DEF FmtErase, FmtHdr, Goto
<1>5. Calm(pc', local')
  BY <1>1, <1>4, FmtReturnCalm, CalmLabels DEF CalmPcs, Plain
<1> QED BY <1>3, <1>5, CalmNext

\* The mark of a collection does not touch the log.
LEMMA GcSectorLog == ASSUME TInv, LInv, NEW ok \in BOOLEAN, GcSector(ok) PROVE LInv'
<1> DEFINE i == Least(GcAhead)
           s == Nth(local.gc.from, i)
<1>1. FlashOK /\ FlashGood /\ local.gc \in GcFrame
  BY TInvParts, LInvFlash, FrameTypes
<1>2. i \in Nat
  <2>1. GcAhead \subseteq Nat /\ GcAhead # {}
    BY <1>1, GeometryType DEF GcSector, GcAhead, GcFrame
  <2> QED BY <2>1, LeastExists
<1>3. s \in Sector
  BY <1>1, <1>2, NthType DEF GcFrame
<1>4. Program(s, [flash[s] EXCEPT !.dirty = "Gc"], ok) /\ pc' = "GcNode"
  BY DEF GcSector, Goto
<1> HIDE DEF s
<1>5. SectorGood([flash[s] EXCEPT !.dirty = "Gc"])
  BY <1>1, <1>3, DirtyGood DEF SectorDirtyStatus
<1>6. FlashGood'
  BY <1>1, <1>3, <1>4, <1>5, ProgramGood
<1> QED BY <1>4, <1>6, CalmLabels, CalmNext DEF CalmPcs, Plain

\* The mark of a damaged node does not touch the log.
LEMMA LoadErrHdrLog == ASSUME TInv, LInv, NEW ok \in BOOLEAN, LoadErrHdr(ok) PROVE LInv'
<1> DEFINE i == Least(StepsAhead)
           s == Nth(local.load.from, i)
           j == Least(InterruptedIn(i))
           image == WithNode(s, j, [flash[s].kvs[j] EXCEPT !.status = "ErrHdr"])
<1>1. FlashOK /\ FlashGood
  BY TInvParts, LInvFlash
<1>2. s \in Sector /\ j \in Nat
  BY StepsOK DEF LoadErrHdr
<1>3. Program(s, image, ok) /\ pc' = "LoadCollect"
  BY DEF LoadErrHdr, Goto
<1> HIDE DEF s, j
<1>4. SectorGood(image)
  BY <1>1, <1>2, StatusGood DEF KvStatus
<1>5. FlashGood'
  BY <1>1, <1>2, <1>3, <1>4, ProgramGood
<1> QED BY <1>3, <1>5, CalmLabels, CalmNext DEF CalmPcs, Plain

----------------------------------------------------------------------------
(* The actions around a node that is moved *)

\* do_gc_one moves a node of the image: its length is that of its key and value.
LEMMA GcNodeLog == ASSUME TInv, LInv, GcNode PROVE LInv'
<1> DEFINE j == Least(GcNodes)
           l == [local EXCEPT !.gc.idx = j]
<1>1. local \in Local /\ local.gc.sec \in Sector /\ FlashGood
  BY TInvParts, LInvFlash, FrameTypes DEF GcFrame
<1>2. j \in DOMAIN flash[local.gc.sec].kvs /\ flash[local.gc.sec].kvs[j].crc /\ j \in Nat
  BY GcNodesOK DEF GcNode
<1>3. MvCall(l, local.gc.sec, j, "GcNode") /\ NoCall
  BY DEF GcNode
<1> HIDE DEF j
<1>4. l \in Local
  BY <1>1, <1>2 DEF Local, GcFrame
<1> HIDE DEF l
<1> QED BY <1>1, <1>2, <1>3, <1>4, MvCallNext

\* So does recover_one_kv.
LEMMA LoadMoveLog == ASSUME TInv, LInv, LoadMove PROVE LInv'
<1> DEFINE i == Least(StepsAhead)
           s == Nth(local.load.from, i)
           j == Least(InterruptedIn(i))
           l == [local EXCEPT !.load.i = i, !.load.idx = j]
<1>1. local \in Local /\ FlashGood
  BY TInvParts, LInvFlash
<1>2. /\ i \in Nat /\ s \in Sector /\ j \in Nat
      /\ j \in DOMAIN flash[s].kvs /\ Interrupted(flash[s].kvs[j])
  BY StepsOK DEF LoadMove
<1>3. flash[s].kvs[j].status = "PreDelete" /\ MvCall(l, s, j, "LoadPass") /\ NoCall
  BY DEF LoadMove
<1> HIDE DEF i, j, s
<1>4. flash[s].kvs[j].crc
  BY <1>2, <1>3 DEF Interrupted
<1>5. l \in Local
  BY <1>1, <1>2 DEF Local, LoadFrame
<1> HIDE DEF l
<1> QED BY <1>1, <1>2, <1>3, <1>4, <1>5, MvCallNext

----------------------------------------------------------------------------
(* The actions around a node that is written *)

\* The place of the node: its room, and that it is the end of the log.
PutRoom == local.put.addr + PutLen + SEC_REMAIN_THRESHOLD < SecSize
PutPlace == LET sec == flash[local.put.sec]
            IN  /\ sec.ok /\ sec.store \in {"Empty", "Using"}
                /\ local.put.addr = empty_kv(sec)

\* A step after which a node waits for its first write.
LEMMA WaitNext ==
  ASSUME FlashGood', PutWaits(pc', local'), PutRoom', PutPlace'
  PROVE  LInv'
<1>1. pc' \notin PutPcs \ {"PutSec"} /\ ~MvLive(pc', local')
  BY DEF PutWaits, MvLive, PutPcs, DelPcs
<1>2. PlaceOK'
  BY <1>1 DEF PlaceOK, PutRoom, PutPlace, PutPcs
<1>3. LensOK'
  BY <1>1 DEF FlashGood, SectorGood, LensOK, PutPcs
<1> QED BY <1>2, <1>3 DEF LInv, FlashGood, SectorGood, EmptyOK, LogOK

\* What alloc_kv finds has room for the node and the margin.
LEMMA AllocPlace ==
  ASSUME TInv, NEW len \in Nat, alloc_kv(flash, oldest, gcRequest, len).found
  PROVE  LET a == alloc_kv(flash, oldest, gcRequest, len)
         IN  /\ a.sec \in Sector /\ flash[a.sec].ok /\ flash[a.sec].store \in {"Empty", "Using"}
             /\ empty_kv(flash[a.sec]) \in Nat
             /\ empty_kv(flash[a.sec]) + len + SEC_REMAIN_THRESHOLD < SecSize
<1> DEFINE a == alloc_kv(flash, oldest, gcRequest, len)
<1>1. /\ a.sec \in Sector /\ flash[a.sec].ok /\ flash[a.sec].store \in {"Empty", "Using"}
      /\ remain(flash[a.sec]) > len + SEC_REMAIN_THRESHOLD
  BY TInvParts, AllocFound DEF FlashOK, RamOK
<1> HIDE DEF a
<1>2. empty_kv(flash[a.sec]) \in Nat
  BY <1>1, TInvParts, EmptyKvType
<1>3. remain(flash[a.sec]) = SecSize - empty_kv(flash[a.sec])
  BY <1>1 DEF remain
<1>4. SEC_REMAIN_THRESHOLD \in Nat
  BY DEF SEC_REMAIN_THRESHOLD, KV_HDR_DATA_SIZE, KV_NAME_MAX
<1> QED BY <1>1, <1>2, <1>3, <1>4, GeometryType DEF a

\* new_kv finds a place at the end of a log with room for the node and the margin.
LEMMA NewKvLog == ASSUME TInv, LInv, NewKv PROVE LInv'
<1> DEFINE new == local.new
           a == alloc_kv(flash, oldest, gcRequest, NewKvLen)
           put == [sec |-> a.sec, addr |-> empty_kv(flash[a.sec]), key |-> new.key,
                   val |-> new.val, full |-> FALSE,
                   ret |-> IF new.ret = "SetFind" THEN "SetEnd" ELSE "DefKv"]
<1>1. local \in Local /\ FlashGood /\ FlashGood' /\ flash' = flash
  BY TInvParts, LInvFlash, NoCallGood DEF NewKv, NoCall
<1>2. NewKvLen \in Nat
  BY TInvParts, KvLenType DEF NewKv, NewKvLen, ArgsOK, NewOK, Stored
<1>3. CASE a.found
  <2>1. pc' \in {"SetFind", "PutSec"} /\ local' = [local EXCEPT !.put = put]
    BY <1>3 DEF NewKv, NewKvFound, Goto
  <2>2. /\ a.sec \in Sector /\ flash[a.sec].ok /\ flash[a.sec].store \in {"Empty", "Using"}
        /\ empty_kv(flash[a.sec]) + NewKvLen + SEC_REMAIN_THRESHOLD < SecSize
    BY <1>2, <1>3, AllocPlace
  <2> HIDE DEF a
  <2>3. local'.put = put
    BY <1>1, <2>1 DEF Local
  <2>4. /\ local'.put.sec = a.sec /\ local'.put.addr = empty_kv(flash[a.sec])
        /\ PutLen' = NewKvLen
    BY <2>3 DEF PutLen, NewKvLen
  <2>5. PutWaits(pc', local')
    BY <2>1 DEF PutWaits
  <2>6. PutRoom' /\ PutPlace'
    BY <1>1, <2>2, <2>4 DEF PutRoom, PutPlace
  <2> QED BY <1>1, <2>5, <2>6, WaitNext
<1>4. CASE ~a.found
  <2>1. pc' \in CalmPcs
    BY <1>4 DEF NewKv, NewKvFailed, GcCall, Return, Goto, CalmPcs, Plain
  <2> QED BY <1>1, <2>1, CalmLabels, CalmNext
<1> QED BY <1>3, <1>4

\* The place is still the end of the log when the old node is looked for.
LEMMA SetFindLog == ASSUME TInv, LInv, SetFind PROVE LInv'
<1> DEFINE f == find_kv(flash, oldest, local.job.key)
           m == [local EXCEPT !.job.old = f]
           d == [m EXCEPT !.del = [ptr |-> f, complete |-> FALSE, ret |-> "PutSec"]]
<1>1. local \in Local /\ FlashGood /\ FlashGood' /\ flash' = flash
  BY TInvParts, LInvFlash, NoCallGood DEF SetFind, NoCall
<1>2. PutWaits(pc, local)
  BY DEF SetFind, PutWaits
<1>3. PutRoom /\ PutPlace
  BY <1>2 DEF LInv, PlaceOK, PutRoom, PutPlace, PutLive
<1>4. \/ pc' = "DelStatus" /\ local' = d
      \/ pc' = "SetEnd"
      \/ pc' = "PutSec" /\ local' = m
  BY DEF SetFind, DelCall, Goto
<1>5. d.put = local.put /\ d.del.ret = "PutSec" /\ m.put = local.put
  BY <1>1 DEF Local
<1> HIDE DEF d, m
<1>6. CASE pc' = "SetEnd"
  BY <1>1, <1>6, CalmLabels, CalmNext DEF CalmPcs
<1>7. CASE pc' # "SetEnd"
  <2>1. PutWaits(pc', local') /\ local'.put = local.put
    BY <1>4, <1>5, <1>7 DEF PutWaits, DelPcs
  <2>2. PutRoom' /\ PutPlace'
    BY <1>1, <1>3, <2>1 DEF PutRoom, PutPlace, PutLen
  <2> QED BY <1>1, <2>1, <2>2, WaitNext
<1> QED BY <1>6, <1>7

\* The place for a copy has room for the node that is copied.
LEMMA MvAllocLog == ASSUME TInv, LInv, MvAlloc PROVE LInv'
<1> DEFINE mv == local.mv
           a == alloc_kv(flash, oldest, gcRequest, mv.len)
           put == [sec |-> a.sec, addr |-> empty_kv(flash[a.sec]), key |-> mv.key,
                   val |-> mv.val, full |-> FALSE, ret |-> "MvReturn"]
           m == [local EXCEPT !.mv.ok = TRUE]
<1>1. local \in Local /\ mv \in MvFrame /\ FlashGood /\ FlashGood' /\ flash' = flash
  BY TInvParts, FrameTypes, LInvFlash, NoCallGood DEF MvAlloc, NoCall
<1>2. mv.len \in Nat /\ mv.len = kv_len(mv.key, mv.val)
  BY <1>1 DEF MvAlloc, LInv, LensOK, MvLive, HasKvLen, MvFrame
<1>3. \/ MvReturn(local, FALSE)
      \/ DelCall(m, mv.ptr, TRUE, "MvReturn")
      \/ a.found /\ pc' = "PutSec" /\ local' = [local EXCEPT !.put = put]
  <2> HIDE DEF m
  <2> QED BY DEF MvAlloc, Goto, m
<1>4. CASE MvReturn(local, FALSE)
  BY <1>1, <1>4, MvReturnCalm, CalmNext
<1>5. CASE DelCall(m, mv.ptr, TRUE, "MvReturn")
  <2>1. m \in Local
    BY <1>1 DEF Local, MvFrame
  <2> DEFINE p == mv.ptr
  <2>2. DelCall(m, p, TRUE, "MvReturn")
    BY <1>5
  <2> HIDE DEF m, p
  <2> QED BY <1>1, <2>1, <2>2, DelCallCalm, CalmNext
<1>6. CASE a.found /\ pc' = "PutSec" /\ local' = [local EXCEPT !.put = put]
  <2>1. /\ a.sec \in Sector /\ flash[a.sec].ok /\ flash[a.sec].store \in {"Empty", "Using"}
        /\ empty_kv(flash[a.sec]) + mv.len + SEC_REMAIN_THRESHOLD < SecSize
    BY <1>2, <1>6, AllocPlace
  <2>2. pc' = "PutSec" /\ local' = [local EXCEPT !.put = put]
    BY <1>6
  <2> HIDE DEF a
  <2>3. local'.put = put
    BY <1>1, <2>2 DEF Local
  <2>4. /\ local'.put.sec = a.sec /\ local'.put.addr = empty_kv(flash[a.sec])
        /\ PutLen' = mv.len
    BY <1>2, <2>3 DEF PutLen
  <2>5. PutWaits(pc', local')
    BY <2>2 DEF PutWaits
  <2>6. PutRoom' /\ PutPlace'
    BY <1>1, <2>1, <2>4 DEF PutRoom, PutPlace
  <2> QED BY <1>1, <2>5, <2>6, WaitNext
<1> QED BY <1>3, <1>4, <1>5, <1>6

----------------------------------------------------------------------------
(* del_kv *)

\* A program of one sector that leaves the places of its nodes alone, in del_kv.
LEMMA DelWrite ==
  ASSUME TInv, LInv, pc \in DelPcs, FlashGood',
         \A s \in Sector : SameShape(flash[s], flash'[s]) /\ flash'[s] \in SectorImage,
         \/ pc' \in DelPcs /\ local'.del = local.del /\ local'.put = local.put
               /\ local'.mv = local.mv
         \/ \E ok \in BOOLEAN : DelReturn(ok)
  PROVE  LInv'
<1>1. local \in Local /\ local.put.sec \in Sector /\ \A s \in Sector : flash[s] \in SectorImage
  BY TInvParts, FrameTypes DEF PutFrame
<1>2. \/ Calm(pc', local')
      \/ local.del.ret = "PutSec" /\ PutWaits(pc', local') /\ local'.put = local.put
      \/ local.del.ret = "MvAlloc" /\ MvLive(pc', local') /\ ~PutLive(pc', local')
           /\ local'.mv = local.mv
  <2>1. CASE pc' \in DelPcs /\ local'.del = local.del /\ local'.put = local.put
               /\ local'.mv = local.mv
    BY <2>1 DEF Calm, PutLive, PutWaits, MvLive, PutPcs, DelPcs
  <2>2. CASE \E ok \in BOOLEAN : DelReturn(ok)
    <3>1. \/ Calm(pc', local')
          \/ local.del.ret = "PutSec" /\ pc' = "PutSec" /\ local'.put = local.put
          \/ local.del.ret = "MvAlloc" /\ pc' = "MvAlloc" /\ local'.mv = local.mv
      BY <1>1, <2>2, DelReturnLive
    <3> QED BY <3>1 DEF PutLive, PutWaits, MvLive, PutPcs, DelPcs
  <2> QED BY <2>1, <2>2
<1>3. CASE Calm(pc', local')
  BY <1>3, CalmNext
<1>4. CASE local.del.ret = "PutSec" /\ PutWaits(pc', local') /\ local'.put = local.put
  <2>1. PutWaits(pc, local)
    BY <1>4 DEF PutWaits
  <2>2. PutRoom /\ PutPlace
    BY <2>1 DEF LInv, PlaceOK, PutRoom, PutPlace, PutLive
  <2>3. PutRoom'
    BY <1>4, <2>2 DEF PutRoom, PutLen
  <2>4. PutPlace'
    <3> DEFINE s == local.put.sec
    <3>1. empty_kv(flash'[s]) = empty_kv(flash[s])
      BY <1>1, ShapeLast
    <3>2. flash'[s].ok = flash[s].ok /\ flash'[s].store = flash[s].store
      BY <1>1 DEF SameShape
    <3> QED BY <1>4, <2>2, <3>1, <3>2 DEF PutPlace
  <2> QED BY <1>4, <2>3, <2>4, WaitNext
<1>5. CASE local.del.ret = "MvAlloc" /\ MvLive(pc', local') /\ ~PutLive(pc', local')
             /\ local'.mv = local.mv
  <2>1. MvLive(pc, local)
    BY <1>5 DEF MvLive
  <2>2. HasKvLen(local'.mv)
    BY <1>5, <2>1 DEF LInv, LensOK
  <2>3. pc' \notin PutPcs /\ ~PutWaits(pc', local')
    BY <1>5 DEF PutLive
  <2>4. LensOK'
    BY <2>2, <2>3 DEF LensOK, FlashGood, SectorGood, PutPcs, HasKvLen
  <2>5. PlaceOK'
    BY <1>5, <2>3 DEF PlaceOK, PutPcs
  <2> QED BY <2>4, <2>5 DEF LInv, FlashGood, SectorGood, EmptyOK, LogOK
<1> QED BY <1>2, <1>3, <1>4, <1>5

\* A program of one sector that keeps its shape keeps that of all.
LEMMA ShapeProgram ==
  ASSUME FlashOK, FlashOK', NEW s \in Sector, NEW image, SameShape(flash[s], image), NEW ok,
         Program(s, image, ok)
  PROVE  \A t \in Sector : SameShape(flash[t], flash'[t]) /\ flash'[t] \in SectorImage
<1>1. flash \in Flash /\ flash' \in Flash
  BY DEF FlashOK
<1>2. \A t \in Sector : flash'[t] \in SectorImage
  BY <1>1 DEF Flash
<1>3. \A t \in Sector : flash'[t] = flash[t] \/ (t = s /\ flash'[t] = image)
  BY <1>1 DEF Program, Flash
<1>4. \A t \in Sector : SameShape(flash[t], flash[t])
  BY DEF SameShape
<1> QED BY <1>2, <1>3, <1>4

\* The status of the old node does not move the end of a log.
LEMMA DelStatusLog == ASSUME TInv, TInv', LInv, NEW ok \in BOOLEAN, DelStatus(ok) PROVE LInv'
<1> DEFINE del == local.del
           s == del.ptr.sec
           j == del.ptr.idx
           status == IF del.complete THEN "Deleted" ELSE "PreDelete"
           image == WithNode(s, j, [flash[s].kvs[j] EXCEPT !.status = status])
           m == [local EXCEPT !.job.done = local.job.done \/ del.ret = "Idle"]
<1>1. FlashOK /\ FlashOK' /\ FlashGood /\ local \in Local /\ s \in Sector /\ j \in Nat
  <2>1. FlashOK /\ FlashGood /\ local \in Local /\ s \in Sector /\ j \in Nat
    BY TInvParts, LInvFlash, FrameTypes DEF DelFrame, Ptr
  <2>2. FlashOK'
    BY DEF TInv, TypeOK, NamesOK, FlashOK, MediumOK, Flash
  <2> QED BY <2>1, <2>2
<1>2. status \in KvStatus
  BY DEF KvStatus
<1>3. /\ Program(s, image, ok) /\ pc = "DelStatus"
      /\ (pc' = "DelDirty" /\ local' = m) \/ DelReturn(FALSE)
  BY DEF DelStatus, Goto
<1>4. SectorGood(image) /\ SameShape(flash[s], image)
  <2> HIDE DEF status, s, j
  <2> QED BY <1>1, <1>2, StatusGood
<1>5. m.del = local.del /\ m.put = local.put /\ m.mv = local.mv
  BY <1>1 DEF Local
<1> HIDE DEF m, image, s
<1>6. FlashGood'
  BY <1>1, <1>3, <1>4, ProgramGood
<1>7. \A t \in Sector : SameShape(flash[t], flash'[t]) /\ flash'[t] \in SectorImage
  BY <1>1, <1>3, <1>4, ShapeProgram
<1> QED BY <1>3, <1>5, <1>6, <1>7, DelWrite DEF DelPcs

\* Nor does the mark of its sector.
LEMMA DelDirtyLog == ASSUME TInv, TInv', LInv, NEW ok \in BOOLEAN, DelDirty(ok) PROVE LInv'
<1> DEFINE s == local.del.ptr.sec
           image == [flash[s] EXCEPT !.dirty = "True"]
<1>1. FlashOK /\ FlashOK' /\ FlashGood /\ local \in Local /\ s \in Sector
  <2>1. FlashOK /\ FlashGood /\ local \in Local /\ s \in Sector
    BY TInvParts, LInvFlash, FrameTypes DEF DelFrame, Ptr
  <2>2. FlashOK'
    BY DEF TInv, TypeOK, NamesOK, FlashOK, MediumOK, Flash
  <2> QED BY <2>1, <2>2
<1>2. (Program(s, image, ok) \/ flash' = flash) /\ pc = "DelDirty" /\ DelReturn(ok)
  BY DEF DelDirty, NoCall
<1>3. SectorGood(image) /\ SameShape(flash[s], image)
  BY <1>1, DirtyGood DEF SectorDirtyStatus
<1> HIDE DEF image, s
<1>4. FlashGood' /\ \A t \in Sector : SameShape(flash[t], flash'[t]) /\ flash'[t] \in SectorImage
  <2>1. CASE Program(s, image, ok)
    BY <1>1, <1>3, <2>1, ProgramGood, ShapeProgram
  <2>2. CASE flash' = flash
    BY <1>1, <2>2 DEF FlashGood, SameShape, FlashOK, Flash
  <2> QED BY <1>2, <2>1, <2>2
<1> QED BY <1>2, <1>4, DelWrite DEF DelPcs

----------------------------------------------------------------------------
(* The writes of create_kv_blob and move_kv_body *)

\* The log of a sector ends behind the sector header and before the next free place.
LEMMA LogEndType ==
  ASSUME NEW sec \in SectorImage, SectorLogOK(sec)
  PROVE  LogEnd(sec) \in Nat /\ LogEnd(sec) >= SECTOR_HDR_DATA_SIZE /\ LogEnd(sec) <= empty_kv(sec)
<1>1. CASE sec.kvs = <<>>
  BY <1>1 DEF LogEnd, empty_kv, SECTOR_HDR_DATA_SIZE, KV_HDR_DATA_SIZE
<1>2. CASE sec.kvs # <<>>
  <2>1. LastNode(sec) \in KvNode /\ LastNode(sec).addr >= SECTOR_HDR_DATA_SIZE
    BY <1>2, LastNodeType DEF SectorLogOK
  <2>2. LastNode(sec).addr \in Nat /\ LastNode(sec).len \in Nat
    BY <2>1 DEF KvNode
  <2> QED BY <1>2, <2>1, <2>2 DEF LogEnd, empty_kv, SECTOR_HDR_DATA_SIZE
<1> QED BY <1>1, <1>2

\* A node appended behind the log, with the margin behind it.
LEMMA AppendGood ==
  ASSUME NEW sec \in SectorImage, SectorGood(sec), sec.store = "Using",
         NEW node \in KvNode, ~node.crc, LogEnd(sec) <= node.addr,
         node.addr + node.len < SecSize - SEC_REMAIN_THRESHOLD,
         NEW image, image = [sec EXCEPT !.kvs = Append(sec.kvs, node)]
  PROVE  /\ SectorGood(image) /\ image.store = "Using" /\ image.kvs # <<>>
         /\ LastNode(image) = node
<1> DEFINE kvs == Append(sec.kvs, node)
           n == Len(sec.kvs)
<1>1. sec.kvs \in Seq(KvNode) /\ n \in Nat /\ SectorLogOK(sec)
  BY DEF SectorImage, SectorGood
<1>2. /\ kvs \in Seq(KvNode) /\ Len(kvs) = n + 1 /\ kvs[n + 1] = node /\ kvs # <<>>
      /\ \A j \in 1 .. n : kvs[j] = sec.kvs[j]
  BY <1>1
<1>3. image.kvs = kvs /\ image.store = "Using"
  BY DEF SectorImage
<1> HIDE DEF kvs
<1>4. LastNode(image) = node /\ LogEnd(image) = node.addr + node.len
  BY <1>2, <1>3 DEF LastNode, LogEnd
<1>5. LogEnd(sec) >= SECTOR_HDR_DATA_SIZE /\ node.addr >= SECTOR_HDR_DATA_SIZE
  BY <1>1, LogEndType DEF KvNode, SECTOR_HDR_DATA_SIZE
<1>6. \A j \in DOMAIN kvs : kvs[j].addr >= SECTOR_HDR_DATA_SIZE
  <2>1. DOMAIN kvs = 1 .. n + 1 /\ DOMAIN sec.kvs = 1 .. n
    BY <1>1, <1>2
  <2> TAKE j \in DOMAIN kvs
  <2>2. CASE j = n + 1
    BY <1>2, <1>5, <2>2
  <2>3. CASE j # n + 1
    <3>1. j \in 1 .. n
      BY <1>1, <2>1, <2>3
    <3> QED BY <1>1, <1>2, <2>1, <3>1 DEF SectorLogOK
  <2> QED BY <2>2, <2>3
<1>7. \A j \in 1 .. Len(kvs)-1 : kvs[j+1].addr >= kvs[j].addr + kvs[j].len
  <2> SUFFICES ASSUME NEW j \in 1 .. n PROVE kvs[j+1].addr >= kvs[j].addr + kvs[j].len
    BY <1>1, <1>2
  <2>1. CASE j = n
    <3>1. sec.kvs # <<>> /\ kvs[n] = LastNode(sec)
      BY <1>1, <1>2, <2>1 DEF LastNode
    <3>2. LogEnd(sec) = LastNode(sec).addr + LastNode(sec).len
      BY <3>1 DEF LogEnd
    <3> QED BY <1>2, <2>1, <3>1, <3>2
  <2>2. CASE j # n
    <3>1. j \in 1 .. n-1 /\ j+1 \in 1 .. n
      BY <1>1, <2>2
    <3>2. sec.kvs[j+1].addr >= sec.kvs[j].addr + sec.kvs[j].len
      BY <1>1, <3>1 DEF SectorLogOK
    <3> QED BY <1>2, <3>1, <3>2
  <2> QED BY <2>1, <2>2
<1>8. SectorLogOK(image)
  BY <1>3, <1>4, <1>6, <1>7 DEF SectorLogOK
<1>9. \A j \in DOMAIN kvs : kvs[j].crc => HasKvLen(kvs[j])
  <2> TAKE j \in DOMAIN kvs
  <2>1. j = n + 1 \/ (j \in 1 .. n /\ j \in DOMAIN sec.kvs)
    BY <1>1, <1>2
  <2> QED BY <1>2, <2>1 DEF SectorGood
<1> QED BY <1>2, <1>3, <1>4, <1>8, <1>9 DEF SectorGood

\* The last node of a sector written again at its place.
LEMMA LastGood ==
  ASSUME NEW sec \in SectorImage, SectorGood(sec), sec.kvs # <<>>,
         NEW node \in KvNode, node.addr = LastNode(sec).addr,
         node.addr + node.len < SecSize - SEC_REMAIN_THRESHOLD,
         node.crc => HasKvLen(node),
         NEW image, image = [sec EXCEPT !.kvs[Len(sec.kvs)] = node]
  PROVE  /\ SectorGood(image) /\ image.store = sec.store /\ image.kvs # <<>>
         /\ LastNode(image) = node
<1> DEFINE n == Len(sec.kvs)
           kvs == [sec.kvs EXCEPT ![n] = node]
<1>1. sec.kvs \in Seq(KvNode) /\ n \in Nat /\ n >= 1 /\ SectorLogOK(sec)
  BY DEF SectorImage, SectorGood
<1>2. /\ kvs \in Seq(KvNode) /\ Len(kvs) = n /\ kvs[n] = node /\ kvs # <<>>
      /\ \A j \in 1 .. n-1 : kvs[j] = sec.kvs[j]
  BY <1>1
<1>3. image.kvs = kvs /\ image.store = sec.store
  BY DEF SectorImage
<1> HIDE DEF kvs
<1>4. LastNode(image) = node /\ LogEnd(image) = node.addr + node.len
  BY <1>2, <1>3 DEF LastNode, LogEnd
<1>5. sec.kvs[n] = LastNode(sec)
  BY DEF LastNode
<1>6. DOMAIN kvs = 1 .. n /\ DOMAIN sec.kvs = 1 .. n
  BY <1>1, <1>2
<1>7. \A j \in DOMAIN kvs : kvs[j].addr = sec.kvs[j].addr
                            /\ (j # n => kvs[j] = sec.kvs[j])
  BY <1>1, <1>2, <1>5, <1>6
<1>8. \A j \in DOMAIN kvs : kvs[j].addr >= SECTOR_HDR_DATA_SIZE
  BY <1>1, <1>6, <1>7 DEF SectorLogOK
<1>9. \A j \in 1 .. Len(kvs)-1 : kvs[j+1].addr >= kvs[j].addr + kvs[j].len
  <2> SUFFICES ASSUME NEW j \in 1 .. n-1 PROVE kvs[j+1].addr >= kvs[j].addr + kvs[j].len
    BY <1>1, <1>2
  <2>1. j \in 1 .. n /\ j+1 \in 1 .. n /\ j # n
    BY <1>1
  <2> QED BY <1>1, <1>6, <1>7, <2>1 DEF SectorLogOK
<1>10. sec.store # "Full" /\ sec.store \notin {"Unused", "Empty"}
  BY DEF SectorGood, SectorLogOK
<1>11. SectorLogOK(image)
  BY <1>3, <1>4, <1>8, <1>9, <1>10 DEF SectorLogOK
<1>12. \A j \in DOMAIN kvs : kvs[j].crc => HasKvLen(kvs[j])
  BY <1>2, <1>6, <1>7 DEF SectorGood
<1> QED BY <1>2, <1>3, <1>4, <1>10, <1>11, <1>12 DEF SectorGood

\* The node has begun at the end of the log.
Begun == LET sec == flash[local.put.sec]
         IN  sec.store = "Using" /\ sec.kvs # <<>> /\ LastNode(sec).addr = local.put.addr

\* A step after which the next write goes to the node just begun.
LEMMA WriteNext ==
  ASSUME FlashGood', pc' \in {"PutHdr", "PutBody", "PutCommit"}, PutRoom', Begun',
         pc' = "PutBody" => HasKvLen(LastNode(flash[local.put.sec]))'
  PROVE  LInv'
<1>1. ~MvLive(pc', local') /\ ~PutWaits(pc', local')
  BY DEF PutWaits, MvLive, DelPcs
<1>2. PlaceOK'
  BY <1>1 DEF PlaceOK, PutRoom, Begun
<1>3. LensOK'
  BY <1>1 DEF FlashGood, SectorGood, LensOK
<1> QED BY <1>2, <1>3 DEF LInv, FlashGood, SectorGood, EmptyOK, LogOK

\* What update_sec_status does: it marks an empty sector and never a full one.
LEMMA PutSecIs ==
  ASSUME TInv, LInv, NEW ok \in BOOLEAN, PutSec(ok)
  PROVE  LET s == local.put.sec
             sec == flash[s]
         IN  /\ pc = "PutSec" /\ sec.ok
             /\ \/ /\ sec.store = "Empty" /\ Program(s, [sec EXCEPT !.store = "Using"], ok)
                   /\ \/ /\ pc' = "PutStatus" /\ local' = [local EXCEPT !.put.full = FALSE]
                         /\ gcRequest' = gcRequest
                      \/ PutReturn(FALSE)
                \/ /\ sec.store = "Using" /\ NoCall
                   /\ pc' = "PutStatus" /\ local' = local /\ gcRequest' = gcRequest
<1> DEFINE s == local.put.sec
           sec == flash[s]
           full == sec.store = "Using" /\ remain(sec) - PutLen < SEC_REMAIN_THRESHOLD
           Full(b) == [local EXCEPT !.put.full = b]
<1>1. local.put \in PutFrame
  BY TInvParts, FrameTypes
<1>2. pc = "PutSec"
  BY DEF PutSec
<1>3. PutRoom /\ PutPlace
  BY <1>2 DEF LInv, PlaceOK, PutRoom, PutPlace, PutLive, PutWaits
<1>4. PutLen \in Nat /\ SEC_REMAIN_THRESHOLD \in Nat /\ local.put.addr \in Nat
  <2>1. Stored(local.put.key, local.put.val)
    BY <1>2, TInvParts DEF ArgsOK, PutLive, PutWaits
  <2>2. PutLen \in Nat
    BY <2>1, KvLenType DEF PutLen, Stored
  <2> QED BY <1>1, <2>2 DEF PutFrame, SEC_REMAIN_THRESHOLD, KV_HDR_DATA_SIZE, KV_NAME_MAX
<1>5. full = FALSE
  <2>1. remain(sec) = SecSize - local.put.addr
    BY <1>3 DEF PutPlace, remain
  <2>2. ~(remain(sec) - PutLen < SEC_REMAIN_THRESHOLD)
    BY <1>3, <1>4, <2>1, GeometryType DEF PutRoom
  <2> QED BY <2>2
<1>6. sec.ok /\ sec.store \in {"Empty", "Using"}
  BY <1>3 DEF PutPlace
<1>7. (full /\ ok) = FALSE
  BY <1>5
<1>8. \/ /\ sec.store = "Empty" /\ Program(s, [sec EXCEPT !.store = "Using"], ok)
         /\ \/ pc' = "PutStatus" /\ local' = Full(full /\ ok) /\ gcRequest' = gcRequest
            \/ PutReturn(FALSE)
      \/ /\ sec.store = "Using" /\ NoCall
         /\ pc' = "PutStatus" /\ local' = local /\ gcRequest' = gcRequest
  <2> HIDE DEF Full
  <2> QED BY <1>5, <1>6 DEF PutSec, PutNext, Goto, Full
<1> QED BY <1>2, <1>5, <1>6, <1>8

\* The log is left alone.
LEMMA PutSecLog == ASSUME TInv, LInv, NEW ok \in BOOLEAN, PutSec(ok) PROVE LInv'
<1> DEFINE s == local.put.sec
           sec == flash[s]
           m == [local EXCEPT !.put.full = FALSE]
<1>1. /\ FlashOK /\ FlashGood /\ local \in Local /\ s \in Sector /\ local.put \in PutFrame
      /\ sec \in SectorImage /\ SectorGood(sec)
  BY TInvParts, LInvFlash, FrameTypes DEF PutFrame, FlashGood
<1>2. pc = "PutSec"
  BY DEF PutSec
<1>3. PutRoom /\ PutPlace
  BY <1>2 DEF LInv, PlaceOK, PutRoom, PutPlace, PutLive, PutWaits
<1>6. LogEnd(sec) <= local.put.addr
  BY <1>1, <1>3, LogEndType DEF PutPlace, SectorGood
<1>7. \/ /\ sec.store = "Empty" /\ Program(s, [sec EXCEPT !.store = "Using"], ok)
         /\ (pc' = "PutStatus" /\ local' = m) \/ PutReturn(FALSE)
      \/ /\ sec.store = "Using" /\ flash' = flash /\ pc' = "PutStatus" /\ local' = local
  BY PutSecIs DEF NoCall
<1>8. /\ m.put.sec = s /\ m.put.addr = local.put.addr
      /\ m.put.key = local.put.key /\ m.put.val = local.put.val
  BY <1>1 DEF Local, PutFrame
<1> HIDE DEF m
<1>9. FlashGood' /\ LogEnd(flash'[s]) = LogEnd(sec)
      /\ (sec.store = "Empty" => failing' \/ flash'[s].store = "Using")
  <2>1. CASE sec.store = "Empty" /\ Program(s, [sec EXCEPT !.store = "Using"], ok)
    <3> DEFINE img == [sec EXCEPT !.store = "Using"]
    <3>1. sec.kvs = <<>>
      BY <1>1, <2>1 DEF SectorGood
    <3>2. img.kvs = <<>> /\ img.store = "Using"
      BY <1>1, <3>1 DEF SectorImage
    <3>3. Program(s, img, ok)
      BY <2>1
    <3> HIDE DEF img
    <3>4. SectorGood(img)
      <4>1. DOMAIN <<>> = {} /\ 1 .. Len(<<>>) - 1 = {}
        OBVIOUS
      <4> QED BY <3>2, <4>1 DEF SectorGood, SectorLogOK
    <3>5. FlashGood'
      BY <1>1, <3>3, <3>4, ProgramGood
    <3>6. IF ok THEN flash'[s] = img ELSE flash' = flash /\ failing'
      BY <1>1, <3>3 DEF Program, Call, FlashOK, Flash
    <3> QED BY <3>1, <3>2, <3>5, <3>6 DEF LogEnd
  <2>2. CASE sec.store = "Using" /\ flash' = flash
    BY <1>1, <2>2 DEF FlashGood
  <2> QED BY <1>7, <2>1, <2>2
<1>10. CASE pc' = "PutStatus"
  <2>1. CASE PutReturn(FALSE)
    BY <1>1, <1>9, <2>1, PutReturnCalm, CalmNext
  <2>2. CASE ~PutReturn(FALSE)
    <3>1. /\ local'.put.sec = s /\ local'.put.addr = local.put.addr
          /\ local'.put.key = local.put.key /\ local'.put.val = local.put.val
      BY <1>7, <1>8, <2>2
    <3>2. PutRoom'
      BY <1>3, <3>1 DEF PutRoom, PutLen
    <3>3. failing' \/ flash'[s].store = "Using"
      BY <1>7, <1>9
    <3>4. ~MvLive(pc', local') /\ ~PutWaits(pc', local')
      BY <1>10 DEF PutWaits, MvLive, DelPcs
    <3>5. PlaceOK'
      BY <1>6, <1>9, <1>10, <3>1, <3>2, <3>3, <3>4 DEF PlaceOK, PutRoom
    <3>6. LensOK'
      BY <1>9, <1>10, <3>4 DEF FlashGood, SectorGood, LensOK
    <3> QED BY <1>9, <3>5, <3>6 DEF LInv, FlashGood, SectorGood, EmptyOK, LogOK
  <2> QED BY <2>1, <2>2
<1>11. CASE pc' # "PutStatus"
  BY <1>1, <1>7, <1>9, <1>11, PutReturnCalm, CalmNext
<1> QED BY <1>10, <1>11

\* The status byte is programmed at the end of the log.
LEMMA PutStatusLog == ASSUME TInv, LInv, NEW ok \in BOOLEAN, PutStatus(ok) PROVE LInv'
<1> DEFINE s == local.put.sec
           sec == flash[s]
           len == IF local.put.addr = SECTOR_HDR_DATA_SIZE THEN KV_HDR_DATA_SIZE ELSE 1
           node == [addr |-> local.put.addr, len |-> len, status |-> "ErrHdr",
                    crc |-> FALSE, key |-> None, val |-> None]
           image == [sec EXCEPT !.kvs = Append(sec.kvs, node)]
<1>1. /\ FlashOK /\ FlashGood /\ local \in Local /\ s \in Sector /\ local.put \in PutFrame
      /\ sec \in SectorImage /\ SectorGood(sec)
  BY TInvParts, LInvFlash, FrameTypes DEF PutFrame, FlashGood
<1>2. pc = "PutStatus" /\ Program(s, image, ok) /\ PutNext(ok, "PutHdr")
  <2>1. [sec EXCEPT !.kvs = Append(@, node)] = image
    BY <1>1 DEF SectorImage
  <2> HIDE DEF image
  <2> QED BY <2>1 DEF PutStatus
<1>3. /\ PutRoom /\ LogEnd(sec) <= local.put.addr /\ (failing \/ sec.store = "Using")
  BY <1>2 DEF LInv, PlaceOK, PutRoom, PutLive, PutPcs
<1>4. CASE ~ok
  <2>1. PutReturn(FALSE)
    BY <1>2, <1>4 DEF PutNext
  <2>2. FlashGood'
    BY <1>1, <1>2, <1>4 DEF Program, FlashGood
  <2> QED BY <1>1, <2>1, <2>2, PutReturnCalm, CalmNext
<1>5. CASE ok
  <2>1. ~failing /\ sec.store = "Using"
    BY <1>2, <1>3, <1>5 DEF Program, Call
  <2>2. /\ len \in Nat /\ len <= KV_HDR_DATA_SIZE
    BY DEF KV_HDR_DATA_SIZE
  <2>3. Stored(local.put.key, local.put.val)
    BY <1>2, TInvParts DEF ArgsOK, PutLive, PutPcs
  <2>4. PutLen \in Nat /\ PutLen >= KV_HDR_DATA_SIZE
    BY <2>3, KvLenType DEF PutLen, Stored
  <2>5. local.put.addr \in Nat
    BY <1>1 DEF PutFrame
  <2>6. local.put.addr + len < SecSize - SEC_REMAIN_THRESHOLD
    BY <1>3, <2>2, <2>4, <2>5, GeometryType
       DEF PutRoom, SEC_REMAIN_THRESHOLD, KV_HDR_DATA_SIZE, KV_NAME_MAX
  <2> HIDE DEF len
  <2>7. /\ node \in KvNode /\ ~node.crc /\ node.addr = local.put.addr /\ node.len = len
    BY <2>2, <2>5 DEF KvNode, KvStatus
  <2> HIDE DEF node
  <2>8. /\ SectorGood(image) /\ image.store = "Using" /\ image.kvs # <<>>
        /\ LastNode(image) = node
    BY <1>1, <1>3, <2>1, <2>6, <2>7, AppendGood
  <2> HIDE DEF image
  <2>9. FlashGood'
    BY <1>1, <1>2, <2>8, ProgramGood
  <2>10. flash'[s] = image /\ pc' = "PutHdr" /\ local' = local
    BY <1>1, <1>2, <1>5 DEF Program, PutNext, Goto, FlashOK, Flash
  <2>11. PutRoom' /\ Begun'
    BY <1>3, <2>7, <2>8, <2>10 DEF PutRoom, PutLen, Begun
  <2> QED BY <2>9, <2>10, <2>11, WriteNext
<1> QED BY <1>4, <1>5

\* The facts a write to the last node starts from.
LEMMA PutNodeFacts ==
  ASSUME TInv, LInv, pc \in {"PutHdr", "PutBody", "PutCommit"}
  PROVE  LET sec == flash[local.put.sec]
         IN  /\ FlashOK /\ FlashGood /\ local \in Local /\ local.put.sec \in Sector
             /\ local.put \in PutFrame /\ PutRoom /\ Begun
             /\ sec \in SectorImage /\ SectorGood(sec) /\ sec.kvs # <<>>
             /\ LastNode(sec) \in KvNode
             /\ LastNode(sec).addr + LastNode(sec).len < SecSize - SEC_REMAIN_THRESHOLD
<1> DEFINE sec == flash[local.put.sec]
<1>1. /\ FlashOK /\ FlashGood /\ local \in Local /\ local.put.sec \in Sector
      /\ local.put \in PutFrame /\ sec \in SectorImage /\ SectorGood(sec)
  BY TInvParts, LInvFlash, FrameTypes DEF PutFrame, FlashGood
<1>2. PutRoom /\ Begun
  BY DEF LInv, PlaceOK, PutRoom, Begun, PutLive, PutPcs
<1>3. sec.kvs # <<>>
  BY <1>2 DEF Begun
<1>4. LastNode(sec) \in KvNode
  BY <1>1, <1>3, LastNodeType
<1>5. LastNode(sec).addr + LastNode(sec).len < SecSize - SEC_REMAIN_THRESHOLD
  BY <1>1, <1>3 DEF SectorGood, SectorLogOK, LogEnd
<1> QED BY <1>1, <1>2, <1>3, <1>4, <1>5

\* The node written again at its place, on the way to the next write.
LEMMA PutNodeLog ==
  ASSUME TInv, LInv, pc \in {"PutHdr", "PutBody"}, NEW ok \in BOOLEAN,
         NEW node \in KvNode, node.addr = local.put.addr,
         node.addr + node.len < SecSize - SEC_REMAIN_THRESHOLD, HasKvLen(node),
         PutNode(node, ok), NEW label \in {"PutBody", "PutCommit"}, PutNext(ok, label)
  PROVE  LInv'
<1> DEFINE s == local.put.sec
           sec == flash[s]
           image == [sec EXCEPT !.kvs[Len(sec.kvs)] = node]
<1>1. /\ FlashOK /\ FlashGood /\ local \in Local /\ s \in Sector /\ PutRoom /\ Begun
      /\ sec \in SectorImage /\ SectorGood(sec) /\ sec.kvs # <<>>
  BY PutNodeFacts
<1>2. Program(s, image, ok)
  BY DEF PutNode, WithNode
<1>3. sec.store = "Using" /\ LastNode(sec).addr = local.put.addr
  BY <1>1 DEF Begun
<1>4. /\ SectorGood(image) /\ image.store = sec.store /\ image.kvs # <<>>
      /\ LastNode(image) = node
  BY <1>1, <1>3, LastGood
<1> HIDE DEF image
<1>5. FlashGood'
  BY <1>1, <1>2, <1>4, ProgramGood
<1>6. CASE ~ok
  <2>1. PutReturn(FALSE)
    BY <1>6 DEF PutNext
  <2> QED BY <1>1, <1>5, <2>1, PutReturnCalm, CalmNext
<1>7. CASE ok
  <2>1. flash'[s] = image /\ pc' = label /\ local' = local
    BY <1>1, <1>2, <1>7 DEF Program, PutNext, Goto, FlashOK, Flash
  <2>2. PutRoom' /\ Begun'
    BY <1>1, <1>3, <1>4, <2>1 DEF PutRoom, PutLen, Begun
  <2>3. HasKvLen(LastNode(flash[local.put.sec]))'
    BY <1>4, <2>1 DEF HasKvLen
  <2> QED BY <1>5, <2>1, <2>2, <2>3, WriteNext
<1> QED BY <1>6, <1>7

\* The header makes the node as long as there is room for.
LEMMA PutHdrLog == ASSUME TInv, LInv, NEW ok \in BOOLEAN, PutHdr(ok) PROVE LInv'
<1> DEFINE node == [addr |-> local.put.addr, len |-> PutLen, status |-> "PreWrite",
                    crc |-> FALSE, key |-> local.put.key, val |-> local.put.val]
<1>1. pc = "PutHdr" /\ PutNode(node, ok) /\ PutNext(ok, "PutBody")
  BY DEF PutHdr
<1>2. local.put.addr \in Nat /\ PutRoom
  BY <1>1, PutNodeFacts DEF PutFrame
<1>3. Stored(local.put.key, local.put.val)
  BY <1>1, TInvParts DEF ArgsOK, PutLive, PutPcs
<1>4. PutLen \in Nat /\ PutLen = kv_len(local.put.key, local.put.val)
  BY <1>3, KvLenType DEF PutLen, Stored
<1>5. node \in KvNode /\ node.addr = local.put.addr /\ node.len = PutLen /\ HasKvLen(node)
  BY <1>2, <1>3, <1>4 DEF KvNode, KvStatus, Stored, HasKvLen
<1>6. node.addr + node.len < SecSize - SEC_REMAIN_THRESHOLD
  BY <1>2, <1>4, <1>5, GeometryType
     DEF PutRoom, SEC_REMAIN_THRESHOLD, KV_HDR_DATA_SIZE, KV_NAME_MAX
<1> HIDE DEF node
<1> QED BY <1>1, <1>5, <1>6, PutNodeLog

\* The body leaves the node where it is and as long as it is.
LEMMA PutBodyLog == ASSUME TInv, LInv, NEW ok \in BOOLEAN, PutBody(ok) PROVE LInv'
<1> DEFINE last == LastNode(flash[local.put.sec])
           node == [last EXCEPT !.crc = TRUE]
<1>1. pc = "PutBody" /\ PutNode(node, ok) /\ PutNext(ok, "PutCommit")
  BY DEF PutBody
<1>2. /\ last \in KvNode /\ last.addr + last.len < SecSize - SEC_REMAIN_THRESHOLD
      /\ last.addr = local.put.addr
  BY <1>1, PutNodeFacts DEF Begun
<1>3. HasKvLen(last)
  BY <1>1 DEF LInv, LensOK
<1> HIDE DEF last
<1>4. node \in KvNode /\ node.addr = last.addr /\ node.len = last.len /\ HasKvLen(node)
  BY <1>2, <1>3 DEF KvNode, HasKvLen
<1> HIDE DEF node
<1> QED BY <1>1, <1>2, <1>4, PutNodeLog

\* The commit changes a status only, and is the last write.
LEMMA PutCommitLog == ASSUME TInv, LInv, NEW ok \in BOOLEAN, PutCommit(ok) PROVE LInv'
<1> DEFINE s == local.put.sec
           j == Len(flash[s].kvs)
           image == WithNode(s, j, [flash[s].kvs[j] EXCEPT !.status = "Write"])
<1>1. pc = "PutCommit" /\ Program(s, image, ok) /\ PutReturn(ok)
  BY DEF PutCommit, PutNode, LastNode
<1>2. FlashOK /\ FlashGood /\ local \in Local /\ s \in Sector /\ flash[s] \in SectorImage
  BY <1>1, PutNodeFacts
<1>3. j \in Nat
  BY <1>2 DEF SectorImage
<1> HIDE DEF s, j
<1>4. SectorGood(image)
  BY <1>2, <1>3, StatusGood DEF KvStatus
<1>5. FlashGood'
  BY <1>1, <1>2, <1>4, ProgramGood
<1> QED BY <1>1, <1>2, <1>5, PutReturnCalm, CalmNext

----------------------------------------------------------------------------
(* The theorem *)

\* The invariant holds on storage that was never a database.
LEMMA LInit == Init => LInv
<1> SUFFICES ASSUME Init PROVE LInv
  OBVIOUS
<1>1. flash = [s \in Sector |-> Erased] /\ pc = "Off"
  BY DEF Init
<1>2. FlashGood
  BY <1>1, FormatGood DEF FlashGood
<1>3. ~PutLive(pc, local) /\ ~PutWaits(pc, local) /\ ~MvLive(pc, local) /\ pc \notin PutPcs
  BY <1>1 DEF PutLive, PutWaits, MvLive, PutPcs, DelPcs
<1>4. PlaceOK /\ LensOK
  BY <1>2, <1>3 DEF PlaceOK, LensOK, PutPcs, FlashGood, SectorGood
<1> QED BY <1>2, <1>4 DEF LInv, FlashGood, SectorGood, EmptyOK, LogOK

\* Every step of the storage code keeps the invariant.
LEMMA LStep == ASSUME TInv, TInv', LInv, Step PROVE LInv'
<1>1. CASE \E ok \in BOOLEAN : \/ DelStatus(ok) \/ DelDirty(ok) \/ PutSec(ok) \/ PutStatus(ok)
                               \/ PutHdr(ok) \/ PutBody(ok) \/ PutCommit(ok)
  BY <1>1, DelStatusLog, DelDirtyLog, PutSecLog, PutStatusLog, PutHdrLog, PutBodyLog,
     PutCommitLog
<1>2. CASE \E ok \in BOOLEAN : FmtErase(ok) \/ FmtHdr(ok) \/ GcSector(ok) \/ LoadErrHdr(ok)
  BY <1>2, FmtLog, GcSectorLog, LoadErrHdrLog
<1>3. CASE NewKv \/ SetFind \/ GcNode \/ MvAlloc \/ LoadMove
  BY <1>3, NewKvLog, SetFindLog, GcNodeLog, MvAllocLog, LoadMoveLog
<1>4. CASE \/ SetEnd \/ DefFormat \/ DefKv \/ DefEnd \/ GcStart \/ GcErase \/ GcFormatted
           \/ GcEnd \/ LoadHdr \/ LoadRefused \/ LoadHdrEnd \/ LoadGc \/ LoadScan
           \/ LoadPassEnd \/ LoadCollect
  BY <1>4, CalmActions DEF CalmAction
<1> QED BY <1>1, <1>2, <1>3, <1>4 DEF Step

\* Every step keeps the invariant.
LEMMA LNext == TInv /\ TInv' /\ LInv /\ [Next]_vars => LInv'
<1> SUFFICES ASSUME TInv, TInv', LInv, [Next]_vars PROVE LInv'
  OBVIOUS
<1>1. CASE Client
  <2>1. CASE \E k \in Keys : Del(k)
    BY <2>1, DelLog
  <2>2. CASE ~ \E k \in Keys : Del(k)
    BY <1>1, <2>2, CalmActions DEF Client, CalmAction
  <2> QED BY <2>1, <2>2
<1>2. CASE Step
  BY <1>2, LStep
<1>3. CASE PowerLoss
  BY <1>3, CalmActions DEF CalmAction
<1>4. CASE UNCHANGED vars
  BY <1>4 DEF vars, LInv, PlaceOK, LensOK, EmptyOK, LogOK, PutLen
<1> QED BY <1>1, <1>2, <1>3, <1>4 DEF Next

\* The inductive invariant: what the functions in execution hold fits the image.
THEOREM InductiveInvariant == Spec => []IInv
<1>1. TInv /\ LInv => IInv
  BY DEF TInv, LInv, IInv
<1> QED BY <1>1, TInit, TNext, LInit, LNext, PTL DEF Spec

\* Nodes never overlap, and the margin behind the last node of a sector is never used:
\* alloc_kv asks for more room than a node takes, and nothing is written to the sector
\* between the allocation and the last write of the node, whenever power fails or the
\* medium begins to fail.  So update_sec_status marks no sector full.
THEOREM LogCorrect == Spec => []LogOK
<1>1. IInv => LogOK
  BY DEF IInv
<1> QED BY <1>1, InductiveInvariant, PTL

----------------------------------------------------------------------------
(* The margin and the search for nodes *)

\* find_next_kv_addr gives up 48 bytes in front of the end of a sector (get_next_kv_addr
\* leaves out 16 bytes, NodeFound of FlashScan one buffer of 32): every magic word, which
\* is 4 bytes behind the start of its node, is in front of that.
InReach(n) == n.addr + 4 < (SecSize - SECTOR_HDR_DATA_SIZE) - 32
NodesInReach == \A s \in Sector : \A j \in DOMAIN flash[s].kvs : InReach(flash[s].kvs[j])

\* The nodes are in the order of their addresses, so the last one is the last.
LEMMA LogInReach ==
  ASSUME NEW sec \in SectorImage, SectorLogOK(sec), NEW j \in DOMAIN sec.kvs
  PROVE  InReach(sec.kvs[j])
<1> DEFINE n == Len(sec.kvs)
           Far(i) == sec.kvs[i].addr >= SecSize - SEC_REMAIN_THRESHOLD
           T == {i \in Nat : i < n /\ Far(n - i)}
<1>1. n \in Nat /\ DOMAIN sec.kvs = 1 .. n /\ SecSize \in Nat
  BY GeometryAssumption DEF SectorImage
<1>2. \A i \in 1 .. n : sec.kvs[i].addr \in Nat /\ sec.kvs[i].len \in Nat
  <2>1. sec.kvs \in Seq(KvNode)
    BY DEF SectorImage
  <2>2. \A i \in 1 .. n : sec.kvs[i] \in KvNode
    BY <1>1, <2>1
  <2> QED BY <2>2 DEF KvNode
<1>3. ASSUME Far(j) PROVE FALSE
  <2>1. n - j \in T
    <3>1. n - j \in Nat /\ n - j < n /\ n - (n - j) = j
      BY <1>1
    <3> QED BY <1>3, <3>1
  <2>2. T \subseteq Nat
    OBVIOUS
  <2>3. PICK i \in T : \A k \in T : i <= k
    <3> HIDE DEF T
    <3> QED BY <2>1, <2>2, LeastExists
  <2>4. n - i \in 1 .. n /\ Far(n - i) /\ i \in Nat
    BY <1>1, <2>3
  <2>5. CASE i = 0
    <3>1. sec.kvs # <<>> /\ LogEnd(sec) = sec.kvs[n].addr + sec.kvs[n].len
      BY <1>1, <2>4, <2>5 DEF LogEnd, LastNode
    <3>2. LogEnd(sec) < SecSize - SEC_REMAIN_THRESHOLD
      BY <3>1 DEF SectorLogOK
    <3>3. n \in 1 .. n /\ Far(n)
      BY <1>1, <2>4, <2>5
    <3> QED BY <1>1, <1>2, <3>1, <3>2, <3>3 DEF SEC_REMAIN_THRESHOLD, KV_HDR_DATA_SIZE, KV_NAME_MAX
  <2>6. CASE i # 0
    <3> DEFINE m == n - i
    <3>1. m \in 1 .. n-1 /\ m + 1 \in 1 .. n /\ i - 1 \in Nat /\ i - 1 < n /\ n - (i - 1) = m + 1
      BY <1>1, <2>4, <2>6
    <3>2. sec.kvs[m + 1].addr >= sec.kvs[m].addr + sec.kvs[m].len
      BY <3>1 DEF SectorLogOK
    <3>3. Far(m) /\ m \in 1 .. n
      BY <2>4
    <3> HIDE DEF m
    <3>4. Far(m + 1)
      <4>1. /\ sec.kvs[m].addr \in Nat /\ sec.kvs[m].len \in Nat
            /\ sec.kvs[m + 1].addr \in Nat
        BY <1>2, <3>1, <3>3
      <4>2. sec.kvs[m].addr >= SecSize - 88
        BY <3>3 DEF SEC_REMAIN_THRESHOLD, KV_HDR_DATA_SIZE, KV_NAME_MAX
      <4>3. sec.kvs[m + 1].addr >= SecSize - 88
        BY <1>1, <3>2, <4>1, <4>2, SMTT(30)
      <4> QED BY <4>3 DEF SEC_REMAIN_THRESHOLD, KV_HDR_DATA_SIZE, KV_NAME_MAX
    <3>5. i - 1 \in T
      BY <3>1, <3>4
    <3> QED BY <2>3, <2>4, <3>5
  <2> QED BY <2>5, <2>6
<1> QED BY <1>1, <1>2, <1>3
        DEF InReach, SEC_REMAIN_THRESHOLD, KV_HDR_DATA_SIZE, KV_NAME_MAX, SECTOR_HDR_DATA_SIZE

\* No node is hidden from the search: the margin that alloc_kv keeps behind the last node
\* is what lets find_next_kv_addr, which does not look at the end of a sector, find it.
THEOREM AllNodesInReach == Spec => []NodesInReach
<1>1. TypeOK /\ LogOK => NodesInReach
  BY LogInReach DEF TypeOK, LogOK, NodesInReach
<1> QED BY <1>1, LogCorrect, TypeCorrect, PTL

----------------------------------------------------------------------------
(***************************************************************************)
(* What a step may do to the medium: a write only clears bits, and a node  *)
(* or a sector goes forward through its states until the sector is erased. *)
(*                                                                         *)
(* The property is about one step, but whether a write only clears depends *)
(* on what was written before: a node that is deleted must be live or half *)
(* deleted, and it is the set or the move that began long before which     *)
(* holds on to its address (KeptOK); a node that is committed must be      *)
(* half written (WrittenOK); a sector that is put into use must be empty   *)
(* (PlaceOK of KvdbInv).                                                   *)
(***************************************************************************)

WInv == KeptOK /\ WrittenOK

----------------------------------------------------------------------------
(* The nodes that are still to be deleted *)

\* A node that can be deleted, and one that is not being written.
Deletable(p) == LET kvs == flash[p.sec].kvs
                IN  p.idx \in DOMAIN kvs /\ kvs[p.idx].status \in {"Write", "PreDelete"}
Apart(p) == ~(p.sec = local.put.sec /\ p.idx = Len(flash[p.sec].kvs))

\* The two halves of Held.
LEMMA HeldParts ==
  ASSUME NEW p
  PROVE  /\ Held(p) => Deletable(p) /\ (pc \in NodePcs => Apart(p))
         /\ Deletable(p) /\ (pc \in NodePcs => Apart(p)) => Held(p)
BY DEF Held, Deletable, Apart

\* A step behind which nothing is deleted or written any more.
LEMMA RestNext ==
  ASSUME Calm(pc', local'), pc' \notin {"DelStatus", "FmtHdr"}
  PROVE  WInv'
<1>1. ~OldLive(pc', local') /\ ~CopyLive(pc', local')
  BY DEF Calm, OldLive, CopyLive, PutLive, PutWaits
<1>2. ToDelete(pc', local') = {}
  BY <1>1 DEF ToDelete
<1>3. pc' \notin NodePcs
  BY DEF Calm, PutLive, PutPcs, NodePcs
<1>4. ~(pc' \in DelPcs /\ local'.del.ret \in {"PutSec", "MvAlloc"}) /\ pc' # "SetFind"
  BY DEF Calm, PutLive, PutWaits, MvLive
<1> QED BY <1>2, <1>3, <1>4 DEF WInv, KeptOK, WrittenOK, NodePcs

\* A step that begins to delete a node for good.
LEMMA DeleteNext ==
  ASSUME NEW l \in Local, NEW p, NEW r, r \notin {"PutSec", "MvAlloc"},
         DelCall(l, p, TRUE, r), Deletable(p)'
  PROVE  WInv'
<1>1. Calm(pc', local')
  BY DelCallCalm
<1>2. pc' = "DelStatus" /\ local'.del.ptr = p
  <2> DEFINE x == [ptr |-> p, complete |-> TRUE, ret |-> r]
             m == [l EXCEPT !.del = x]
  <2>1. m.del = x
    BY DEF Local
  <2>2. pc' = "DelStatus" /\ local' = m
    BY DEF DelCall, Goto
  <2> HIDE DEF m
  <2> QED BY <2>1, <2>2
<1>3. ~OldLive(pc', local') /\ ~CopyLive(pc', local')
  BY <1>1 DEF Calm, OldLive, CopyLive, PutLive, PutWaits
<1>4. ToDelete(pc', local') = {p}
  BY <1>2, <1>3 DEF ToDelete
<1>5. Held(p)'
  BY <1>2 DEF Held, Deletable, NodePcs
<1>6. ~(pc' \in DelPcs /\ local'.del.ret \in {"PutSec", "MvAlloc"}) /\ pc' # "SetFind"
  BY <1>1 DEF Calm, PutLive, PutWaits, MvLive
<1> QED BY <1>2, <1>4, <1>5, <1>6 DEF WInv, KeptOK, WrittenOK

\* The node the search for a key finds is live.
LEMMA FindLive ==
  ASSUME NEW img \in Flash, NEW b \in Sector, NEW k, find_kv(img, b, k).found
  PROVE  LET f == find_kv(img, b, k)
         IN  /\ f.sec \in InUse(img) /\ f.sec \in Sector /\ f.idx \in DOMAIN img[f.sec].kvs
             /\ Readable(img[f.sec].kvs[f.idx], k)
<1> DEFINE Hits(s) == {j \in DOMAIN img[s].kvs : Readable(img[s].kvs[j], k)}
           S == {s \in InUse(img) : Hits(s) # {}}
           s1 == FirstMet(b, S)
<1>1. S \subseteq Sector /\ \A s \in Sector : DOMAIN img[s].kvs \subseteq Nat
  BY DEF InUse, Flash, SectorImage
<1>2. find_kv(img, b, k) = find_name(img, b, k)
  BY DEF find_kv
<1>3. find_name(img, b, k) = IF S = {} THEN [found |-> FALSE, sec |-> 0, idx |-> 0]
                             ELSE [found |-> TRUE, sec |-> s1, idx |-> Least(Hits(s1))]
  BY DEF find_name
<1>4. S # {}
  BY <1>2, <1>3
<1>5. s1 \in S
  <2> HIDE DEF S
  <2> QED BY <1>1, <1>4, FirstMetIn
<1>6. Hits(s1) \subseteq Nat /\ Hits(s1) # {}
  BY <1>1, <1>5
<1>7. Least(Hits(s1)) \in Hits(s1)
  <2> HIDE DEF Hits
  <2> QED BY <1>6, LeastExists
<1>8. find_kv(img, b, k) = [found |-> TRUE, sec |-> s1, idx |-> Least(Hits(s1))]
  BY <1>2, <1>3, <1>4
<1>9. s1 \in InUse(img) /\ s1 \in Sector
  BY <1>1, <1>5
<1> HIDE DEF s1
<1> QED BY <1>7, <1>8, <1>9

----------------------------------------------------------------------------
(* The actions that do not write a node *)

\* del begins.
LEMMA DelKept == ASSUME TInv, NEW k \in Keys, Del(k) PROVE WInv'
<1> DEFINE m == [local EXCEPT !.job = [NoLocal.job EXCEPT !.op = "Del", !.key = k]]
<1>1. local \in Local /\ flash \in Flash /\ oldest \in Sector
  BY TInvParts DEF FlashOK, RamOK
<1>2. PICK f : f = find_kv(flash, oldest, k)
  OBVIOUS
<1>3. (f.found /\ DelCall(m, f, TRUE, "Idle")) \/ Return("KvNameErr")
  BY <1>2 DEF Del
<1>4. m \in Local
  BY <1>1, NoLocalType DEF Local, Job
<1>5. flash' = flash
  BY DEF Del, NoCall
<1>6. f.found => f.idx \in DOMAIN flash[f.sec].kvs /\ flash[f.sec].kvs[f.idx].status = "Write"
  BY <1>1, <1>2, FindLive DEF Readable
<1>7. f.found => Deletable(f)'
  BY <1>5, <1>6 DEF Deletable
<1> HIDE DEF m
<1>8. Return("KvNameErr") => WInv'
  BY CalmLabels, RestNext DEF Return, Goto, CalmPcs
<1> QED BY <1>3, <1>4, <1>7, <1>8, DeleteNext

\* format_sector writes the header of a sector it has erased.
LEMMA FmtKept == ASSUME TInv, NEW ok \in BOOLEAN, FmtErase(ok) \/ FmtHdr(ok) PROVE WInv'
<1>1. FlashOK /\ local \in Local /\ local.fmt.sec \in Sector
  BY TInvParts, FrameTypes DEF FmtFrame
<1>2. CASE pc' = "FmtHdr" /\ local' = local /\ flash' = [flash EXCEPT ![local.fmt.sec] = Erased]
  <2>1. flash'[local'.fmt.sec] = Erased
    BY <1>1, <1>2 DEF FlashOK, Flash
  <2>2. ToDelete(pc', local') = {}
    BY <1>2 DEF ToDelete, OldLive, CopyLive, MvLive, PutPcs, DelPcs
  <2> QED BY <1>2, <2>1, <2>2 DEF WInv, KeptOK, WrittenOK, DelPcs
<1>3. CASE FmtReturn(FALSE) \/ FmtReturn(ok)
  <2>1. Calm(pc', local') /\ pc' \in RestPcs
    BY <1>1, <1>3, FmtReturnCalm
  <2> QED BY <2>1, RestNext DEF RestPcs, CalmPcs, Plain
<1> QED BY <1>2, <1>3 DEF FmtErase, FmtHdr, Goto, Program

\* The marks of a sector that is collected and of a damaged node.
LEMMA MarkKept ==
  ASSUME NEW ok \in BOOLEAN, GcSector(ok) \/ LoadErrHdr(ok)
  PROVE  WInv'
<1>1. pc' \in {"GcNode", "LoadCollect"}
  BY DEF GcSector, LoadErrHdr, Goto
<1> QED BY <1>1, CalmLabels, RestNext DEF CalmPcs, Plain

\* move_kv begins with a node that is there and can be deleted.
LEMMA MvCallKept ==
  ASSUME flash' = flash, NEW l \in Local, NEW s, NEW j \in DOMAIN flash[s].kvs,
         flash[s].kvs[j].status \in {"Write", "PreDelete"}, NEW r, MvCall(l, s, j, r)
  PROVE  WInv'
<1> DEFINE n == flash[s].kvs[j]
           p == [found |-> TRUE, sec |-> s, idx |-> j]
           x == [ptr |-> p, key |-> n.key, val |-> n.val, len |-> n.len,
                 pre |-> n.status = "PreDelete", ok |-> FALSE, ret |-> r]
           m == [l EXCEPT !.mv = x]
           d == [m EXCEPT !.del = [ptr |-> p, complete |-> FALSE, ret |-> "MvAlloc"]]
<1>1. \/ pc' = "DelStatus" /\ local' = d
      \/ pc' = "MvAlloc" /\ local' = m
  BY DEF MvCall, DelCall, Goto
<1>2. /\ m.mv.ptr = p /\ d.mv.ptr = p /\ d.del.ret = "MvAlloc" /\ d.del.ptr = p
      /\ ~d.del.complete
  BY DEF Local
<1>3. Deletable(p)'
  BY DEF Deletable
<1> HIDE DEF m, d, p
<1>4. ToDelete(pc', local') \subseteq {p}
  BY <1>1, <1>2 DEF ToDelete, OldLive, CopyLive, MvLive, PutPcs, DelPcs
<1>5. Held(p)'
  BY <1>1, <1>3 DEF Held, Deletable, NodePcs
<1> QED BY <1>1, <1>2, <1>4, <1>5 DEF WInv, KeptOK, WrittenOK, DelPcs

\* A collection, and the recovery pass, move such nodes only.
LEMMA MoveKept == ASSUME TInv, GcNode \/ LoadMove PROVE WInv'
<1>1. local \in Local /\ local.gc.sec \in Sector
  BY TInvParts, FrameTypes DEF GcFrame
<1>2. CASE GcNode
  <2> DEFINE j == Least(GcNodes)
             l == [local EXCEPT !.gc.idx = j]
  <2>1. j \in DOMAIN flash[local.gc.sec].kvs /\ j \in Nat
    BY <1>2, GcNodesOK DEF GcNode
  <2>2. ToMove(flash[local.gc.sec].kvs[j])
    <3>1. GcNodes \subseteq Nat /\ GcNodes # {}
      BY SMTT(20), <1>1, <1>2, TInvParts DEF GcNode, GcNodes, NodesFrom, SectorImage
    <3>2. j \in GcNodes
      BY <3>1, LeastExists
    <3> QED BY <3>2 DEF GcNodes, NodesFrom
  <2>3. MvCall(l, local.gc.sec, j, "GcNode") /\ flash' = flash
    BY <1>2 DEF GcNode, NoCall
  <2> HIDE DEF j
  <2>4. l \in Local
    BY <1>1, <2>1 DEF Local, GcFrame
  <2> HIDE DEF l
  <2> QED BY <2>1, <2>2, <2>3, <2>4, MvCallKept DEF ToMove
<1>3. CASE LoadMove
  <2> DEFINE i == Least(StepsAhead)
             s == Nth(local.load.from, i)
             j == Least(InterruptedIn(i))
             l == [local EXCEPT !.load.i = i, !.load.idx = j]
  <2>1. i \in Nat /\ s \in Sector /\ j \in Nat /\ j \in DOMAIN flash[s].kvs
    BY <1>3, StepsOK DEF LoadMove
  <2>2. flash[s].kvs[j].status = "PreDelete" /\ MvCall(l, s, j, "LoadPass") /\ flash' = flash
    BY <1>3 DEF LoadMove, NoCall
  <2> HIDE DEF i, j, s
  <2>3. l \in Local
    BY <1>1, <2>1 DEF Local, LoadFrame
  <2> HIDE DEF l
  <2> QED BY <2>1, <2>2, <2>3, MvCallKept
<1> QED BY <1>2, <1>3

\* new_kv finds a place: nothing is to be deleted yet.
LEMMA NewKvKept == ASSUME TInv, NewKv PROVE WInv'
<1> DEFINE new == local.new
           a == alloc_kv(flash, oldest, gcRequest, NewKvLen)
           put == [sec |-> a.sec, addr |-> empty_kv(flash[a.sec]), key |-> new.key,
                   val |-> new.val, full |-> FALSE,
                   ret |-> IF new.ret = "SetFind" THEN "SetEnd" ELSE "DefKv"]
           label == IF new.ret = "SetFind" THEN "SetFind" ELSE "PutSec"
           m == [local EXCEPT !.put = put]
<1>1. local \in Local
  BY TInvParts
<1>2. m.put = put
  BY <1>1 DEF Local
<1>3. CASE a.found
  <2>1. pc' = label /\ local' = m
    BY <1>3 DEF NewKv, NewKvFound, Goto
  <2> HIDE DEF m, a
  <2>2. local'.put.ret = IF new.ret = "SetFind" THEN "SetEnd" ELSE "DefKv"
    BY <1>2, <2>1
  <2>3. ToDelete(pc', local') = {}
    BY <2>1, <2>2 DEF ToDelete, OldLive, CopyLive, MvLive, PutPcs, DelPcs
  <2> QED BY <2>1, <2>2, <2>3 DEF WInv, KeptOK, WrittenOK, DelPcs
<1>4. CASE ~a.found
  <2>1. pc' \in RestPcs
    BY <1>4 DEF NewKv, NewKvFailed, GcCall, Return, Goto, RestPcs, CalmPcs, Plain
  <2> QED BY <2>1, CalmLabels, RestNext DEF RestPcs, CalmPcs, Plain
<1> QED BY <1>3, <1>4

\* set_kv holds on to the old node until the new one is written.
LEMMA SetFindKept == ASSUME TInv, WInv, SetFind PROVE WInv'
<1>1. local \in Local /\ flash \in Flash /\ oldest \in Sector /\ flash' = flash
  BY TInvParts DEF FlashOK, RamOK, SetFind, NoCall
<1>2. PICK f : f = find_kv(flash, oldest, local.job.key)
  OBVIOUS
<1> DEFINE m == [local EXCEPT !.job.old = f]
           d == [m EXCEPT !.del = [ptr |-> f, complete |-> FALSE, ret |-> "PutSec"]]
<1>3. local.put.ret = "SetEnd"
  BY DEF SetFind, WInv, KeptOK
<1>4. \/ f.found /\ pc' = "DelStatus" /\ local' = d
      \/ ~f.found /\ pc' = "SetEnd"
      \/ ~f.found /\ pc' = "PutSec" /\ local' = m
  BY <1>2 DEF SetFind, DelCall, Goto
<1>5. /\ d.put = local.put /\ d.del.ret = "PutSec" /\ ~d.del.complete /\ d.job.old = f
      /\ m.put = local.put /\ m.job.old = f /\ d.del.ptr = f
  BY <1>1 DEF Local, Job
<1>6. f.found => f.idx \in DOMAIN flash[f.sec].kvs /\ flash[f.sec].kvs[f.idx].status = "Write"
  BY <1>1, <1>2, FindLive DEF Readable
<1>7. f.found => Deletable(f)'
  BY <1>1, <1>6 DEF Deletable
<1> HIDE DEF m, d
<1>8. CASE f.found /\ pc' = "DelStatus" /\ local' = d
  <2>1. ToDelete(pc', local') \subseteq {f}
    BY <1>5, <1>8 DEF ToDelete, OldLive, CopyLive, MvLive, PutPcs, DelPcs
  <2>2. Held(f)'
    BY <1>7, <1>8 DEF Held, Deletable, NodePcs
  <2> QED BY <1>3, <1>5, <1>8, <2>1, <2>2 DEF WInv, KeptOK, WrittenOK, DelPcs
<1>9. CASE pc' = "SetEnd"
  BY <1>9, CalmLabels, RestNext DEF CalmPcs
<1>10. CASE ~f.found /\ pc' = "PutSec" /\ local' = m
  <2>1. ToDelete(pc', local') = {}
    BY <1>3, <1>5, <1>10 DEF ToDelete, OldLive, CopyLive, MvLive, PutPcs, DelPcs
  <2> QED BY <1>10, <2>1 DEF WInv, KeptOK, WrittenOK, DelPcs
<1> QED BY <1>4, <1>8, <1>9, <1>10

\* A node that was to be deleted and still is there.
LEMMA KeepNext ==
  ASSUME WInv, pc' \notin NodePcs \cup {"FmtHdr", "SetFind"},
         \A p \in ToDelete(pc, local) : Deletable(p)',
         ToDelete(pc', local') \subseteq ToDelete(pc, local), pc' \notin DelPcs
  PROVE  WInv'
<1>1. \A p \in ToDelete(pc', local') : Held(p)'
  BY DEF Held, Deletable
<1> QED BY <1>1 DEF WInv, KeptOK, WrittenOK, NodePcs

\* Nodes are held by their addresses.
LEMMA KeptType == ASSUME TInv PROVE ToDelete(pc, local) \subseteq Ptr
BY TInvParts, FrameTypes DEF ToDelete, Job, MvFrame, DelFrame

\* Without a write the nodes that are to be deleted stay what they are.
LEMMA KeptDeletable ==
  ASSUME TInv, WInv, \A s \in Sector : flash'[s].kvs = flash[s].kvs
  PROVE  \A p \in ToDelete(pc, local) : Deletable(p)'
BY KeptType DEF WInv, KeptOK, Held, Deletable, Ptr

\* A copy of a node: the node itself is deleted when the copy is written.
LEMMA MvAllocKept == ASSUME TInv, WInv, MvAlloc PROVE WInv'
<1> DEFINE mv == local.mv
           a == alloc_kv(flash, oldest, gcRequest, mv.len)
           put == [sec |-> a.sec, addr |-> empty_kv(flash[a.sec]), key |-> mv.key,
                   val |-> mv.val, full |-> FALSE, ret |-> "MvReturn"]
           m == [local EXCEPT !.mv.ok = TRUE]
           n == [local EXCEPT !.put = put]
<1>1. local \in Local /\ flash' = flash /\ pc = "MvAlloc"
  BY TInvParts DEF MvAlloc, NoCall
<1>2. PICK p : p = mv.ptr
  OBVIOUS
<1>3. p \in ToDelete(pc, local)
  BY <1>1, <1>2 DEF ToDelete, CopyLive, MvLive
<1>4. Deletable(p)'
  BY <1>1, <1>3, KeptDeletable
<1>5. \/ MvReturn(local, FALSE)
      \/ DelCall(m, p, TRUE, "MvReturn")
      \/ pc' = "PutSec" /\ local' = n
  <2> HIDE DEF m, n
  <2> QED BY <1>2 DEF MvAlloc, Goto, m, n
<1>6. m \in Local
  BY <1>1 DEF Local, MvFrame
<1>7. n.put.ret = "MvReturn" /\ n.mv = local.mv
  BY <1>1 DEF Local
<1> HIDE DEF m, n
<1>8. CASE MvReturn(local, FALSE)
  <2>1. Calm(pc', local') /\ pc' \in RestPcs
    BY <1>8, MvReturnCalm
  <2> QED BY <2>1, RestNext DEF RestPcs, CalmPcs, Plain
<1>9. CASE DelCall(m, p, TRUE, "MvReturn")
  BY <1>4, <1>6, <1>9, DeleteNext
<1>10. CASE pc' = "PutSec" /\ local' = n
  <2>1. ToDelete(pc', local') \subseteq {p}
    BY <1>2, <1>7, <1>10 DEF ToDelete, OldLive, CopyLive, MvLive, PutPcs, DelPcs
  <2>2. Held(p)'
    BY <1>4, <1>10 DEF Held, Deletable, NodePcs
  <2> QED BY <1>10, <2>1, <2>2 DEF WInv, KeptOK, WrittenOK, DelPcs
<1> QED BY <1>5, <1>8, <1>9, <1>10

----------------------------------------------------------------------------
(* del_kv *)

\* del_kv returns to a function that holds on to the same node as before.
LEMMA DelReturnKept ==
  ASSUME TInv, WInv, pc \in DelPcs, NEW ok \in BOOLEAN, DelReturn(ok),
         \A s \in Sector : flash'[s].kvs = flash[s].kvs
  PROVE  WInv'
<1> DEFINE l == [local EXCEPT !.del = NoLocal.del]
<1>1. local \in Local /\ l.put = local.put /\ l.mv = local.mv /\ l.job = local.job
  BY TInvParts DEF Local
<1>2. \/ local.del.ret = "PutSec" /\ pc' = "PutSec" /\ local' = l
      \/ local.del.ret = "MvAlloc" /\ pc' = "MvAlloc" /\ local' = l
      \/ pc' \in {"SetEnd", "Idle"}
      \/ MvReturn(l, l.mv.ok)
  BY DEF DelReturn, Return, Goto
<1> HIDE DEF l
<1>3. \A p \in ToDelete(pc, local) : Deletable(p)'
  BY KeptDeletable
<1>4. CASE local.del.ret = "PutSec" /\ pc' = "PutSec" /\ local' = l
  <2>1. local.put.ret = "SetEnd"
    BY <1>4 DEF WInv, KeptOK
  <2>2. ToDelete(pc', local') \subseteq ToDelete(pc, local)
    BY <1>1, <1>4, <2>1 DEF ToDelete, OldLive, CopyLive, MvLive, PutPcs, DelPcs
  <2> QED BY <1>3, <1>4, <2>2, KeepNext DEF NodePcs, DelPcs
<1>5. CASE local.del.ret = "MvAlloc" /\ pc' = "MvAlloc" /\ local' = l
  <2>1. ToDelete(pc', local') \subseteq ToDelete(pc, local)
    BY <1>1, <1>5 DEF ToDelete, OldLive, CopyLive, MvLive, PutPcs, DelPcs
  <2> QED BY <1>3, <1>5, <2>1, KeepNext DEF NodePcs, DelPcs
<1>6. CASE pc' \in {"SetEnd", "Idle"}
  BY <1>6, CalmLabels, RestNext DEF CalmPcs
<1>7. CASE MvReturn(l, l.mv.ok)
  <2>1. Calm(pc', local') /\ pc' \in RestPcs
    BY <1>7, MvReturnCalm
  <2> QED BY <2>1, RestNext DEF RestPcs, CalmPcs, Plain
<1> QED BY <1>2, <1>4, <1>5, <1>6, <1>7

\* What a storage call leaves of the other sectors, and of its own when it fails.
LEMMA ProgramFlash ==
  ASSUME FlashOK, NEW s \in Sector, NEW image, NEW ok, Program(s, image, ok)
  PROVE  /\ flash'[s] = (IF ok THEN image ELSE flash[s])
         /\ \A t \in Sector : t # s => flash'[t] = flash[t]
BY DEF Program, FlashOK, Flash

\* The node of which the status is written is still there, and half deleted when the
\* caller will need it.
LEMMA DelStatusKept == ASSUME TInv, WInv, NEW ok \in BOOLEAN, DelStatus(ok) PROVE WInv'
<1> DEFINE del == local.del
           s == del.ptr.sec
           j == del.ptr.idx
           status == IF del.complete THEN "Deleted" ELSE "PreDelete"
           node == [flash[s].kvs[j] EXCEPT !.status = status]
           image == WithNode(s, j, node)
           m == [local EXCEPT !.job.done = local.job.done \/ del.ret = "Idle"]
<1>1. /\ local \in Local /\ FlashOK /\ s \in Sector /\ j \in Nat /\ flash[s] \in SectorImage
      /\ pc = "DelStatus" /\ pc \in DelPcs
  BY TInvParts, FrameTypes DEF DelFrame, Ptr, DelStatus, DelPcs
<1>2. /\ Program(s, image, ok)
      /\ (ok /\ pc' = "DelDirty" /\ local' = m) \/ (~ok /\ DelReturn(FALSE))
  BY DEF DelStatus, Goto
<1>3. CASE ~ok
  <2>1. flash' = flash
    BY <1>2, <1>3 DEF Program
  <2> QED BY <1>1, <1>2, <1>3, <2>1, DelReturnKept
<1>4. CASE ok
  <2>1. /\ m.del = local.del /\ m.put = local.put /\ m.mv = local.mv
        /\ m.job.old = local.job.old
    BY <1>1 DEF Local, Job
  <2>2. pc' = "DelDirty" /\ local' = m
    BY <1>2, <1>4
  <2> HIDE DEF m
  <2>3. /\ \A p \in ToDelete(pc', local') : p \in ToDelete(pc, local) /\ ~del.complete
        /\ local'.del = local.del /\ local'.put = local.put
    BY <1>1, <2>1, <2>2
       DEF ToDelete, OldLive, CopyLive, MvLive, PutPcs, DelPcs, WInv, KeptOK
  <2>4. flash[s].kvs[j] \in KvNode /\ j \in DOMAIN flash[s].kvs
    <3>1. Held(del.ptr)
      BY <1>1 DEF WInv, KeptOK, ToDelete
    <3> QED BY <1>1, <3>1, NodeType DEF Held
  <2>5. node.status = status
    BY <2>4 DEF KvNode
  <2>6. /\ DOMAIN flash'[s].kvs = DOMAIN flash[s].kvs
        /\ flash'[s].kvs[j].status = status
        /\ \A i \in DOMAIN flash[s].kvs : i # j => flash'[s].kvs[i] = flash[s].kvs[i]
        /\ \A t \in Sector : t # s => flash'[t] = flash[t]
    <3>1. flash'[s] = image /\ \A t \in Sector : t # s => flash'[t] = flash[t]
      <4> HIDE DEF image
      <4> QED BY <1>1, <1>2, <1>4, ProgramFlash
    <3> HIDE DEF node
    <3>2. image.kvs = [flash[s].kvs EXCEPT ![j] = node]
      BY <1>1 DEF WithNode, SectorImage
    <3> HIDE DEF image
    <3> QED BY <2>4, <2>5, <3>1, <3>2
  <2> HIDE DEF node
  <2>7. ASSUME NEW p \in ToDelete(pc', local') PROVE Held(p)'
    <3>1. Held(p) /\ status = "PreDelete" /\ p.sec \in Sector
      BY <2>3, KeptType DEF WInv, KeptOK, Ptr
    <3>2. /\ p.idx \in DOMAIN flash[p.sec].kvs
          /\ flash[p.sec].kvs[p.idx].status \in {"Write", "PreDelete"}
      BY <3>1 DEF Held
    <3>3. /\ p.idx \in DOMAIN flash'[p.sec].kvs
          /\ flash'[p.sec].kvs[p.idx].status \in {"Write", "PreDelete"}
      <4> HIDE DEF s, j, status
      <4> QED BY <2>6, <3>1, <3>2
    <3> QED BY <2>2, <3>3 DEF Held, NodePcs
  <2> QED BY <1>1, <2>2, <2>3, <2>7 DEF WInv, KeptOK, WrittenOK, DelPcs
<1> QED BY <1>3, <1>4

\* The mark of a sector leaves its nodes alone.
LEMMA DelDirtyKept == ASSUME TInv, WInv, NEW ok \in BOOLEAN, DelDirty(ok) PROVE WInv'
<1> DEFINE s == local.del.ptr.sec
           image == [flash[s] EXCEPT !.dirty = "True"]
<1>1. FlashOK /\ local \in Local /\ s \in Sector /\ flash[s] \in SectorImage /\ pc \in DelPcs
  BY TInvParts, FrameTypes DEF DelFrame, Ptr, DelDirty, DelPcs
<1>2. (Program(s, image, ok) \/ flash' = flash) /\ DelReturn(ok)
  BY DEF DelDirty, NoCall
<1>3. image.kvs = flash[s].kvs
  BY <1>1 DEF SectorImage
<1> HIDE DEF image
<1>4. \A t \in Sector : flash'[t].kvs = flash[t].kvs
  BY <1>1, <1>2, <1>3, ProgramFlash
<1> QED BY <1>1, <1>2, <1>4, DelReturnKept

----------------------------------------------------------------------------
(* The writes of create_kv_blob and move_kv_body *)

\* When the writes are over the old node is deleted, if it still can be.
LEMMA PutReturnKept ==
  ASSUME TInv, pc \in PutPcs, NEW ok \in BOOLEAN, PutReturn(ok),
         \A p \in ToDelete(pc, local) : Deletable(p)'
  PROVE  WInv'
<1> DEFINE l == [local EXCEPT !.put = NoLocal.put]
           done == [l EXCEPT !.job.done = ok]
           ml == [l EXCEPT !.mv.ok = ok]
<1>1. l \in Local /\ l.job = local.job /\ l.mv = local.mv
  <2>1. NoLocal.put \in PutFrame /\ local \in Local
    BY NoLocalType, FrameTypes, TInvParts
  <2> QED BY <2>1 DEF Local
<1>2. PICK old : old = local.job.old
  OBVIOUS
<1>3. PICK from : from = local.mv.ptr
  OBVIOUS
<1>4. \/ /\ local.put.ret = "SetEnd" /\ local.job.old.found
         /\ DelCall(done, l.job.old, TRUE, "SetEnd")
      \/ local.put.ret = "MvReturn" /\ DelCall(ml, l.mv.ptr, TRUE, "MvReturn")
      \/ pc' \in {"SetEnd", "DefKv"}
  BY <1>1 DEF PutReturn, Goto
<1> HIDE DEF l
<1>5. done \in Local /\ ml \in Local
  BY <1>1 DEF Local, Job, MvFrame
<1> HIDE DEF done, ml
<1>6. CASE local.put.ret = "SetEnd" /\ local.job.old.found /\ DelCall(done, l.job.old, TRUE, "SetEnd")
  <2>1. old \in ToDelete(pc, local)
    BY <1>2, <1>6 DEF ToDelete, OldLive
  <2>2. DelCall(done, old, TRUE, "SetEnd")
    BY <1>1, <1>2, <1>6
  <2> QED BY <1>5, <2>1, <2>2, DeleteNext
<1>7. CASE local.put.ret = "MvReturn" /\ DelCall(ml, l.mv.ptr, TRUE, "MvReturn")
  <2>1. from \in ToDelete(pc, local)
    BY <1>3, <1>7 DEF ToDelete, CopyLive
  <2>2. DelCall(ml, from, TRUE, "MvReturn")
    BY <1>1, <1>3, <1>7
  <2> QED BY <1>5, <2>1, <2>2, DeleteNext
<1>8. CASE pc' \in {"SetEnd", "DefKv"}
  BY <1>8, CalmLabels, RestNext DEF CalmPcs, Plain
<1> QED BY <1>4, <1>6, <1>7, <1>8

\* update_sec_status leaves the nodes alone.
LEMMA PutSecKept == ASSUME TInv, WInv, NEW ok \in BOOLEAN, PutSec(ok) PROVE WInv'
<1> DEFINE s == local.put.sec
           sec == flash[s]
           full == sec.store = "Using" /\ remain(sec) - PutLen < SEC_REMAIN_THRESHOLD
           image == [sec EXCEPT !.store = IF full THEN "Full" ELSE "Using"]
           m == [local EXCEPT !.put.full = full /\ ok]
<1>1. FlashOK /\ local \in Local /\ s \in Sector /\ sec \in SectorImage
  BY TInvParts, FrameTypes DEF PutFrame
<1>2. pc = "PutSec" /\ pc \in PutPcs
  BY DEF PutSec, PutPcs
<1>3. /\ Program(s, image, ok) \/ flash' = flash
      /\ (pc' = "PutStatus" /\ (local' = m \/ local' = local)) \/ PutReturn(FALSE)
  <2> HIDE DEF m
  <2> QED BY DEF PutSec, PutNext, Goto, NoCall, m
<1>4. image.kvs = sec.kvs
  BY <1>1 DEF SectorImage
<1>5. m.put.ret = local.put.ret /\ m.job = local.job /\ m.mv = local.mv
  BY <1>1 DEF Local, PutFrame
<1> HIDE DEF image, m
<1>6. \A t \in Sector : flash'[t].kvs = flash[t].kvs
  BY <1>1, <1>3, <1>4, ProgramFlash
<1>7. \A p \in ToDelete(pc, local) : Deletable(p)'
  BY <1>6, KeptDeletable
<1>8. CASE pc' = "PutStatus" /\ (local' = m \/ local' = local)
  <2>1. ToDelete(pc', local') \subseteq ToDelete(pc, local)
    BY <1>2, <1>5, <1>8 DEF ToDelete, OldLive, CopyLive, MvLive, PutPcs, DelPcs
  <2> QED BY <1>7, <1>8, <2>1, KeepNext DEF NodePcs, DelPcs
<1> QED BY <1>2, <1>3, <1>7, <1>8, PutReturnKept

\* A write goes on to the next one of the same node.
LEMMA WriteKept ==
  ASSUME TInv, WInv, pc \in PutPcs, NEW label \in NodePcs, pc' = label, local' = local,
         \A p \in ToDelete(pc, local) : Deletable(p)' /\ Apart(p)', WrittenOK'
  PROVE  WInv'
<1>1. ToDelete(pc', local') \subseteq ToDelete(pc, local)
  BY DEF ToDelete, OldLive, CopyLive, MvLive, PutPcs, DelPcs, NodePcs
<1>2. \A p \in ToDelete(pc', local') : Held(p)'
  BY <1>1 DEF Held, Deletable, Apart
<1> QED BY <1>2 DEF WInv, KeptOK, NodePcs, DelPcs

\* The node that is written is behind every node that is to be deleted.
LEMMA PutStatusKept == ASSUME TInv, WInv, NEW ok \in BOOLEAN, PutStatus(ok) PROVE WInv'
<1> DEFINE s == local.put.sec
           len == IF local.put.addr = SECTOR_HDR_DATA_SIZE THEN KV_HDR_DATA_SIZE ELSE 1
           node == [addr |-> local.put.addr, len |-> len, status |-> "ErrHdr",
                    crc |-> FALSE, key |-> None, val |-> None]
           image == [flash[s] EXCEPT !.kvs = Append(flash[s].kvs, node)]
<1>1. FlashOK /\ local \in Local /\ s \in Sector /\ flash[s] \in SectorImage
  BY TInvParts, FrameTypes DEF PutFrame
<1>2. pc = "PutStatus" /\ pc \in PutPcs /\ Program(s, image, ok) /\ PutNext(ok, "PutHdr")
  <2>1. [flash[s] EXCEPT !.kvs = Append(@, node)] = image
    BY <1>1 DEF SectorImage
  <2> HIDE DEF image
  <2> QED BY <2>1 DEF PutStatus, PutPcs
<1>3. CASE ~ok
  <2>1. PutReturn(FALSE) /\ flash' = flash
    BY <1>2, <1>3 DEF PutNext, Program
  <2> QED BY <1>2, <2>1, KeptDeletable, PutReturnKept
<1>4. CASE ok
  <2>1. pc' = "PutHdr" /\ local' = local
    BY <1>2, <1>4 DEF PutNext, Goto
  <2>2. flash'[s] = image /\ \A t \in Sector : t # s => flash'[t] = flash[t]
    <3> HIDE DEF image
    <3> QED BY <1>1, <1>2, <1>4, ProgramFlash
  <2>3. image.kvs = Append(flash[s].kvs, node) /\ flash[s].kvs \in Seq(KvNode)
    BY <1>1 DEF SectorImage
  <2>4. node.key = None
    OBVIOUS
  <2> HIDE DEF image, node
  <2>5. /\ Len(flash'[s].kvs) = Len(flash[s].kvs) + 1
        /\ LastNode(flash'[s]) = node
        /\ \A i \in DOMAIN flash[s].kvs : /\ i \in DOMAIN flash'[s].kvs
                                          /\ flash'[s].kvs[i] = flash[s].kvs[i]
                                          /\ i # Len(flash'[s].kvs)
    <3> DEFINE old == flash[s].kvs
               new == flash'[s].kvs
    <3>1. new = Append(old, node) /\ old \in Seq(KvNode)
      BY <2>2, <2>3
    <3> HIDE DEF old, new
    <3>2. /\ Len(new) = Len(old) + 1 /\ new[Len(new)] = node
          /\ \A i \in DOMAIN old : i \in DOMAIN new /\ new[i] = old[i] /\ i # Len(new)
      BY <3>1
    <3> QED BY <3>2 DEF LastNode, old, new
  <2>6. ASSUME NEW p \in ToDelete(pc, local) PROVE Deletable(p)' /\ Apart(p)'
    <3>1. Deletable(p) /\ p.sec \in Sector
      BY KeptType, HeldParts DEF WInv, KeptOK, Ptr
    <3> QED BY <2>1, <2>2, <2>5, <3>1 DEF Deletable, Apart
  <2>7. WrittenOK'
    BY <2>1, <2>4, <2>5 DEF WrittenOK
  <2> QED BY <1>2, <2>1, <2>6, <2>7, WriteKept DEF NodePcs
<1> QED BY <1>3, <1>4

\* A write to the last node of a sector.
LEMMA PutNodeFlash ==
  ASSUME TInv, LInv, WInv, pc \in NodePcs, NEW node, NEW ok \in BOOLEAN, PutNode(node, ok)
  PROVE  LET s == local.put.sec
         IN  /\ ok => LastNode(flash'[s]) = node
             /\ \A p \in ToDelete(pc, local) :
                   Deletable(p)' /\ (local'.put.sec = s => Apart(p)')
<1> DEFINE s == local.put.sec
           j == Len(flash[s].kvs)
           image == WithNode(s, j, node)
<1>1. /\ FlashOK /\ local \in Local /\ s \in Sector /\ flash[s] \in SectorImage
      /\ flash[s].kvs # <<>>
  BY PutNodeFacts DEF NodePcs
<1>2. Program(s, image, ok)
  BY DEF PutNode
<1>3. image.kvs = [flash[s].kvs EXCEPT ![j] = node] /\ flash[s].kvs \in Seq(KvNode)
  BY <1>1 DEF WithNode, SectorImage
<1>4. j \in DOMAIN flash[s].kvs
  BY <1>1, LastNodeType
<1> HIDE DEF image
<1>5. /\ flash'[s] = (IF ok THEN image ELSE flash[s])
      /\ \A t \in Sector : t # s => flash'[t] = flash[t]
  BY <1>1, <1>2, ProgramFlash
<1>6. /\ DOMAIN flash'[s].kvs = DOMAIN flash[s].kvs /\ Len(flash'[s].kvs) = j
      /\ \A i \in DOMAIN flash[s].kvs : i # j => flash'[s].kvs[i] = flash[s].kvs[i]
      /\ ok => flash'[s].kvs[j] = node
  BY <1>3, <1>4, <1>5
<1>7. ok => LastNode(flash'[s]) = node
  BY <1>6 DEF LastNode
<1> HIDE DEF s, j
<1>8. ASSUME NEW p \in ToDelete(pc, local)
      PROVE  Deletable(p)' /\ (local'.put.sec = s => Apart(p)')
  <2>1. Deletable(p) /\ p.sec \in Sector /\ ~(p.sec = s /\ p.idx = j)
    BY KeptType DEF WInv, KeptOK, Ptr, Held, Deletable, s, j
  <2> QED BY <1>5, <1>6, <2>1 DEF Deletable, Apart
<1> QED BY <1>7, <1>8 DEF s

\* The header, the body and the commit of a node.
LEMMA NodeKept ==
  ASSUME TInv, LInv, WInv, NEW ok \in BOOLEAN, PutHdr(ok) \/ PutBody(ok) \/ PutCommit(ok)
  PROVE  WInv'
<1> DEFINE last == LastNode(flash[local.put.sec])
<1>1. local \in Local
  BY TInvParts
<1>2. CASE PutHdr(ok)
  <2> DEFINE node == [addr |-> local.put.addr, len |-> PutLen, status |-> "PreWrite",
                      crc |-> FALSE, key |-> local.put.key, val |-> local.put.val]
  <2>1. PutNode(node, ok) /\ PutNext(ok, "PutBody") /\ pc \in NodePcs /\ pc \in PutPcs
    BY <1>2 DEF PutHdr, NodePcs, PutPcs
  <2>2. node.status = "PreWrite"
    OBVIOUS
  <2> HIDE DEF node
  <2>3. CASE ok
    <3>1. pc' = "PutBody" /\ local' = local
      BY <2>1, <2>3 DEF PutNext, Goto
    <3> QED BY <2>1, <2>2, <2>3, <3>1, PutNodeFlash, WriteKept DEF NodePcs, WrittenOK
  <2>4. CASE ~ok
    BY <2>1, <2>4, PutNodeFlash, PutReturnKept DEF PutNext
  <2> QED BY <2>3, <2>4
<1>3. CASE PutBody(ok)
  <2> DEFINE node == [last EXCEPT !.crc = TRUE]
  <2>1. /\ PutNode(node, ok) /\ PutNext(ok, "PutCommit") /\ pc \in NodePcs /\ pc \in PutPcs
        /\ pc = "PutBody"
    BY <1>3 DEF PutBody, NodePcs, PutPcs
  <2>2. node.status = "PreWrite"
    <3>1. last \in KvNode
      BY <2>1, PutNodeFacts
    <3>2. last.status = "PreWrite"
      BY <2>1 DEF WInv, WrittenOK
    <3> HIDE DEF last
    <3> QED BY <3>1, <3>2 DEF KvNode
  <2> HIDE DEF node
  <2>3. CASE ok
    <3>1. pc' = "PutCommit" /\ local' = local
      BY <2>1, <2>3 DEF PutNext, Goto
    <3> QED BY <2>1, <2>2, <2>3, <3>1, PutNodeFlash, WriteKept DEF NodePcs, WrittenOK
  <2>4. CASE ~ok
    BY <2>1, <2>4, PutNodeFlash, PutReturnKept DEF PutNext
  <2> QED BY <2>3, <2>4
<1>4. CASE PutCommit(ok)
  <2> DEFINE node == [last EXCEPT !.status = "Write"]
  <2>1. PutNode(node, ok) /\ PutReturn(ok) /\ pc \in NodePcs /\ pc \in PutPcs
    BY <1>4 DEF PutCommit, NodePcs, PutPcs
  <2> HIDE DEF node
  <2> QED BY <2>1, PutNodeFlash, PutReturnKept
<1> QED BY <1>2, <1>3, <1>4

----------------------------------------------------------------------------
(* Every step keeps to it *)

\* Nothing is deleted or written before the database is opened.
LEMMA WInit == Init => WInv
BY DEF Init, WInv, KeptOK, WrittenOK, ToDelete, OldLive, CopyLive, MvLive, PutPcs, DelPcs

\* Every step keeps the nodes that are still to be deleted, and those that are written.
LEMMA WNext == TInv /\ LInv /\ WInv /\ [Next]_vars => WInv'
<1> SUFFICES ASSUME TInv, LInv, WInv, [Next]_vars PROVE WInv'
  OBVIOUS
<1>1. CASE CalmAction
  <2>1. Calm(pc', local') /\ pc' \in RestPcs
    BY <1>1, CalmStep
  <2> QED BY <2>1, RestNext DEF RestPcs, CalmPcs, Plain
<1>2. CASE \E ok \in BOOLEAN : \/ DelStatus(ok) \/ DelDirty(ok) \/ PutSec(ok) \/ PutStatus(ok)
                               \/ PutHdr(ok) \/ PutBody(ok) \/ PutCommit(ok)
                               \/ FmtErase(ok) \/ FmtHdr(ok) \/ GcSector(ok) \/ LoadErrHdr(ok)
  BY <1>2, DelStatusKept, DelDirtyKept, PutSecKept, PutStatusKept, NodeKept, FmtKept, MarkKept
<1>3. CASE (\E k \in Keys : Del(k)) \/ NewKv \/ SetFind \/ GcNode \/ MvAlloc \/ LoadMove
  BY <1>3, DelKept, NewKvKept, SetFindKept, MoveKept, MvAllocKept
<1>4. CASE UNCHANGED vars
  BY <1>4 DEF vars, WInv, KeptOK, WrittenOK, Held
<1> QED BY <1>1, <1>2, <1>3, <1>4 DEF Next, Client, Step, CalmAction

----------------------------------------------------------------------------
(* What a write clears *)

\* The place of a status in the order in which its bits are cleared.
LEMMA RankIs ==
  ASSUME NEW seq, NEW i \in DOMAIN seq, \A j \in DOMAIN seq : seq[j] = seq[i] => j = i
  PROVE  Rank(seq, seq[i]) = i
BY DEF Rank

\* The three orders.
LEMMA Ranks ==
  /\ /\ StoreRank("Unused") = 1 /\ StoreRank("Empty") = 2
     /\ StoreRank("Using") = 3 /\ StoreRank("Full") = 4
  /\ /\ DirtyRank("Unused") = 1 /\ DirtyRank("False") = 2
     /\ DirtyRank("True") = 3 /\ DirtyRank("Gc") = 4
  /\ /\ StatusRank("PreWrite") = 1 /\ StatusRank("Write") = 2 /\ StatusRank("PreDelete") = 3
     /\ StatusRank("Deleted") = 4 /\ StatusRank("ErrHdr") = 5
<1>1. /\ StoreRank("Unused") = 1 /\ StoreRank("Empty") = 2
      /\ StoreRank("Using") = 3 /\ StoreRank("Full") = 4
  <2> DEFINE seq == <<"Unused", "Empty", "Using", "Full">>
  <2>1. DOMAIN seq = {1, 2, 3, 4} /\ seq[1] = "Unused" /\ seq[2] = "Empty"
        /\ seq[3] = "Using" /\ seq[4] = "Full"
    OBVIOUS
  <2> HIDE DEF seq
  <2>2. \A i \in DOMAIN seq : Rank(seq, seq[i]) = i
    BY <2>1, RankIs
  <2>3. \A x : StoreRank(x) = Rank(seq, x)
    BY DEF StoreRank, seq
  <2> QED BY <2>1, <2>2, <2>3
<1>2. /\ DirtyRank("Unused") = 1 /\ DirtyRank("False") = 2
      /\ DirtyRank("True") = 3 /\ DirtyRank("Gc") = 4
  <2> DEFINE seq == <<"Unused", "False", "True", "Gc">>
  <2>1. DOMAIN seq = {1, 2, 3, 4} /\ seq[1] = "Unused" /\ seq[2] = "False"
        /\ seq[3] = "True" /\ seq[4] = "Gc"
    OBVIOUS
  <2> HIDE DEF seq
  <2>2. \A i \in DOMAIN seq : Rank(seq, seq[i]) = i
    BY <2>1, RankIs
  <2>3. \A x : DirtyRank(x) = Rank(seq, x)
    BY DEF DirtyRank, seq
  <2> QED BY <2>1, <2>2, <2>3
<1>3. /\ StatusRank("PreWrite") = 1 /\ StatusRank("Write") = 2 /\ StatusRank("PreDelete") = 3
      /\ StatusRank("Deleted") = 4 /\ StatusRank("ErrHdr") = 5
  <2> DEFINE seq == <<"PreWrite", "Write", "PreDelete", "Deleted", "ErrHdr">>
  <2>1. DOMAIN seq = {1, 2, 3, 4, 5} /\ seq[1] = "PreWrite" /\ seq[2] = "Write"
        /\ seq[3] = "PreDelete" /\ seq[4] = "Deleted" /\ seq[5] = "ErrHdr"
    OBVIOUS
  <2> HIDE DEF seq
  <2>2. \A i \in DOMAIN seq : Rank(seq, seq[i]) = i
    BY <2>1, RankIs
  <2>3. \A x : StatusRank(x) = Rank(seq, x)
    BY DEF StatusRank, seq
  <2> QED BY <2>1, <2>2, <2>3
<1> QED BY <1>1, <1>2, <1>3

\* A node goes forward and stays what it is.
NodeCleared(n, m) == /\ StatusRank(n.status) <= StatusRank(m.status)
                     /\ [m EXCEPT !.status = n.status, !.crc = n.crc] = n

\* A node that is not written stays what it is.
LEMMA NodeSame == ASSUME NEW n \in KvNode PROVE NodeCleared(n, n)
<1>1. n.status \in KvStatus
  BY DEF KvNode
<1>2. StatusRank(n.status) <= StatusRank(n.status)
  BY <1>1, Ranks DEF KvStatus
<1>3. [n EXCEPT !.status = n.status, !.crc = n.crc] = n
  BY DEF KvNode
<1> QED BY <1>2, <1>3 DEF NodeCleared

\* A sector of which the header goes forward.
LEMMA HeaderCleared ==
  ASSUME NEW old \in SectorImage, NEW new \in SectorImage, new.kvs = old.kvs,
         old.ok => new.ok, StoreRank(old.store) <= StoreRank(new.store),
         DirtyRank(old.dirty) <= DirtyRank(new.dirty)
  PROVE  OnlyCleared(old, new)
<1>1. \A j \in DOMAIN old.kvs : NodeCleared(old.kvs[j], new.kvs[j])
  BY NodeType, NodeSame
<1>2. Len(old.kvs) <= Len(new.kvs)
  BY DEF SectorImage
<1> QED BY <1>1, <1>2 DEF OnlyCleared, NodeCleared

\* A sector stays what it is.
LEMMA SectorSame == ASSUME NEW sec \in SectorImage PROVE OnlyCleared(sec, sec)
<1>1. StoreRank(sec.store) <= StoreRank(sec.store) /\ DirtyRank(sec.dirty) <= DirtyRank(sec.dirty)
  BY Ranks DEF SectorImage, SectorStoreStatus, SectorDirtyStatus
<1> QED BY <1>1, HeaderCleared

\* A sector of which one node goes forward, or the last one gets its header.
LEMMA NodesCleared ==
  ASSUME NEW sec \in SectorImage, NEW kvs \in Seq(KvNode), Len(sec.kvs) <= Len(kvs),
         \A j \in DOMAIN sec.kvs :
            LET n == sec.kvs[j]
                m == kvs[j]
            IN  m = n \/ NodeCleared(n, m)
                \/ (j = Len(sec.kvs) /\ n.key = None /\ m.addr = n.addr)
  PROVE  OnlyCleared(sec, [sec EXCEPT !.kvs = kvs])
<1> DEFINE new == [sec EXCEPT !.kvs = kvs]
<1>1. /\ new.ok = sec.ok /\ new.store = sec.store /\ new.dirty = sec.dirty /\ new.kvs = kvs
  BY DEF SectorImage
<1> HIDE DEF new
<1>2. StoreRank(sec.store) <= StoreRank(sec.store) /\ DirtyRank(sec.dirty) <= DirtyRank(sec.dirty)
  BY Ranks DEF SectorImage, SectorStoreStatus, SectorDirtyStatus
<1>3. \A j \in DOMAIN sec.kvs :
         \/ NodeCleared(sec.kvs[j], kvs[j])
         \/ j = Len(sec.kvs) /\ sec.kvs[j].key = None /\ kvs[j].addr = sec.kvs[j].addr
  BY NodeType, NodeSame
<1>4. OnlyCleared(sec, new)
  BY <1>1, <1>2, <1>3 DEF OnlyCleared, NodeCleared
<1> QED BY <1>4 DEF new

\* One node of a sector goes forward.
LEMMA OneNodeCleared ==
  ASSUME NEW sec \in SectorImage, NEW j \in DOMAIN sec.kvs, NEW node \in KvNode,
         \/ NodeCleared(sec.kvs[j], node)
         \/ j = Len(sec.kvs) /\ sec.kvs[j].key = None /\ node.addr = sec.kvs[j].addr
  PROVE  OnlyCleared(sec, [sec EXCEPT !.kvs[j] = node])
<1> DEFINE kvs == [sec.kvs EXCEPT ![j] = node]
<1>1. sec.kvs \in Seq(KvNode)
  BY DEF SectorImage
<1>2. kvs \in Seq(KvNode) /\ Len(kvs) = Len(sec.kvs)
  BY <1>1
<1>3. \A i \in DOMAIN sec.kvs : kvs[i] = IF i = j THEN node ELSE sec.kvs[i]
  BY <1>1
<1> HIDE DEF kvs
<1>4. Len(sec.kvs) <= Len(kvs)
  BY <1>1, <1>2
<1>5. OnlyCleared(sec, [sec EXCEPT !.kvs = kvs])
  BY <1>2, <1>3, <1>4, NodesCleared
<1>6. [sec EXCEPT !.kvs = kvs] = [sec EXCEPT !.kvs[j] = node]
  BY DEF SectorImage, kvs
<1> QED BY <1>5, <1>6

----------------------------------------------------------------------------
(* The actions that write *)

\* What a step does to the medium.
Forward == \A s \in Sector : OnlyCleared(flash[s], flash'[s]) \/ flash'[s] = Erased

\* A write that only clears, or an erase.
LEMMA ProgramForward ==
  ASSUME FlashOK, NEW s \in Sector, NEW image, OnlyCleared(flash[s], image) \/ image = Erased,
         NEW ok, Program(s, image, ok)
  PROVE  Forward
<1>1. \A t \in Sector : OnlyCleared(flash[t], flash[t])
  BY SectorSame DEF FlashOK, Flash
<1>2. /\ flash'[s] = (IF ok THEN image ELSE flash[s])
      /\ \A t \in Sector : t # s => flash'[t] = flash[t]
  BY ProgramFlash
<1> QED BY <1>1, <1>2 DEF Forward

\* Without a write.
LEMMA SameForward == ASSUME FlashOK, flash' = flash PROVE Forward
BY SectorSame DEF FlashOK, Flash, Forward

\* The sector status goes from EMPTY to USING.
LEMMA PutSecForward == ASSUME TInv, LInv, NEW ok \in BOOLEAN, PutSec(ok) PROVE Forward
<1> DEFINE s == local.put.sec
           sec == flash[s]
           full == sec.store = "Using" /\ remain(sec) - PutLen < SEC_REMAIN_THRESHOLD
           store == IF full THEN "Full" ELSE "Using"
           image == [sec EXCEPT !.store = store]
<1>1. /\ FlashOK /\ local \in Local /\ s \in Sector /\ sec \in SectorImage
  BY TInvParts, FrameTypes DEF PutFrame
<1>2. (Program(s, image, ok) /\ sec.store \in {"Empty", "Using"}) \/ flash' = flash
  BY DEF PutSec, NoCall
<1>3. /\ image.kvs = sec.kvs /\ image.ok = sec.ok /\ image.dirty = sec.dirty
      /\ image.store = store /\ image \in SectorImage
  BY <1>1 DEF SectorImage, SectorStoreStatus
<1>4. sec.store \in {"Empty", "Using"} => StoreRank(sec.store) <= StoreRank(store)
  BY Ranks
<1>5. DirtyRank(sec.dirty) <= DirtyRank(sec.dirty)
  BY <1>1, Ranks DEF SectorImage, SectorDirtyStatus
<1> HIDE DEF image, store
<1>6. sec.store \in {"Empty", "Using"} => OnlyCleared(sec, image)
  BY <1>1, <1>3, <1>4, <1>5, HeaderCleared
<1> QED BY <1>1, <1>2, <1>6, ProgramForward, SameForward

\* The marks of a sector only go forward.
LEMMA DirtyForward ==
  ASSUME TInv, NEW ok \in BOOLEAN, GcSector(ok) \/ DelDirty(ok)
  PROVE  Forward
<1>1. FlashOK /\ local \in Local /\ local.gc \in GcFrame /\ local.del.ptr.sec \in Sector
  BY TInvParts, FrameTypes DEF DelFrame, Ptr
<1>2. ASSUME NEW s \in Sector, NEW x \in {"True", "Gc"}, x = "True" => flash[s].dirty = "False"
      PROVE  OnlyCleared(flash[s], [flash[s] EXCEPT !.dirty = x])
  <2> DEFINE image == [flash[s] EXCEPT !.dirty = x]
  <2>1. flash[s] \in SectorImage
    BY <1>1 DEF FlashOK, Flash
  <2>2. /\ image.kvs = flash[s].kvs /\ image.ok = flash[s].ok /\ image.store = flash[s].store
        /\ image.dirty = x /\ image \in SectorImage
    BY <1>2, <2>1 DEF SectorImage, SectorDirtyStatus
  <2>3. DirtyRank(flash[s].dirty) <= DirtyRank(x) /\ StoreRank(flash[s].store) <= StoreRank(flash[s].store)
    BY <1>2, <2>1, Ranks DEF SectorImage, SectorDirtyStatus, SectorStoreStatus
  <2> HIDE DEF image
  <2>4. OnlyCleared(flash[s], image)
    BY <2>1, <2>2, <2>3, HeaderCleared
  <2> QED BY <2>4 DEF image
<1>3. CASE GcSector(ok)
  <2> DEFINE i == Least(GcAhead)
             s == Nth(local.gc.from, i)
  <2>1. i \in Nat
    <3>1. GcAhead \subseteq Nat /\ GcAhead # {}
      BY <1>1, <1>3, GeometryType DEF GcSector, GcAhead, GcFrame
    <3> QED BY <3>1, LeastExists
  <2>2. s \in Sector
    BY <1>1, <2>1, NthType DEF GcFrame
  <2>3. Program(s, [flash[s] EXCEPT !.dirty = "Gc"], ok)
    BY <1>3 DEF GcSector
  <2> HIDE DEF s
  <2> QED BY <1>1, <1>2, <2>2, <2>3, ProgramForward
<1>4. CASE DelDirty(ok)
  <2> DEFINE s == local.del.ptr.sec
  <2>1. \/ flash[s].dirty = "False" /\ Program(s, [flash[s] EXCEPT !.dirty = "True"], ok)
        \/ flash' = flash
    BY <1>4 DEF DelDirty, Unmarked, NoCall
  <2>2. s \in Sector
    BY <1>1
  <2> HIDE DEF s
  <2> QED BY <1>1, <1>2, <2>1, <2>2, ProgramForward, SameForward
<1> QED BY <1>3, <1>4

\* The status of a node goes forward: one that is deleted is live or half deleted, one
\* that is given up is half written.
LEMMA StatusForward ==
  ASSUME TInv, WInv, NEW ok \in BOOLEAN, DelStatus(ok) \/ LoadErrHdr(ok)
  PROVE  Forward
<1>1. FlashOK /\ local \in Local
  BY TInvParts
<1>2. ASSUME NEW s \in Sector, NEW j \in DOMAIN flash[s].kvs, NEW x \in KvStatus,
             StatusRank(flash[s].kvs[j].status) <= StatusRank(x)
      PROVE  OnlyCleared(flash[s], WithNode(s, j, [flash[s].kvs[j] EXCEPT !.status = x]))
  <2> DEFINE n == flash[s].kvs[j]
             m == [n EXCEPT !.status = x]
  <2>1. flash[s] \in SectorImage /\ n \in KvNode
    BY <1>1, NodeType DEF FlashOK, Flash
  <2> HIDE DEF n
  <2>2. m \in KvNode /\ m.status = x /\ [m EXCEPT !.status = n.status, !.crc = n.crc] = n
    BY <1>2, <2>1 DEF KvNode
  <2>3. NodeCleared(n, m)
    <3> HIDE DEF m
    <3> QED BY <1>2, <2>2 DEF NodeCleared, n
  <2> HIDE DEF m
  <2>4. OnlyCleared(flash[s], [flash[s] EXCEPT !.kvs[j] = m])
    BY <2>1, <2>2, <2>3, OneNodeCleared DEF n
  <2> QED BY <2>4 DEF WithNode, m, n
<1>3. CASE DelStatus(ok)
  <2> DEFINE s == local.del.ptr.sec
             j == local.del.ptr.idx
             status == IF local.del.complete THEN "Deleted" ELSE "PreDelete"
             image == WithNode(s, j, [flash[s].kvs[j] EXCEPT !.status = status])
  <2>1. Program(s, image, ok)
    BY <1>3 DEF DelStatus
  <2>2. Held(local.del.ptr)
    BY <1>3 DEF DelStatus, WInv, KeptOK, ToDelete
  <2>3. /\ s \in Sector /\ j \in DOMAIN flash[s].kvs /\ status \in KvStatus
        /\ StatusRank(flash[s].kvs[j].status) <= StatusRank(status)
    BY <1>1, <2>2, FrameTypes, Ranks DEF Held, DelFrame, Ptr, KvStatus
  <2> HIDE DEF s, j, status
  <2>4. OnlyCleared(flash[s], image)
    BY <1>2, <2>3
  <2> HIDE DEF image
  <2> QED BY <1>1, <2>1, <2>3, <2>4, ProgramForward
<1>4. CASE LoadErrHdr(ok)
  <2> DEFINE i == Least(StepsAhead)
             s == Nth(local.load.from, i)
             j == Least(InterruptedIn(i))
             image == WithNode(s, j, [flash[s].kvs[j] EXCEPT !.status = "ErrHdr"])
  <2>1. s \in Sector /\ j \in DOMAIN flash[s].kvs
    BY <1>4, StepsOK DEF LoadErrHdr
  <2>2. Program(s, image, ok) /\ flash[s].kvs[j].status = "PreWrite"
    BY <1>4 DEF LoadErrHdr
  <2> HIDE DEF s, j
  <2>3. "ErrHdr" \in KvStatus /\ StatusRank(flash[s].kvs[j].status) <= StatusRank("ErrHdr")
    BY <2>2, Ranks DEF KvStatus
  <2>4. OnlyCleared(flash[s], image)
    BY <1>2, <2>1, <2>3
  <2> HIDE DEF image
  <2> QED BY <1>1, <2>1, <2>2, <2>4, ProgramForward
<1> QED BY <1>3, <1>4

\* An erase, and the header of a sector that is erased.
LEMMA FmtForward == ASSUME TInv, WInv, NEW ok \in BOOLEAN, FmtErase(ok) \/ FmtHdr(ok) PROVE Forward
<1>1. FlashOK /\ local \in Local /\ local.fmt.sec \in Sector
  BY TInvParts, FrameTypes DEF FmtFrame
<1>2. CASE FmtErase(ok)
  BY <1>1, <1>2, ProgramForward DEF FmtErase
<1>3. CASE FmtHdr(ok)
  <2>1. flash[local.fmt.sec] = Erased /\ Program(local.fmt.sec, Formatted, ok)
    BY <1>3 DEF FmtHdr, WInv, WrittenOK
  <2>2. /\ ~Erased.ok /\ Erased.store = "Unused" /\ Erased.dirty = "Unused" /\ Erased.kvs = <<>>
        /\ Formatted.store = "Empty" /\ Formatted.dirty = "False" /\ Formatted.kvs = <<>>
    BY DEF Erased, Formatted
  <2>3. OnlyCleared(Erased, Formatted)
    BY <2>2, FormatOK, Ranks, HeaderCleared
  <2> QED BY <1>1, <2>1, <2>3, ProgramForward
<1> QED BY <1>2, <1>3

\* A node begins behind the others.
LEMMA PutStatusForward == ASSUME TInv, NEW ok \in BOOLEAN, PutStatus(ok) PROVE Forward
<1> DEFINE s == local.put.sec
           len == IF local.put.addr = SECTOR_HDR_DATA_SIZE THEN KV_HDR_DATA_SIZE ELSE 1
           node == [addr |-> local.put.addr, len |-> len, status |-> "ErrHdr",
                    crc |-> FALSE, key |-> None, val |-> None]
           kvs == Append(flash[s].kvs, node)
           image == [flash[s] EXCEPT !.kvs = kvs]
<1>1. FlashOK /\ local \in Local /\ s \in Sector /\ flash[s] \in SectorImage
      /\ local.put.addr \in Nat
  BY TInvParts, FrameTypes DEF PutFrame
<1>2. Program(s, image, ok)
  <2>1. [flash[s] EXCEPT !.kvs = Append(@, node)] = image
    BY <1>1 DEF SectorImage
  <2> HIDE DEF image
  <2> QED BY <2>1 DEF PutStatus
<1>3. node \in KvNode
  BY <1>1 DEF KvNode, KvStatus, KV_HDR_DATA_SIZE
<1>4. flash[s].kvs \in Seq(KvNode)
  BY <1>1 DEF SectorImage
<1> HIDE DEF node
<1>5. /\ kvs \in Seq(KvNode) /\ Len(flash[s].kvs) <= Len(kvs)
      /\ \A j \in DOMAIN flash[s].kvs : kvs[j] = flash[s].kvs[j]
  <2> DEFINE old == flash[s].kvs
  <2>1. old \in Seq(KvNode)
    BY <1>4
  <2> HIDE DEF old
  <2>2. /\ Append(old, node) \in Seq(KvNode) /\ Len(old) <= Len(Append(old, node))
        /\ \A j \in DOMAIN old : Append(old, node)[j] = old[j]
    BY <1>3, <2>1
  <2> QED BY <2>2 DEF old
<1> HIDE DEF kvs
<1>6. OnlyCleared(flash[s], image)
  BY <1>1, <1>5, NodesCleared
<1> HIDE DEF image
<1> QED BY <1>1, <1>2, <1>6, ProgramForward

\* The header goes to the node begun before, the body and the commit to a node that is
\* half written.
LEMMA NodeForward ==
  ASSUME TInv, LInv, WInv, NEW ok \in BOOLEAN, PutHdr(ok) \/ PutBody(ok) \/ PutCommit(ok)
  PROVE  Forward
<1> DEFINE s == local.put.sec
           sec == flash[s]
           last == LastNode(sec)
<1>1. /\ FlashOK /\ local \in Local /\ s \in Sector /\ sec \in SectorImage /\ sec.kvs # <<>>
      /\ last \in KvNode /\ last.addr = local.put.addr
  BY PutNodeFacts DEF PutHdr, PutBody, PutCommit, Begun
<1>2. Len(sec.kvs) \in DOMAIN sec.kvs /\ last = sec.kvs[Len(sec.kvs)]
  BY <1>1, LastNodeType
<1>3. ASSUME NEW node \in KvNode, PutNode(node, ok),
             NodeCleared(last, node) \/ (last.key = None /\ node.addr = last.addr)
      PROVE  Forward
  <2> DEFINE image == [sec EXCEPT !.kvs[Len(sec.kvs)] = node]
  <2>1. OnlyCleared(sec, image)
    BY <1>1, <1>2, <1>3, OneNodeCleared
  <2>2. Program(s, image, ok)
    BY <1>3 DEF PutNode, WithNode
  <2> HIDE DEF image
  <2> QED BY <1>1, <2>1, <2>2, ProgramForward
<1>4. CASE PutHdr(ok)
  <2> DEFINE node == [addr |-> local.put.addr, len |-> PutLen, status |-> "PreWrite",
                      crc |-> FALSE, key |-> local.put.key, val |-> local.put.val]
  <2>1. last.key = None /\ PutNode(node, ok)
    BY <1>4 DEF PutHdr, WInv, WrittenOK
  <2>2. Stored(local.put.key, local.put.val)
    BY <1>4, TInvParts DEF PutHdr, ArgsOK, PutLive, PutPcs
  <2>3. PutLen \in Nat
    BY <2>2, KvLenType DEF PutLen, Stored
  <2>4. node \in KvNode /\ node.addr = last.addr
    BY <1>1, <2>2, <2>3 DEF KvNode, KvStatus, Stored
  <2> HIDE DEF node
  <2> QED BY <1>3, <2>1, <2>4
<1>5. CASE PutBody(ok) \/ PutCommit(ok)
  <2>1. last.status = "PreWrite"
    BY <1>5 DEF PutBody, PutCommit, WInv, WrittenOK
  <2>2. PutNode([last EXCEPT !.crc = TRUE], ok) \/ PutNode([last EXCEPT !.status = "Write"], ok)
    BY <1>5 DEF PutBody, PutCommit
  <2> HIDE DEF last
  <2>3. ASSUME NEW node \in {[last EXCEPT !.crc = TRUE], [last EXCEPT !.status = "Write"]}
        PROVE  node \in KvNode /\ NodeCleared(last, node)
    <3>1. node \in KvNode /\ node.status \in {"PreWrite", "Write"}
      BY <1>1, <2>1 DEF KvNode, KvStatus
    <3>2. [node EXCEPT !.status = last.status, !.crc = last.crc] = last
      BY <1>1 DEF KvNode
    <3> QED BY <2>1, <3>1, <3>2, Ranks DEF NodeCleared
  <2> QED BY <1>3, <2>2, <2>3
<1> QED BY <1>4, <1>5

\* Every step programs forward, or erases a whole sector.
LEMMA StepForward == ASSUME TInv, LInv, WInv, Next PROVE Forward
<1>1. FlashOK
  BY TInvParts
<1>2. CASE CalmAction
  BY <1>1, <1>2, CalmStep, SameForward
<1>3. CASE \E ok \in BOOLEAN : \/ DelStatus(ok) \/ DelDirty(ok) \/ PutSec(ok) \/ PutStatus(ok)
                               \/ PutHdr(ok) \/ PutBody(ok) \/ PutCommit(ok)
                               \/ FmtErase(ok) \/ FmtHdr(ok) \/ GcSector(ok) \/ LoadErrHdr(ok)
  BY <1>3, PutSecForward, DirtyForward, StatusForward, FmtForward, PutStatusForward, NodeForward
<1>4. CASE (\E k \in Keys : Del(k)) \/ NewKv \/ SetFind \/ GcNode \/ MvAlloc \/ LoadMove
  <2>1. flash' = flash
    BY <1>4 DEF Del, NewKv, SetFind, GcNode, MvAlloc, LoadMove, NoCall
  <2> QED BY <1>1, <2>1, SameForward
<1> QED BY <1>2, <1>3, <1>4 DEF Next, Client, Step, CalmAction

----------------------------------------------------------------------------
(* The theorems *)

\* The node a set replaces and the node a move copies are where the call found them, and
\* can still be deleted, until they are: whatever is collected, written or interrupted in
\* between, nothing else deletes or erases them.
THEOREM NodesKept == Spec => [](KeptOK /\ WrittenOK)
<1>1. WInv <=> KeptOK /\ WrittenOK
  BY DEF WInv
<1> QED BY <1>1, TInit, TNext, LInit, LNext, WInit, WNext, PTL DEF Spec

\* The contract of the storage interface: a write clears bits and sets none.  Whenever
\* power fails or the medium begins to fail, and whatever an open finds, a sector and its
\* nodes go forward through their states, and no node is written over another one.
THEOREM ClearsOnly == Spec => ProgramOnlyClears
<1>1. TInv /\ LInv /\ WInv /\ [Next]_vars =>
         [\A s \in Sector : OnlyCleared(flash[s], flash'[s]) \/ flash'[s] = Erased]_flash
  <2> SUFFICES ASSUME TInv, LInv, WInv, [Next]_vars
               PROVE  [\A s \in Sector : OnlyCleared(flash[s], flash'[s])
                                         \/ flash'[s] = Erased]_flash
    OBVIOUS
  <2>1. CASE Next
    BY <2>1, StepForward DEF Forward
  <2>2. CASE UNCHANGED vars
    BY <2>2 DEF vars
  <2> QED BY <2>1, <2>2
<1> QED BY <1>1, TInit, TNext, LInit, LNext, WInit, WNext, PTL DEF Spec, ProgramOnlyClears
=============================================================================
