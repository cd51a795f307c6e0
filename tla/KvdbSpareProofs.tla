-------------------------- MODULE KvdbSpareProofs --------------------------
(***************************************************************************)
(* After every call an empty sector is left, every sector has its header,  *)
(* and, while nothing fails, check finds nothing to report; set_default    *)
(* writes all defaults there is room for.                                  *)
(*                                                                         *)
(* The spare sector is what a collection moves the nodes to: during it     *)
(* there may be none.  The argument is that the medium alone then says so  *)
(* (AloneOK: an empty sector, or one that is marked or without a header),  *)
(* and that the part of the code that makes one again is always ahead      *)
(* (SpareAhead): the walk of the collection comes to the marked sector,    *)
(* and after a restart the walks of kv_load come to it.  Why nobody else   *)
(* takes the last empty sector is RequestOK: outside a collection the      *)
(* spare sector is not asked for.                                          *)
(***************************************************************************)
EXTENDS KvdbProofs, FiniteSetTheorems

----------------------------------------------------------------------------
(* What a state has to show *)

\* With an empty sector, and another one when a node waits for its sector, nothing has
\* to be ahead.
LEMMA EmptyAhead ==
  ASSUME Empties(flash') # {}, ~Collecting(pc', local'),
         PutWaits(pc', local') => Empties(flash') \ {local'.put.sec} # {}
  PROVE  SpareAhead'
BY DEF SpareAhead

\* While a sector is collected it is marked, or its header is gone.
LEMMA CollectAhead ==
  ASSUME Collecting(pc', local'), HalfCollected(flash') # {}
  PROVE  SpareAhead'
BY DEF SpareAhead, Collecting, Moving, Settled, PutWaits, DelPcs, PutPcs

\* While a sector is formatted, and without power, nothing is claimed.
LEMMA FreeAhead == ASSUME pc' \in {"Off", "FmtErase", "FmtHdr"} PROVE SpareAhead'
BY DEF SpareAhead, Collecting, Moving, Settled, PutWaits, DelPcs, PutPcs

\* Where no node is written or moved, only the last conjunct of the invariant is open.
LEMMA CalmSpare ==
  ASSUME AloneOK, flash' = flash, Calm(pc', local'), failing' \/ SpareAhead',
         gcRequest' => MayRequest(pc', local'),
         pc' = "GcStart" => local'.gc.i = 0, HeaderWalk(pc', local') => local'.def.i = 0
  PROVE  SpareOK'
<1>1. ~PutLive(pc', local')
  BY DEF Calm
<1>2. AloneOK'
  BY DEF AloneOK, Empties, HalfCollected, Marked, Bad
<1> QED BY <1>1, <1>2 DEF SpareOK, RequestOK

\* ... and it follows where there is an empty sector.
LEMMA RestSpare ==
  ASSUME AloneOK, flash' = flash, pc' \in RestPcs \ {"GcNode"},
         failing' \/ Empties(flash) # {} \/ pc' \in {"Off", "FmtErase"},
         gcRequest' => MayRequest(pc', local'),
         pc' = "GcStart" => local'.gc.i = 0, HeaderWalk(pc', local') => local'.def.i = 0
  PROVE  SpareOK'
<1>1. Calm(pc', local')
  BY CalmLabels DEF RestPcs
<1>2. ~Collecting(pc', local') /\ ~PutWaits(pc', local')
  BY <1>1 DEF RestPcs, CalmPcs, Plain, Collecting, Moving, DelPcs, PutPcs, Calm, PutLive
<1>3. failing' \/ SpareAhead'
  BY <1>2, EmptyAhead, FreeAhead
<1> QED BY <1>1, <1>3, CalmSpare

\* What the source of a step knows.
LEMMA SpareNow ==
  ASSUME TInv, SpareOK
  PROVE  /\ AloneOK /\ gcRequest \in BOOLEAN /\ local \in Local
         /\ ~MayRequest(pc, local) => gcRequest = FALSE
         /\ Settled(pc, local) => failing \/ Empties(flash) # {}
         /\ Collecting(pc, local) => failing \/ HalfCollected(flash) # {}
BY TInvParts DEF SpareOK, RequestOK, SpareAhead, RamOK

\* The labels of the settled part of a session that are not in del_kv or in the write of
\* a node, and those of them from which the spare sector is not asked for.
LEMMA SettledLabels ==
  \A l : \A label \in {"Idle", "NewKv", "SetFind", "SetEnd", "DefKv", "LoadScan", "LoadPass",
                       "LoadCollect", "GcFormatted"} :
     /\ Settled(label, l)
     /\ label \notin {"GcFormatted", "LoadCollect"} => ~MayRequest(label, l)
BY DEF Settled, MayRequest, Collecting, Moving, DelPcs, PutPcs

----------------------------------------------------------------------------
(* The steps between the walks *)

\* A collection begins with the first step of its walk.
LEMMA GcCallSpare ==
  ASSUME NEW l \in Local, NEW free, NEW r, GcCall(l, free, r)
  PROVE  pc' = "GcStart" /\ local'.gc.i = 0
<1> DEFINE x == [NoLocal.gc EXCEPT !.free = free, !.ret = r]
           m == [l EXCEPT !.gc = x]
<1>1. x.i = 0
  BY DEF NoLocal
<1>2. m.gc = x
  BY DEF Local
<1>3. pc' = "GcStart" /\ local' = m
  BY DEF GcCall, Goto
<1> HIDE DEF x, m
<1> QED BY <1>1, <1>2, <1>3

\* set, set_default, the loop over the defaults and the end of kv_load.
LEMMA SettledSpare ==
  ASSUME TInv, SpareOK,
         \/ SetEnd \/ DefKv \/ DefEnd \/ SetDefault \/ LoadScan \/ LoadPassEnd
         \/ \E u \in Updates : Set(u[1], u[2])
  PROVE  SpareOK'
<1>1. pc \in {"Idle", "SetEnd", "DefKv", "LoadScan", "LoadPass"} /\ NoCall
  BY DEF SetEnd, DefKv, DefEnd, SetDefault, LoadScan, LoadPassEnd, Set, Idle
<1>2. Settled(pc, local) /\ gcRequest = FALSE
  BY <1>1, SettledLabels, SpareNow
<1>3. flash' = flash /\ (failing' \/ Empties(flash) # {})
  BY <1>1, <1>2, SpareNow DEF NoCall, medium
<1>4. gcRequest' = FALSE
  BY <1>2 DEF SetEnd, DefKv, DefEnd, SetDefault, LoadScan, LoadPassEnd, Set, ram
<1>5. pc' \in {"Idle", "DefKv", "NewKv", "LoadGc", "DefFormat", "LoadPass", "LoadCollect"}
  BY <1>2 DEF SetEnd, DefKv, DefEnd, SetDefault, LoadScan, LoadPassEnd, Set, Goto, Return,
              NewCall, LoadGcCall
<1>6. pc' \in RestPcs \ {"GcNode"} /\ pc' # "GcStart" /\ ~HeaderWalk(pc', local')
  BY <1>5 DEF RestPcs, CalmPcs, Plain, HeaderWalk
<1> QED BY <1>3, <1>4, <1>6, SpareNow, RestSpare

\* kv_load collects what a move found no place for.
LEMMA LoadCollectSpare == ASSUME TInv, SpareOK, LoadCollect PROVE SpareOK'
<1>1. Settled(pc, local) /\ NoCall /\ gcRequest' = gcRequest
  BY SettledLabels DEF LoadCollect
<1>2. flash' = flash /\ (failing' \/ Empties(flash) # {}) /\ local \in Local
  BY <1>1, SpareNow DEF NoCall, medium
<1>3. CASE gcRequest
  <2>1. pc' = "GcStart" /\ local'.gc.i = 0
    BY <1>2, <1>3, GcCallSpare DEF LoadCollect
  <2> QED BY <1>2, <2>1, SpareNow, RestSpare
          DEF RestPcs, CalmPcs, Plain, HeaderWalk, MayRequest
<1>4. CASE ~gcRequest
  <2>1. pc' = "Idle"
    BY <1>4 DEF LoadCollect, Return, Goto
  <2> QED BY <1>1, <1>2, <1>4, <2>1, SpareNow, RestSpare
          DEF RestPcs, CalmPcs, Plain, HeaderWalk
<1> QED BY <1>3, <1>4

\* The end of a session leaves the medium as it is.
LEMMA OffSpare == ASSUME SpareOK, LoadRefused \/ Close \/ PowerLoss PROVE SpareOK'
<1>1. pc' = "Off" /\ gcRequest' = FALSE /\ flash' = flash
  BY DEF LoadRefused, Close, PowerLoss, Reset, Goto, NoCall
<1> QED BY <1>1, RestSpare DEF SpareOK, RestPcs, CalmPcs, HeaderWalk

----------------------------------------------------------------------------
(* Garbage collection *)

\* A collection returns and the spare sector is no longer asked for.
LEMMA GcReturnSpare ==
  ASSUME AloneOK, flash' = flash, failing' \/ Empties(flash) # {}, NEW l \in Local, GcReturn(l)
  PROVE  SpareOK'
<1>1. l.gc.ret \in {"NewKv", "Idle", "LoadGc", "LoadScan"}
  BY FrameTypes DEF GcFrame
<1>2. gcRequest' = FALSE /\ pc' \in {"NewKv", "Idle", "LoadGc", "LoadScan"}
  BY <1>1 DEF GcReturn, Goto
<1> QED BY <1>2, RestSpare DEF RestPcs, CalmPcs, Plain, HeaderWalk

\* Where nothing is collected two sectors are empty; else the walk begins, and without an
\* empty sector it has the marked one before it.
LEMMA GcStartSpare == ASSUME TInv, SpareOK, GcStart PROVE SpareOK'
<1> DEFINE E == {i \in Sector : Nth(oldest, i) \in Empties(flash)}
           last == IF E = {} THEN 0 ELSE Nth(oldest, Greatest(E))
           m == [local EXCEPT !.gc.from = oldest, !.gc.last = last]
<1>1. /\ AloneOK /\ local \in Local /\ oldest \in Sector /\ local.gc.i = 0
      /\ flash' = flash /\ failing' = failing
  BY SpareNow, TInvParts DEF GcStart, SpareOK, RequestOK, NoCall, medium, RamOK
<1>2. \/ Cardinality(E) > GC_EMPTY_SEC_THRESHOLD /\ GcReturn(local)
      \/ pc' = "GcSector" /\ local' = m /\ gcRequest' = gcRequest
  <2>1. IsFiniteSet(E)
    <3>1. IsFiniteSet(0 .. N-1)
      BY FS_Interval, GeometryType
    <3> QED BY <3>1, FS_Subset DEF Sector
  <2>2. Cardinality(E) \in Nat
    BY <2>1, FS_CardinalityType
  <2>3. ~(Cardinality(E) <= GC_EMPTY_SEC_THRESHOLD) => Cardinality(E) > GC_EMPTY_SEC_THRESHOLD
    BY <2>2 DEF GC_EMPTY_SEC_THRESHOLD
  <2> HIDE DEF E, m
  <2> QED BY <2>3 DEF GcStart, Goto, E, m
<1>3. CASE Cardinality(E) > GC_EMPTY_SEC_THRESHOLD /\ GcReturn(local)
  <2>1. E # {}
    BY <1>3, FS_EmptySet DEF GC_EMPTY_SEC_THRESHOLD
  <2>2. Empties(flash) # {}
    BY <2>1
  <2> QED BY <1>1, <1>3, <2>2, GcReturnSpare
<1>4. CASE pc' = "GcSector" /\ local' = m /\ gcRequest' = gcRequest
  <2>1. local'.gc.i = 0 /\ local'.gc.from = oldest
    <3>1. local.gc \in GcFrame
      BY <1>1, FrameTypes
    <3> HIDE DEF last
    <3>2. m.gc.i = 0 /\ m.gc.from = oldest
      BY <1>1, <3>1 DEF Local, GcFrame
    <3> QED BY <1>4, <3>2
  <2>2. failing \/ Empties(flash) # {} \/ Marked(flash) # {}
    BY DEF GcStart, SpareOK, SpareAhead
  <2>3. Marked(flash) # {} => GcAhead' # {}
    <3> SUFFICES ASSUME NEW s \in Marked(flash) PROVE GcAhead' # {}
      OBVIOUS
    <3>1. s \in Sector /\ flash'[s].ok /\ flash'[s].dirty = "Gc"
      BY <1>1 DEF Marked
    <3>2. PICK i \in Sector : Nth(oldest, i) = s
      BY <1>1, <3>1, NthOnto
    <3>3. i \in GcAhead'
      BY <2>1, <3>1, <3>2 DEF GcAhead, Collectable, Sector
    <3> QED BY <3>3
  <2>4. failing' \/ SpareAhead'
    BY <1>1, <1>4, <2>2, <2>3
       DEF SpareAhead, Collecting, Moving, Settled, PutWaits, DelPcs, PutPcs, Empties
  <2>5. Calm(pc', local')
    BY <1>4, CalmLabels DEF CalmPcs, Plain
  <2> QED BY <1>1, <1>4, <2>4, <2>5, CalmSpare DEF MayRequest, HeaderWalk
<1> QED BY <1>2, <1>3, <1>4

\* A collection that met no dirty sector any more has an empty one.
LEMMA GcEndSpare == ASSUME TInv, SpareOK, GcEnd PROVE SpareOK'
<1>1. flash' = flash /\ failing' = failing
  BY DEF GcEnd, NoCall, medium
<1>2. failing \/ Empties(flash) # {}
  BY DEF GcEnd, SpareOK, SpareAhead
<1> QED BY <1>1, <1>2, SpareNow, GcReturnSpare DEF GcEnd

\* The sector is marked before its nodes are moved.
LEMMA GcSectorSpare == ASSUME TInv, SpareOK, NEW ok \in BOOLEAN, GcSector(ok) PROVE SpareOK'
<1> DEFINE i == Least(GcAhead)
           s == Nth(local.gc.from, i)
           image == [flash[s] EXCEPT !.dirty = "Gc"]
<1>1. FlashOK /\ local.gc \in GcFrame
  BY TInvParts, FrameTypes
<1>2. i \in Nat /\ Collectable(s)
  <2>1. GcAhead \subseteq Nat /\ GcAhead # {}
    BY <1>1, GeometryType DEF GcSector, GcAhead, GcFrame
  <2>2. Least(GcAhead) \in GcAhead
    BY <2>1, LeastExists
  <2> QED BY <2>1, <2>2 DEF GcAhead
<1>3. s \in Sector
  BY <1>1, <1>2, NthType DEF GcFrame
<1>4. Program(s, image, ok) /\ pc' = "GcNode" /\ gcRequest' = gcRequest
  BY DEF GcSector, Goto, ram
<1>5. flash[s].ok /\ flash[s] \in SectorImage
  BY <1>2, <1>3, TInvParts DEF Collectable
<1> HIDE DEF s
<1>6. image.ok /\ image.dirty = "Gc" /\ image.store = flash[s].store
  BY <1>5 DEF SectorImage
<1> HIDE DEF image
<1>7. /\ flash'[s] = (IF ok THEN image ELSE flash[s])
      /\ \A t \in Sector : t # s => flash'[t] = flash[t]
  BY <1>1, <1>3, <1>4, ProgramFlash
<1>8. ok => HalfCollected(flash') # {}
  BY <1>3, <1>6, <1>7 DEF HalfCollected, Marked
<1>9. AloneOK'
  <2>1. Bad(flash') = Bad(flash) /\ Empties(flash') = Empties(flash)
    BY <1>3, <1>5, <1>6, <1>7 DEF Bad, Empties
  <2>2. Marked(flash) \subseteq Marked(flash')
    BY <1>3, <1>6, <1>7 DEF Marked
  <2> QED BY <2>1, <2>2, SpareNow DEF AloneOK, HalfCollected
<1>10. ok \/ failing'
  BY <1>4 DEF Program, Call
<1>11. failing' \/ SpareAhead'
  BY <1>4, <1>8, <1>10, CollectAhead DEF Collecting
<1> QED BY <1>4, <1>9, <1>11
        DEF SpareOK, RequestOK, MayRequest, Collecting, PutLive, PutWaits, PutPcs, DelPcs,
            HeaderWalk

\* The rest of do_gc_one: the sector just formatted is empty.
LEMMA GcFormattedSpare == ASSUME TInv, SpareOK, GcFormatted PROVE SpareOK'
<1> DEFINE l == [local EXCEPT !.gc.i = local.gc.i + 1, !.gc.last = local.gc.sec,
                              !.gc.sec = 0, !.gc.idx = 0]
<1>1. AloneOK /\ local \in Local /\ Settled(pc, local) /\ flash' = flash /\ failing' = failing
  BY SpareNow, SettledLabels DEF GcFormatted, NoCall, medium
<1>2. failing' \/ Empties(flash) # {}
  BY <1>1, SpareNow
<1>3. l \in Local
  <2>1. local.gc \in GcFrame
    BY <1>1, FrameTypes
  <2>2. \A i \in Nat, t \in Sector :
           [local EXCEPT !.gc.i = i, !.gc.last = t, !.gc.sec = 0, !.gc.idx = 0] \in Local
    BY <1>1, <2>1, ZeroSector, ZenonT(30) DEF Local, GcFrame
  <2>3. local.gc.i + 1 \in Nat /\ local.gc.sec \in Sector
    BY <2>1 DEF GcFrame
  <2> QED BY <2>2, <2>3
<1>4. GcReturn(l) \/ pc' = "GcSector"
  BY DEF GcFormatted, Goto
<1> HIDE DEF l
<1> QED BY <1>1, <1>2, <1>3, <1>4, GcReturnSpare, RestSpare
        DEF RestPcs, CalmPcs, Plain, HeaderWalk, MayRequest

\* format_sector is called with its sector and its place of return.
LEMMA FmtCallIs ==
  ASSUME NEW l \in Local, NEW s, NEW r, FmtCall(l, s, r)
  PROVE  /\ pc' = "FmtErase" /\ local'.fmt.ret = r /\ local'.fmt.sec = s
         /\ local'.def = l.def /\ local'.load = l.load
<1> DEFINE x == [sec |-> s, ret |-> r]
           m == [l EXCEPT !.fmt = x]
<1>1. m.fmt = x /\ m.def = l.def /\ m.load = l.load
  BY DEF Local
<1>2. pc' = "FmtErase" /\ local' = m
  BY DEF FmtCall, Goto
<1> HIDE DEF m
<1> QED BY <1>1, <1>2

\* A sector that was collected is formatted.
LEMMA GcEraseSpare == ASSUME TInv, SpareOK, GcErase PROVE SpareOK'
<1>1. FmtCall(local, local.gc.sec, "GcFormatted") /\ flash' = flash /\ gcRequest' = gcRequest
  BY DEF GcErase, NoCall, ram
<1>2. pc' = "FmtErase" /\ local'.fmt.ret = "GcFormatted"
  BY <1>1, SpareNow, FmtCallIs
<1> QED BY <1>1, <1>2, SpareNow, RestSpare
        DEF RestPcs, CalmPcs, Plain, HeaderWalk, MayRequest

----------------------------------------------------------------------------
(* The walks of kv_load, and set_default *)

\* When set_default has formatted the sectors they are empty.
LEMMA DefFormatSpare == ASSUME TInv, SpareOK, DefFormat PROVE SpareOK'
<1> DEFINE l == [local EXCEPT !.def.i = @ + 1]
<1>1. local \in Local /\ local.def \in DefFrame /\ flash' = flash /\ failing' = failing
  BY TInvParts, FrameTypes DEF DefFormat, NoCall, medium
<1>2. gcRequest' = FALSE
  BY SpareNow DEF DefFormat, MayRequest, Collecting, Moving, DelPcs, PutPcs, ram
<1>3. CASE ToFormat(local.def.i)
  <2>1. l \in Local
    BY <1>1 DEF Local, DefFrame
  <2>2. FmtCall(l, local.def.i, "DefFormat")
    BY <1>3 DEF DefFormat
  <2> HIDE DEF l
  <2>3. pc' = "FmtErase" /\ local'.fmt.ret = "DefFormat"
    BY <2>1, <2>2, FmtCallIs
  <2> QED BY <1>1, <1>2, <2>3, SpareNow, RestSpare DEF RestPcs, CalmPcs, Plain, HeaderWalk
<1>4. CASE ~ToFormat(local.def.i)
  <2>1. local.def.i # 0 /\ pc' = "DefKv"
    BY <1>1, <1>4, GeometryType DEF DefFormat, ToFormat, DefFrame, Goto
  <2>2. failing \/ Empties(flash) # {}
    BY <2>1 DEF DefFormat, SpareOK, SpareAhead
  <2> QED BY <1>1, <1>2, <2>1, <2>2, SpareNow, RestSpare
          DEF RestPcs, CalmPcs, Plain, HeaderWalk
<1> QED BY <1>3, <1>4

\* An open finds an empty sector, a marked one, or one that it will format.
LEMMA OpenSpare == ASSUME TInv, SpareOK, NEW strict \in BOOLEAN, Open(strict) PROVE SpareOK'
<1>1. PICK o : o = find_oldest_addr(flash)
  OBVIOUS
<1> DEFINE m == [NoLocal EXCEPT !.job.op = "Open", !.load.from = o, !.load.strict = strict]
<1>2. /\ o \in Sector /\ pc' = "LoadHdr" /\ local' = m /\ gcRequest' = FALSE
      /\ flash' = flash /\ failing' = failing
  BY <1>1, OldestType DEF Open, Goto, NoCall, medium
<1>3. m.load.from = o /\ m.load.i = 0 /\ m.def.i = 0
  BY DEF NoLocal
<1> HIDE DEF m
<1>4. Bad(flash) # {} => BadAhead' # {}
  <2> SUFFICES ASSUME NEW s \in Bad(flash) PROVE BadAhead' # {}
    OBVIOUS
  <2>1. s \in Sector /\ ~flash'[s].ok
    BY <1>2 DEF Bad
  <2>2. PICK i \in Sector : Nth(o, i) = s
    BY <1>2, <2>1, NthOnto
  <2>3. i \in BadAhead'
    BY <1>2, <1>3, <2>1, <2>2 DEF BadAhead, Sector
  <2> QED BY <2>3
<1>5. Empties(flash) # {} \/ Marked(flash) # {} \/ BadAhead' # {}
  BY <1>4 DEF SpareOK, AloneOK, HalfCollected
<1>6. SpareAhead'
  <2>1. (Empties(flash) = {} => Marked(flash) # {} \/ BadAhead # {})'
    BY <1>2, <1>5 DEF Empties, Marked
  <2> QED BY <1>2, <2>1 DEF SpareAhead, Collecting, Moving, Settled, PutWaits, DelPcs, PutPcs
<1>7. Calm(pc', local')
  BY <1>2, CalmLabels DEF CalmPcs, Plain
<1> QED BY <1>2, <1>3, <1>6, <1>7, CalmSpare DEF SpareOK

\* The next sector without a header is formatted.
LEMMA LoadHdrSpare == ASSUME TInv, SpareOK, LoadHdr PROVE SpareOK'
<1> DEFINE i == Least(BadAhead)
           l == [local EXCEPT !.load.i = i + 1, !.load.bad = @ + 1]
           s == Nth(local.load.from, i)
<1>1. local \in Local /\ local.load \in LoadFrame /\ flash' = flash
  BY TInvParts, FrameTypes DEF LoadHdr, NoCall
<1>2. gcRequest' = FALSE
  BY SpareNow DEF LoadHdr, MayRequest, Collecting, Moving, DelPcs, PutPcs, ram
<1>3. i \in Nat
  <2>1. BadAhead \subseteq Nat /\ BadAhead # {}
    BY <1>1, GeometryType DEF LoadHdr, BadAhead, LoadFrame
  <2> QED BY <2>1, LeastExists
<1>4. FmtCall(l, s, "LoadHdr")
  BY DEF LoadHdr
<1> HIDE DEF i, s
<1>5. l \in Local /\ l.def = local.def
  <2> DEFINE x == [local.load EXCEPT !.i = i + 1, !.bad = @ + 1]
  <2>1. x \in LoadFrame
    <3>1. \A a, b \in Nat : [local.load EXCEPT !.i = a, !.bad = b] \in LoadFrame
      BY <1>1 DEF LoadFrame
    <3>2. i + 1 \in Nat /\ local.load.bad + 1 \in Nat
      BY <1>1, <1>3 DEF LoadFrame
    <3> QED BY <3>1, <3>2
  <2>2. l = [local EXCEPT !.load = x]
    BY <1>1 DEF Local, LoadFrame
  <2> HIDE DEF x, l
  <2> QED BY <1>1, <2>1, <2>2 DEF Local
<1> HIDE DEF l
<1>6. pc' = "FmtErase" /\ local'.def = local.def
  BY <1>4, <1>5, FmtCallIs
<1>7. local.def.i = 0
  BY DEF LoadHdr, SpareOK, RequestOK, HeaderWalk
<1> QED BY <1>1, <1>2, <1>6, <1>7, SpareNow, RestSpare DEF RestPcs, CalmPcs, Plain

\* Behind the last header either set_default begins with the first sector, or the walk
\* over the marked sectors with the oldest one.
LEMMA LoadHdrEndSpare == ASSUME TInv, SpareOK, LoadHdrEnd PROVE SpareOK'
<1> DEFINE d == [local EXCEPT !.load = NoLocal.load, !.def.ret = "LoadGc"]
           g == [local EXCEPT !.load = [NoLocal.load EXCEPT !.from = oldest],
                              !.def = NoLocal.def]
<1>1. /\ local \in Local /\ local.def \in DefFrame /\ oldest \in Sector
      /\ flash' = flash /\ failing' = failing
  BY TInvParts, FrameTypes DEF LoadHdrEnd, NoCall, medium, RamOK
<1>2. gcRequest' = FALSE
  BY SpareNow DEF LoadHdrEnd, MayRequest, Collecting, Moving, DelPcs, PutPcs, ram
<1>3. failing \/ Empties(flash) # {} \/ Marked(flash) # {}
  BY DEF LoadHdrEnd, SpareOK, SpareAhead
<1>4. \/ pc' = "DefFormat" /\ local' = d
      \/ pc' = "LoadGc" /\ local' = g
  <2> HIDE DEF d, g
  <2> QED BY DEF LoadHdrEnd, LoadGcCall, Goto, d, g
<1>5. d.def.i = 0
  <2>1. local.def.i = 0
    BY DEF LoadHdrEnd, SpareOK, RequestOK, HeaderWalk
  <2> QED BY <1>1, <2>1 DEF Local, DefFrame
<1>6. g.load.i = 0 /\ g.load.from = oldest
  BY <1>1 DEF Local, NoLocal
<1> HIDE DEF d, g
<1>7. pc' = "LoadGc" /\ Marked(flash) # {} => GcMarkedAhead' # {}
  <2> SUFFICES ASSUME pc' = "LoadGc", NEW s \in Marked(flash) PROVE GcMarkedAhead' # {}
    OBVIOUS
  <2>1. s \in Sector /\ flash'[s].ok /\ flash'[s].dirty = "Gc"
    BY <1>1 DEF Marked
  <2>2. PICK i \in Sector : Nth(oldest, i) = s
    BY <1>1, <2>1, NthOnto
  <2>3. i \in GcMarkedAhead'
    BY <1>4, <1>6, <2>1, <2>2 DEF GcMarkedAhead, GcMarked, Sector
  <2> QED BY <2>3
<1>8. failing' \/ SpareAhead'
  <2>1. pc' \in {"DefFormat", "LoadGc"}
    BY <1>4
  <2>2. failing' \/ (pc = "LoadGc" /\ Empties(flash) = {} => GcMarkedAhead # {})'
    BY <1>1, <1>3, <1>7 DEF Empties
  <2>3. pc' = "DefFormat" => local'.def.i = 0
    BY <1>4, <1>5
  <2> QED BY <2>1, <2>2, <2>3
          DEF SpareAhead, Collecting, Moving, Settled, PutWaits, DelPcs, PutPcs
<1>9. Calm(pc', local') /\ ~HeaderWalk(pc', local') /\ pc' # "GcStart"
  BY <1>4, CalmLabels DEF CalmPcs, Plain, HeaderWalk
<1> QED BY <1>1, <1>2, <1>8, <1>9, SpareNow, CalmSpare

\* A marked sector is collected again; behind the last one there is an empty one.
LEMMA LoadGcSpare == ASSUME TInv, SpareOK, LoadGc PROVE SpareOK'
<1> DEFINE i == Least(GcMarkedAhead)
           l == [local EXCEPT !.load.i = i + 1]
<1>1. local \in Local /\ local.load \in LoadFrame /\ flash' = flash /\ failing' = failing
  BY TInvParts, FrameTypes DEF LoadGc, NoCall, medium
<1>2. CASE GcMarkedAhead # {}
  <2>1. i \in GcMarkedAhead /\ i \in Nat
    <3>1. GcMarkedAhead \subseteq Nat
      BY <1>1, GeometryType DEF GcMarkedAhead, LoadFrame
    <3> QED BY <1>2, <3>1, LeastExists
  <2>2. GcCall(l, N * SecSize, "LoadGc") /\ gcRequest' = TRUE
    BY <1>2 DEF LoadGc
  <2> HIDE DEF i
  <2>3. l \in Local
    BY <1>1, <2>1 DEF Local, LoadFrame
  <2> HIDE DEF l
  <2>4. pc' = "GcStart" /\ local'.gc.i = 0
    BY <2>2, <2>3, GcCallSpare
  <2>5. Nth(local.load.from, i) \in Sector /\ GcMarked(i)
    BY <1>1, <2>1, NthType DEF LoadFrame, GcMarkedAhead
  <2>6. Nth(local.load.from, i) \in Marked(flash)
    BY <2>5 DEF GcMarked, Marked
  <2>7. SpareAhead'
    <3>1. Marked(flash)' # {}
      BY <1>1, <2>6 DEF Marked
    <3> QED BY <2>4, <3>1
            DEF SpareAhead, Collecting, Moving, Settled, PutWaits, DelPcs, PutPcs
  <2>8. Calm(pc', local')
    BY <2>4, CalmLabels DEF CalmPcs, Plain
  <2> QED BY <1>1, <2>4, <2>7, <2>8, SpareNow, CalmSpare DEF MayRequest, HeaderWalk
<1>3. CASE GcMarkedAhead = {}
  <2>1. pc' = "LoadScan" /\ gcRequest' = gcRequest
    BY <1>3 DEF LoadGc, Goto
  <2>2. gcRequest' = FALSE
    BY <2>1, SpareNow DEF LoadGc, MayRequest, Collecting, Moving, DelPcs, PutPcs
  <2>3. failing \/ Empties(flash) # {}
    BY <1>3 DEF LoadGc, SpareOK, SpareAhead
  <2> QED BY <1>1, <2>1, <2>2, <2>3, SpareNow, RestSpare
          DEF RestPcs, CalmPcs, Plain, HeaderWalk
<1> QED BY <1>2, <1>3

----------------------------------------------------------------------------
(* The steps with a node *)

\* The headers of the sectors as far as the spare sector goes.
SameHeaders == Empties(flash') = Empties(flash) /\ HalfCollected(flash') = HalfCollected(flash)

LEMMA HeadersStay ==
  ASSUME \A s \in Sector : /\ flash'[s].ok = flash[s].ok /\ flash'[s].store = flash[s].store
                           /\ flash'[s].dirty = "Gc" <=> flash[s].dirty = "Gc"
  PROVE  SameHeaders
BY DEF SameHeaders, Empties, HalfCollected, Marked, Bad

\* A step within a collection, or one outside of it, that leaves the headers alone.
LEMMA BodySpare ==
  ASSUME TInv, SpareOK, SameHeaders, failing' \/ ~failing,
         IF Collecting(pc', local') THEN Collecting(pc, local) ELSE Settled(pc, local),
         PutWaits(pc', local') /\ ~Collecting(pc', local') =>
            failing' \/ Empties(flash) \ {local'.put.sec} # {},
         PutLive(pc', local') => ~local'.put.full,
         gcRequest' => MayRequest(pc', local'),
         pc' # "GcStart", ~HeaderWalk(pc', local')
  PROVE  SpareOK'
<1>1. AloneOK'
  BY SpareNow DEF SameHeaders, AloneOK
<1>2. failing' \/ SpareAhead'
  <2>1. CASE Collecting(pc', local')
    BY <2>1, SpareNow, CollectAhead DEF SameHeaders
  <2>2. CASE ~Collecting(pc', local')
    BY <2>2, SpareNow, EmptyAhead DEF SameHeaders
  <2> QED BY <2>1, <2>2
<1> QED BY <1>1, <1>2 DEF SpareOK, RequestOK

\* Beside the sector a node waits for there is another empty one.
LEMMA WaitsNow ==
  ASSUME SpareOK, PutWaits(pc, local), ~Collecting(pc, local)
  PROVE  failing \/ Empties(flash) \ {local.put.sec} # {}
BY DEF SpareOK, SpareAhead, Collecting

\* While a node is deleted, moved or written, the session is settled or collects, and it
\* asks for the spare sector only when it collects.
LEMMA BodyLabels ==
  ASSUME NEW label \in DelPcs \cup PutPcs \cup {"MvAlloc", "GcNode"}, NEW l
  PROVE  /\ Settled(label, l) <=> ~Collecting(label, l)
         /\ MayRequest(label, l) <=> Collecting(label, l)
         /\ label \in DelPcs => (Collecting(label, l) <=> l.mv.ret = "GcNode"
                                    /\ l.del.ret \in {"MvAlloc", "MvReturn"})
         /\ label \in PutPcs => (Collecting(label, l) <=> l.mv.ret = "GcNode"
                                    /\ l.put.ret = "MvReturn")
         /\ label = "MvAlloc" => (Collecting(label, l) <=> l.mv.ret = "GcNode")
         /\ label = "GcNode" => Collecting(label, l)
         /\ label # "GcStart" /\ ~HeaderWalk(label, l)
BY DEF Settled, MayRequest, Collecting, Moving, HeaderWalk, DelPcs, PutPcs

\* The labels to which such a step may lead.
LEMMA EndLabels ==
  \A l : \A label \in {"Idle", "SetFind", "SetEnd", "DefKv", "LoadPass", "LoadCollect"} :
     ~Collecting(label, l) /\ label # "GcStart" /\ ~HeaderWalk(label, l)
BY DEF Collecting, Moving, HeaderWalk, DelPcs, PutPcs

\* del_kv is called with its node and its place of return.
LEMMA DelCallIs ==
  ASSUME NEW l \in Local, NEW p, NEW c, NEW r, DelCall(l, p, c, r)
  PROVE  pc' = "DelStatus" /\ local'.del.ret = r /\ local'.put = l.put /\ local'.mv = l.mv
<1> DEFINE x == [ptr |-> p, complete |-> c, ret |-> r]
           m == [l EXCEPT !.del = x]
<1>1. m.del = x /\ m.put = l.put /\ m.mv = l.mv
  BY DEF Local
<1>2. pc' = "DelStatus" /\ local' = m
  BY DEF DelCall, Goto
<1> HIDE DEF m
<1> QED BY <1>1, <1>2

\* A move is over: the walk it belongs to goes on.
LEMMA MvReturnSpare ==
  ASSUME TInv, SpareOK, SameHeaders, failing' \/ ~failing,
         pc \in DelPcs \cup {"MvAlloc"}, pc \in DelPcs => local.del.ret = "MvReturn",
         NEW l, NEW ok, l.mv.ret = local.mv.ret, MvReturn(l, ok),
         gcRequest' => gcRequest \/ pc' = "LoadCollect"
  PROVE  SpareOK'
<1>1. local \in Local /\ local.mv.ret \in {"GcNode", "LoadPass"}
  BY SpareNow, FrameTypes DEF MvFrame
<1>2. CASE l.mv.ret = "GcNode"
  <2>1. pc' = "GcNode"
    BY <1>2 DEF MvReturn, Goto
  <2>2. Collecting(pc, local) /\ Collecting(pc', local')
    BY <1>2, <2>1, BodyLabels
  <2>3. MayRequest(pc', local') /\ ~PutLive(pc', local')
    BY <2>1 DEF MayRequest, Collecting, PutLive, PutWaits, PutPcs, DelPcs
  <2> QED BY <2>1, <2>2, <2>3, BodySpare DEF HeaderWalk
<1>3. CASE l.mv.ret # "GcNode"
  <2>1. pc' \in {"LoadPass", "LoadCollect"}
    BY <1>3 DEF MvReturn, Goto
  <2>2. Settled(pc, local) /\ ~MayRequest(pc, local)
    BY <1>3, BodyLabels
  <2>3. gcRequest' => MayRequest(pc', local')
    BY <2>2, SpareNow DEF MayRequest
  <2>4. ~PutLive(pc', local') /\ ~PutWaits(pc', local')
    BY <2>1 DEF PutLive, PutWaits, PutPcs, DelPcs
  <2> QED BY <2>1, <2>2, <2>3, <2>4, EndLabels, BodySpare
<1> QED BY <1>2, <1>3

\* move_kv is called: the node is marked first, or its copy gets a place.
LEMMA MvCallIs ==
  ASSUME NEW l \in Local, NEW s, NEW j, NEW r, MvCall(l, s, j, r)
  PROVE  /\ local'.mv.ret = r
         /\ pc' = "MvAlloc" \/ (pc' = "DelStatus" /\ local'.del.ret = "MvAlloc")
<1> DEFINE n == flash[s].kvs[j]
           p == [found |-> TRUE, sec |-> s, idx |-> j]
           x == [ptr |-> p, key |-> n.key, val |-> n.val, len |-> n.len,
                 pre |-> n.status = "PreDelete", ok |-> FALSE, ret |-> r]
           m == [l EXCEPT !.mv = x]
           d == [m EXCEPT !.del = [ptr |-> p, complete |-> FALSE, ret |-> "MvAlloc"]]
<1>1. m.mv.ret = r /\ d.mv.ret = r /\ d.del.ret = "MvAlloc"
  BY DEF Local
<1>2. \/ pc' = "DelStatus" /\ local' = d
      \/ pc' = "MvAlloc" /\ local' = m
  BY DEF MvCall, DelCall, Goto
<1> HIDE DEF m, d
<1> QED BY <1>1, <1>2

\* A collection moves the next node of the sector.
LEMMA GcNodeSpare == ASSUME TInv, SpareOK, GcNode PROVE SpareOK'
<1> DEFINE j == Least(GcNodes)
           l == [local EXCEPT !.gc.idx = j]
<1>1. local \in Local /\ pc = "GcNode" /\ flash' = flash /\ failing' = failing
      /\ gcRequest' = gcRequest
  BY TInvParts DEF GcNode, NoCall, medium, ram
<1>2. j \in Nat
  BY GcNodesOK DEF GcNode
<1>3. MvCall(l, local.gc.sec, j, "GcNode")
  BY DEF GcNode
<1> HIDE DEF j
<1>4. l \in Local
  BY <1>1, <1>2 DEF Local, GcFrame
<1> HIDE DEF l
<1>5. /\ local'.mv.ret = "GcNode"
      /\ pc' = "MvAlloc" \/ (pc' = "DelStatus" /\ local'.del.ret = "MvAlloc")
  BY <1>3, <1>4, MvCallIs
<1>6. Collecting(pc', local') /\ Collecting(pc, local) /\ ~PutLive(pc', local')
  BY <1>1, <1>5 DEF Collecting, Moving, DelPcs, PutPcs, PutLive, PutWaits
<1>7. SameHeaders
  BY <1>1 DEF SameHeaders
<1> QED BY <1>1, <1>5, <1>6, <1>7, BodySpare DEF MayRequest, HeaderWalk

\* Recovery moves the next half deleted node.
LEMMA LoadMoveSpare == ASSUME TInv, SpareOK, LoadMove PROVE SpareOK'
<1> DEFINE i == Least(StepsAhead)
           s == Nth(local.load.from, i)
           j == Least(InterruptedIn(i))
           l == [local EXCEPT !.load.i = i, !.load.idx = j]
<1>1. local \in Local /\ pc = "LoadPass" /\ flash' = flash /\ failing' = failing
  BY TInvParts DEF LoadMove, NoCall, medium
<1>2. i \in Nat /\ j \in Nat
  BY StepsOK DEF LoadMove
<1>3. MvCall(l, s, j, "LoadPass")
  BY DEF LoadMove
<1> HIDE DEF i, j, s
<1>4. l \in Local
  <2>1. local.load \in LoadFrame
    BY <1>1, FrameTypes
  <2> QED BY <1>1, <1>2, <2>1 DEF Local, LoadFrame
<1> HIDE DEF l
<1>5. /\ local'.mv.ret = "LoadPass"
      /\ pc' = "MvAlloc" \/ (pc' = "DelStatus" /\ local'.del.ret = "MvAlloc")
  BY <1>3, <1>4, MvCallIs
<1>6. ~Collecting(pc', local') /\ Settled(pc, local) /\ ~MayRequest(pc, local)
      /\ ~PutLive(pc', local') /\ ~PutWaits(pc', local')
  BY <1>1, <1>5, SettledLabels DEF Collecting, Moving, DelPcs, PutPcs, PutLive, PutWaits
<1>7. SameHeaders /\ gcRequest' = FALSE
  BY <1>1, <1>6, SpareNow DEF SameHeaders, LoadMove, ram
<1> QED BY <1>1, <1>5, <1>6, <1>7, BodySpare DEF HeaderWalk

\* del_kv returns to its caller, whose arguments are as it left them.
LEMMA DelReturnSpare ==
  ASSUME TInv, WInv, SpareOK, pc \in DelPcs, NEW ok \in BOOLEAN, DelReturn(ok),
         SameHeaders, failing' \/ ~failing, gcRequest' = gcRequest
  PROVE  SpareOK'
<1> DEFINE l == [local EXCEPT !.del = NoLocal.del]
<1>1. local \in Local /\ l.put = local.put /\ l.mv = local.mv
  BY SpareNow DEF Local
<1>2. \/ local.del.ret = "PutSec" /\ pc' = "PutSec" /\ local' = l
      \/ local.del.ret = "MvAlloc" /\ pc' = "MvAlloc" /\ local' = l
      \/ local.del.ret \in {"PutSec", "SetEnd", "Idle"} /\ pc' \in {"SetEnd", "Idle"}
      \/ local.del.ret = "MvReturn" /\ MvReturn(l, l.mv.ok)
  BY DEF DelReturn, Return, Goto
<1> HIDE DEF l
<1>3. CASE local.del.ret = "PutSec" /\ pc' = "PutSec" /\ local' = l
  <2>1. local.put.ret = "SetEnd"
    BY <1>3 DEF WInv, KeptOK
  <2>2. pc' \in PutPcs /\ ~Collecting(pc', local') /\ ~Collecting(pc, local)
    BY <1>1, <1>3, <2>1, BodyLabels DEF PutPcs
  <2>3. PutWaits(pc, local) /\ PutLive(pc, local)
    BY <1>3 DEF PutWaits, PutLive
  <2>4. ~local'.put.full /\ local'.put.sec = local.put.sec
    BY <1>1, <1>3, <2>3 DEF SpareOK, RequestOK
  <2>5. gcRequest' = FALSE /\ Settled(pc, local)
    BY <2>2, BodyLabels, SpareNow
  <2> QED BY <2>2, <2>3, <2>4, <2>5, WaitsNow, BodyLabels, BodySpare
<1>4. CASE local.del.ret = "MvAlloc" /\ pc' = "MvAlloc" /\ local' = l
  <2>1. Collecting(pc', local') <=> Collecting(pc, local)
    BY <1>1, <1>4, BodyLabels
  <2>2. ~PutLive(pc', local') /\ ~PutWaits(pc', local')
    BY <1>4 DEF PutLive, PutWaits, PutPcs, DelPcs
  <2>3. gcRequest' => MayRequest(pc', local')
    BY <1>4, <2>1, BodyLabels, SpareNow
  <2> QED BY <1>4, <2>1, <2>2, <2>3, BodyLabels, BodySpare
<1>5. CASE local.del.ret \in {"PutSec", "SetEnd", "Idle"} /\ pc' \in {"SetEnd", "Idle"}
  <2>1. ~Collecting(pc, local) /\ Settled(pc, local) /\ gcRequest' = FALSE
    BY <1>5, BodyLabels, SpareNow
  <2>2. ~PutLive(pc', local') /\ ~PutWaits(pc', local')
    BY <1>5 DEF PutLive, PutWaits, PutPcs, DelPcs
  <2> QED BY <1>5, <2>1, <2>2, EndLabels, BodySpare
<1>6. CASE local.del.ret = "MvReturn" /\ MvReturn(l, l.mv.ok)
  BY <1>1, <1>6, MvReturnSpare
<1> QED BY <1>2, <1>3, <1>4, <1>5, <1>6

\* A storage call with an image whose header is that of the sector.
LEMMA ProgramStays ==
  ASSUME FlashOK, NEW s \in Sector, NEW image, NEW ok \in BOOLEAN, Program(s, image, ok),
         image.ok = flash[s].ok, image.store = flash[s].store,
         image.dirty = "Gc" <=> flash[s].dirty = "Gc"
  PROVE  /\ SameHeaders /\ (failing' \/ ~failing)
         /\ ~ok => failing'
<1>1. /\ flash'[s] = (IF ok THEN image ELSE flash[s])
      /\ \A t \in Sector : t # s => flash'[t] = flash[t]
  BY ProgramFlash
<1> QED BY <1>1, HeadersStay DEF Program, Call

\* The status of a node leaves the headers alone, ...
LEMMA DelStatusSpare ==
  ASSUME TInv, WInv, SpareOK, NEW ok \in BOOLEAN, DelStatus(ok)
  PROVE  SpareOK'
<1> DEFINE del == local.del
           s == del.ptr.sec
           status == IF del.complete THEN "Deleted" ELSE "PreDelete"
           node == [flash[s].kvs[del.ptr.idx] EXCEPT !.status = status]
           image == WithNode(s, del.ptr.idx, node)
           m == [local EXCEPT !.job.done = @ \/ del.ret = "Idle"]
<1>1. /\ FlashOK /\ local \in Local /\ s \in Sector /\ flash[s] \in SectorImage
      /\ pc \in DelPcs /\ gcRequest' = gcRequest
  BY TInvParts, FrameTypes DEF DelFrame, Ptr, DelStatus, DelPcs, ram
<1>2. /\ Program(s, image, ok)
      /\ (pc' = "DelDirty" /\ local' = m) \/ DelReturn(FALSE)
  <2> HIDE DEF m
  <2> QED BY DEF DelStatus, Goto, m
<1>3. image.ok = flash[s].ok /\ image.store = flash[s].store /\ image.dirty = flash[s].dirty
  BY <1>1 DEF WithNode, SectorImage
<1>4. m.del = local.del /\ m.put = local.put /\ m.mv = local.mv
  BY <1>1 DEF Local
<1> HIDE DEF image, m
<1>5. SameHeaders /\ (failing' \/ ~failing)
  BY <1>1, <1>2, <1>3, ProgramStays
<1>6. CASE pc' = "DelDirty" /\ local' = m
  <2>1. Collecting(pc', local') <=> Collecting(pc, local)
    BY <1>1, <1>4, <1>6, BodyLabels DEF DelPcs
  <2>2. PutWaits(pc', local') <=> PutWaits(pc, local)
    BY <1>1, <1>4, <1>6 DEF PutWaits, DelPcs
  <2>3. PutLive(pc', local') => PutLive(pc, local)
    BY <1>1, <1>4, <1>6, <2>2 DEF PutLive, DelPcs, PutPcs
  <2>4. PutLive(pc', local') => ~local'.put.full
    BY <1>4, <1>6, <2>3 DEF SpareOK, RequestOK
  <2>5. gcRequest' => MayRequest(pc', local')
    BY <1>1, <1>6, <2>1, BodyLabels, SpareNow DEF DelPcs
  <2> QED BY <1>1, <1>4, <1>5, <1>6, <2>1, <2>2, <2>4, <2>5, BodyLabels, WaitsNow, BodySpare
          DEF DelPcs
<1>7. CASE DelReturn(FALSE)
  BY <1>1, <1>5, <1>7, DelReturnSpare
<1> QED BY <1>2, <1>6, <1>7

\* ... and the mark of its sector is not that of a collection.
LEMMA DelDirtySpare ==
  ASSUME TInv, WInv, SpareOK, NEW ok \in BOOLEAN, DelDirty(ok)
  PROVE  SpareOK'
<1> DEFINE s == local.del.ptr.sec
           image == [flash[s] EXCEPT !.dirty = "True"]
<1>1. /\ FlashOK /\ local \in Local /\ s \in Sector /\ flash[s] \in SectorImage
      /\ pc \in DelPcs /\ gcRequest' = gcRequest /\ DelReturn(ok)
  BY TInvParts, FrameTypes DEF DelFrame, Ptr, DelDirty, DelPcs, ram
<1>2. CASE flash[s].dirty = "False" /\ Program(s, image, ok)
  <2>1. image.ok = flash[s].ok /\ image.store = flash[s].store /\ image.dirty = "True"
    BY <1>1 DEF SectorImage
  <2>2. SameHeaders /\ (failing' \/ ~failing)
    <3>1. Program(s, image, ok)
      BY <1>2
    <3> HIDE DEF image
    <3> QED BY <1>1, <1>2, <2>1, <3>1, ProgramStays
  <2> QED BY <1>1, <2>2, DelReturnSpare
<1>3. CASE NoCall
  <2>1. SameHeaders /\ (failing' \/ ~failing)
    BY <1>3 DEF NoCall, medium, SameHeaders
  <2> QED BY <1>1, <2>1, DelReturnSpare
<1> QED BY <1>2, <1>3 DEF DelDirty, Unmarked

\* Nor does the mark of a damaged node matter.
LEMMA LoadErrHdrSpare == ASSUME TInv, SpareOK, NEW ok \in BOOLEAN, LoadErrHdr(ok) PROVE SpareOK'
<1> DEFINE i == Least(StepsAhead)
           s == Nth(local.load.from, i)
           j == Least(InterruptedIn(i))
           image == WithNode(s, j, [flash[s].kvs[j] EXCEPT !.status = "ErrHdr"])
<1>1. FlashOK /\ s \in Sector /\ flash[s] \in SectorImage
  <2>1. s \in Sector
    BY StepsOK DEF LoadErrHdr
  <2> HIDE DEF s
  <2> QED BY <2>1, TInvParts
<1>2. /\ Program(s, image, ok) /\ pc = "LoadPass" /\ pc' = "LoadCollect"
      /\ gcRequest' = gcRequest
  BY DEF LoadErrHdr, Goto, ram
<1> HIDE DEF s, j
<1>3. image.ok = flash[s].ok /\ image.store = flash[s].store /\ image.dirty = flash[s].dirty
  BY <1>1 DEF WithNode, SectorImage
<1> HIDE DEF image
<1>4. SameHeaders /\ (failing' \/ ~failing)
  BY <1>1, <1>2, <1>3, ProgramStays
<1>5. Settled(pc, local) /\ ~PutLive(pc', local') /\ ~PutWaits(pc', local')
  BY <1>2, SettledLabels DEF PutLive, PutWaits, PutPcs, DelPcs
<1> QED BY <1>2, <1>4, <1>5, EndLabels, BodySpare DEF MayRequest

\* del looks for its node.
LEMMA DelSpare == ASSUME TInv, SpareOK, NEW k \in Keys, Del(k) PROVE SpareOK'
<1> DEFINE f == find_kv(flash, oldest, k)
           m == [local EXCEPT !.job = [NoLocal.job EXCEPT !.op = "Del", !.key = k]]
<1>1. local \in Local /\ pc = "Idle" /\ flash' = flash /\ failing' = failing
  BY SpareNow DEF Del, NoCall, medium
<1>2. DelCall(m, f, TRUE, "Idle") \/ Return("KvNameErr")
  BY DEF Del
<1>3. m \in Local
  BY <1>1, NoLocalType DEF Local, Job
<1> HIDE DEF m, f
<1>4. Settled(pc, local) /\ SameHeaders /\ gcRequest' = FALSE
  BY <1>1, SettledLabels, SpareNow DEF SameHeaders, Del, ram
<1>5. pc' = "Idle" \/ (pc' = "DelStatus" /\ local'.del.ret = "Idle")
  BY <1>2, <1>3, DelCallIs DEF Return, Goto
<1>6. /\ ~Collecting(pc', local') /\ ~PutLive(pc', local') /\ ~PutWaits(pc', local')
      /\ pc' # "GcStart" /\ ~HeaderWalk(pc', local')
  BY <1>5 DEF Collecting, Moving, PutLive, PutWaits, HeaderWalk, DelPcs, PutPcs
<1> QED BY <1>1, <1>4, <1>6, BodySpare

\* set holds on to the place found for its node while it looks for the old one.
LEMMA SetFindSpare == ASSUME TInv, WInv, SpareOK, SetFind PROVE SpareOK'
<1>1. PICK f : f = find_kv(flash, oldest, local.job.key)
  OBVIOUS
<1> DEFINE m == [local EXCEPT !.job.old = f]
<1>2. local \in Local /\ pc = "SetFind" /\ flash' = flash /\ failing' = failing
  BY SpareNow DEF SetFind, NoCall, medium
<1>3. m.put = local.put /\ m.mv = local.mv /\ m \in Local
  <2>1. f \in Ptr
    BY <1>1, TInvParts, FindType DEF FlashOK, RamOK, Ptr
  <2> QED BY <1>2, <2>1 DEF Local, Job
<1>4. \/ DelCall(m, f, FALSE, "PutSec")
      \/ pc' = "SetEnd"
      \/ pc' = "PutSec" /\ local' = m
  <2> HIDE DEF m
  <2> QED BY <1>1 DEF SetFind, Goto, m
<1> HIDE DEF m
<1>5. /\ Settled(pc, local) /\ SameHeaders /\ gcRequest' = FALSE
      /\ ~Collecting(pc, local) /\ PutWaits(pc, local) /\ PutLive(pc, local)
  BY <1>2, SettledLabels, EndLabels, SpareNow
     DEF SameHeaders, SetFind, ram, PutWaits, PutLive
<1>6. ~local.put.full /\ local.put.ret = "SetEnd"
  BY <1>2, <1>5 DEF SpareOK, RequestOK, WInv, KeptOK
<1>7. \/ pc' = "SetEnd"
      \/ /\ local'.put = local.put
         /\ pc' = "PutSec" \/ (pc' = "DelStatus" /\ local'.del.ret = "PutSec")
  BY <1>3, <1>4, DelCallIs
<1>8. CASE pc' = "SetEnd"
  <2>1. ~PutLive(pc', local') /\ ~PutWaits(pc', local')
    BY <1>8 DEF PutLive, PutWaits, DelPcs, PutPcs
  <2> QED BY <1>2, <1>5, <1>8, <2>1, EndLabels, BodySpare
<1>9. CASE /\ local'.put = local.put
           /\ pc' = "PutSec" \/ (pc' = "DelStatus" /\ local'.del.ret = "PutSec")
  <2>1. /\ ~Collecting(pc', local') /\ pc' # "GcStart" /\ ~HeaderWalk(pc', local')
    BY <1>6, <1>9 DEF Collecting, Moving, HeaderWalk, DelPcs, PutPcs
  <2> QED BY <1>2, <1>5, <1>6, <1>9, <2>1, WaitsNow, BodySpare
<1> QED BY <1>7, <1>8, <1>9

----------------------------------------------------------------------------
(* The allocation *)

\* alloc_kv does not take the last empty sector when it is not asked for.
LEMMA AllocSpare ==
  ASSUME NEW img \in Flash, NEW b \in Sector, NEW req \in BOOLEAN, NEW len,
         alloc_kv(img, b, req, len).found
  PROVE  LET a == alloc_kv(img, b, req, len)
         IN  /\ a.gcReq = req
             /\ ~req /\ Empties(img) # {} => Empties(img) \ {a.sec} # {}
<1> DEFINE using == {s \in Sector : HasRoom(img[s], "Using", len, req)}
           empty == {s \in Sector : HasRoom(img[s], "Empty", len, req)}
           spare == MayTakeEmpty(img, req)
           from  == IF using # {} THEN using
                    ELSE IF Empties(img) # {} /\ spare THEN empty ELSE {}
           a == alloc_kv(img, b, req, len)
<1>1. /\ a.found = (from # {})
      /\ a.sec = IF from # {} THEN FirstMet(b, from) ELSE 0
      /\ a.gcReq = (req \/ (using = {} /\ Empties(img) # {} /\ ~spare))
  BY DEF alloc_kv
<1>2. using \subseteq Sector /\ \A s \in using : s \notin Empties(img)
  BY DEF HasRoom, Empties
<1>3. ~req /\ spare => Cardinality(Empties(img)) > GC_EMPTY_SEC_THRESHOLD
  BY DEF MayTakeEmpty
<1> HIDE DEF a, using, empty, spare
<1>4. from # {} /\ a.gcReq = req
  <2>1. from # {}
    BY <1>1 DEF a
  <2> QED BY <1>1, <2>1
<1>5. ASSUME ~req, Empties(img) # {}
      PROVE  Empties(img) \ {a.sec} # {}
  <2>1. CASE using # {}
    <3>1. a.sec \in using
      BY <1>1, <1>2, <1>4, <2>1, FirstMetIn
    <3> QED BY <1>2, <1>5, <3>1
  <2>2. CASE using = {}
    <3>1. Cardinality(Empties(img)) > GC_EMPTY_SEC_THRESHOLD
      BY <1>3, <1>4, <1>5, <2>2
    <3>2. SUFFICES ASSUME Empties(img) \subseteq {a.sec} PROVE FALSE
      OBVIOUS
    <3>3. /\ IsFiniteSet({a.sec}) /\ Cardinality({a.sec}) = 1
          /\ Cardinality(Empties(img)) <= Cardinality({a.sec}) /\ IsFiniteSet(Empties(img))
      BY <3>2, FS_Singleton, FS_Subset
    <3>4. Cardinality(Empties(img)) \in Nat
      BY <3>3, FS_CardinalityType
    <3> QED BY <3>1, <3>3, <3>4 DEF GC_EMPTY_SEC_THRESHOLD
  <2> QED BY <2>1, <2>2
<1> QED BY <1>4, <1>5 DEF a

\* new_kv gets a sector beside which another one is empty, or collects.
LEMMA NewKvSpare == ASSUME TInv, SpareOK, NewKv PROVE SpareOK'
<1>1. PICK a : a = alloc_kv(flash, oldest, gcRequest, NewKvLen)
  OBVIOUS
<1> DEFINE put == [sec |-> a.sec, addr |-> empty_kv(flash[a.sec]), key |-> local.new.key,
                   val |-> local.new.val, full |-> FALSE,
                   ret |-> IF local.new.ret = "SetFind" THEN "SetEnd" ELSE "DefKv"]
           m == [local EXCEPT !.put = put]
<1>2. /\ pc = "NewKv" /\ local \in Local /\ flash \in Flash /\ oldest \in Sector
      /\ flash' = flash /\ failing' = failing
  BY TInvParts DEF NewKv, NoCall, medium, FlashOK, RamOK
<1>3. Settled(pc, local) /\ gcRequest = FALSE /\ (failing \/ Empties(flash) # {}) /\ AloneOK
  BY <1>2, SettledLabels, SpareNow
<1>4. CASE a.found
  <2>1. pc' \in {"SetFind", "PutSec"} /\ local' = m /\ gcRequest' = a.gcReq
    <3> HIDE DEF m
    <3> QED BY <1>1, <1>4 DEF NewKv, NewKvFound, Goto, m
  <2>2. a.gcReq = FALSE /\ (failing \/ Empties(flash) \ {a.sec} # {})
    BY <1>1, <1>2, <1>3, <1>4, AllocSpare
  <2>3. local'.put = put
    BY <1>2, <2>1 DEF Local
  <2>4. local'.put.sec = a.sec /\ ~local'.put.full /\ local'.put.ret # "MvReturn"
    BY <2>3
  <2>5. /\ ~Collecting(pc', local') /\ pc' # "GcStart" /\ ~HeaderWalk(pc', local')
    BY <2>1, <2>4 DEF Collecting, Moving, HeaderWalk, DelPcs, PutPcs
  <2>6. SameHeaders
    BY <1>2 DEF SameHeaders
  <2> QED BY <1>2, <1>3, <2>1, <2>2, <2>4, <2>5, <2>6, BodySpare
<1>5. CASE ~a.found
  <2> DEFINE l == [local EXCEPT !.new.tried = TRUE]
  <2>1. \/ GcCall(l, NewKvLen, "NewKv")
        \/ pc' \in {"Idle", "DefKv"} /\ gcRequest' = FALSE
    <3> HIDE DEF l
    <3> QED BY <1>1, <1>5 DEF NewKv, NewKvFailed, Return, Goto, l
  <2>2. CASE GcCall(l, NewKvLen, "NewKv")
    <3>1. l \in Local
      <4>1. local.new \in NewFrame
        BY <1>2, FrameTypes
      <4> QED BY <1>2, <4>1 DEF Local, NewFrame
    <3> HIDE DEF l
    <3>2. pc' = "GcStart" /\ local'.gc.i = 0
      BY <2>2, <3>1, GcCallSpare
    <3> QED BY <1>2, <1>3, <3>2, RestSpare DEF RestPcs, CalmPcs, Plain, HeaderWalk, MayRequest
  <2>3. CASE pc' \in {"Idle", "DefKv"} /\ gcRequest' = FALSE
    BY <1>2, <1>3, <2>3, RestSpare DEF RestPcs, CalmPcs, Plain, HeaderWalk
  <2> QED BY <2>1, <2>2, <2>3
<1> QED BY <1>2, <1>4, <1>5, TInvParts, AllocFound

\* move_kv takes the last empty sector only in a collection.
LEMMA MvAllocSpare == ASSUME TInv, SpareOK, MvAlloc PROVE SpareOK'
<1> DEFINE mv == local.mv
<1>1. PICK a : a = alloc_kv(flash, oldest, gcRequest, mv.len)
  OBVIOUS
<1> DEFINE put == [sec |-> a.sec, addr |-> empty_kv(flash[a.sec]), key |-> mv.key,
                   val |-> mv.val, full |-> FALSE, ret |-> "MvReturn"]
           m == [local EXCEPT !.mv.ok = TRUE]
           n == [local EXCEPT !.put = put]
<1>2. /\ pc = "MvAlloc" /\ local \in Local /\ flash \in Flash /\ oldest \in Sector
      /\ flash' = flash /\ failing' = failing /\ gcRequest \in BOOLEAN /\ mv \in MvFrame
  BY TInvParts, FrameTypes DEF MvAlloc, NoCall, medium, FlashOK, RamOK
<1>3. SameHeaders
  BY <1>2 DEF SameHeaders
<1>4. gcRequest' = a.gcReq
      /\ \/ ~a.found /\ MvReturn(local, FALSE)
         \/ a.found /\ DelCall(m, mv.ptr, TRUE, "MvReturn")
         \/ a.found /\ pc' = "PutSec" /\ local' = n
  <2> HIDE DEF m, n
  <2> QED BY <1>1 DEF MvAlloc, Goto, m, n
<1>5. a.found => a.gcReq = gcRequest /\ (~gcRequest /\ Empties(flash) # {}
                                            => Empties(flash) \ {a.sec} # {})
  BY <1>1, <1>2, AllocSpare
<1>6. m \in Local /\ m.mv.ret = mv.ret /\ n.mv = local.mv /\ n.put = put
  BY <1>2 DEF Local, MvFrame
<1> HIDE DEF m, n
<1>7. CASE ~a.found /\ MvReturn(local, FALSE)
  <2>1. gcRequest' => gcRequest \/ pc' = "LoadCollect" \/ Collecting(pc, local)
    <3>1. mv.ret # "GcNode" => pc' = "LoadCollect"
      BY <1>7 DEF MvReturn, Goto
    <3> QED BY <1>2, <3>1, BodyLabels
  <2>2. CASE mv.ret = "GcNode"
    <3>1. pc' = "GcNode"
      BY <1>7, <2>2 DEF MvReturn, Goto
    <3>2. Collecting(pc, local) /\ Collecting(pc', local') /\ MayRequest(pc', local')
          /\ ~PutLive(pc', local') /\ ~HeaderWalk(pc', local')
      BY <1>2, <2>2, <3>1, BodyLabels DEF PutLive, PutWaits, PutPcs, DelPcs
    <3> QED BY <1>2, <1>3, <3>1, <3>2, BodySpare
  <2>3. CASE mv.ret # "GcNode"
    <3>1. gcRequest' => gcRequest \/ pc' = "LoadCollect"
      BY <1>2, <2>1, <2>3, BodyLabels
    <3> QED BY <1>2, <1>3, <1>7, <3>1, MvReturnSpare DEF DelPcs
  <2> QED BY <2>2, <2>3
<1>8. CASE a.found /\ DelCall(m, mv.ptr, TRUE, "MvReturn")
  <2>1. pc' = "DelStatus" /\ local'.del.ret = "MvReturn" /\ local'.mv = m.mv
    BY <1>6, <1>8, DelCallIs
  <2>2. Collecting(pc', local') <=> Collecting(pc, local)
    BY <1>2, <1>6, <2>1, BodyLabels DEF DelPcs
  <2>3. ~PutLive(pc', local') /\ ~PutWaits(pc', local')
    BY <2>1 DEF PutLive, PutWaits, PutPcs, DelPcs
  <2>4. gcRequest' => MayRequest(pc', local')
    BY <1>2, <1>4, <1>5, <1>8, <2>1, <2>2, BodyLabels, SpareNow DEF DelPcs
  <2> QED BY <1>2, <1>3, <2>1, <2>2, <2>3, <2>4, BodyLabels, BodySpare DEF DelPcs
<1>9. CASE a.found /\ pc' = "PutSec" /\ local' = n
  <2>1. local'.put.sec = a.sec /\ ~local'.put.full /\ local'.put.ret = "MvReturn"
    BY <1>6, <1>9
  <2>2. Collecting(pc', local') <=> Collecting(pc, local)
    BY <1>2, <1>6, <1>9, <2>1, BodyLabels DEF PutPcs
  <2>3. gcRequest' => MayRequest(pc', local')
    BY <1>2, <1>4, <1>5, <1>9, <2>2, BodyLabels, SpareNow DEF PutPcs
  <2>4. ~Collecting(pc, local) => failing \/ Empties(flash) \ {local'.put.sec} # {}
    BY <1>2, <1>5, <1>9, <2>1, BodyLabels, SpareNow
  <2> QED BY <1>2, <1>3, <1>9, <2>1, <2>2, <2>3, <2>4, BodyLabels, BodySpare DEF PutPcs
<1> QED BY <1>4, <1>7, <1>8, <1>9

----------------------------------------------------------------------------
(* The writes of a node *)

\* The writes are over: nobody asks for the spare sector because of them.
LEMMA PutReturnSpare ==
  ASSUME TInv, SpareOK, pc \in PutPcs, NEW ok \in BOOLEAN, PutReturn(ok),
         SameHeaders, failing' \/ ~failing
  PROVE  SpareOK'
<1> DEFINE l == [local EXCEPT !.put = NoLocal.put]
           done == [l EXCEPT !.job.done = ok]
           ml == [l EXCEPT !.mv.ok = ok]
           old == l.job.old
           from == l.mv.ptr
<1>1. local \in Local /\ gcRequest \in BOOLEAN /\ local.put.full = FALSE
  <2>1. local.put \in PutFrame /\ PutLive(pc, local)
    BY TInvParts, FrameTypes DEF PutLive
  <2> QED BY <2>1, SpareNow DEF SpareOK, RequestOK, PutFrame
<1>2. gcRequest' = gcRequest
      /\ \/ local.put.ret = "SetEnd" /\ DelCall(done, old, TRUE, "SetEnd")
         \/ local.put.ret \in {"SetEnd", "DefKv"} /\ pc' \in {"SetEnd", "DefKv"}
         \/ local.put.ret = "MvReturn" /\ DelCall(ml, from, TRUE, "MvReturn")
  <2> HIDE DEF done, ml
  <2> QED BY <1>1 DEF PutReturn, Goto, done, ml
<1>3. done \in Local /\ ml \in Local /\ ml.mv.ret = local.mv.ret
  <2>1. NoLocal.put \in PutFrame
    BY NoLocalType, FrameTypes
  <2>2. l \in Local /\ l.mv = local.mv
    BY <1>1, <2>1 DEF Local
  <2> HIDE DEF l
  <2> QED BY <2>2 DEF Local, Job, MvFrame
<1> HIDE DEF done, ml, l
<1>4. CASE local.put.ret # "MvReturn"
  <2>1. ~Collecting(pc, local) /\ Settled(pc, local) /\ gcRequest' = FALSE
    BY <1>2, <1>4, BodyLabels, SpareNow
  <2>2. pc' \in {"SetEnd", "DefKv"} \/ (pc' = "DelStatus" /\ local'.del.ret = "SetEnd")
    BY <1>2, <1>3, <1>4, DelCallIs
  <2>3. /\ ~Collecting(pc', local') /\ pc' # "GcStart" /\ ~HeaderWalk(pc', local')
        /\ ~PutLive(pc', local') /\ ~PutWaits(pc', local')
    BY <2>2 DEF Collecting, Moving, HeaderWalk, PutLive, PutWaits, DelPcs, PutPcs
  <2> QED BY <2>1, <2>3, BodySpare
<1>5. CASE local.put.ret = "MvReturn"
  <2>1. pc' = "DelStatus" /\ local'.del.ret = "MvReturn" /\ local'.mv = ml.mv
    BY <1>2, <1>3, <1>5, DelCallIs
  <2>2. Collecting(pc', local') <=> Collecting(pc, local)
    BY <1>3, <1>5, <2>1, BodyLabels DEF DelPcs
  <2>3. gcRequest' => MayRequest(pc', local')
    BY <1>2, <2>1, <2>2, BodyLabels, SpareNow DEF DelPcs
  <2>4. ~PutLive(pc', local') /\ ~PutWaits(pc', local')
    BY <2>1 DEF PutLive, PutWaits, PutPcs, DelPcs
  <2> QED BY <2>1, <2>2, <2>3, <2>4, BodyLabels, BodySpare DEF DelPcs
<1> QED BY <1>4, <1>5

\* The next write of the same node.
LEMMA PutNextSpare ==
  ASSUME TInv, SpareOK, pc \in PutPcs, pc' \in PutPcs \ {"PutSec"},
         local'.put.ret = local.put.ret, local'.mv = local.mv, local'.put.full = FALSE,
         gcRequest' = gcRequest, SameHeaders, failing' \/ ~failing
  PROVE  SpareOK'
<1>1. Collecting(pc', local') <=> Collecting(pc, local)
  BY BodyLabels
<1>2. ~PutWaits(pc', local')
  BY DEF PutWaits, PutPcs, DelPcs
<1>3. gcRequest' => MayRequest(pc', local')
  BY <1>1, BodyLabels, SpareNow
<1> QED BY <1>1, <1>2, <1>3, BodyLabels, BodySpare

\* The node's own frame while it is written.
LEMMA PutNow ==
  ASSUME TInv, SpareOK, pc \in PutPcs
  PROVE  /\ FlashOK /\ local \in Local /\ local.put \in PutFrame /\ local.put.sec \in Sector
         /\ flash[local.put.sec] \in SectorImage /\ local.put.full = FALSE
<1>1. /\ FlashOK /\ local \in Local /\ local.put \in PutFrame /\ local.put.sec \in Sector
      /\ flash[local.put.sec] \in SectorImage
  BY TInvParts, FrameTypes DEF PutFrame
<1> QED BY <1>1 DEF SpareOK, RequestOK, PutLive, PutFrame

\* A node that is put into an empty sector leaves another empty one, or the sector that
\* is collected, behind.
LEMMA PutSecSpare == ASSUME TInv, LInv, SpareOK, NEW ok \in BOOLEAN, PutSec(ok) PROVE SpareOK'
<1> DEFINE s == local.put.sec
           sec == flash[s]
           image == [sec EXCEPT !.store = "Using"]
           m == [local EXCEPT !.put.full = FALSE]
<1>1. pc = "PutSec" /\ pc \in PutPcs /\ sec.ok
  BY PutSecIs DEF PutPcs
<1>2. /\ FlashOK /\ local \in Local /\ local.put \in PutFrame /\ s \in Sector
      /\ sec \in SectorImage /\ local.put.full = FALSE
  BY <1>1, PutNow
<1>3. \/ /\ sec.store = "Empty" /\ Program(s, image, ok)
         /\ \/ pc' = "PutStatus" /\ local' = m /\ gcRequest' = gcRequest
            \/ PutReturn(FALSE)
      \/ NoCall /\ pc' = "PutStatus" /\ local' = local /\ gcRequest' = gcRequest
  BY PutSecIs
<1>4. m.put.ret = local.put.ret /\ m.mv = local.mv /\ m.put.full = FALSE /\ m.put.sec = s
  BY <1>2 DEF Local, PutFrame
<1> HIDE DEF m
<1>5. CASE NoCall /\ pc' = "PutStatus" /\ local' = local /\ gcRequest' = gcRequest
  <2>1. SameHeaders /\ failing' = failing
    BY <1>5 DEF NoCall, medium, SameHeaders
  <2>2. pc' \in PutPcs \ {"PutSec"}
    BY <1>5 DEF PutPcs
  <2> QED BY <1>1, <1>2, <1>5, <2>1, <2>2, PutNextSpare
<1>6. CASE /\ sec.store = "Empty" /\ Program(s, image, ok)
           /\ \/ pc' = "PutStatus" /\ local' = m /\ gcRequest' = gcRequest
              \/ PutReturn(FALSE)
  <2>1. image.ok = sec.ok /\ image.store = "Using" /\ image.dirty = sec.dirty
    BY <1>2 DEF SectorImage
  <2>2. Program(s, image, ok)
    BY <1>6
  <2> HIDE DEF image
  <2>3. /\ flash'[s] = (IF ok THEN image ELSE sec)
        /\ \A t \in Sector : t # s => flash'[t] = flash[t]
    BY <1>2, <2>2, ProgramFlash
  <2>4. CASE ~ok
    <3>1. SameHeaders /\ failing'
      BY <2>2, <2>3, <2>4, HeadersStay DEF Program, Call
    <3>2. CASE PutReturn(FALSE)
      BY <1>1, <3>1, <3>2, PutReturnSpare
    <3>3. CASE pc' = "PutStatus" /\ local' = m /\ gcRequest' = gcRequest
      <4>1. pc' \in PutPcs \ {"PutSec"}
        BY <3>3 DEF PutPcs
      <4> QED BY <1>1, <1>4, <3>1, <3>3, <4>1, PutNextSpare
    <3> QED BY <1>6, <3>2, <3>3
  <2>5. CASE ok
    <3>1. pc' = "PutStatus" /\ local' = m /\ gcRequest' = gcRequest /\ ~failing
      <4>1. ok = TRUE
        BY <2>5
      <4> QED BY <1>1, <1>6, <2>2, <4>1 DEF PutSec, PutNext, Goto, Program, Call, m
    <3>2. /\ Empties(flash') = Empties(flash) \ {s}
          /\ HalfCollected(flash') = HalfCollected(flash)
      BY <1>2, <2>1, <2>3, <2>5 DEF Empties, HalfCollected, Marked, Bad
    <3>3. Collecting(pc', local') <=> Collecting(pc, local)
      BY <1>1, <1>4, <3>1, BodyLabels DEF PutPcs
    <3>4. gcRequest' => MayRequest(pc', local')
      BY <1>1, <3>1, <3>3, BodyLabels, SpareNow DEF PutPcs
    <3>5. SpareAhead' /\ AloneOK'
      <4>1. CASE Collecting(pc, local)
        <5>1. HalfCollected(flash') # {}
          BY <3>1, <3>2, <4>1, SpareNow
        <5> QED BY <3>3, <4>1, <5>1, CollectAhead DEF AloneOK
      <4>2. CASE ~Collecting(pc, local)
        <5>1. Empties(flash') # {}
          BY <1>1, <3>1, <3>2, <4>2, WaitsNow DEF PutWaits
        <5>2. ~PutWaits(pc', local')
          BY <3>1 DEF PutWaits, DelPcs
        <5> QED BY <3>3, <4>2, <5>1, <5>2, EmptyAhead DEF AloneOK
      <4> QED BY <4>1, <4>2
    <3> QED BY <1>4, <3>1, <3>4, <3>5 DEF SpareOK, RequestOK, HeaderWalk
  <2> QED BY <2>4, <2>5
<1> QED BY <1>3, <1>5, <1>6

\* The writes to the node do not touch the header of its sector.
LEMMA PutWriteSpare ==
  ASSUME TInv, SpareOK, NEW ok \in BOOLEAN,
         PutStatus(ok) \/ PutHdr(ok) \/ PutBody(ok) \/ PutCommit(ok)
  PROVE  SpareOK'
<1> DEFINE s == local.put.sec
<1>1. pc \in PutPcs
  BY DEF PutStatus, PutHdr, PutBody, PutCommit, PutPcs
<1>2. /\ FlashOK /\ local \in Local /\ s \in Sector
      /\ flash[s] \in SectorImage /\ local.put.full = FALSE
  BY <1>1, PutNow
<1>3. ASSUME NEW kvs, Program(s, [flash[s] EXCEPT !.kvs = kvs], ok)
      PROVE  SameHeaders /\ (failing' \/ ~failing)
  <2> DEFINE image == [flash[s] EXCEPT !.kvs = kvs]
  <2>1. image.ok = flash[s].ok /\ image.store = flash[s].store /\ image.dirty = flash[s].dirty
    BY <1>2 DEF SectorImage
  <2>2. Program(s, image, ok)
    BY <1>3
  <2> HIDE DEF image
  <2> QED BY <1>2, <2>1, <2>2, ProgramStays
<1>4. ASSUME NEW node, PutNode(node, ok)
      PROVE  SameHeaders /\ (failing' \/ ~failing)
  <2>1. Program(s, [flash[s] EXCEPT !.kvs = [flash[s].kvs EXCEPT ![Len(flash[s].kvs)] = node]], ok)
    BY <1>2, <1>4 DEF PutNode, WithNode, SectorImage
  <2> QED BY <1>3, <2>1
<1>5. SameHeaders /\ (failing' \/ ~failing)
  <2>1. CASE PutStatus(ok)
    <3> DEFINE len == IF local.put.addr = SECTOR_HDR_DATA_SIZE THEN KV_HDR_DATA_SIZE ELSE 1
               node == [addr |-> local.put.addr, len |-> len, status |-> "ErrHdr",
                        crc |-> FALSE, key |-> None, val |-> None]
               kvs == Append(flash[s].kvs, node)
    <3>1. Program(s, [flash[s] EXCEPT !.kvs = kvs], ok)
      BY <2>1 DEF PutStatus
    <3> HIDE DEF kvs
    <3> QED BY <1>3, <3>1
  <2>2. CASE PutHdr(ok)
    BY <1>4, <2>2 DEF PutHdr
  <2>3. CASE PutBody(ok)
    BY <1>4, <2>3 DEF PutBody
  <2>4. CASE PutCommit(ok)
    BY <1>4, <2>4 DEF PutCommit
  <2> QED BY <2>1, <2>2, <2>3, <2>4
<1>6. \/ PutReturn(FALSE) \/ PutReturn(ok)
      \/ /\ pc' \in PutPcs \ {"PutSec"} /\ local' = local /\ gcRequest' = gcRequest
  BY DEF PutStatus, PutHdr, PutBody, PutCommit, PutNext, Goto, PutPcs
<1> QED BY <1>1, <1>2, <1>5, <1>6, PutReturnSpare, PutNextSpare

----------------------------------------------------------------------------
(* format_sector *)

\* It returns to its caller with an empty sector, or the medium has failed.
LEMMA FmtReturnSpare ==
  ASSUME TInv, SpareOK, pc \in {"FmtErase", "FmtHdr"}, NEW ok \in BOOLEAN, FmtReturn(ok),
         gcRequest' = gcRequest, AloneOK', failing' \/ Empties(flash') # {}
  PROVE  SpareOK'
<1> DEFINE l == [local EXCEPT !.fmt = NoLocal.fmt]
<1>1. local \in Local /\ l.def = local.def
  BY SpareNow DEF Local
<1>2. local.fmt.ret \in {"GcFormatted", "LoadHdr", "DefFormat"}
  BY <1>1, FrameTypes DEF FmtFrame
<1>3. \/ pc' = local.fmt.ret /\ local' = l
      \/ local.fmt.ret = "DefFormat" /\ pc' \in {"DefFormat", "Idle", "LoadGc"}
  BY DEF FmtReturn, Return, LoadGcCall, Goto
<1> HIDE DEF l
<1>4. pc' \in {"GcFormatted", "LoadHdr", "DefFormat", "Idle", "LoadGc"}
  BY <1>2, <1>3
<1>5. ~Collecting(pc', local') /\ ~PutWaits(pc', local') /\ ~PutLive(pc', local')
      /\ pc' # "GcStart" /\ (HeaderWalk(pc', local') => pc' = "LoadHdr")
  BY <1>4 DEF Collecting, Moving, PutWaits, PutLive, HeaderWalk, DelPcs, PutPcs
<1>6. gcRequest' => MayRequest(pc', local')
  <2>1. gcRequest => local.fmt.ret = "GcFormatted"
    BY DEF SpareOK, RequestOK, MayRequest, Collecting, Moving, DelPcs, PutPcs
  <2> QED BY <1>3, <2>1 DEF MayRequest
<1>7. HeaderWalk(pc', local') => local'.def.i = 0
  <2>1. pc' = "LoadHdr" => local.fmt.ret = "LoadHdr" /\ local' = l
    BY <1>3
  <2>2. local.fmt.ret = "LoadHdr" => local.def.i = 0
    BY DEF SpareOK, RequestOK, HeaderWalk
  <2> QED BY <1>1, <1>5, <2>1, <2>2
<1>8. failing' \/ SpareAhead'
  BY <1>5, EmptyAhead
<1> QED BY <1>5, <1>6, <1>7, <1>8 DEF SpareOK, RequestOK

\* An erased sector has no header, one with its header is empty.
LEMMA FmtSpare ==
  ASSUME TInv, SpareOK, NEW ok \in BOOLEAN, FmtErase(ok) \/ FmtHdr(ok)
  PROVE  SpareOK'
<1> DEFINE s == local.fmt.sec
<1>1. FlashOK /\ s \in Sector /\ AloneOK /\ pc \in {"FmtErase", "FmtHdr"} /\ gcRequest' = gcRequest
  BY TInvParts, FrameTypes, SpareNow DEF FmtFrame, FmtErase, FmtHdr, ram
<1>2. PICK image \in {Erased, Formatted} : Program(s, image, ok)
                                           /\ (image = Erased <=> pc = "FmtErase")
  BY DEF FmtErase, FmtHdr, Erased, Formatted
<1>3. /\ flash'[s] = (IF ok THEN image ELSE flash[s])
      /\ \A t \in Sector : t # s => flash'[t] = flash[t]
  BY <1>1, <1>2, ProgramFlash
<1>4. ~Erased.ok /\ Formatted.ok /\ Formatted.store = "Empty"
  BY DEF Erased, Formatted
<1>5. AloneOK'
  <2>1. CASE ok
    BY <1>1, <1>2, <1>3, <1>4, <2>1 DEF AloneOK, Empties, HalfCollected, Bad
  <2>2. CASE ~ok
    BY <1>1, <1>3, <2>2 DEF AloneOK, Empties, HalfCollected, Marked, Bad
  <2> QED BY <2>1, <2>2
<1>6. CASE ok /\ pc = "FmtErase"
  <2>1. pc' = "FmtHdr" /\ local' = local
    BY <1>6 DEF FmtErase, FmtHdr, Goto
  <2>2. ~PutLive(pc', local') /\ pc' # "GcStart"
    BY <2>1 DEF PutWaits, PutLive, DelPcs, PutPcs
  <2>3. (MayRequest(pc', local') <=> MayRequest(pc, local))
        /\ (HeaderWalk(pc', local') <=> HeaderWalk(pc, local))
    BY <1>6, <2>1 DEF MayRequest, Collecting, Moving, HeaderWalk, DelPcs, PutPcs
  <2> QED BY <1>1, <1>5, <2>1, <2>2, <2>3, FreeAhead DEF SpareOK, RequestOK
<1>7. CASE ~(ok /\ pc = "FmtErase")
  <2>1. failing' \/ Empties(flash') # {}
    <3>1. CASE ok
      BY <1>1, <1>2, <1>3, <1>4, <1>7, <3>1 DEF Empties
    <3>2. CASE ~ok
      BY <1>2, <3>2 DEF Program, Call
    <3> QED BY <3>1, <3>2
  <2>2. FmtReturn(FALSE) \/ FmtReturn(ok)
    BY <1>7 DEF FmtErase, FmtHdr
  <2> QED BY <1>1, <1>5, <2>1, <2>2, FmtReturnSpare
<1> QED BY <1>6, <1>7

----------------------------------------------------------------------------
(* The theorem *)

LEMMA SpareInit == Init => SpareOK
<1> SUFFICES ASSUME Init PROVE SpareOK
  OBVIOUS
<1>1. pc = "Off" /\ local = NoLocal /\ gcRequest = FALSE /\ flash = [s \in Sector |-> Erased]
  BY DEF Init
<1>2. AloneOK
  BY <1>1, ZeroSector DEF AloneOK, HalfCollected, Bad, Erased
<1>3. /\ ~PutLive(pc, local) /\ pc # "GcStart" /\ ~HeaderWalk(pc, local) /\ SpareAhead
  BY <1>1 DEF PutLive, PutWaits, HeaderWalk, SpareAhead, Collecting, Moving, Settled,
              DelPcs, PutPcs
<1> QED BY <1>1, <1>2, <1>3 DEF SpareOK, RequestOK

LEMMA SpareNext == TInv /\ LInv /\ WInv /\ SpareOK /\ [Next]_vars => SpareOK'
<1> SUFFICES ASSUME TInv, LInv, WInv, SpareOK, [Next]_vars PROVE SpareOK'
  OBVIOUS
<1>1. CASE Client
  BY <1>1, SettledSpare, DelSpare, OpenSpare, OffSpare DEF Client
<1>2. CASE \E ok \in BOOLEAN : \/ DelStatus(ok) \/ DelDirty(ok) \/ PutSec(ok) \/ PutStatus(ok)
                               \/ PutHdr(ok) \/ PutBody(ok) \/ PutCommit(ok)
  BY <1>2, DelStatusSpare, DelDirtySpare, PutSecSpare, PutWriteSpare
<1>3. CASE \E ok \in BOOLEAN : FmtErase(ok) \/ FmtHdr(ok) \/ GcSector(ok) \/ LoadErrHdr(ok)
  BY <1>3, FmtSpare, GcSectorSpare, LoadErrHdrSpare
<1>4. CASE NewKv \/ SetFind \/ SetEnd \/ GcStart \/ GcNode \/ GcErase \/ GcFormatted \/ GcEnd
           \/ MvAlloc
  BY <1>4, NewKvSpare, SetFindSpare, SettledSpare, GcStartSpare, GcNodeSpare, GcEraseSpare,
     GcFormattedSpare, GcEndSpare, MvAllocSpare
<1>5. CASE DefFormat \/ DefKv \/ DefEnd \/ LoadHdr \/ LoadRefused \/ LoadHdrEnd \/ LoadGc
           \/ LoadScan \/ LoadMove \/ LoadPassEnd \/ LoadCollect \/ PowerLoss
  BY <1>5, DefFormatSpare, SettledSpare, LoadHdrSpare, OffSpare, LoadHdrEndSpare, LoadGcSpare,
     LoadMoveSpare, LoadCollectSpare
<1>6. CASE UNCHANGED vars
  <2>1. \/ pc' = "Off"
        \/ SpareAhead' <=> SpareAhead
    BY <1>6 DEF vars, SpareAhead, Empties, HalfCollected, Marked, Bad, GcAhead, Collectable,
                BadAhead, GcMarkedAhead, GcMarked
  <2> QED BY <1>6, <2>1, FreeAhead DEF vars, SpareOK, RequestOK, AloneOK, Empties, HalfCollected,
                                       Marked, Bad
<1> QED BY <1>1, <1>2, <1>3, <1>4, <1>5, <1>6 DEF Next, Step

\* After every call there is an empty sector left for garbage collection, whatever was
\* collected, moved, formatted or interrupted before it.
THEOREM SpareKept == Spec => []SpareSector
<1>1. SpareOK => SpareSector
  BY DEF SpareOK, SpareAhead, SpareSector, Settled
<1> QED BY <1>1, TInit, TNext, LInit, LNext, WInit, WNext, SpareInit, SpareNext, PTL DEF Spec

----------------------------------------------------------------------------
(* The headers of the sectors *)

OksSame == \A t \in Sector : flash'[t].ok = flash[t].ok

LEMMA ProgramOks ==
  ASSUME FlashOK, NEW s \in Sector, NEW image, NEW ok \in BOOLEAN, Program(s, image, ok),
         image.ok = flash[s].ok
  PROVE  OksSame
BY ProgramFlash DEF OksSame

\* Only format_sector writes the headers of sectors.
LEMMA WriteOks ==
  ASSUME TInv, NEW ok \in BOOLEAN,
         \/ DelStatus(ok) \/ DelDirty(ok) \/ PutSec(ok) \/ PutStatus(ok) \/ PutHdr(ok)
         \/ PutBody(ok) \/ PutCommit(ok) \/ GcSector(ok) \/ LoadErrHdr(ok)
  PROVE  OksSame
<1>1. /\ FlashOK /\ local \in Local /\ local.put.sec \in Sector /\ local.del.ptr.sec \in Sector
  BY TInvParts, FrameTypes DEF PutFrame, DelFrame, Ptr
<1>2. ASSUME NoCall PROVE OksSame
  BY <1>2 DEF NoCall, OksSame
<1>3. ASSUME NEW s \in Sector, NEW x, NEW j,
             \/ Program(s, [flash[s] EXCEPT !.store = x], ok)
             \/ Program(s, [flash[s] EXCEPT !.dirty = x], ok)
             \/ Program(s, [flash[s] EXCEPT !.kvs = x], ok)
             \/ Program(s, WithNode(s, j, x), ok)
      PROVE  OksSame
  <2>1. PICK image : /\ Program(s, image, ok)
                     /\ image \in {[flash[s] EXCEPT !.store = x], [flash[s] EXCEPT !.dirty = x],
                                   [flash[s] EXCEPT !.kvs = x], WithNode(s, j, x)}
    BY <1>3
  <2>2. image.ok = flash[s].ok
    <3>1. flash[s] \in SectorImage
      BY <1>1 DEF FlashOK, Flash
    <3> QED BY <2>1, <3>1 DEF SectorImage, WithNode
  <2> QED BY <1>1, <2>1, <2>2, ProgramOks
<1>4. CASE DelStatus(ok) \/ DelDirty(ok)
  BY <1>1, <1>2, <1>3, <1>4 DEF DelStatus, DelDirty
<1>5. CASE PutSec(ok)
  BY <1>1, <1>2, <1>3, <1>5 DEF PutSec
<1>6. CASE PutStatus(ok)
  <2> DEFINE len == IF local.put.addr = SECTOR_HDR_DATA_SIZE THEN KV_HDR_DATA_SIZE ELSE 1
             node == [addr |-> local.put.addr, len |-> len, status |-> "ErrHdr",
                      crc |-> FALSE, key |-> None, val |-> None]
             kvs == Append(flash[local.put.sec].kvs, node)
  <2>1. Program(local.put.sec, [flash[local.put.sec] EXCEPT !.kvs = kvs], ok)
    BY <1>6 DEF PutStatus
  <2> HIDE DEF kvs
  <2> QED BY <1>1, <1>3, <2>1
<1>7. CASE PutHdr(ok) \/ PutBody(ok) \/ PutCommit(ok)
  BY <1>1, <1>3, <1>7 DEF PutHdr, PutBody, PutCommit, PutNode
<1>8. CASE GcSector(ok)
  <2>1. Least(GcAhead) \in Nat
    <3>1. local.gc \in GcFrame
      BY <1>1, FrameTypes
    <3>2. GcAhead \subseteq Nat /\ GcAhead # {}
      BY <1>8, <3>1, GeometryType DEF GcSector, GcAhead, GcFrame
    <3> QED BY <3>2, LeastExists
  <2>2. Nth(local.gc.from, Least(GcAhead)) \in Sector
    BY <1>1, <2>1, FrameTypes, NthType DEF GcFrame
  <2> QED BY <1>3, <1>8, <2>2 DEF GcSector
<1>9. CASE LoadErrHdr(ok)
  BY <1>3, <1>9, StepsOK DEF LoadErrHdr
<1> QED BY <1>4, <1>5, <1>6, <1>7, <1>8, <1>9

\* A step makes a storage call, makes none, or ends the session.
LEMMA MediumNext ==
  ASSUME [Next]_vars
  PROVE  (\E ok \in BOOLEAN : Call(ok)) \/ UNCHANGED medium \/ Close \/ PowerLoss
<1>1. CASE \E ok \in BOOLEAN : \/ DelStatus(ok) \/ DelDirty(ok) \/ PutSec(ok) \/ PutStatus(ok)
                               \/ PutHdr(ok) \/ PutBody(ok) \/ PutCommit(ok)
                               \/ FmtErase(ok) \/ FmtHdr(ok) \/ GcSector(ok) \/ LoadErrHdr(ok)
  BY <1>1 DEF DelStatus, DelDirty, PutSec, PutStatus, PutHdr, PutBody, PutCommit, PutNode,
              FmtErase, FmtHdr, GcSector, LoadErrHdr, Program, NoCall
<1>2. CASE \/ (\E u \in Updates : Set(u[1], u[2])) \/ (\E k \in Keys : Del(k)) \/ SetDefault
           \/ (\E strict \in BOOLEAN : Open(strict)) \/ NewKv \/ SetFind \/ SetEnd \/ GcStart
           \/ GcNode \/ GcErase \/ GcFormatted \/ GcEnd \/ MvAlloc
  BY <1>2 DEF Set, Idle, Del, Open, SetDefault, NewKv, SetFind, SetEnd, GcStart,
              GcNode, GcErase, GcFormatted, GcEnd, MvAlloc, NoCall
<1>3. CASE DefFormat \/ DefKv \/ DefEnd \/ LoadHdr \/ LoadRefused \/ LoadHdrEnd \/ LoadGc
           \/ LoadScan \/ LoadMove \/ LoadPassEnd \/ LoadCollect
  BY <1>3 DEF DefFormat, DefKv, DefEnd, LoadHdr, LoadRefused, LoadHdrEnd, LoadGc, LoadScan,
              LoadMove, LoadPassEnd, LoadCollect, NoCall
<1>4. CASE UNCHANGED vars
  BY <1>4 DEF vars, medium
<1> QED BY <1>1, <1>2, <1>3, <1>4 DEF Next, Client, Step

\* The medium fails until power is cycled.
LEMMA FailingStays == ASSUME Next, failing PROVE failing' \/ pc' = "Off"
<1>1. CASE Close \/ PowerLoss
  BY <1>1 DEF Close, PowerLoss, Reset, Goto
<1> QED BY <1>1, MediumNext DEF Call, medium

\* Where no header is written and none was missing, none is.
LEMMA HeadersPlain ==
  ASSUME HeadersOK, Next, pc \notin {"Off", "LoadHdr", "FmtErase", "FmtHdr"}, OksSame
  PROVE  HeadersOK'
<1>1. failing \/ Bad(flash) = {}
  BY DEF HeadersOK, MayBeBad, HeaderWalk
<1>2. Bad(flash') = Bad(flash)
  BY DEF OksSame, Bad
<1>3. CASE pc' = "Off"
  BY <1>3 DEF HeadersOK, MayBeBad, Bad
<1>4. CASE pc' # "Off"
  BY <1>1, <1>2, <1>4, FailingStays DEF HeadersOK
<1> QED BY <1>3, <1>4

\* Nothing is known of the headers when power is lost, ...
LEMMA HeadersOff == ASSUME pc' = "Off" PROVE HeadersOK'
BY DEF HeadersOK, MayBeBad, Bad

\* ... and the first walk of an open is over all of them.
LEMMA HeadersOpen == ASSUME TInv, NEW strict \in BOOLEAN, Open(strict) PROVE HeadersOK'
<1>1. PICK o : o = find_oldest_addr(flash)
  OBVIOUS
<1> DEFINE m == [NoLocal EXCEPT !.job.op = "Open", !.load.from = o, !.load.strict = strict]
<1>2. o \in Sector /\ pc' = "LoadHdr" /\ local' = m
  BY <1>1, OldestType DEF Open, Goto
<1>3. m.load.from = o /\ m.load.i = 0
  BY DEF NoLocal
<1> HIDE DEF m
<1>4. Sector \subseteq {Nth(o, i) : i \in 0 .. N-1}
  BY <1>2, NthOnto DEF Sector
<1>5. Bad(flash') \subseteq Sector
  BY DEF Bad
<1> QED BY <1>2, <1>3, <1>4, <1>5 DEF HeadersOK, MayBeBad, HeaderWalk

\* The walk comes to the first sector without a header; those before it have one.
LEMMA HeadersLoadHdr == ASSUME TInv, HeadersOK, LoadHdr PROVE HeadersOK'
<1>1. PICK i : i = Least(BadAhead)
  OBVIOUS
<1> DEFINE l == [local EXCEPT !.load.i = i + 1, !.load.bad = @ + 1]
           from == local.load.from
<1>2. /\ local \in Local /\ local.load \in LoadFrame /\ flash' = flash /\ failing' = failing
      /\ pc = "LoadHdr" /\ N \in Nat
  BY TInvParts, FrameTypes, GeometryType DEF LoadHdr, NoCall, medium
<1>3. i \in Nat /\ \A k \in BadAhead : i <= k
  <2>1. BadAhead \subseteq Nat /\ BadAhead # {}
    BY <1>2 DEF LoadHdr, BadAhead, LoadFrame
  <2> QED BY <1>1, <2>1, LeastExists
<1>4. FmtCall(l, Nth(from, i), "LoadHdr")
  BY <1>1 DEF LoadHdr
<1>5. l \in Local /\ l.load.i = i + 1 /\ l.load.from = from
  <2> DEFINE x == [local.load EXCEPT !.i = i + 1, !.bad = @ + 1]
  <2>1. x \in LoadFrame /\ x.i = i + 1 /\ x.from = from
    <3>1. \A a, b \in Nat : LET y == [local.load EXCEPT !.i = a, !.bad = b]
                            IN  y \in LoadFrame /\ y.i = a /\ y.from = from
      BY <1>2 DEF LoadFrame
    <3>2. i + 1 \in Nat /\ local.load.bad + 1 \in Nat
      BY <1>2, <1>3 DEF LoadFrame
    <3> QED BY <3>1, <3>2
  <2>2. l = [local EXCEPT !.load = x]
    BY <1>2 DEF Local, LoadFrame
  <2> HIDE DEF x, l
  <2> QED BY <1>2, <2>1, <2>2 DEF Local
<1> HIDE DEF l
<1>6. /\ pc' = "FmtErase" /\ local'.fmt.sec = Nth(from, i) /\ local'.fmt.ret = "LoadHdr"
      /\ local'.load.i = i + 1 /\ local'.load.from = from
  BY <1>4, <1>5, FmtCallIs
<1>7. ASSUME NEW s \in Bad(flash), ~failing
      PROVE  s = Nth(from, i) \/ s \in {Nth(from, k) : k \in i + 1 .. N-1}
  <2>1. PICK k \in local.load.i .. N-1 : s = Nth(from, k)
    BY <1>2, <1>7 DEF HeadersOK, MayBeBad, HeaderWalk
  <2>2. k \in BadAhead
    BY <1>7, <2>1 DEF BadAhead, Bad
  <2>3. i <= k /\ k \in Int
    BY <1>2, <1>3, <2>1, <2>2 DEF LoadFrame
  <2>4. k = i \/ k \in i + 1 .. N-1
    BY <1>2, <1>3, <2>1, <2>3 DEF LoadFrame
  <2> QED BY <2>1, <2>4
<1>8. Bad(flash') = Bad(flash)
  BY <1>2 DEF Bad
<1> QED BY <1>2, <1>6, <1>7, <1>8 DEF HeadersOK, MayBeBad, HeaderWalk

\* It ends when there is none left.
LEMMA HeadersLoadEnd == ASSUME HeadersOK, LoadHdrEnd PROVE HeadersOK'
<1>1. flash' = flash /\ failing' = failing /\ pc = "LoadHdr" /\ BadAhead = {}
  BY DEF LoadHdrEnd, NoCall, medium
<1>2. failing \/ Bad(flash) = {}
  BY <1>1 DEF HeadersOK, MayBeBad, HeaderWalk, BadAhead, Bad
<1>3. Bad(flash') = Bad(flash)
  BY <1>1 DEF Bad
<1> QED BY <1>1, <1>2, <1>3 DEF HeadersOK

\* A sector loses its header by an erase and gets it back by the next write.
LEMMA HeadersFmt ==
  ASSUME TInv, HeadersOK, NEW ok \in BOOLEAN, FmtErase(ok) \/ FmtHdr(ok)
  PROVE  HeadersOK'
<1> DEFINE s == local.fmt.sec
<1>1. FlashOK /\ s \in Sector /\ local \in Local /\ pc \in {"FmtErase", "FmtHdr"}
  BY TInvParts, FrameTypes DEF FmtFrame, FmtErase, FmtHdr
<1>2. PICK image \in {Erased, Formatted} : Program(s, image, ok)
                                           /\ (image = Erased <=> pc = "FmtErase")
  BY DEF FmtErase, FmtHdr, Erased, Formatted
<1>3. /\ flash'[s] = (IF ok THEN image ELSE flash[s])
      /\ \A t \in Sector : t # s => flash'[t] = flash[t]
  BY <1>1, <1>2, ProgramFlash
<1>4. CASE ~ok
  <2>1. failing'
    BY <1>2, <1>4 DEF Program, Call
  <2> QED BY <2>1 DEF HeadersOK
<1>5. CASE ok
  <2>1. ~failing /\ Bad(flash) \subseteq MayBeBad
    BY <1>2, <1>5 DEF Program, Call, HeadersOK
  <2>2. CASE pc = "FmtErase"
    <3>1. pc' = "FmtHdr" /\ local' = local
      BY <1>5, <2>2 DEF FmtErase, FmtHdr, Goto
    <3>2. Bad(flash') \subseteq Bad(flash) \cup {s}
      BY <1>1, <1>3 DEF Bad
    <3>3. MayBeBad' = MayBeBad /\ s \in MayBeBad
      BY <2>2, <3>1 DEF MayBeBad, HeaderWalk
    <3> QED BY <2>1, <3>2, <3>3 DEF HeadersOK
  <2>3. CASE pc = "FmtHdr"
    <3>1. Bad(flash') \subseteq Bad(flash) \ {s}
      BY <1>1, <1>2, <1>3, <1>5, <2>3 DEF Bad, Formatted
    <3>2. CASE local.fmt.ret = "LoadHdr"
      <4> DEFINE l == [local EXCEPT !.fmt = NoLocal.fmt]
      <4>1. pc' = "LoadHdr" /\ local' = l
        BY <2>3, <3>2 DEF FmtErase, FmtHdr, FmtReturn, Goto
      <4>2. l.load = local.load
        BY <1>1 DEF Local
      <4> HIDE DEF l
      <4> QED BY <2>1, <2>3, <3>1, <3>2, <4>1, <4>2 DEF HeadersOK, MayBeBad, HeaderWalk
    <3>3. CASE local.fmt.ret # "LoadHdr"
      <4>1. Bad(flash') = {}
        BY <2>1, <2>3, <3>1, <3>3 DEF MayBeBad, HeaderWalk
      <4> QED BY <4>1 DEF HeadersOK
    <3> QED BY <3>2, <3>3
  <2> QED BY <1>1, <2>2, <2>3
<1> QED BY <1>4, <1>5

LEMMA HeadersNext == TInv /\ HeadersOK /\ [Next]_vars => HeadersOK'
<1> SUFFICES ASSUME TInv, HeadersOK, [Next]_vars PROVE HeadersOK'
  OBVIOUS
<1>1. CASE Next
  <2>1. CASE \E ok \in BOOLEAN : \/ DelStatus(ok) \/ DelDirty(ok) \/ PutSec(ok) \/ PutStatus(ok)
                                 \/ PutHdr(ok) \/ PutBody(ok) \/ PutCommit(ok)
                                 \/ GcSector(ok) \/ LoadErrHdr(ok)
    <3>1. pc \notin {"Off", "LoadHdr", "FmtErase", "FmtHdr"}
      BY <2>1 DEF DelStatus, DelDirty, PutSec, PutStatus, PutHdr, PutBody, PutCommit,
                  GcSector, LoadErrHdr
    <3> QED BY <1>1, <2>1, <3>1, WriteOks, HeadersPlain
  <2>2. CASE Close \/ PowerLoss \/ LoadRefused
    BY <2>2, HeadersOff DEF Close, PowerLoss, LoadRefused, Reset, Goto
  <2>3. CASE \/ (\E u \in Updates : Set(u[1], u[2])) \/ (\E k \in Keys : Del(k)) \/ SetDefault
             \/ NewKv \/ SetFind \/ SetEnd \/ GcStart \/ GcNode \/ GcErase \/ GcFormatted
             \/ GcEnd \/ MvAlloc
    <3>1. pc \notin {"Off", "LoadHdr", "FmtErase", "FmtHdr"} /\ OksSame
      BY <2>3 DEF Set, Idle, Del, SetDefault, NewKv, SetFind, SetEnd, GcStart, GcNode, GcErase,
                  GcFormatted, GcEnd, MvAlloc, NoCall, OksSame
    <3> QED BY <1>1, <3>1, HeadersPlain
  <2>4. CASE DefFormat \/ DefKv \/ DefEnd \/ LoadGc \/ LoadScan \/ LoadMove \/ LoadPassEnd
             \/ LoadCollect
    <3>1. pc \notin {"Off", "LoadHdr", "FmtErase", "FmtHdr"} /\ OksSame
      BY <2>4 DEF DefFormat, DefKv, DefEnd, LoadGc, LoadScan, LoadMove, LoadPassEnd,
                  LoadCollect, NoCall, OksSame
    <3> QED BY <1>1, <3>1, HeadersPlain
  <2>5. CASE \/ (\E strict \in BOOLEAN : Open(strict)) \/ LoadHdr \/ LoadHdrEnd
             \/ (\E ok \in BOOLEAN : FmtErase(ok) \/ FmtHdr(ok))
    BY <2>5, HeadersOpen, HeadersLoadHdr, HeadersLoadEnd, HeadersFmt
  <2> QED BY <1>1, <2>1, <2>2, <2>3, <2>4, <2>5 DEF Next, Client, Step
<1>2. CASE UNCHANGED vars
  BY <1>2 DEF vars, HeadersOK, MayBeBad, HeaderWalk, Bad
<1> QED BY <1>1, <1>2

\* A call returns with every sector formatted, whatever open found on the medium and
\* wherever a format was interrupted.
THEOREM HeadersKept == Spec => []AllFormatted
<1>1. Init => HeadersOK
  BY DEF Init, HeadersOK, MayBeBad, Bad
<1>2. HeadersOK => AllFormatted
  BY DEF HeadersOK, MayBeBad, HeaderWalk, Bad, AllFormatted
<1> QED BY <1>1, <1>2, TInit, TNext, HeadersNext, PTL DEF Spec

----------------------------------------------------------------------------
(* While nothing fails: whole nodes, and none missing *)

\* What a step does to the medium's failure.
LEMMA FaultsNext ==
  ASSUME TInv, QuietOK, [Next]_vars
  PROVE  (failing' => faults' < MaxFaults) /\ (Quiet' => Quiet)
<1>1. /\ MaxFaults \in Nat /\ MaxPowerLoss \in Nat /\ losses \in 0 .. MaxPowerLoss
      /\ faults \in 0 .. MaxFaults /\ failing \in BOOLEAN /\ (failing => faults < MaxFaults)
  BY BoundsAssumption DEF TInv, TypeOK, QuietOK
<1>2. CASE \E ok \in BOOLEAN : Call(ok)
  BY <1>1, <1>2 DEF Call, Quiet
<1>3. CASE UNCHANGED medium
  BY <1>1, <1>3 DEF medium, Quiet
<1>4. CASE Close \/ PowerLoss
  BY <1>1, <1>4 DEF Close, PowerLoss, Quiet
<1> QED BY <1>2, <1>3, <1>4, MediumNext

\* A sector of which every node is whole, and which has one if it is in use.
SectorWhole(sec) == /\ sec.ok /\ sec.store \in {"Using", "Full"} => sec.kvs # <<>>
                    /\ \A j \in DOMAIN sec.kvs : sec.kvs[j].crc

WritePcs == {"PutStatus", "PutHdr", "PutBody"}

\* While no node is written all sectors are whole, ...
LEMMA WholeNow ==
  ASSUME QuietOK, Quiet
  PROVE  /\ pc \notin WritePcs => \A s \in Sector : SectorWhole(flash[s])
         /\ \A s \in Sector \ {local.put.sec} : SectorWhole(flash[s])
BY DEF QuietOK, SectorWhole, WritePcs, InUse

\* ... and nothing else is to be shown of the next state.
LEMMA WholeNext ==
  ASSUME TInv, QuietOK, [Next]_vars, Quiet' => \A s \in Sector : SectorWhole(flash'[s])
  PROVE  QuietOK'
<1>1. Quiet' => \A s \in InUse(flash)' : flash'[s].kvs # <<>>
  BY DEF SectorWhole, InUse
<1>2. Quiet' => \A s \in Sector : \A j \in DOMAIN flash'[s].kvs : flash'[s].kvs[j].crc
  BY DEF SectorWhole
<1> QED BY <1>1, <1>2, FaultsNext DEF QuietOK

\* A storage call succeeds.
LEMMA QuietProgram ==
  ASSUME TInv, QuietOK, [Next]_vars, Quiet', NEW s \in Sector, NEW image, NEW ok \in BOOLEAN,
         Program(s, image, ok)
  PROVE  /\ ok = TRUE /\ Quiet /\ flash'[s] = image
         /\ \A t \in Sector : t # s => flash'[t] = flash[t]
<1>1. Quiet /\ ok = TRUE
  <2>1. MaxFaults \in Nat /\ faults' = MaxFaults
    BY BoundsAssumption DEF Quiet
  <2>2. ~(faults' < MaxFaults)
    BY <2>1
  <2>3. ~failing' /\ Quiet
    BY <2>2, FaultsNext
  <2> QED BY <2>3 DEF Program, Call
<1> QED BY <1>1, TInvParts, ProgramFlash

\* Steps without a write.
LEMMA QuietSame ==
  ASSUME TInv, QuietOK, [Next]_vars, flash' = flash, pc \notin WritePcs PROVE QuietOK'
BY FaultsNext, WholeNow, WholeNext

\* A write that leaves its sector whole.
LEMMA QuietImage ==
  ASSUME TInv, QuietOK, [Next]_vars, NEW s \in Sector, NEW image, NEW ok \in BOOLEAN,
         Program(s, image, ok), pc \notin WritePcs \/ s = local.put.sec,
         Quiet => SectorWhole(image)
  PROVE  QuietOK'
<1> SUFFICES ASSUME Quiet' PROVE \A t \in Sector : SectorWhole(flash'[t])
  BY WholeNext
<1>1. /\ Quiet /\ flash'[s] = image
      /\ \A t \in Sector : t # s => flash'[t] = flash[t]
  BY QuietProgram
<1>2. \A t \in Sector \ {s} : SectorWhole(flash[t])
  BY <1>1, WholeNow
<1> QED BY <1>1, <1>2

\* A write to a node that was whole, or to a header, is one.
LEMMA QuietWhole ==
  ASSUME TInv, QuietOK, [Next]_vars, NEW s \in Sector, NEW image, NEW ok \in BOOLEAN,
         Program(s, image, ok), pc \notin WritePcs,
         image.ok = flash[s].ok, image.store = flash[s].store,
         DOMAIN image.kvs = DOMAIN flash[s].kvs, image.kvs = <<>> => flash[s].kvs = <<>>,
         \A j \in DOMAIN flash[s].kvs : image.kvs[j].crc = flash[s].kvs[j].crc
  PROVE  QuietOK'
<1>1. Quiet => SectorWhole(flash[s])
  BY WholeNow
<1>2. Quiet => SectorWhole(image)
  BY <1>1 DEF SectorWhole
<1> QED BY <1>2, QuietImage

\* The mark of a sector.
LEMMA QuietDirty ==
  ASSUME TInv, QuietOK, [Next]_vars, NEW s \in Sector, NEW x, NEW ok \in BOOLEAN,
         Program(s, [flash[s] EXCEPT !.dirty = x], ok), pc \notin WritePcs
  PROVE  QuietOK'
<1> DEFINE image == [flash[s] EXCEPT !.dirty = x]
<1>1. flash[s] \in SectorImage
  BY TInvParts
<1>2. image.ok = flash[s].ok /\ image.store = flash[s].store /\ image.kvs = flash[s].kvs
  BY <1>1 DEF SectorImage
<1>3. Program(s, image, ok)
  OBVIOUS
<1> HIDE DEF image
<1> QED BY <1>2, <1>3, QuietWhole

\* The status of a node.
LEMMA QuietStatus ==
  ASSUME TInv, QuietOK, [Next]_vars, NEW s \in Sector, NEW j \in DOMAIN flash[s].kvs, NEW x,
         NEW ok \in BOOLEAN, pc \notin WritePcs,
         Program(s, WithNode(s, j, [flash[s].kvs[j] EXCEPT !.status = x]), ok)
  PROVE  QuietOK'
<1> DEFINE n == flash[s].kvs[j]
           m == [n EXCEPT !.status = x]
           image == WithNode(s, j, m)
<1>1. flash[s] \in SectorImage /\ n \in KvNode
  BY TInvParts, NodeType
<1>2. m.crc = n.crc
  BY <1>1 DEF KvNode
<1>3. Program(s, image, ok)
  OBVIOUS
<1> HIDE DEF m
<1>4. /\ image.ok = flash[s].ok /\ image.store = flash[s].store
      /\ image.kvs = [flash[s].kvs EXCEPT ![j] = m]
  BY <1>1 DEF SectorImage, WithNode
<1> HIDE DEF image
<1>5. /\ DOMAIN image.kvs = DOMAIN flash[s].kvs
      /\ \A i \in DOMAIN flash[s].kvs : image.kvs[i].crc = flash[s].kvs[i].crc
  BY <1>2, <1>4
<1>6. image.kvs # <<>>
  <2>1. DOMAIN image.kvs # {}
    BY <1>5
  <2> QED BY <2>1
<1> QED BY <1>3, <1>4, <1>5, <1>6, QuietWhole

\* del_kv, the marks of a collection and of a damaged node.
LEMMA QuietMarks ==
  ASSUME TInv, WInv, QuietOK, [Next]_vars, NEW ok \in BOOLEAN,
         DelStatus(ok) \/ DelDirty(ok) \/ GcSector(ok) \/ LoadErrHdr(ok)
  PROVE  QuietOK'
<1>1. local \in Local /\ local.del.ptr \in Ptr
  BY TInvParts, FrameTypes DEF DelFrame
<1>2. CASE DelStatus(ok)
  <2>1. Held(local.del.ptr) /\ pc \notin WritePcs
    BY <1>2 DEF DelStatus, WInv, KeptOK, ToDelete, WritePcs
  <2>2. local.del.ptr.sec \in Sector /\ local.del.ptr.idx \in DOMAIN flash[local.del.ptr.sec].kvs
    BY <1>1, <2>1 DEF Held, Ptr
  <2> QED BY <1>2, <2>1, <2>2, QuietStatus DEF DelStatus
<1>3. CASE DelDirty(ok)
  <2>1. local.del.ptr.sec \in Sector /\ pc \notin WritePcs
    BY <1>1, <1>3 DEF Ptr, DelDirty, WritePcs
  <2>2. CASE NoCall
    BY <2>1, <2>2, QuietSame DEF NoCall
  <2> QED BY <1>3, <2>1, <2>2, QuietDirty DEF DelDirty
<1>4. CASE GcSector(ok)
  <2>1. Least(GcAhead) \in Nat
    <3>1. local.gc \in GcFrame
      BY <1>1, FrameTypes
    <3>2. GcAhead \subseteq Nat /\ GcAhead # {}
      BY <1>4, <3>1, GeometryType DEF GcSector, GcAhead, GcFrame
    <3> QED BY <3>2, LeastExists
  <2>2. Nth(local.gc.from, Least(GcAhead)) \in Sector /\ pc \notin WritePcs
    BY <1>1, <1>4, <2>1, FrameTypes, NthType DEF GcFrame, GcSector, WritePcs
  <2> QED BY <1>4, <2>2, QuietDirty DEF GcSector
<1>5. CASE LoadErrHdr(ok)
  <2>1. pc \notin WritePcs
    BY <1>5 DEF LoadErrHdr, WritePcs
  <2> QED BY <1>5, <2>1, StepsOK, QuietStatus DEF LoadErrHdr
<1> QED BY <1>2, <1>3, <1>4, <1>5

\* A sector that is formatted is not in use.
LEMMA QuietFmt ==
  ASSUME TInv, QuietOK, [Next]_vars, NEW ok \in BOOLEAN, FmtErase(ok) \/ FmtHdr(ok)
  PROVE  QuietOK'
<1>1. local.fmt.sec \in Sector /\ pc \notin WritePcs
  BY TInvParts, FrameTypes DEF FmtFrame, FmtErase, FmtHdr, WritePcs
<1>2. SectorWhole(Erased) /\ SectorWhole(Formatted)
  BY DEF SectorWhole, Erased, Formatted
<1> QED BY <1>1, <1>2, QuietImage DEF FmtErase, FmtHdr

\* update_sec_status: the sector is in use, and its first node follows.
LEMMA QuietPutSec ==
  ASSUME TInv, LInv, QuietOK, [Next]_vars, NEW ok \in BOOLEAN, PutSec(ok) PROVE QuietOK'
<1> DEFINE s == local.put.sec
           image == [flash[s] EXCEPT !.store = "Using"]
           Full(x) == [local EXCEPT !.put.full = x]
<1>1. /\ local \in Local /\ local.put \in PutFrame /\ s \in Sector /\ flash[s] \in SectorImage
      /\ pc = "PutSec" /\ pc \notin WritePcs
  BY TInvParts, FrameTypes DEF PutFrame, PutSec, WritePcs
<1>2. image.kvs = flash[s].kvs
  BY <1>1 DEF SectorImage
<1>3. \A x : Full(x).put.sec = s
  BY <1>1 DEF Local, PutFrame
<1>4. CASE NoCall
  BY <1>1, <1>4, QuietSame DEF NoCall
<1>5. CASE Program(s, image, ok)
  <2> HIDE DEF image
  <2>1. SUFFICES ASSUME Quiet' PROVE QuietOK'
    BY FaultsNext DEF QuietOK
  <2>2. /\ ok = TRUE /\ Quiet /\ flash'[s] = image
        /\ \A t \in Sector : t # s => flash'[t] = flash[t]
    BY <1>1, <1>5, <2>1, QuietProgram
  <2>3. pc' = "PutStatus" /\ local'.put.sec = s
    <3>1. PutSec(TRUE)
      BY <2>2
    <3>2. pc' = "PutStatus" /\ (local' = local \/ \E x : local' = Full(x))
      BY <3>1 DEF PutSec, PutNext, Goto
    <3> HIDE DEF Full
    <3> QED BY <1>3, <3>2
  <2>4. \A t \in Sector : SectorWhole(flash[t])
    BY <1>1, <2>2, WholeNow
  <2>5. \A t \in Sector \ {s} : SectorWhole(flash'[t])
    BY <2>2, <2>4
  <2>6. \A t \in Sector : \A j \in DOMAIN flash'[t].kvs : flash'[t].kvs[j].crc
    BY <1>2, <2>2, <2>4, <2>5 DEF SectorWhole
  <2> QED BY <2>3, <2>5, <2>6, FaultsNext DEF QuietOK, InUse, SectorWhole
<1> QED BY <1>4, <1>5, PutSecIs

\* A write to the last node of a sector, which is whole or about to be.
LEMMA QuietLast ==
  ASSUME TInv, QuietOK, [Next]_vars, NEW s \in Sector, s = local.put.sec, NEW kvs,
         NEW ok \in BOOLEAN, Program(s, [flash[s] EXCEPT !.kvs = kvs], ok), kvs # <<>>,
         ok => local' = local /\ (pc' \in {"PutHdr", "PutBody"} \/ kvs[Len(kvs)].crc),
         \A j \in DOMAIN kvs : j # Len(kvs) => j \in DOMAIN flash[s].kvs /\ kvs[j] = flash[s].kvs[j],
         Len(kvs) # Len(flash[s].kvs) => pc = "PutStatus"
  PROVE  QuietOK'
<1> DEFINE image == [flash[s] EXCEPT !.kvs = kvs]
<1>1. flash[s] \in SectorImage
  BY TInvParts
<1>2. image.kvs = kvs /\ Program(s, image, ok)
  BY <1>1 DEF SectorImage
<1> HIDE DEF image
<1>3. SUFFICES ASSUME Quiet' PROVE QuietOK'
  BY FaultsNext DEF QuietOK
<1>4. /\ ok = TRUE /\ Quiet /\ flash'[s] = image
      /\ \A t \in Sector : t # s => flash'[t] = flash[t]
  BY <1>2, <1>3, QuietProgram
<1>5. \A t \in Sector \ {s} : SectorWhole(flash'[t])
  BY <1>4, WholeNow
<1>6. \A j \in DOMAIN kvs : kvs[j].crc \/ (pc' \in {"PutHdr", "PutBody"} /\ j = Len(kvs))
  <2> SUFFICES ASSUME NEW j \in DOMAIN kvs, j # Len(kvs) PROVE kvs[j].crc
    BY <1>4
  <2>1. j \in DOMAIN flash[s].kvs /\ kvs[j] = flash[s].kvs[j]
    OBVIOUS
  <2>2. Len(kvs) = Len(flash[s].kvs) \/ pc = "PutStatus"
    OBVIOUS
  <2> QED BY <1>4, <2>1, <2>2 DEF QuietOK
<1>7. \A t \in Sector : \A j \in DOMAIN flash'[t].kvs :
         flash'[t].kvs[j].crc \/ (/\ pc' \in {"PutHdr", "PutBody"} /\ t = local'.put.sec
                                  /\ j = Len(flash'[t].kvs))
  BY <1>2, <1>4, <1>5, <1>6 DEF SectorWhole
<1>8. \A t \in InUse(flash)' : flash'[t].kvs # <<>>
  BY <1>2, <1>4, <1>5 DEF InUse, SectorWhole
<1> QED BY <1>7, <1>8, FaultsNext DEF QuietOK

LEMMA QuietPut ==
  ASSUME TInv, LInv, QuietOK, [Next]_vars, NEW ok \in BOOLEAN,
         PutStatus(ok) \/ PutHdr(ok) \/ PutBody(ok) \/ PutCommit(ok)
  PROVE  QuietOK'
<1> DEFINE s == local.put.sec
           old == flash[s].kvs
<1>1. local \in Local /\ s \in Sector /\ flash[s] \in SectorImage
  BY TInvParts, FrameTypes DEF PutFrame
<1>2. old \in Seq(KvNode)
  BY <1>1 DEF SectorImage
<1>3. CASE PutStatus(ok)
  <2> DEFINE len == IF local.put.addr = SECTOR_HDR_DATA_SIZE THEN KV_HDR_DATA_SIZE ELSE 1
             node == [addr |-> local.put.addr, len |-> len, status |-> "ErrHdr",
                      crc |-> FALSE, key |-> None, val |-> None]
             kvs == Append(old, node)
  <2>1. Program(s, [flash[s] EXCEPT !.kvs = kvs], ok) /\ pc = "PutStatus"
        /\ (ok => pc' = "PutHdr" /\ local' = local)
    BY <1>3 DEF PutStatus, PutNext, Goto
  <2> HIDE DEF node
  <2>2. kvs # <<>> /\ \A j \in DOMAIN kvs : j # Len(kvs) => j \in DOMAIN old /\ kvs[j] = old[j]
    <3> HIDE DEF old
    <3>1. Len(kvs) = Len(old) + 1 /\ DOMAIN kvs = 1 .. Len(old) + 1 /\ DOMAIN old = 1 .. Len(old)
          /\ \A j \in 1 .. Len(old) : kvs[j] = old[j]
      BY <1>2
    <3>2. kvs # <<>>
      BY <1>2, <3>1
    <3> QED BY <1>2, <3>1, <3>2
  <2> HIDE DEF kvs
  <2> QED BY <1>1, <2>1, <2>2, QuietLast
<1>4. CASE PutHdr(ok) \/ PutBody(ok)
  <2>1. old # <<>> /\ LastNode(flash[s]) \in KvNode
    BY <1>4, PutNodeFacts DEF PutHdr, PutBody
  <2>2. PICK node : /\ PutNode(node, ok)
                    /\ ok => local' = local /\ (pc' = "PutBody" \/ node.crc)
    <3>1. [LastNode(flash[s]) EXCEPT !.crc = TRUE].crc
      BY <2>1 DEF KvNode
    <3> QED BY <1>4, <3>1 DEF PutHdr, PutBody, PutNext, Goto
  <2> DEFINE kvs == [old EXCEPT ![Len(old)] = node]
  <2>3. Program(s, [flash[s] EXCEPT !.kvs = kvs], ok)
    BY <1>1, <2>2 DEF PutNode, WithNode, SectorImage
  <2>4. /\ kvs # <<>> /\ Len(kvs) = Len(old) /\ kvs[Len(kvs)] = node
        /\ \A j \in DOMAIN kvs : j # Len(kvs) => j \in DOMAIN old /\ kvs[j] = old[j]
    <3>1. Len(old) \in DOMAIN old
      BY <1>1, <2>1, LastNodeType
    <3> HIDE DEF old
    <3>2. DOMAIN kvs = DOMAIN old /\ Len(kvs) = Len(old) /\ kvs[Len(old)] = node
          /\ \A j \in DOMAIN old : j # Len(old) => kvs[j] = old[j]
      BY <1>2, <3>1
    <3>3. kvs # <<>>
      <4>1. DOMAIN kvs # {}
        BY <3>1, <3>2
      <4> HIDE DEF kvs
      <4> QED BY <4>1
    <3> HIDE DEF kvs
    <3> QED BY <3>2, <3>3
  <2> HIDE DEF kvs
  <2> QED BY <1>1, <2>2, <2>3, <2>4, QuietLast
<1>5. CASE PutCommit(ok)
  <2>1. old # <<>> /\ pc \notin WritePcs
    BY <1>5, PutNodeFacts DEF PutCommit, WritePcs
  <2>2. Len(old) \in DOMAIN old /\ LastNode(flash[s]) = old[Len(old)]
    BY <1>1, <2>1, LastNodeType
  <2>3. Program(s, WithNode(s, Len(old), [old[Len(old)] EXCEPT !.status = "Write"]), ok)
    BY <1>5, <2>2 DEF PutCommit, PutNode
  <2> QED BY <1>1, <2>1, <2>2, <2>3, QuietStatus
<1> QED BY <1>3, <1>4, <1>5

LEMMA QuietNext == TInv /\ LInv /\ WInv /\ QuietOK /\ [Next]_vars => QuietOK'
<1> SUFFICES ASSUME TInv, LInv, WInv, QuietOK, [Next]_vars PROVE QuietOK'
  OBVIOUS
<1>1. CASE \E ok \in BOOLEAN : \/ DelStatus(ok) \/ DelDirty(ok) \/ PutSec(ok) \/ PutStatus(ok)
                               \/ PutHdr(ok) \/ PutBody(ok) \/ PutCommit(ok)
                               \/ FmtErase(ok) \/ FmtHdr(ok) \/ GcSector(ok) \/ LoadErrHdr(ok)
  BY <1>1, QuietMarks, QuietPutSec, QuietPut, QuietFmt
<1>2. CASE \/ (\E u \in Updates : Set(u[1], u[2])) \/ (\E k \in Keys : Del(k)) \/ SetDefault
           \/ (\E strict \in BOOLEAN : Open(strict)) \/ Close \/ NewKv \/ SetFind \/ SetEnd
           \/ GcStart \/ GcNode \/ GcErase \/ GcFormatted \/ GcEnd \/ MvAlloc
  <2>1. flash' = flash /\ pc \notin WritePcs
    BY <1>2 DEF Set, Idle, Del, Open, Close, SetDefault, NewKv, SetFind, SetEnd, GcStart,
                GcNode, GcErase, GcFormatted, GcEnd, MvAlloc, NoCall, WritePcs
  <2> QED BY <2>1, QuietSame
<1>3. CASE DefFormat \/ DefKv \/ DefEnd \/ LoadHdr \/ LoadRefused \/ LoadHdrEnd \/ LoadGc
           \/ LoadScan \/ LoadMove \/ LoadPassEnd \/ LoadCollect
  <2>1. flash' = flash /\ pc \notin WritePcs
    BY <1>3 DEF DefFormat, DefKv, DefEnd, LoadHdr, LoadRefused, LoadHdrEnd, LoadGc, LoadScan,
                LoadMove, LoadPassEnd, LoadCollect, NoCall, WritePcs
  <2> QED BY <2>1, QuietSame
<1>4. CASE PowerLoss
  <2>1. ~Quiet'
    <3>1. MaxPowerLoss \in Nat /\ losses \in 0 .. MaxPowerLoss /\ losses' = losses - 1
      BY <1>4, BoundsAssumption DEF PowerLoss, TInv, TypeOK
    <3> QED BY <3>1 DEF Quiet
  <2> QED BY <2>1, FaultsNext DEF QuietOK
<1>5. CASE UNCHANGED vars
  BY <1>5 DEF vars, QuietOK, Quiet, InUse
<1> QED BY <1>1, <1>2, <1>3, <1>4, <1>5 DEF Next, Client, Step

\* While nothing fails check finds nothing to report after any call: every sector has its
\* header, no node is half written and no sector in use is without one.
THEOREM CheckKept == Spec => []CheckPasses
<1>1. Init => HeadersOK /\ QuietOK
  BY DEF Init, HeadersOK, MayBeBad, Bad, QuietOK, InUse, Erased
<1>2. TInv /\ HeadersOK /\ QuietOK => CheckPasses
  <2> SUFFICES ASSUME TInv, HeadersOK, QuietOK, pc = "Idle", Quiet
               PROVE  check(flash, oldest) = "Ok"
    BY DEF CheckPasses, Quiet
  <2>1. ~failing
    BY BoundsAssumption DEF QuietOK, Quiet
  <2>2. Bad(flash) = {}
    BY <2>1 DEF HeadersOK, MayBeBad, HeaderWalk
  <2>3. \A s \in Sector : SectorWhole(flash[s])
    BY WholeNow DEF WritePcs
  <2>4. \A i \in Sector : Nth(oldest, i) \in Sector
    BY TInvParts, NthType DEF RamOK, Sector
  <2>5. ASSUME NEW s \in Sector
        PROVE  flash[s].ok /\ ~(Checked(flash[s]) /\ Damaged(flash[s]))
    BY <2>2, <2>3 DEF Bad, Checked, Damaged, SectorWhole
  <2> QED BY <2>4, <2>5 DEF check
<1> QED BY <1>1, <1>2, TInit, TNext, LInit, LNext, WInit, WNext, HeadersNext, QuietNext, PTL
        DEF Spec

----------------------------------------------------------------------------
(* The defaults *)

\* A change of one frame leaves the others alone.
LEMMA FrameChange ==
  ASSUME NEW l \in Local, NEW x
  PROVE  /\ LET m == [l EXCEPT !.job = x]
            IN  /\ m.job = x /\ m.new = l.new /\ m.del = l.del /\ m.put = l.put /\ m.gc = l.gc
                /\ m.mv = l.mv /\ m.fmt = l.fmt /\ m.def = l.def /\ m.load = l.load
         /\ LET m == [l EXCEPT !.new = x]
            IN  /\ m.job = l.job /\ m.new = x /\ m.del = l.del /\ m.put = l.put /\ m.gc = l.gc
                /\ m.mv = l.mv /\ m.fmt = l.fmt /\ m.def = l.def /\ m.load = l.load
         /\ LET m == [l EXCEPT !.del = x]
            IN  /\ m.job = l.job /\ m.new = l.new /\ m.del = x /\ m.put = l.put /\ m.gc = l.gc
                /\ m.mv = l.mv /\ m.fmt = l.fmt /\ m.def = l.def /\ m.load = l.load
         /\ LET m == [l EXCEPT !.put = x]
            IN  /\ m.job = l.job /\ m.new = l.new /\ m.del = l.del /\ m.put = x /\ m.gc = l.gc
                /\ m.mv = l.mv /\ m.fmt = l.fmt /\ m.def = l.def /\ m.load = l.load
         /\ LET m == [l EXCEPT !.gc = x]
            IN  /\ m.job = l.job /\ m.new = l.new /\ m.del = l.del /\ m.put = l.put /\ m.gc = x
                /\ m.mv = l.mv /\ m.fmt = l.fmt /\ m.def = l.def /\ m.load = l.load
         /\ LET m == [l EXCEPT !.mv = x]
            IN  /\ m.job = l.job /\ m.new = l.new /\ m.del = l.del /\ m.put = l.put /\ m.gc = l.gc
                /\ m.mv = x /\ m.fmt = l.fmt /\ m.def = l.def /\ m.load = l.load
         /\ LET m == [l EXCEPT !.fmt = x]
            IN  /\ m.job = l.job /\ m.new = l.new /\ m.del = l.del /\ m.put = l.put /\ m.gc = l.gc
                /\ m.mv = l.mv /\ m.fmt = x /\ m.def = l.def /\ m.load = l.load
         /\ LET m == [l EXCEPT !.def = x]
            IN  /\ m.job = l.job /\ m.new = l.new /\ m.del = l.del /\ m.put = l.put /\ m.gc = l.gc
                /\ m.mv = l.mv /\ m.fmt = l.fmt /\ m.def = x /\ m.load = l.load
         /\ LET m == [l EXCEPT !.load = x]
            IN  /\ m.job = l.job /\ m.new = l.new /\ m.del = l.del /\ m.put = l.put /\ m.gc = l.gc
                /\ m.mv = l.mv /\ m.fmt = l.fmt /\ m.def = l.def /\ m.load = x
BY DEF Local

\* Where the defaults are when they are written behind each other in one sector, with the
\* margin behind each of them.
DefLen(i) == kv_len(Defaults[i].key, Defaults[i].val)
Fitting(a) ==
    /\ a \in [0 .. Len(Defaults) -> Nat] /\ a[0] = SECTOR_HDR_DATA_SIZE
    /\ \A i \in DOMAIN Defaults : /\ a[i] = a[i-1] + DefLen(i)
                                  /\ a[i] + SEC_REMAIN_THRESHOLD < SecSize
DefAddr == CHOOSE a : Fitting(a)

\* One sector has room for all of them, and set_default refuses none and writes none twice.
DefaultsFit ==
    /\ \E a : Fitting(a)
    /\ \A i \in DOMAIN Defaults : KeyLen[Defaults[i].key] <= KV_NAME_MAX
    /\ \A i, j \in DOMAIN Defaults : Defaults[i].key = Defaults[j].key => i = j

NodePart(i, status, whole) ==
    [addr |-> DefAddr[i-1], len |-> DefLen(i), status |-> status, crc |-> whole,
     key |-> Defaults[i].key, val |-> Defaults[i].val]
DefNode(i) == NodePart(i, "Write", TRUE)
DefNodes(i) == [j \in 1 .. i |-> DefNode(j)]

\* The sectors set_default has formatted; the medium when it has written the first i defaults.
Wiped(i) == \A s \in Sector : s < i => flash[s] = Formatted
OnlyIn(e, kvs) ==
    flash = [s \in Sector |-> IF s # e THEN Formatted
                              ELSE [ok |-> TRUE, store |-> "Using", dirty |-> "False", kvs |-> kvs]]
FirstOnly(e, i) == IF i = 0 THEN Wiped(N) ELSE OnlyIn(e, DefNodes(i))

WipeFmt(label, l) == label \in {"FmtErase", "FmtHdr"} /\ l.fmt.ret = "DefFormat"
DefNew(label, l) == label = "NewKv" /\ l.new.ret = "DefKv"
DefPut(label, l) == label \in PutPcs /\ l.put.ret = "DefKv"
InDefault(label, l) == \/ label \in {"DefFormat", "DefKv"} \/ WipeFmt(label, l)
                       \/ DefNew(label, l) \/ DefPut(label, l)

\* The default that is written, and what is there of it.
IsNext(kv) == LET i == local.def.i
              IN  i < Len(Defaults) /\ kv.key = Defaults[i+1].key /\ kv.val = Defaults[i+1].val
PutPart(put, i) ==
    /\ put.addr = DefAddr[i]
    /\ pc = "PutSec" => FirstOnly(put.sec, i)
    /\ pc = "PutStatus" => OnlyIn(put.sec, DefNodes(i))
    /\ pc = "PutHdr" => OnlyIn(put.sec, Append(DefNodes(i), LastNode(flash[put.sec])))
    /\ pc = "PutBody" => OnlyIn(put.sec, Append(DefNodes(i), NodePart(i+1, "PreWrite", FALSE)))
    /\ pc = "PutCommit" => OnlyIn(put.sec, Append(DefNodes(i), NodePart(i+1, "PreWrite", TRUE)))

\* new_kv collects garbage for set_kv only.
NewFirst(l) == l.gc.ret = "NewKv" => l.new.ret = "SetFind"

DefaultState ==
    LET i == local.def.i
    IN  /\ NewFirst(local)
        /\ InDefault(pc, local) \/ HeaderWalk(pc, local) => local.gc.ret # "NewKv"
        /\ pc = "DefFormat" => Wiped(i)
        /\ WipeFmt(pc, local) => local.fmt.sec = i - 1 /\ Wiped(i - 1)
        /\ pc = "DefKv" => i <= Len(Defaults)
        /\ pc = "DefKv" \/ DefNew(pc, local) => \E e \in Sector : FirstOnly(e, i)
        /\ DefNew(pc, local) => IsNext(local.new)
        /\ DefPut(pc, local) => IsNext(local.put) /\ PutPart(local.put, i)

DefaultsOK == ~failing => DefaultState

\* With defaults that fit the steps of set_default are known one by one.
LEMMA FitIs ==
  ASSUME DefaultsFit
  PROVE  /\ Len(Defaults) \in Nat /\ DOMAIN Defaults = 1 .. Len(Defaults)
         /\ \A i \in 0 .. Len(Defaults) : DefAddr[i] \in Nat
         /\ DefAddr[0] = SECTOR_HDR_DATA_SIZE
         /\ \A i \in 1 .. Len(Defaults) :
               /\ DefLen(i) \in Nat /\ DefAddr[i] = DefAddr[i-1] + DefLen(i)
               /\ DefAddr[i] + SEC_REMAIN_THRESHOLD < SecSize
               /\ Defaults[i].key \in Keys /\ Defaults[i].val \in Values
               /\ KeyLen[Defaults[i].key] <= KV_NAME_MAX
<1>1. Fitting(DefAddr)
  BY DEF DefaultsFit, DefAddr
<1>2. Len(Defaults) \in Nat /\ DOMAIN Defaults = 1 .. Len(Defaults)
  BY DefaultsAssumption
<1>3. ASSUME NEW i \in 1 .. Len(Defaults)
      PROVE  Defaults[i].key \in Keys /\ Defaults[i].val \in Values
  <2>1. \A S, q, j : q \in Seq(S) /\ j \in DOMAIN q => q[j] \in S
    OBVIOUS
  <2>2. i \in DOMAIN Defaults
    BY <1>2
  <2>3. Defaults[i] \in [key: Keys, val: Values]
    BY <2>1, <2>2, DefaultsAssumption, Zenon
  <2> QED BY <2>3
<1>4. \A i \in 1 .. Len(Defaults) : DefLen(i) \in Nat
  BY <1>3, KvLenType DEF DefLen
<1> QED BY <1>1, <1>2, <1>3, <1>4 DEF Fitting, DefaultsFit

\* Outside of set_default and of the walk over the headers.
LEMMA ElsewhereOK ==
  ASSUME ~InDefault(pc', local'), ~HeaderWalk(pc', local'), NewFirst(local')
  PROVE  DefaultsOK'
BY DEF DefaultsOK, DefaultState, InDefault, NewFirst

\* The labels outside, whatever the frames hold.
FreePcs == {"Off", "Idle", "SetFind", "SetEnd", "DelStatus", "DelDirty", "GcStart", "GcSector",
            "GcNode", "GcFormatted", "MvAlloc", "LoadGc", "LoadScan", "LoadPass", "LoadCollect"}

LEMMA FreeOK == ASSUME pc' \in FreePcs, NewFirst(local') PROVE DefaultsOK'
<1>1. ~InDefault(pc', local') /\ ~HeaderWalk(pc', local')
  BY DEF FreePcs, InDefault, WipeFmt, DefNew, DefPut, HeaderWalk, PutPcs
<1> QED BY <1>1, ElsewhereOK

LEMMA GotoOK ==
  ASSUME NEW l, NewFirst(l), NEW label \in FreePcs, Goto(label, l)
  PROVE  DefaultsOK'
BY FreeOK DEF Goto

LEMMA NoLocalFirst == NewFirst(NoLocal)
BY DEF NewFirst, NoLocal

LEMMA ReturnOK == ASSUME NEW r, Return(r) PROVE DefaultsOK'
BY GotoOK, NoLocalFirst DEF Return, FreePcs

\* The calls and returns.
LEMMA DelCallFree ==
  ASSUME NEW l \in Local, NewFirst(l), NEW p, NEW c, NEW r, DelCall(l, p, c, r)
  PROVE  DefaultsOK'
<1> DEFINE m == [l EXCEPT !.del = [ptr |-> p, complete |-> c, ret |-> r]]
<1>1. m.gc = l.gc /\ m.new = l.new
  BY FrameChange
<1>2. Goto("DelStatus", m)
  BY DEF DelCall
<1> HIDE DEF m
<1> QED BY <1>1, <1>2, GotoOK DEF NewFirst, FreePcs

LEMMA FmtCallFrames ==
  ASSUME NEW l \in Local, NEW s, NEW r, FmtCall(l, s, r)
  PROVE  /\ pc' = "FmtErase" /\ local'.fmt.sec = s /\ local'.fmt.ret = r
         /\ local'.gc = l.gc /\ local'.new = l.new /\ local'.def = l.def
<1> DEFINE x == [sec |-> s, ret |-> r]
           m == [l EXCEPT !.fmt = x]
<1>1. m.gc = l.gc /\ m.new = l.new /\ m.def = l.def /\ m.fmt = x
  BY FrameChange
<1>2. pc' = "FmtErase" /\ local' = m
  BY DEF FmtCall, Goto
<1> HIDE DEF m
<1> QED BY <1>1, <1>2

LEMMA MvCallFree ==
  ASSUME NEW l \in Local, NewFirst(l), NEW s, NEW j, NEW r, MvCall(l, s, j, r)
  PROVE  DefaultsOK'
<1> DEFINE n == flash[s].kvs[j]
           p == [found |-> TRUE, sec |-> s, idx |-> j]
           x == [ptr |-> p, key |-> n.key, val |-> n.val, len |-> n.len,
                 pre |-> n.status = "PreDelete", ok |-> FALSE, ret |-> r]
           m == [l EXCEPT !.mv = x]
           d == [m EXCEPT !.del = [ptr |-> p, complete |-> FALSE, ret |-> "MvAlloc"]]
<1>1. m.gc = l.gc /\ m.new = l.new /\ d.gc = l.gc /\ d.new = l.new
  BY DEF Local
<1>2. Goto("DelStatus", d) \/ Goto("MvAlloc", m)
  BY DEF MvCall, DelCall
<1> HIDE DEF m, d
<1> QED BY <1>1, <1>2, GotoOK DEF NewFirst, FreePcs

LEMMA GcCallFree ==
  ASSUME NEW l \in Local, NEW free, NEW r, r = "NewKv" => l.new.ret = "SetFind", GcCall(l, free, r)
  PROVE  DefaultsOK'
<1> DEFINE x == [NoLocal.gc EXCEPT !.free = free, !.ret = r]
           m == [l EXCEPT !.gc = x]
<1>1. x.ret = r
  BY DEF NoLocal
<1>2. m.gc = x /\ m.new = l.new
  BY FrameChange
<1>3. Goto("GcStart", m)
  BY DEF GcCall
<1> HIDE DEF m, x
<1> QED BY <1>1, <1>2, <1>3, GotoOK DEF NewFirst, FreePcs

LEMMA GcReturnFree ==
  ASSUME NEW l \in Local, NewFirst(l), GcReturn(l)
  PROVE  DefaultsOK'
<1> DEFINE m == [l EXCEPT !.gc = NoLocal.gc]
<1>1. l.gc.ret \in {"NewKv", "Idle", "LoadGc", "LoadScan"}
  BY FrameTypes DEF GcFrame
<1>2. NoLocal.gc.ret = "Idle" /\ m.gc = NoLocal.gc /\ m.new = l.new
  <2>1. NoLocal.gc.ret = "Idle"
    BY DEF NoLocal
  <2> QED BY <2>1, FrameChange
<1>3. Goto(l.gc.ret, IF l.gc.ret = "Idle" THEN NoLocal ELSE m)
  BY DEF GcReturn
<1> HIDE DEF m
<1>4. NewFirst(m)
  BY <1>2 DEF NewFirst
<1>5. CASE l.gc.ret = "NewKv"
  <2>1. pc' = "NewKv" /\ local' = m /\ l.new.ret = "SetFind"
    BY <1>3, <1>5 DEF Goto, NewFirst
  <2>2. ~InDefault(pc', local') /\ ~HeaderWalk(pc', local')
    BY <1>2, <2>1 DEF InDefault, WipeFmt, DefNew, DefPut, HeaderWalk, PutPcs
  <2> QED BY <1>4, <2>1, <2>2, ElsewhereOK
<1>6. CASE l.gc.ret # "NewKv"
  BY <1>1, <1>3, <1>4, <1>6, NoLocalFirst, GotoOK DEF FreePcs
<1> QED BY <1>5, <1>6

LEMMA MvReturnFree ==
  ASSUME NEW l \in Local, NewFirst(l), NEW ok, MvReturn(l, ok)
  PROVE  DefaultsOK'
<1> DEFINE m == [l EXCEPT !.mv = NoLocal.mv]
<1>1. m.gc = l.gc /\ m.new = l.new
  BY FrameChange
<1>2. Goto("GcNode", m) \/ Goto("LoadPass", m) \/ Goto("LoadCollect", m)
  BY DEF MvReturn
<1> HIDE DEF m
<1> QED BY <1>1, <1>2, GotoOK DEF NewFirst, FreePcs

LEMMA LoadGcCallFree ==
  ASSUME NEW l \in Local, NewFirst(l), NEW base, LoadGcCall(l, base)
  PROVE  DefaultsOK'
<1> DEFINE m == [l EXCEPT !.load = [NoLocal.load EXCEPT !.from = base], !.def = NoLocal.def]
<1>1. m.gc = l.gc /\ m.new = l.new
  BY DEF Local
<1>2. Goto("LoadGc", m)
  BY DEF LoadGcCall
<1> HIDE DEF m
<1> QED BY <1>1, <1>2, GotoOK DEF NewFirst, FreePcs

\* What a step of a session that has not failed starts from.
Running == DefaultsFit /\ TInv /\ LInv /\ WInv /\ SpareOK /\ DefaultState

LEMMA RunningIs ==
  ASSUME Running
  PROVE  /\ local \in Local /\ NewFirst(local) /\ pc \in Labels /\ gcRequest \in BOOLEAN
         /\ oldest \in Sector /\ flash \in Flash /\ FlashOK /\ local.def.i \in Nat
         /\ pc \in {"Idle", "Off"} => local = NoLocal
BY TInvParts, FrameTypes DEF Running, DefaultState, RamOK, FlashOK, ArgsOK, DefFrame

\* The steps of a collection.
LEMMA GcDefaults ==
  ASSUME Running, NEW ok \in BOOLEAN,
         GcStart \/ GcSector(ok) \/ GcNode \/ GcErase \/ GcFormatted \/ GcEnd
  PROVE  DefaultsOK'
<1>1. local \in Local /\ NewFirst(local) /\ local.gc \in GcFrame
  BY RunningIs, FrameTypes
<1>2. ASSUME NEW g, g.ret = local.gc.ret
      PROVE  LET m == [local EXCEPT !.gc = g]
             IN  m.gc = g /\ m.new = local.new /\ NewFirst(m)
  <2> DEFINE m == [local EXCEPT !.gc = g]
  <2>1. m.gc = g /\ m.new = local.new
    BY <1>1, FrameChange
  <2> HIDE DEF m
  <2>2. NewFirst(m)
    BY <1>1, <1>2, <2>1 DEF NewFirst
  <2> QED BY <2>1, <2>2 DEF m
<1>3. CASE GcStart
  <2>1. PICK x : GcReturn(local) \/ Goto("GcSector", [local EXCEPT !.gc.from = oldest, !.gc.last = x])
    BY <1>3 DEF GcStart
  <2> DEFINE g == [local.gc EXCEPT !.from = oldest, !.last = x]
  <2>2. [local EXCEPT !.gc.from = oldest, !.gc.last = x] = [local EXCEPT !.gc = g]
    BY <1>1 DEF Local, GcFrame
  <2>3. g.ret = local.gc.ret
    BY <1>1 DEF GcFrame
  <2> HIDE DEF g
  <2> QED BY <1>1, <1>2, <2>1, <2>2, <2>3, GcReturnFree, GotoOK DEF FreePcs
<1>4. CASE GcSector(ok)
  <2>1. PICK x, y : Goto("GcNode", [local EXCEPT !.gc.i = x, !.gc.sec = y, !.gc.idx = 0])
    BY <1>4 DEF GcSector
  <2> DEFINE g == [local.gc EXCEPT !.i = x, !.sec = y, !.idx = 0]
  <2>2. [local EXCEPT !.gc.i = x, !.gc.sec = y, !.gc.idx = 0] = [local EXCEPT !.gc = g]
    BY <1>1 DEF Local, GcFrame
  <2>3. g.ret = local.gc.ret
    BY <1>1 DEF GcFrame
  <2> HIDE DEF g
  <2> QED BY <1>1, <1>2, <2>1, <2>2, <2>3, GotoOK DEF FreePcs
<1>5. CASE GcNode
  <2> DEFINE j == Least(GcNodes)
             g == [local.gc EXCEPT !.idx = j]
             m == [local EXCEPT !.gc = g]
  <2>1. j \in Nat
    BY <1>5, GcNodesOK DEF GcNode, Running
  <2>2. MvCall([local EXCEPT !.gc.idx = j], local.gc.sec, j, "GcNode")
    BY <1>5 DEF GcNode
  <2> HIDE DEF j
  <2>3. [local EXCEPT !.gc.idx = j] = m
    BY <1>1 DEF Local, GcFrame
  <2>4. g.ret = local.gc.ret /\ g \in GcFrame
    BY <1>1, <2>1 DEF GcFrame
  <2> HIDE DEF g
  <2>5. m \in Local
    BY <1>1, <2>4 DEF Local
  <2> HIDE DEF m
  <2> QED BY <1>2, <2>2, <2>3, <2>4, <2>5, MvCallFree DEF m
<1>6. CASE GcErase
  <2>1. FmtCall(local, local.gc.sec, "GcFormatted")
    BY <1>6 DEF GcErase
  <2>2. /\ pc' = "FmtErase" /\ local'.fmt.ret = "GcFormatted"
        /\ local'.gc = local.gc /\ local'.new = local.new
    BY <1>1, <2>1, FmtCallFrames
  <2>3. ~InDefault(pc', local') /\ ~HeaderWalk(pc', local') /\ NewFirst(local')
    BY <1>1, <2>2 DEF InDefault, WipeFmt, DefNew, DefPut, HeaderWalk, PutPcs, NewFirst
  <2> QED BY <2>3, ElsewhereOK
<1>7. CASE GcFormatted
  <2> DEFINE g == [local.gc EXCEPT !.i = local.gc.i + 1, !.last = local.gc.sec, !.sec = 0,
                                   !.idx = 0]
             m == [local EXCEPT !.gc = g]
  <2>1. [local EXCEPT !.gc.i = local.gc.i + 1, !.gc.last = local.gc.sec, !.gc.sec = 0,
                      !.gc.idx = 0] = m
    BY <1>1 DEF Local, GcFrame
  <2>2. g.ret = local.gc.ret /\ g \in GcFrame
    <3>1. \A i \in Nat, s \in Sector :
             LET y == [local.gc EXCEPT !.i = i, !.last = s, !.sec = 0, !.idx = 0]
             IN  y \in GcFrame /\ y.ret = local.gc.ret
      BY <1>1, ZeroSector DEF GcFrame
    <3>2. local.gc.i + 1 \in Nat /\ local.gc.sec \in Sector
      BY <1>1 DEF GcFrame
    <3> QED BY <3>1, <3>2
  <2> HIDE DEF g
  <2>3. m \in Local /\ NewFirst(m)
    BY <1>1, <1>2, <2>2 DEF Local
  <2> HIDE DEF m
  <2>4. GcReturn(m) \/ Goto("GcSector", m)
    BY <1>7, <2>1 DEF GcFormatted
  <2> QED BY <2>3, <2>4, GcReturnFree, GotoOK DEF FreePcs
<1>8. CASE GcEnd
  BY <1>1, <1>8, GcReturnFree DEF GcEnd
<1> QED BY <1>3, <1>4, <1>5, <1>6, <1>7, <1>8

\* move_kv goes on to write the copy of its node.
LEMMA MvAllocDefaults == ASSUME Running, MvAlloc PROVE DefaultsOK'
<1>1. local \in Local /\ NewFirst(local) /\ local.mv \in MvFrame
  BY RunningIs, FrameTypes
<1>2. PICK put : \/ MvReturn(local, FALSE)
                 \/ DelCall([local EXCEPT !.mv.ok = TRUE], local.mv.ptr, TRUE, "MvReturn")
                 \/ put.ret = "MvReturn" /\ Goto("PutSec", [local EXCEPT !.put = put])
  BY DEF MvAlloc
<1>3. CASE DelCall([local EXCEPT !.mv.ok = TRUE], local.mv.ptr, TRUE, "MvReturn")
  <2> DEFINE l == [local EXCEPT !.mv.ok = TRUE]
  <2>1. l \in Local /\ l.gc = local.gc /\ l.new = local.new
    BY <1>1 DEF Local, MvFrame
  <2>2. DelCall(l, local.mv.ptr, TRUE, "MvReturn")
    BY <1>3
  <2> HIDE DEF l
  <2> QED BY <1>1, <2>1, <2>2, DelCallFree DEF NewFirst
<1>4. CASE put.ret = "MvReturn" /\ Goto("PutSec", [local EXCEPT !.put = put])
  <2> DEFINE m == [local EXCEPT !.put = put]
  <2>1. m.put = put /\ m.gc = local.gc /\ m.new = local.new
    BY <1>1, FrameChange
  <2>2. pc' = "PutSec" /\ local' = m
    BY <1>4 DEF Goto
  <2> HIDE DEF m
  <2> QED BY <1>1, <1>4, <2>1, <2>2, ElsewhereOK
          DEF InDefault, WipeFmt, DefNew, DefPut, HeaderWalk, NewFirst
<1> QED BY <1>1, <1>2, <1>3, <1>4, MvReturnFree

\* The marks of del_kv.
LEMMA DelDefaults == ASSUME Running, NEW ok \in BOOLEAN, DelStatus(ok) \/ DelDirty(ok)
                     PROVE  DefaultsOK'
<1>1. /\ local \in Local /\ NewFirst(local) /\ local.job \in Job /\ pc \in DelPcs
      /\ local.del.ret = "PutSec" => local.put.ret = "SetEnd"
  BY RunningIs, FrameTypes DEF Running, WInv, KeptOK, DelStatus, DelDirty, DelPcs
<1>2. CASE \E x \in BOOLEAN : DelReturn(x)
  <2> DEFINE m == [local EXCEPT !.del = NoLocal.del]
  <2>1. m \in Local /\ m.gc = local.gc /\ m.new = local.new /\ m.put = local.put
    BY <1>1, NoLocalType, FrameTypes, FrameChange DEF Local
  <2>2. \/ local.del.ret = "PutSec" /\ Goto("PutSec", m)
        \/ Goto("SetEnd", m) \/ Goto("MvAlloc", m)
        \/ \E r : Return(r)
        \/ \E x : MvReturn(m, x)
    <3> HIDE DEF m
    <3> QED BY <1>2 DEF DelReturn, m
  <2> HIDE DEF m
  <2>3. NewFirst(m)
    BY <1>1, <2>1 DEF NewFirst
  <2>4. CASE local.del.ret = "PutSec" /\ Goto("PutSec", m)
    BY <1>1, <2>1, <2>3, <2>4, ElsewhereOK
       DEF Goto, InDefault, WipeFmt, DefNew, DefPut, HeaderWalk
  <2> QED BY <2>1, <2>2, <2>3, <2>4, GotoOK, ReturnOK, MvReturnFree DEF FreePcs
<1>3. CASE \E x : Goto("DelDirty", [local EXCEPT !.job.done = x])
  <2>1. PICK x : Goto("DelDirty", [local EXCEPT !.job.done = x])
    BY <1>3
  <2> DEFINE l == [local EXCEPT !.job.done = x]
  <2>2. l.gc = local.gc /\ l.new = local.new
    BY <1>1 DEF Local
  <2>3. Goto("DelDirty", l)
    BY <2>1
  <2> HIDE DEF l
  <2> QED BY <1>1, <2>2, <2>3, GotoOK DEF NewFirst, FreePcs
<1> QED BY <1>2, <1>3 DEF DelStatus, DelDirty

\* The calls of the client and the end of a session.
LEMMA ClientDefaults == ASSUME Running, Client \/ PowerLoss \/ LoadRefused PROVE DefaultsOK'
<1>1. local \in Local /\ NewFirst(local) /\ (pc \in {"Idle", "Off"} => local = NoLocal)
  BY RunningIs
<1>2. NoLocal.gc.ret = "Idle" /\ NoLocal \in Local
  BY NoLocalType DEF NoLocal
<1>3. CASE \E u \in Updates : Set(u[1], u[2])
  <2>1. PICK u \in Updates : Set(u[1], u[2])
    BY <1>3
  <2> DEFINE x == [key |-> u[1], val |-> u[2], tried |-> FALSE, ret |-> "SetFind"]
             j == [local.job EXCEPT !.op = "Set", !.key = u[1], !.val = u[2]]
             l == [local EXCEPT !.job = j]
             m == [l EXCEPT !.new = x]
  <2>2. local = NoLocal /\ pc' = "NewKv" /\ local' = m
    BY <1>1, <2>1 DEF Set, Idle, NewCall, Goto
  <2> HIDE DEF j
  <2>3. m.gc = NoLocal.gc /\ m.new.ret = "SetFind"
    BY <1>1, <2>2 DEF Local
  <2> HIDE DEF m
  <2> QED BY <1>2, <2>2, <2>3, ElsewhereOK
          DEF InDefault, WipeFmt, DefNew, DefPut, HeaderWalk, PutPcs, NewFirst
<1>4. CASE \E k \in Keys : Del(k)
  <2>1. PICK k \in Keys : Del(k)
    BY <1>4
  <2>2. PICK f, j : \/ DelCall([local EXCEPT !.job = j], f, TRUE, "Idle") /\ j \in Job
                    \/ \E r : Return(r)
    <3>1. [NoLocal.job EXCEPT !.op = "Del", !.key = k] \in Job
      BY <1>2 DEF Local, Job
    <3> QED BY <2>1, <3>1 DEF Del
  <2> DEFINE l == [local EXCEPT !.job = j]
  <2>3. l.gc = local.gc /\ l.new = local.new /\ (j \in Job => l \in Local)
    BY <1>1 DEF Local
  <2> HIDE DEF l
  <2>4. CASE DelCall(l, f, TRUE, "Idle") /\ j \in Job
    BY <1>1, <2>3, <2>4, DelCallFree DEF NewFirst
  <2> QED BY <2>2, <2>4, ReturnOK DEF l
<1>5. CASE SetDefault
  <2> DEFINE m == [NoLocal EXCEPT !.job.op = "Default", !.def.ret = "Idle"]
  <2>1. pc' = "DefFormat" /\ local' = m
    BY <1>1, <1>5 DEF SetDefault, Idle, Goto
  <2>2. m.gc = NoLocal.gc /\ m.def.i = 0
    BY <1>2 DEF Local, NoLocal
  <2> HIDE DEF m
  <2>3. Wiped(0)'
    BY DEF Wiped, Sector
  <2> QED BY <1>2, <2>1, <2>2, <2>3
          DEF DefaultsOK, DefaultState, InDefault, WipeFmt, DefNew, DefPut, PutPcs, NewFirst
<1>6. CASE \E strict \in BOOLEAN : Open(strict)
  <2>1. PICK strict \in BOOLEAN : Open(strict)
    BY <1>6
  <2> DEFINE m == [NoLocal EXCEPT !.job.op = "Open", !.load.from = oldest', !.load.strict = strict]
  <2>2. pc' = "LoadHdr" /\ local' = m
    BY <2>1 DEF Open, Goto
  <2>3. m.gc = NoLocal.gc
    BY <1>2 DEF Local
  <2> HIDE DEF m
  <2> QED BY <1>2, <2>2, <2>3
          DEF DefaultsOK, DefaultState, InDefault, WipeFmt, DefNew, DefPut, PutPcs, NewFirst
<1>7. CASE Close \/ PowerLoss \/ LoadRefused
  BY <1>7, NoLocalFirst, GotoOK DEF Close, PowerLoss, LoadRefused, Reset, FreePcs
<1> QED BY <1>3, <1>4, <1>5, <1>6, <1>7 DEF Client

\* The second half of set_kv.
LEMMA SetDefaults == ASSUME Running, SetFind \/ SetEnd PROVE DefaultsOK'
<1>1. local \in Local /\ NewFirst(local) /\ local.job \in Job
  BY RunningIs, FrameTypes
<1>2. CASE SetFind
  <2> DEFINE f == find_kv(flash, oldest, local.job.key)
             j == [local.job EXCEPT !.old = f]
             l == [local EXCEPT !.job = j]
  <2>1. [local EXCEPT !.job.old = f] = l
    BY <1>1 DEF Local, Job
  <2>2. \/ DelCall([local EXCEPT !.job.old = f], f, FALSE, "PutSec")
        \/ Goto("SetEnd", [local EXCEPT !.job.old = f])
        \/ Goto("PutSec", [local EXCEPT !.job.old = f])
    BY <1>2 DEF SetFind
  <2>3. f \in Ptr
    BY RunningIs, FindType DEF Ptr
  <2>4. j \in Job
    BY <1>1, <2>3 DEF Job
  <2> HIDE DEF f, j
  <2>5. l \in Local /\ l.gc = local.gc /\ l.new = local.new /\ l.put = local.put
    BY <1>1, <2>4 DEF Local
  <2> HIDE DEF l
  <2>6. NewFirst(l) /\ local.put.ret = "SetEnd"
    BY <1>1, <1>2, <2>5 DEF NewFirst, Running, WInv, KeptOK, SetFind
  <2>7. CASE Goto("PutSec", l)
    BY <2>5, <2>6, <2>7, ElsewhereOK DEF Goto, InDefault, WipeFmt, DefNew, DefPut, HeaderWalk
  <2> QED BY <2>1, <2>2, <2>5, <2>6, <2>7, DelCallFree, GotoOK DEF FreePcs
<1>3. CASE SetEnd
  <2>1. \/ \E len : GcCall(local, len, "Idle")
        \/ Goto("Idle", NoLocal)
    BY <1>3 DEF SetEnd
  <2> QED BY <1>1, <2>1, NoLocalFirst, GcCallFree, GotoOK DEF FreePcs
<1> QED BY <1>2, <1>3

\* A load frame does not matter.
LEMMA LoadFrameIs ==
  ASSUME Running, NEW x \in LoadFrame
  PROVE  LET m == [local EXCEPT !.load = x]
         IN  m \in Local /\ NewFirst(m) /\ m.gc = local.gc /\ m.new = local.new /\ m.def = local.def
<1> DEFINE m == [local EXCEPT !.load = x]
<1>1. m \in Local /\ m.gc = local.gc /\ m.new = local.new /\ m.def = local.def
  BY RunningIs DEF Local
<1> HIDE DEF m
<1>2. NewFirst(m)
  BY <1>1, RunningIs DEF NewFirst
<1> QED BY <1>1, <1>2 DEF m

\* The walk of kv_load over the headers, up to its set_default.
LEMMA WalkDefaults == ASSUME Running, LoadHdr \/ LoadHdrEnd PROVE DefaultsOK'
<1>1. /\ local \in Local /\ NewFirst(local) /\ local.load \in LoadFrame /\ local.def \in DefFrame
      /\ pc = "LoadHdr"
  BY RunningIs, FrameTypes DEF LoadHdr, LoadHdrEnd
<1>2. local.gc.ret # "NewKv" /\ local.def.i = 0
  BY <1>1 DEF Running, DefaultState, SpareOK, RequestOK, HeaderWalk
<1>3. CASE LoadHdr
  <2> DEFINE i == Least(BadAhead)
             x == [local.load EXCEPT !.i = i + 1, !.bad = @ + 1]
             m == [local EXCEPT !.load = x]
  <2>1. i \in Nat
    <3>1. BadAhead \subseteq Nat /\ BadAhead # {}
      BY <1>1, <1>3, GeometryType DEF LoadHdr, BadAhead, LoadFrame
    <3> QED BY <3>1, LeastExists
  <2>2. FmtCall([local EXCEPT !.load.i = i + 1, !.load.bad = @ + 1], Nth(local.load.from, i), "LoadHdr")
    BY <1>3 DEF LoadHdr
  <2> HIDE DEF i
  <2>3. [local EXCEPT !.load.i = i + 1, !.load.bad = @ + 1] = m
    BY <1>1 DEF Local, LoadFrame
  <2>4. x \in LoadFrame
    <3>1. \A a, b \in Nat : [local.load EXCEPT !.i = a, !.bad = b] \in LoadFrame
      BY <1>1 DEF LoadFrame
    <3>2. i + 1 \in Nat /\ local.load.bad + 1 \in Nat
      BY <1>1, <2>1 DEF LoadFrame
    <3> QED BY <3>1, <3>2
  <2> HIDE DEF x
  <2>5. m \in Local /\ NewFirst(m) /\ m.gc = local.gc /\ m.new = local.new
    BY <2>4, LoadFrameIs
  <2> HIDE DEF m
  <2>6. /\ pc' = "FmtErase" /\ local'.fmt.ret = "LoadHdr" /\ local'.gc = local.gc
        /\ local'.new = local.new
    BY <2>2, <2>3, <2>5, FmtCallFrames
  <2> QED BY <1>1, <1>2, <2>6
          DEF DefaultsOK, DefaultState, InDefault, WipeFmt, DefNew, DefPut, PutPcs, NewFirst
<1>4. CASE LoadHdrEnd
  <2>1. CASE LoadGcCall(local, oldest)
    BY <1>1, <2>1, LoadGcCallFree
  <2>2. CASE Goto("DefFormat", [local EXCEPT !.load = NoLocal.load, !.def.ret = "LoadGc"])
    <3> DEFINE m == [local EXCEPT !.load = NoLocal.load, !.def.ret = "LoadGc"]
    <3>1. m.gc = local.gc /\ m.new = local.new /\ m.def.i = 0
      BY <1>1, <1>2 DEF Local, DefFrame
    <3>2. pc' = "DefFormat" /\ local' = m
      BY <2>2 DEF Goto
    <3> HIDE DEF m
    <3>3. Wiped(0)'
      BY DEF Wiped, Sector
    <3> QED BY <1>1, <1>2, <3>1, <3>2, <3>3
            DEF DefaultsOK, DefaultState, InDefault, WipeFmt, DefNew, DefPut, PutPcs, NewFirst
  <2> QED BY <1>4, <2>1, <2>2 DEF LoadHdrEnd
<1> QED BY <1>3, <1>4

\* The other walks of kv_load.
LEMMA LoadDefaults ==
  ASSUME Running, NEW ok \in BOOLEAN,
         \/ LoadGc \/ LoadScan \/ LoadMove \/ LoadErrHdr(ok) \/ LoadPassEnd \/ LoadCollect
  PROVE  DefaultsOK'
<1>1. local \in Local /\ NewFirst(local) /\ local.load \in LoadFrame /\ oldest \in Sector
  BY RunningIs, FrameTypes
<1>2. CASE LoadGc
  <2> DEFINE i == Least(GcMarkedAhead)
             x == [local.load EXCEPT !.i = i + 1]
             m == [local EXCEPT !.load = x]
  <2>1. \/ GcMarkedAhead # {} /\ GcCall([local EXCEPT !.load.i = i + 1], N * SecSize, "LoadGc")
        \/ Goto("LoadScan", local)
    BY <1>2 DEF LoadGc
  <2>2. GcMarkedAhead # {} => i \in Nat
    <3>1. GcMarkedAhead \subseteq Nat
      BY <1>1, GeometryType DEF GcMarkedAhead, LoadFrame
    <3> QED BY <3>1, LeastExists
  <2> HIDE DEF i
  <2>3. [local EXCEPT !.load.i = i + 1] = m
    BY <1>1 DEF Local, LoadFrame
  <2>4. GcMarkedAhead # {} => x \in LoadFrame
    BY <1>1, <2>2 DEF LoadFrame
  <2> HIDE DEF x
  <2>5. GcMarkedAhead # {} => m \in Local /\ NewFirst(m)
    BY <2>4, LoadFrameIs
  <2> HIDE DEF m
  <2> QED BY <1>1, <2>1, <2>3, <2>5, GcCallFree, GotoOK DEF FreePcs
<1>3. CASE LoadScan
  <2> DEFINE x == [NoLocal.load EXCEPT !.from = oldest]
             m == [local EXCEPT !.load = x]
  <2>1. x \in LoadFrame
    BY <1>1, NoLocalType, FrameTypes DEF LoadFrame
  <2>2. Goto("LoadPass", m)
    BY <1>3 DEF LoadScan
  <2> HIDE DEF x
  <2>3. NewFirst(m)
    BY <2>1, LoadFrameIs
  <2> HIDE DEF m
  <2> QED BY <2>2, <2>3, GotoOK DEF FreePcs
<1>4. CASE LoadMove
  <2> DEFINE i == Least(StepsAhead)
             j == Least(InterruptedIn(i))
             s == Nth(local.load.from, i)
             x == [local.load EXCEPT !.i = i, !.idx = j]
             m == [local EXCEPT !.load = x]
  <2>1. MvCall([local EXCEPT !.load.i = i, !.load.idx = j], s, j, "LoadPass")
    BY <1>4 DEF LoadMove
  <2>2. i \in Nat /\ j \in Nat
    BY <1>4, StepsOK DEF LoadMove, Running
  <2> HIDE DEF i, j, s
  <2>3. [local EXCEPT !.load.i = i, !.load.idx = j] = m
    BY <1>1 DEF Local, LoadFrame
  <2>4. x \in LoadFrame
    BY <1>1, <2>2 DEF LoadFrame
  <2> HIDE DEF x
  <2>5. m \in Local /\ NewFirst(m)
    BY <2>4, LoadFrameIs
  <2> HIDE DEF m
  <2> QED BY <2>1, <2>3, <2>5, MvCallFree
<1>5. CASE LoadErrHdr(ok) \/ LoadPassEnd
  BY <1>1, <1>5, GotoOK DEF LoadErrHdr, LoadPassEnd, FreePcs
<1>6. CASE LoadCollect
  <2>1. GcCall(local, N * SecSize, "LoadScan") \/ Return("Ok")
    BY <1>6 DEF LoadCollect
  <2> QED BY <1>1, <2>1, GcCallFree, ReturnOK
<1> QED BY <1>2, <1>3, <1>4, <1>5, <1>6

\* format_sector: for set_default the sectors are formatted one after the other.
LEMMA FmtDefaults ==
  ASSUME Running, ~failing', NEW ok \in BOOLEAN, FmtErase(ok) \/ FmtHdr(ok)
  PROVE  DefaultsOK'
<1> DEFINE s == local.fmt.sec
           m == [local EXCEPT !.fmt = NoLocal.fmt]
<1>1. /\ local \in Local /\ NewFirst(local) /\ local.fmt \in FmtFrame /\ s \in Sector
      /\ FlashOK /\ local.def.i \in Nat /\ pc \in {"FmtErase", "FmtHdr"}
  BY RunningIs, FrameTypes DEF FmtFrame, FmtErase, FmtHdr
<1>2. ok = TRUE
  BY DEF FmtErase, FmtHdr, Program, Call
<1>3. m.gc = local.gc /\ m.new = local.new /\ m.def = local.def
  BY <1>1, FrameChange
<1>4. \/ pc = "FmtErase" /\ pc' = "FmtHdr" /\ local' = local
      \/ /\ pc = "FmtHdr" /\ Program(s, Formatted, TRUE)
         /\ pc' = local.fmt.ret /\ local' = m
  <2> HIDE DEF m
  <2> QED BY <1>2 DEF FmtErase, FmtHdr, FmtReturn, Goto, m
<1>5. \A t \in Sector : t # s => flash'[t] = flash[t]
  BY <1>1, ProgramFlash DEF FmtErase, FmtHdr
<1> HIDE DEF m
<1>6. local'.gc = local.gc /\ local'.new = local.new /\ local'.def = local.def
      /\ NewFirst(local')
  BY <1>1, <1>3, <1>4 DEF NewFirst
<1>7. CASE local.fmt.ret = "GcFormatted"
  BY <1>4, <1>6, <1>7, ElsewhereOK
     DEF InDefault, WipeFmt, DefNew, DefPut, HeaderWalk, PutPcs
<1>8. CASE local.fmt.ret = "LoadHdr"
  <2>1. local.gc.ret # "NewKv"
    BY <1>1, <1>8 DEF Running, DefaultState, HeaderWalk
  <2>2. ~InDefault(pc', local')
    BY <1>4, <1>8 DEF InDefault, WipeFmt, DefNew, DefPut, PutPcs
  <2> QED BY <1>6, <2>1, <2>2 DEF DefaultsOK, DefaultState, InDefault
<1>9. CASE local.fmt.ret = "DefFormat"
  <2>1. WipeFmt(pc, local)
    BY <1>1, <1>9 DEF WipeFmt
  <2>2. local.gc.ret # "NewKv" /\ s = local.def.i - 1 /\ Wiped(local.def.i - 1)
    BY <2>1 DEF Running, DefaultState, InDefault
  <2>3. \A t \in Sector : t < s => flash'[t] = Formatted
    BY <1>1, <1>5, <2>2 DEF Wiped, Sector
  <2>4. CASE pc = "FmtErase"
    <3>1. (local.fmt.sec = local.def.i - 1 /\ Wiped(local.def.i - 1))'
      BY <1>4, <2>2, <2>3, <2>4 DEF Wiped
    <3> QED BY <1>4, <1>6, <2>2, <2>4, <3>1
            DEF DefaultsOK, DefaultState, InDefault, WipeFmt, DefNew, DefPut, PutPcs
  <2>5. CASE pc = "FmtHdr"
    <3>1. flash'[s] = Formatted
      BY <1>1, <1>4, <2>5, ProgramFlash
    <3>2. Wiped(local.def.i)'
      <4>1. \A t \in Sector : t < local.def.i => t < s \/ t = s
        BY <1>1, <2>2 DEF Sector
      <4> QED BY <1>6, <2>3, <3>1, <4>1 DEF Wiped
    <3> QED BY <1>4, <1>6, <1>9, <2>2, <2>5, <3>2
            DEF DefaultsOK, DefaultState, InDefault, WipeFmt, DefNew, DefPut, PutPcs
  <2> QED BY <1>1, <2>4, <2>5
<1> QED BY <1>1, <1>7, <1>8, <1>9 DEF FmtFrame

\* The format loop of set_default ends when every sector is formatted.
LEMMA DefFormatDefaults == ASSUME Running, DefFormat PROVE DefaultsOK'
<1>1. /\ local \in Local /\ NewFirst(local) /\ local.def \in DefFrame /\ local.def.i \in Nat
      /\ pc = "DefFormat" /\ flash' = flash
  BY RunningIs, FrameTypes DEF DefFormat, NoCall
<1>2. local.gc.ret # "NewKv" /\ Wiped(local.def.i)
  BY <1>1 DEF Running, DefaultState, InDefault
<1>3. CASE ToFormat(local.def.i)
  <2> DEFINE x == [local.def EXCEPT !.i = @ + 1]
             l == [local EXCEPT !.def = x]
  <2>1. FmtCall([local EXCEPT !.def.i = @ + 1], local.def.i, "DefFormat")
    BY <1>3 DEF DefFormat
  <2>2. [local EXCEPT !.def.i = @ + 1] = l
    BY <1>1 DEF Local, DefFrame
  <2>3. x \in DefFrame /\ x.i = local.def.i + 1
    BY <1>1 DEF DefFrame
  <2> HIDE DEF x
  <2>4. l \in Local /\ l.gc = local.gc /\ l.new = local.new /\ l.def = x
    BY <1>1, <2>3 DEF Local
  <2> HIDE DEF l
  <2>5. /\ pc' = "FmtErase" /\ local'.fmt.sec = local.def.i /\ local'.fmt.ret = "DefFormat"
        /\ local'.gc = local.gc /\ local'.new = local.new /\ local'.def.i = local.def.i + 1
    BY <2>1, <2>2, <2>3, <2>4, FmtCallFrames
  <2>6. local'.def.i - 1 = local.def.i
    BY <1>1, <2>5
  <2>7. (local.fmt.sec = local.def.i - 1 /\ Wiped(local.def.i - 1))'
    BY <1>1, <1>2, <2>5, <2>6 DEF Wiped
  <2> QED BY <1>1, <1>2, <2>5, <2>7
          DEF DefaultsOK, DefaultState, InDefault, WipeFmt, DefNew, DefPut, PutPcs, NewFirst
<1>4. CASE ~ToFormat(local.def.i)
  <2> DEFINE x == [local.def EXCEPT !.i = 0]
             m == [local EXCEPT !.def = x]
  <2>1. Goto("DefKv", [local EXCEPT !.def.i = 0])
    BY <1>4 DEF DefFormat
  <2>2. [local EXCEPT !.def.i = 0] = m
    BY <1>1 DEF Local, DefFrame
  <2>3. x.i = 0
    BY <1>1 DEF DefFrame
  <2> HIDE DEF x
  <2>4. m.gc = local.gc /\ m.new = local.new /\ m.def = x
    BY <1>1, FrameChange
  <2> HIDE DEF m
  <2>5. pc' = "DefKv" /\ local'.gc = local.gc /\ local'.new = local.new /\ local'.def.i = 0
    BY <2>1, <2>2, <2>3, <2>4 DEF Goto
  <2>6. Wiped(N)'
    <3>1. \A t \in Sector : t < local.def.i
      BY <1>1, <1>4, GeometryType DEF ToFormat, Sector
    <3> QED BY <1>1, <1>2, <3>1 DEF Wiped
  <2>7. \E e \in Sector : FirstOnly(e, local.def.i)'
    BY <2>5, <2>6, ZeroSector DEF FirstOnly
  <2>8. 0 <= Len(Defaults)
    BY FitIs DEF Running
  <2> QED BY <1>1, <1>2, <2>5, <2>7, <2>8
          DEF DefaultsOK, DefaultState, InDefault, WipeFmt, DefNew, DefPut, PutPcs, NewFirst
<1> QED BY <1>3, <1>4

\* None of the defaults is refused.
LEMMA DefKvDefaults == ASSUME Running, DefKv PROVE DefaultsOK'
<1> DEFINE i == local.def.i
           kv == Defaults[i+1]
           x == [key |-> kv.key, val |-> kv.val, tried |-> FALSE, ret |-> "DefKv"]
           m == [local EXCEPT !.new = x]
<1>1. /\ local \in Local /\ NewFirst(local) /\ i \in Nat /\ pc = "DefKv" /\ i < Len(Defaults)
      /\ flash' = flash
  BY RunningIs DEF DefKv, NoCall
<1>2. local.gc.ret # "NewKv" /\ \E e \in Sector : FirstOnly(e, i)
  BY <1>1 DEF Running, DefaultState, InDefault
<1>3. KeyLen[kv.key] <= KV_NAME_MAX /\ kv_len(kv.key, kv.val) <= SecSize - SECTOR_HDR_DATA_SIZE
      /\ KeyLen[kv.key] \in Nat
  <2>1. i + 1 \in 1 .. Len(Defaults) /\ (i + 1) - 1 = i /\ i \in 0 .. Len(Defaults)
    BY <1>1, FitIs DEF Running
  <2>2. /\ DefLen(i + 1) \in Nat /\ DefAddr[i + 1] = DefAddr[i] + DefLen(i + 1)
        /\ DefAddr[i + 1] + SEC_REMAIN_THRESHOLD < SecSize /\ DefAddr[i] \in Nat
        /\ KeyLen[kv.key] <= KV_NAME_MAX /\ kv.key \in Keys
    BY <2>1, FitIs DEF Running
  <2>3. DefLen(i + 1) <= SecSize - SECTOR_HDR_DATA_SIZE
    BY <2>2, GeometryType DEF SEC_REMAIN_THRESHOLD, KV_HDR_DATA_SIZE, KV_NAME_MAX, SECTOR_HDR_DATA_SIZE
  <2> QED BY <2>2, <2>3, LengthAssumption DEF DefLen
<1>4. pc' = "NewKv" /\ local' = m
  <2>1. ~(KeyLen[kv.key] > KV_NAME_MAX \/ kv_len(kv.key, kv.val) > SecSize - SECTOR_HDR_DATA_SIZE)
    <3>1. kv_len(kv.key, kv.val) \in Int /\ SecSize - SECTOR_HDR_DATA_SIZE \in Int
      <4>1. i + 1 \in 1 .. Len(Defaults)
        BY <1>1, FitIs DEF Running
      <4> QED BY <4>1, FitIs, GeometryType DEF Running, DefLen, SECTOR_HDR_DATA_SIZE
    <3> QED BY <1>3, <3>1 DEF KV_NAME_MAX
  <2>2. NewCall(local, kv.key, kv.val, "DefKv")
    BY <2>1 DEF DefKv
  <2> QED BY <2>2 DEF NewCall, Goto
<1>5. m.gc = local.gc /\ m.new = x /\ m.def = local.def
  BY <1>1, FrameChange
<1> HIDE DEF m
<1>6. IsNext(local.new)'
  BY <1>1, <1>4, <1>5 DEF IsNext
<1>7. (\E e \in Sector : FirstOnly(e, local.def.i))'
  BY <1>1, <1>2, <1>4, <1>5 DEF FirstOnly, Wiped, OnlyIn
<1> QED BY <1>1, <1>2, <1>4, <1>5, <1>6, <1>7
        DEF DefaultsOK, DefaultState, InDefault, WipeFmt, DefNew, DefPut, PutPcs, NewFirst, HeaderWalk

LEMMA DefEndDefaults == ASSUME Running, DefEnd PROVE DefaultsOK'
<1>1. local \in Local /\ NewFirst(local)
  BY RunningIs
<1> QED BY <1>1, ReturnOK, LoadGcCallFree DEF DefEnd

\* The end of the nodes that are written, where the next one goes.
LEMMA DefNodesIs ==
  ASSUME DefaultsFit, NEW i \in 0 .. Len(Defaults)
  PROVE  /\ DefNodes(i) \in Seq(KvNode) /\ Len(DefNodes(i)) = i
         /\ \A j \in 1 .. i : DefNodes(i)[j] = DefNode(j)
         /\ \A sec : sec.kvs = DefNodes(i) /\ (i = 0 => sec.store # "Using") =>
               empty_kv(sec) = DefAddr[i]
<1>1. \A j \in 1 .. i : j \in 1 .. Len(Defaults) /\ j - 1 \in 0 .. Len(Defaults)
  BY FitIs
<1>2. \A j \in 1 .. i : DefNode(j) \in KvNode
  <2> SUFFICES ASSUME NEW j \in 1 .. i PROVE DefNode(j) \in KvNode
    OBVIOUS
  <2>1. /\ DefAddr[j-1] \in Nat /\ DefLen(j) \in Nat
        /\ Defaults[j].key \in Keys /\ Defaults[j].val \in Values
    BY <1>1, FitIs
  <2> QED BY <2>1 DEF DefNode, NodePart, KvNode, KvStatus
<1>3. i \in Nat
  BY FitIs
<1>4. /\ DefNodes(i) \in Seq(KvNode) /\ Len(DefNodes(i)) = i /\ DOMAIN DefNodes(i) = 1 .. i
      /\ \A j \in 1 .. i : DefNodes(i)[j] = DefNode(j)
  <2>1. DefNodes(i) = [j \in 1 .. i |-> DefNode(j)]
    BY DEF DefNodes
  <2> HIDE DEF DefNodes
  <2>2. DefNodes(i) \in [1 .. i -> KvNode]
    BY <1>2, <2>1
  <2>3. DefNodes(i) \in Seq(KvNode)
    BY <1>3, <2>2
  <2>4. DOMAIN DefNodes(i) = 1 .. i
    BY <2>2
  <2>5. Len(DefNodes(i)) = i
    BY <1>3, <2>3, <2>4
  <2> QED BY <2>1, <2>3, <2>4, <2>5
<1>5. ASSUME NEW sec, sec.kvs = DefNodes(i), i = 0 => sec.store # "Using"
      PROVE  empty_kv(sec) = DefAddr[i]
  <2>1. CASE i = 0
    <3>1. sec.kvs = <<>>
      BY <1>4, <1>5, <2>1
    <3> QED BY <1>5, <2>1, <3>1, FitIs DEF empty_kv
  <2>2. CASE i # 0
    <3>1. i \in 1 .. i /\ i \in 1 .. Len(Defaults)
      BY <1>1, <1>3, <2>2
    <3>2. sec.kvs # <<>> /\ LastNode(sec) = DefNode(i)
      <4>1. sec.kvs[Len(sec.kvs)] = DefNode(i) /\ DOMAIN sec.kvs # {}
        BY <1>4, <1>5, <3>1
      <4>2. sec.kvs # <<>>
        BY <4>1
      <4> QED BY <4>1, <4>2 DEF LastNode
    <3>3. DefNode(i).addr = DefAddr[i-1] /\ DefNode(i).len = DefLen(i)
      BY DEF DefNode, NodePart
    <3>4. DefAddr[i] = DefAddr[i-1] + DefLen(i)
      BY <3>1, FitIs
    <3> QED BY <3>2, <3>3, <3>4 DEF empty_kv
  <2> QED BY <2>1, <2>2
<1> QED BY <1>4, <1>5

\* The room that is left for the next one.
LEMMA NextFits ==
  ASSUME DefaultsFit, NEW i \in Nat, i < Len(Defaults)
  PROVE  /\ i \in 0 .. Len(Defaults) /\ i + 1 \in 0 .. Len(Defaults) /\ i + 1 \in 1 .. Len(Defaults)
         /\ DefLen(i+1) \in Nat /\ SecSize - DefAddr[i] > DefLen(i+1) + SEC_REMAIN_THRESHOLD
<1>1. i \in 0 .. Len(Defaults) /\ i + 1 \in 0 .. Len(Defaults) /\ i + 1 \in 1 .. Len(Defaults)
      /\ (i + 1) - 1 = i
  BY FitIs
<1>2. /\ DefLen(i+1) \in Nat /\ DefAddr[i+1] = DefAddr[i] + DefLen(i+1)
      /\ DefAddr[i+1] + SEC_REMAIN_THRESHOLD < SecSize /\ DefAddr[i] \in Nat
  BY <1>1, FitIs
<1>3. SecSize - DefAddr[i] > DefLen(i+1) + SEC_REMAIN_THRESHOLD
  BY <1>2, GeometryType DEF SEC_REMAIN_THRESHOLD, KV_HDR_DATA_SIZE, KV_NAME_MAX
<1> QED BY <1>1, <1>2, <1>3

\* alloc_kv finds the sector that was begun, or the first empty one.
LEMMA AllocDefault ==
  ASSUME Running, NEW e \in Sector, NEW i \in Nat, i < Len(Defaults), FirstOnly(e, i)
  PROVE  LET a == alloc_kv(flash, oldest, FALSE, DefLen(i+1))
         IN  a.found /\ a.sec \in Sector /\ FirstOnly(a.sec, i) /\ empty_kv(flash[a.sec]) = DefAddr[i]
<1> DEFINE len == DefLen(i+1)
           using == {s \in Sector : HasRoom(flash[s], "Using", len, FALSE)}
           empty == {s \in Sector : HasRoom(flash[s], "Empty", len, FALSE)}
           spare == MayTakeEmpty(flash, FALSE)
           from  == IF using # {} THEN using
                    ELSE IF Empties(flash) # {} /\ spare THEN empty ELSE {}
           a == alloc_kv(flash, oldest, FALSE, len)
<1>1. /\ a.found = (from # {})
      /\ a.sec = IF from # {} THEN FirstMet(oldest, from) ELSE 0
  BY DEF alloc_kv
<1>2. oldest \in Sector /\ from \subseteq Sector
  BY RunningIs
<1>3. i \in 0 .. Len(Defaults) /\ len \in Nat /\ SecSize - DefAddr[i] > len + SEC_REMAIN_THRESHOLD
  BY NextFits DEF Running
<1>4. CASE i = 0
  <2>1. \A s \in Sector : flash[s] = Formatted
    <3>1. Wiped(N) /\ \A s \in Sector : s < N
      BY <1>4, GeometryType DEF FirstOnly, Sector
    <3> QED BY <3>1 DEF Wiped
  <2>2. Formatted.kvs = DefNodes(i) /\ Formatted.store = "Empty" /\ Formatted.ok
        /\ Formatted.dirty = "False"
    <3>1. DefNodes(i) \in Seq(KvNode) /\ Len(DefNodes(i)) = 0
      BY <1>3, <1>4, DefNodesIs DEF Running
    <3>2. DefNodes(i) = <<>>
      BY <3>1
    <3> QED BY <3>2 DEF Formatted
  <2>3. empty_kv(Formatted) = DefAddr[i]
    BY <1>3, <2>2, DefNodesIs DEF Running
  <2>4. Fits(Formatted, len)
    BY <1>3, <2>2, <2>3 DEF Fits, remain
  <2>5. using = {} /\ empty = Sector /\ Empties(flash) = Sector
    BY <2>1, <2>2, <2>4 DEF HasRoom, Empties
  <2>6. spare
    <3>1. Cardinality(Sector) = N
      <4>1. 0 \in Int /\ N - 1 \in Int /\ N = (N - 1) - 0 + 1 /\ ~(0 > N - 1)
        BY GeometryType
      <4> QED BY <4>1, FS_Interval DEF Sector
    <3> QED BY <2>5, <3>1, GeometryType DEF MayTakeEmpty, GC_EMPTY_SEC_THRESHOLD
  <2>7. from = Sector /\ Sector # {}
    BY <2>5, <2>6, ZeroSector
  <2> HIDE DEF from, a
  <2>8. a.found /\ a.sec \in Sector
    BY <1>1, <1>2, <2>7, FirstMetIn
  <2> QED BY <1>4, <2>1, <2>3, <2>8 DEF FirstOnly, Wiped, a
<1>5. CASE i # 0
  <2>1. OnlyIn(e, DefNodes(i))
    BY <1>5 DEF FirstOnly
  <2>2. /\ flash[e] = [ok |-> TRUE, store |-> "Using", dirty |-> "False", kvs |-> DefNodes(i)]
        /\ \A s \in Sector : s # e => flash[s] = Formatted
    BY <2>1 DEF OnlyIn
  <2>3. /\ flash[e].ok /\ flash[e].store = "Using" /\ flash[e].dirty = "False"
        /\ flash[e].kvs = DefNodes(i)
    BY <2>2
  <2>4. empty_kv(flash[e]) = DefAddr[i]
    BY <1>3, <1>5, <2>3, DefNodesIs DEF Running
  <2>5. Fits(flash[e], len)
    BY <1>3, <2>3, <2>4 DEF Fits, remain
  <2>6. using = {e}
    <3>1. HasRoom(flash[e], "Using", len, FALSE)
      BY <2>3, <2>5 DEF HasRoom
    <3>2. \A s \in Sector : s # e => ~HasRoom(flash[s], "Using", len, FALSE)
      BY <2>2 DEF HasRoom, Formatted
    <3> QED BY <3>1, <3>2
  <2>7. from = {e}
    BY <2>6
  <2> HIDE DEF from, a
  <2>8. a.found /\ a.sec = e
    BY <1>1, <1>2, <2>7, FirstMetIn
  <2> QED BY <2>4, <2>8 DEF a
<1> QED BY <1>4, <1>5

\* new_kv finds room for each of the defaults, and never collects for one.
LEMMA NewKvDefaults == ASSUME Running, NewKv PROVE DefaultsOK'
<1>1. /\ local \in Local /\ NewFirst(local) /\ local.new \in NewFrame /\ pc = "NewKv"
      /\ flash' = flash
  BY RunningIs, FrameTypes DEF NewKv, NoCall
<1>2. PICK a : a = alloc_kv(flash, oldest, gcRequest, NewKvLen)
  OBVIOUS
<1> DEFINE put == [sec |-> a.sec, addr |-> empty_kv(flash[a.sec]), key |-> local.new.key,
                   val |-> local.new.val, full |-> FALSE,
                   ret |-> IF local.new.ret = "SetFind" THEN "SetEnd" ELSE "DefKv"]
           m == [local EXCEPT !.put = put]
<1>3. m.put = put /\ m.gc = local.gc /\ m.new = local.new /\ m.def = local.def
  BY <1>1, FrameChange
<1>4. CASE local.new.ret = "SetFind"
  <2> DEFINE x == [local.new EXCEPT !.tried = TRUE]
             l == [local EXCEPT !.new = x]
  <2>1. \/ Goto("SetFind", m)
        \/ GcCall([local EXCEPT !.new.tried = TRUE], NewKvLen, "NewKv")
        \/ \E r : Return(r)
    <3> HIDE DEF m
    <3> QED BY <1>2, <1>4 DEF NewKv, NewKvFound, NewKvFailed, m
  <2>2. [local EXCEPT !.new.tried = TRUE] = l
    BY <1>1 DEF Local, NewFrame
  <2>3. x \in NewFrame /\ x.ret = "SetFind"
    BY <1>1, <1>4 DEF NewFrame
  <2> HIDE DEF x
  <2>4. l \in Local /\ l.new = x
    BY <1>1, <2>3 DEF Local
  <2> HIDE DEF l, m
  <2>5. NewFirst(m)
    BY <1>1, <1>3 DEF NewFirst
  <2> QED BY <2>1, <2>2, <2>3, <2>4, <2>5, GotoOK, GcCallFree, ReturnOK DEF FreePcs
<1>5. CASE local.new.ret = "DefKv"
  <2> DEFINE i == local.def.i
  <2>1. DefNew(pc, local)
    BY <1>1, <1>5 DEF DefNew
  <2>2. IsNext(local.new) /\ local.gc.ret # "NewKv"
    BY <2>1 DEF Running, DefaultState, InDefault
  <2>3. PICK e \in Sector : FirstOnly(e, i)
    BY <2>1 DEF Running, DefaultState
  <2>4. gcRequest = FALSE
    BY <1>1, SettledLabels, SpareNow DEF Running
  <2>5. i \in Nat /\ i < Len(Defaults) /\ NewKvLen = DefLen(i+1)
    BY <2>2, RunningIs DEF IsNext, NewKvLen, DefLen
  <2>6. a.found /\ FirstOnly(a.sec, i) /\ empty_kv(flash[a.sec]) = DefAddr[i]
    BY <1>2, <2>3, <2>4, <2>5, AllocDefault
  <2>7. pc' = "PutSec" /\ local' = m
    <3> HIDE DEF m
    <3> QED BY <1>2, <1>5, <2>6 DEF NewKv, NewKvFound, Goto, m
  <2> HIDE DEF m
  <2>8. /\ local'.put.ret = "DefKv" /\ local'.put.sec = a.sec /\ local'.put.addr = DefAddr[i]
        /\ local'.put.key = local.new.key /\ local'.put.val = local.new.val /\ local'.def.i = i
    BY <1>3, <1>5, <2>6, <2>7
  <2>9. FirstOnly(local.put.sec, local.def.i)'
    BY <1>1, <2>6, <2>8 DEF FirstOnly, Wiped, OnlyIn
  <2>10. IsNext(local.put)'
    BY <2>2, <2>8 DEF IsNext
  <2>11. PutPart(local.put, local.def.i)'
    BY <2>7, <2>8, <2>9 DEF PutPart
  <2> QED BY <1>1, <1>3, <2>2, <2>7, <2>10, <2>11
          DEF DefaultsOK, DefaultState, InDefault, WipeFmt, DefNew, DefPut, NewFirst, HeaderWalk
<1> QED BY <1>1, <1>4, <1>5 DEF NewFrame

\* The write of another node.
LEMMA PutOther ==
  ASSUME Running, local.put.ret # "DefKv", NEW ok \in BOOLEAN,
         PutSec(ok) \/ PutStatus(ok) \/ PutHdr(ok) \/ PutBody(ok) \/ PutCommit(ok)
  PROVE  DefaultsOK'
<1>1. local \in Local /\ NewFirst(local) /\ local.put \in PutFrame
  BY RunningIs, FrameTypes
<1>2. CASE \E x \in BOOLEAN : PutReturn(x)
  <2>1. PICK x \in BOOLEAN : PutReturn(x)
    BY <1>2
  <2> DEFINE l == [local EXCEPT !.put = NoLocal.put]
             d == [l EXCEPT !.job.done = x]
             v == [l EXCEPT !.mv.ok = x]
  <2>2. l \in Local /\ l.gc = local.gc /\ l.new = local.new
    BY <1>1, NoLocalType, FrameTypes, FrameChange DEF Local
  <2>3. \/ \E p, r : DelCall(d, p, TRUE, r)
        \/ Goto("SetEnd", d)
        \/ \E p, r : DelCall(v, p, TRUE, r)
    <3> HIDE DEF l, d, v
    <3> QED BY <1>1, <2>1 DEF PutReturn, l, d, v, PutFrame
  <2> HIDE DEF l
  <2>4. d \in Local /\ d.gc = local.gc /\ d.new = local.new
    BY <2>2 DEF Local, Job
  <2>5. v \in Local /\ v.gc = local.gc /\ v.new = local.new
    BY <2>2 DEF Local, MvFrame
  <2> HIDE DEF d, v
  <2>6. NewFirst(d) /\ NewFirst(v)
    BY <1>1, <2>4, <2>5 DEF NewFirst
  <2> QED BY <2>3, <2>4, <2>5, <2>6, DelCallFree, GotoOK DEF FreePcs
<1>3. CASE \E f : pc' \in PutPcs /\ local' = [local EXCEPT !.put.full = f]
  <2>1. PICK f : pc' \in PutPcs /\ local' = [local EXCEPT !.put.full = f]
    BY <1>3
  <2>2. local'.put.ret = local.put.ret /\ local'.gc = local.gc /\ local'.new = local.new
    BY <1>1, <2>1 DEF Local, PutFrame
  <2>3. ~InDefault(pc', local') /\ ~HeaderWalk(pc', local') /\ NewFirst(local')
    BY <1>1, <2>1, <2>2 DEF InDefault, WipeFmt, DefNew, DefPut, HeaderWalk, NewFirst, PutPcs
  <2> QED BY <2>3, ElsewhereOK
<1>4. CASE pc' \in PutPcs /\ local' = local
  <2>1. ~InDefault(pc', local') /\ ~HeaderWalk(pc', local') /\ NewFirst(local')
    BY <1>1, <1>4 DEF InDefault, WipeFmt, DefNew, DefPut, HeaderWalk, NewFirst, PutPcs
  <2> QED BY <2>1, ElsewhereOK
<1>5. CASE PutSec(ok)
  <2>1. /\ \A f : Goto("PutStatus", [local EXCEPT !.put.full = f]) =>
                     pc' \in PutPcs /\ local' = [local EXCEPT !.put.full = f]
        /\ Goto("PutStatus", local) => pc' \in PutPcs /\ local' = local
    BY DEF Goto, PutPcs
  <2>2. \/ \E f : Goto("PutStatus", [local EXCEPT !.put.full = f])
        \/ PutReturn(FALSE)
        \/ Goto("PutStatus", local)
    BY <1>5 DEF PutSec, PutNext
  <2> QED BY <1>2, <1>3, <1>4, <2>1, <2>2
<1>6. CASE PutStatus(ok) \/ PutHdr(ok) \/ PutBody(ok)
  <2>1. PutReturn(FALSE) \/ (pc' \in PutPcs /\ local' = local)
    BY <1>6 DEF PutStatus, PutHdr, PutBody, PutNext, Goto, PutPcs
  <2> QED BY <1>2, <1>4, <2>1
<1>7. CASE PutCommit(ok)
  BY <1>2, <1>7 DEF PutCommit
<1> QED BY <1>5, <1>6, <1>7

\* A field of a sector image is written.
LEMMA ImageWrite ==
  ASSUME NEW r, NEW a, NEW b, NEW c, NEW d, NEW x,
         r = [ok |-> a, store |-> b, dirty |-> c, kvs |-> d]
  PROVE  /\ [r EXCEPT !.kvs = x] = [ok |-> a, store |-> b, dirty |-> c, kvs |-> x]
         /\ [r EXCEPT !.store = x] = [ok |-> a, store |-> x, dirty |-> c, kvs |-> d]
BY SMT

\* A write to the one sector that is in use.
LEMMA OnlyProgram ==
  ASSUME FlashOK, NEW e \in Sector, NEW kvs, OnlyIn(e, kvs), NEW new,
         Program(e, [flash[e] EXCEPT !.kvs = new], TRUE)
  PROVE  OnlyIn(e, new)'
<1> DEFINE image == [flash[e] EXCEPT !.kvs = new]
<1>1. /\ flash[e] = [ok |-> TRUE, store |-> "Using", dirty |-> "False", kvs |-> kvs]
      /\ \A s \in Sector : s # e => flash[s] = Formatted
  BY DEF OnlyIn
<1>2. image = [ok |-> TRUE, store |-> "Using", dirty |-> "False", kvs |-> new]
  <2>1. flash[e] = [ok |-> TRUE, store |-> "Using", dirty |-> "False", kvs |-> kvs]
    BY <1>1
  <2>2. PICK x, y, z : x = TRUE /\ y = "Using" /\ z = "False"
    OBVIOUS
  <2>3. flash[e] = [ok |-> x, store |-> y, dirty |-> z, kvs |-> kvs]
    BY <2>1, <2>2
  <2>4. image = [ok |-> x, store |-> y, dirty |-> z, kvs |-> new]
    BY <2>3, ImageWrite
  <2> HIDE DEF image
  <2> QED BY <2>2, <2>4
<1>3. flash' = [flash EXCEPT ![e] = image]
  BY DEF Program
<1> HIDE DEF image
<1>4. DOMAIN flash = Sector
  BY DEF FlashOK, Flash
<1>5. flash' = [s \in Sector |-> IF s # e THEN Formatted ELSE image]
  BY <1>1, <1>3, <1>4
<1> QED BY <1>2, <1>5 DEF OnlyIn

\* The node of which the writes begin: its sector is marked, ...
LEMMA PutSecDefaults ==
  ASSUME Running, ~failing', local.put.ret = "DefKv", NEW ok \in BOOLEAN, PutSec(ok)
  PROVE  DefaultsOK'
<1> DEFINE i == local.def.i
           s == local.put.sec
           sec == flash[s]
<1>1. /\ local \in Local /\ NewFirst(local) /\ local.put \in PutFrame /\ s \in Sector
      /\ FlashOK /\ i \in Nat /\ pc = "PutSec" /\ DefPut(pc, local)
  BY RunningIs, FrameTypes DEF PutFrame, PutSec, DefPut, PutPcs
<1>2. /\ local.gc.ret # "NewKv" /\ IsNext(local.put) /\ local.put.addr = DefAddr[i]
      /\ FirstOnly(s, i)
  BY <1>1 DEF Running, DefaultState, InDefault, PutPart
<1>3. /\ ok = TRUE /\ pc' = "PutStatus"
      /\ \/ local' = local /\ sec.store = "Using" /\ flash' = flash
         \/ /\ local' = [local EXCEPT !.put.full = FALSE]
            /\ sec.store = "Empty" /\ Program(s, [sec EXCEPT !.store = "Using"], TRUE)
  <2>1. ok = TRUE
    BY DEF PutSec, Program, Call
  <2>2. ~(sec.store = "Using" /\ remain(sec) - PutLen < SEC_REMAIN_THRESHOLD)
    <3> SUFFICES ASSUME sec.store = "Using"
                 PROVE  ~(remain(sec) - PutLen < SEC_REMAIN_THRESHOLD)
      OBVIOUS
    <3>0. i < Len(Defaults) /\ i \in 0 .. Len(Defaults)
      BY <1>1, <1>2, FitIs DEF IsNext, Running
    <3>1. sec.kvs = DefNodes(i) /\ sec.ok /\ i # 0
      <4>1. CASE i = 0
        <5>1. Wiped(N) /\ s < N
          BY <1>1, <1>2, <4>1, GeometryType DEF FirstOnly, Sector
        <5>2. sec = Formatted
          BY <1>1, <5>1 DEF Wiped
        <5> QED BY <5>2 DEF Formatted
      <4>2. CASE i # 0
        BY <1>1, <1>2, <4>2 DEF FirstOnly, OnlyIn
      <4> QED BY <4>1, <4>2
    <3>2. empty_kv(sec) = DefAddr[i]
      BY <3>0, <3>1, DefNodesIs DEF Running
    <3>3. PutLen = DefLen(i+1)
      BY <1>2 DEF IsNext, PutLen, DefLen
    <3>4. remain(sec) = SecSize - DefAddr[i]
      BY <3>1, <3>2 DEF remain
    <3>5. /\ DefLen(i+1) \in Nat /\ SecSize - DefAddr[i] > DefLen(i+1) + SEC_REMAIN_THRESHOLD
          /\ DefAddr[i] \in Nat
      BY <1>1, <3>0, NextFits, FitIs DEF Running
    <3> QED BY <3>3, <3>4, <3>5, GeometryType DEF SEC_REMAIN_THRESHOLD, KV_HDR_DATA_SIZE, KV_NAME_MAX
  <2>3. sec.store \in {"Empty", "Using"}
    BY PutSecIs DEF Running
  <2>4. CASE sec.store = "Empty"
    BY <2>1, <2>4 DEF PutSec, Goto
  <2>5. CASE sec.store = "Using"
    BY <2>1, <2>2, <2>5 DEF PutSec, PutNext, Goto, NoCall
  <2> QED BY <2>1, <2>3, <2>4, <2>5
<1>4. /\ local'.put.sec = s /\ local'.put.ret = "DefKv" /\ local'.put.addr = local.put.addr
      /\ local'.put.key = local.put.key /\ local'.put.val = local.put.val
      /\ local'.gc = local.gc /\ local'.new = local.new /\ local'.def = local.def
  <2>1. CASE local' = local
    BY <1>2, <2>1, <1>1, <1>3 DEF DefPut
  <2>2. CASE local' = [local EXCEPT !.put.full = FALSE]
    BY <1>1, <2>2 DEF Local, PutFrame
  <2> QED BY <1>3, <2>1, <2>2
<1>5. OnlyIn(s, DefNodes(i))'
  <2>0. i \in 0 .. Len(Defaults) /\ Len(Defaults) \in Nat
    BY <1>1, <1>2, FitIs DEF IsNext, Running
  <2>1. CASE i = 0
    <3>1. Wiped(N) /\ \A t \in Sector : t < N
      BY <1>2, <2>1, GeometryType DEF FirstOnly, Sector
    <3>2. \A t \in Sector : flash[t] = Formatted
      BY <3>1 DEF Wiped
    <3>3. sec.store = "Empty"
      BY <1>1, <3>2 DEF Formatted
    <3>4. flash' = [flash EXCEPT ![s] = [Formatted EXCEPT !.store = "Using"]]
      BY <1>1, <1>3, <3>2, <3>3 DEF Program
    <3>5. DefNodes(i) = <<>>
      <4>1. DefNodes(i) \in Seq(KvNode) /\ Len(DefNodes(i)) = 0
        BY <2>0, <2>1, DefNodesIs DEF Running
      <4> QED BY <4>1
    <3>6. [Formatted EXCEPT !.store = "Using"]
            = [ok |-> TRUE, store |-> "Using", dirty |-> "False", kvs |-> DefNodes(i)]
      <4>1. [Formatted EXCEPT !.store = "Using"]
              = [ok |-> TRUE, store |-> "Using", dirty |-> "False", kvs |-> <<>>]
        <5>1. PICK x, y, z, u, v : x = TRUE /\ y = "Empty" /\ z = "False" /\ u = <<>> /\ v = "Using"
          OBVIOUS
        <5>2. Formatted = [ok |-> x, store |-> y, dirty |-> z, kvs |-> u]
          BY <5>1 DEF Formatted
        <5>3. [Formatted EXCEPT !.store = v] = [ok |-> x, store |-> v, dirty |-> z, kvs |-> u]
          BY <5>2, ImageWrite
        <5> QED BY <5>1, <5>3
      <4> QED BY <3>5, <4>1
    <3>7. DOMAIN flash = Sector
      BY <1>1 DEF FlashOK, Flash
    <3> DEFINE new == [Formatted EXCEPT !.store = "Using"]
    <3>8. flash' = [t \in Sector |-> IF t # s THEN Formatted ELSE new]
      <4> HIDE DEF new
      <4> QED BY <3>2, <3>4, <3>7 DEF new
    <3>9. local'.def.i = i /\ local'.put.sec = s
      BY <1>4
    <3> QED BY <3>6, <3>8, <3>9 DEF OnlyIn, DefNodes
  <2>2. CASE i # 0
    <3>1. OnlyIn(s, DefNodes(i))
      BY <1>2, <2>2 DEF FirstOnly
    <3>2. sec.store = "Using"
      BY <1>1, <3>1 DEF OnlyIn
    <3>3. flash' = flash /\ local' = local
      BY <1>3, <3>2
    <3> QED BY <3>1, <3>3 DEF OnlyIn, DefNodes
  <2> QED BY <2>1, <2>2
<1>6. (IsNext(local.put) /\ PutPart(local.put, local.def.i))'
  BY <1>2, <1>3, <1>4, <1>5 DEF IsNext, PutPart
<1> QED BY <1>1, <1>2, <1>3, <1>4, <1>6
        DEF DefaultsOK, DefaultState, InDefault, WipeFmt, DefNew, DefPut, NewFirst, HeaderWalk, PutPcs

\* ... and its parts are written one after the other.
LEMMA PartWrite ==
  ASSUME NEW i, NEW c, NEW d, NEW x
  PROVE  /\ [NodePart(i, c, d) EXCEPT !.crc = x] = NodePart(i, c, x)
         /\ [NodePart(i, c, d) EXCEPT !.status = x] = NodePart(i, x, d)
BY SMT DEF NodePart

LEMMA LastWritten ==
  ASSUME NEW S, NEW q \in Seq(S), NEW x \in S, NEW y \in S
  PROVE  LET a == Append(q, x)
         IN  /\ a # <<>> /\ a[Len(a)] = x
             /\ [a EXCEPT ![Len(a)] = y] = Append(q, y)
<1> DEFINE a == Append(q, x)
           b == Append(q, y)
           c == [a EXCEPT ![Len(a)] = y]
<1>1. /\ a \in Seq(S) /\ Len(a) = Len(q) + 1 /\ DOMAIN a = 1 .. Len(q) + 1 /\ a[Len(a)] = x
      /\ \A j \in 1 .. Len(q) : a[j] = q[j]
  OBVIOUS
<1>2. /\ b \in Seq(S) /\ Len(b) = Len(q) + 1 /\ DOMAIN b = 1 .. Len(q) + 1 /\ b[Len(b)] = y
      /\ \A j \in 1 .. Len(q) : b[j] = q[j]
  OBVIOUS
<1> HIDE DEF a, b
<1>3. a # <<>>
  BY <1>1
<1>4. Len(q) \in Nat /\ Len(a) \in DOMAIN a
  BY <1>1
<1>5. /\ c \in [1 .. Len(q) + 1 -> S] /\ c[Len(a)] = y
      /\ \A j \in 1 .. Len(q) + 1 : j # Len(a) => c[j] = a[j]
  BY <1>1, <1>4
<1>6. b \in [1 .. Len(q) + 1 -> S]
  <2>1. \A j \in 1 .. Len(q) + 1 : b[j] \in S
    BY <1>2
  <2> QED BY <1>2, <2>1
<1> HIDE DEF c
<1>7. \A j \in 1 .. Len(q) + 1 : c[j] = b[j]
  BY <1>1, <1>2, <1>4, <1>5
<1>8. c = b
  BY <1>5, <1>6, <1>7
<1> QED BY <1>1, <1>3, <1>8 DEF a, b, c

\* What they find, and what is known of the medium.
LEMMA PutDefIs ==
  ASSUME Running, local.put.ret = "DefKv", pc \in PutPcs
  PROVE  LET i == local.def.i
             s == local.put.sec
         IN  /\ local \in Local /\ local.put \in PutFrame /\ NewFirst(local)
             /\ s \in Sector /\ flash[s] \in SectorImage /\ FlashOK /\ i \in Nat
             /\ local.gc.ret # "NewKv" /\ IsNext(local.put) /\ PutPart(local.put, i)
             /\ DefNodes(i) \in Seq(KvNode) /\ PutLen = DefLen(i+1)
             /\ \A kvs : OnlyIn(s, kvs) => flash[s].kvs = kvs
             /\ \A c \in KvStatus, b \in BOOLEAN : NodePart(i+1, c, b) \in KvNode
<1> DEFINE i == local.def.i
           s == local.put.sec
<1>1. /\ local \in Local /\ local.put \in PutFrame /\ NewFirst(local) /\ s \in Sector
      /\ flash[s] \in SectorImage /\ FlashOK /\ i \in Nat /\ DefPut(pc, local)
  BY RunningIs, FrameTypes, TInvParts DEF PutFrame, DefPut, Running
<1>2. local.gc.ret # "NewKv" /\ IsNext(local.put) /\ PutPart(local.put, i)
  BY <1>1 DEF Running, DefaultState, InDefault
<1>3. DefNodes(i) \in Seq(KvNode) /\ i + 1 \in 1 .. Len(Defaults) /\ (i + 1) - 1 = i
      /\ DefAddr[i] \in Nat
  BY <1>1, <1>2, NextFits, FitIs, DefNodesIs DEF IsNext, Running
<1>4. PutLen = DefLen(i+1)
  BY <1>2 DEF IsNext, PutLen, DefLen
<1>5. \A kvs : OnlyIn(s, kvs) => flash[s].kvs = kvs
  BY <1>1 DEF OnlyIn
<1>6. ASSUME NEW c \in KvStatus, NEW b \in BOOLEAN PROVE NodePart(i+1, c, b) \in KvNode
  <2>1. /\ DefAddr[(i+1)-1] \in Nat /\ DefLen(i+1) \in Nat
        /\ Defaults[i+1].key \in Keys /\ Defaults[i+1].val \in Values
    BY <1>3, FitIs DEF Running
  <2> QED BY <2>1 DEF NodePart, KvNode
<1> QED BY <1>1, <1>2, <1>3, <1>4, <1>5, <1>6

\* The last node is written again.
LEMMA PutPartIs ==
  ASSUME Running, local.put.ret = "DefKv", pc \in NodePcs, NEW x \in KvNode, NEW y \in KvNode,
         OnlyIn(local.put.sec, Append(DefNodes(local.def.i), x)), PutNode(y, TRUE)
  PROVE  /\ LastNode(flash[local.put.sec]) = x
         /\ \A e, i : e = local.put.sec /\ i = local.def.i => OnlyIn(e, Append(DefNodes(i), y))'
<1> DEFINE i == local.def.i
           s == local.put.sec
           a == Append(DefNodes(i), x)
<1>1. /\ s \in Sector /\ flash[s] \in SectorImage /\ FlashOK /\ DefNodes(i) \in Seq(KvNode)
      /\ flash[s].kvs = a
  BY PutDefIs DEF NodePcs, PutPcs
<1>2. a[Len(a)] = x /\ [a EXCEPT ![Len(a)] = y] = Append(DefNodes(i), y)
  <2>1. PICK q \in Seq(KvNode) : q = DefNodes(i)
    BY <1>1
  <2>2. LET b == Append(q, x)
        IN  b[Len(b)] = x /\ [b EXCEPT ![Len(b)] = y] = Append(q, y)
    BY LastWritten
  <2> QED BY <2>1, <2>2
<1>3. LastNode(flash[s]) = x
  BY <1>1, <1>2 DEF LastNode
<1>4. Program(s, WithNode(s, Len(flash[s].kvs), y), TRUE)
  BY DEF PutNode
<1>5. WithNode(s, Len(flash[s].kvs), y)
         = [flash[s] EXCEPT !.kvs = [flash[s].kvs EXCEPT ![Len(flash[s].kvs)] = y]]
  BY <1>1 DEF WithNode, SectorImage
<1>6. [flash[s].kvs EXCEPT ![Len(flash[s].kvs)] = y] = Append(DefNodes(i), y)
  BY <1>1, <1>2
<1>7. Program(s, [flash[s] EXCEPT !.kvs = Append(DefNodes(i), y)], TRUE)
  BY <1>4, <1>5, <1>6
<1>8. ASSUME NEW e, NEW k, e = s, k = i
      PROVE  OnlyIn(e, Append(DefNodes(k), y))'
  <2>1. /\ e \in Sector /\ OnlyIn(e, Append(DefNodes(k), x))
        /\ Program(e, [flash[e] EXCEPT !.kvs = Append(DefNodes(k), y)], TRUE)
    BY <1>1, <1>7, <1>8
  <2> QED BY <1>1, <2>1, OnlyProgram
<1> QED BY <1>3, <1>8

LEMMA StillWriting ==
  ASSUME Running, local.put.ret = "DefKv", pc \in PutPcs, pc' \in PutPcs, local' = local,
         PutPart(local.put, local.def.i)'
  PROVE  DefaultsOK'
<1>1. IsNext(local.put)' /\ NewFirst(local') /\ local'.gc.ret # "NewKv"
  BY PutDefIs DEF IsNext
<1> QED BY <1>1 DEF DefaultsOK, DefaultState, InDefault, WipeFmt, DefNew, DefPut, HeaderWalk, PutPcs

LEMMA PutStatusDefaults ==
  ASSUME Running, ~failing', local.put.ret = "DefKv", NEW ok \in BOOLEAN, PutStatus(ok)
  PROVE  DefaultsOK'
<1> DEFINE i == local.def.i
           s == local.put.sec
           len == IF local.put.addr = SECTOR_HDR_DATA_SIZE THEN KV_HDR_DATA_SIZE ELSE 1
           node == [addr |-> local.put.addr, len |-> len, status |-> "ErrHdr",
                    crc |-> FALSE, key |-> None, val |-> None]
           new == Append(DefNodes(i), node)
<1>1. pc = "PutStatus" /\ pc \in PutPcs
  BY DEF PutStatus, PutPcs
<1>2. /\ s \in Sector /\ FlashOK /\ DefNodes(i) \in Seq(KvNode) /\ local.put \in PutFrame
      /\ local.put.addr = DefAddr[i] /\ OnlyIn(s, DefNodes(i)) /\ flash[s].kvs = DefNodes(i)
  BY <1>1, PutDefIs DEF PutPart
<1>3. ok = TRUE
  BY DEF PutStatus, Program, Call
<1>4. /\ Program(s, [flash[s] EXCEPT !.kvs = Append(flash[s].kvs, node)], TRUE)
      /\ pc' = "PutHdr" /\ local' = local
  BY <1>3 DEF PutStatus, PutNext, Goto
<1>5. node \in KvNode
  <2>1. len \in Nat /\ local.put.addr \in Nat
    BY <1>2 DEF KV_HDR_DATA_SIZE, PutFrame
  <2> HIDE DEF len
  <2> QED BY <2>1 DEF KvNode, KvStatus
<1> HIDE DEF node
<1>6. ASSUME NEW e, NEW k, e = s, k = i
      PROVE  OnlyIn(e, Append(DefNodes(k), LastNode(flash[e])))'
  <2>1. PICK n : n = node
    OBVIOUS
  <2>2. /\ e \in Sector /\ OnlyIn(e, DefNodes(k))
        /\ Program(e, [flash[e] EXCEPT !.kvs = Append(DefNodes(k), n)], TRUE)
    BY <1>2, <1>4, <1>6, <2>1
  <2>3. OnlyIn(e, Append(DefNodes(k), n))'
    BY <1>2, <2>2, OnlyProgram
  <2>4. LastNode(flash'[e]) = n
    <3>1. flash'[e].kvs = Append(DefNodes(k), n)
      BY <2>2, <2>3 DEF OnlyIn
    <3>2. DefNodes(k) \in Seq(KvNode) /\ n \in KvNode
      BY <1>2, <1>5, <1>6, <2>1
    <3>3. LET b == Append(DefNodes(k), n) IN b[Len(b)] = n
      BY <3>2
    <3> QED BY <3>1, <3>3 DEF LastNode
  <2> QED BY <2>3, <2>4
<1>7. PutPart(local.put, local.def.i)'
  BY <1>2, <1>4, <1>6 DEF PutPart
<1> QED BY <1>1, <1>4, <1>7, StillWriting DEF PutPcs

LEMMA PutNodeDefaults ==
  ASSUME Running, ~failing', local.put.ret = "DefKv", NEW ok \in BOOLEAN, PutHdr(ok) \/ PutBody(ok)
  PROVE  DefaultsOK'
<1> DEFINE i == local.def.i
           s == local.put.sec
<1>1. pc \in {"PutHdr", "PutBody"} /\ pc \in PutPcs /\ pc \in NodePcs
  BY DEF PutHdr, PutBody, PutPcs, NodePcs
<1>2. /\ s \in Sector /\ FlashOK /\ DefNodes(i) \in Seq(KvNode) /\ local.put.addr = DefAddr[i]
      /\ IsNext(local.put) /\ PutPart(local.put, i) /\ PutLen = DefLen(i+1) /\ i \in Nat
      /\ flash[s] \in SectorImage
      /\ \A kvs : OnlyIn(s, kvs) => flash[s].kvs = kvs
      /\ \A c \in KvStatus, b \in BOOLEAN : NodePart(i+1, c, b) \in KvNode
  BY <1>1, PutDefIs DEF PutPart
<1>3. ok = TRUE
  BY DEF PutHdr, PutBody, PutNode, Program, Call
<1>4. CASE PutHdr(ok)
  <2> DEFINE x == LastNode(flash[s])
             y == NodePart(i+1, "PreWrite", FALSE)
  <2>1. pc = "PutHdr" /\ pc' = "PutBody" /\ local' = local
    BY <1>3, <1>4 DEF PutHdr, PutNext, Goto
  <2>2. OnlyIn(s, Append(DefNodes(i), x))
    BY <1>2, <2>1 DEF PutPart
  <2>3. x \in KvNode /\ y \in KvNode
    <3>1. flash[s].kvs = Append(DefNodes(i), x)
      BY <1>2, <2>2
    <3>2. Append(DefNodes(i), x) # <<>>
      <4> HIDE DEF x
      <4> QED BY <1>2
    <3>3. x \in KvNode
      BY <1>2, <3>1, <3>2, LastNodeType
    <3> QED BY <1>2, <3>3 DEF KvStatus
  <2>4. PutNode(y, TRUE)
    <3>1. y = [addr |-> local.put.addr, len |-> PutLen, status |-> "PreWrite", crc |-> FALSE,
               key |-> local.put.key, val |-> local.put.val]
      <4>1. (i + 1) - 1 = i
        BY <1>2
      <4> QED BY <1>2, <4>1 DEF NodePart, IsNext
    <3> HIDE DEF y
    <3> QED BY <1>3, <1>4, <3>1 DEF PutHdr
  <2> HIDE DEF x
  <2>5. ASSUME NEW e, NEW k, e = s, k = i
        PROVE  OnlyIn(e, Append(DefNodes(k), NodePart(k+1, "PreWrite", FALSE)))'
    <3>1. PICK n \in KvNode : n = y
      BY <2>3
    <3>2. n = NodePart(k+1, "PreWrite", FALSE) /\ PutNode(n, TRUE)
      BY <2>4, <2>5, <3>1
    <3>3. OnlyIn(e, Append(DefNodes(k), n))'
      BY <1>1, <2>2, <2>3, <2>5, <3>2, PutPartIs
    <3> QED BY <3>2, <3>3
  <2>6. PutPart(local.put, local.def.i)'
    BY <1>2, <2>1, <2>5 DEF PutPart
  <2> QED BY <1>1, <2>1, <2>6, StillWriting DEF PutPcs
<1>5. CASE PutBody(ok)
  <2> DEFINE x == NodePart(i+1, "PreWrite", FALSE)
             y == NodePart(i+1, "PreWrite", TRUE)
  <2>1. pc = "PutBody" /\ pc' = "PutCommit" /\ local' = local
    BY <1>3, <1>5 DEF PutBody, PutNext, Goto
  <2>2. OnlyIn(s, Append(DefNodes(i), x))
    BY <1>2, <2>1 DEF PutPart
  <2>3. x \in KvNode /\ y \in KvNode
    BY <1>2 DEF KvStatus
  <2>4. LastNode(flash[s]) = x
    <3>1. flash[s].kvs = Append(DefNodes(i), x)
      BY <1>2, <2>2
    <3> HIDE DEF x
    <3> QED BY <1>2, <2>3, <3>1 DEF LastNode
  <2>5. PutNode(y, TRUE)
    <3>1. [LastNode(flash[s]) EXCEPT !.crc = TRUE] = y
      <4>1. PICK c, d, z : c = "PreWrite" /\ d = FALSE /\ z = TRUE
        OBVIOUS
      <4>2. LastNode(flash[s]) = NodePart(i+1, c, d)
        BY <2>4, <4>1
      <4>3. [LastNode(flash[s]) EXCEPT !.crc = z] = NodePart(i+1, c, z)
        BY <4>2, PartWrite
      <4> QED BY <4>1, <4>3
    <3> HIDE DEF y
    <3> QED BY <1>3, <1>5, <3>1 DEF PutBody
  <2>6. ASSUME NEW e, NEW k, e = s, k = i
        PROVE  OnlyIn(e, Append(DefNodes(k), NodePart(k+1, "PreWrite", TRUE)))'
    <3>1. PICK n \in KvNode : n = y
      BY <2>3
    <3>2. n = NodePart(k+1, "PreWrite", TRUE) /\ PutNode(n, TRUE)
      BY <2>5, <2>6, <3>1
    <3>3. OnlyIn(e, Append(DefNodes(k), n))'
      BY <1>1, <2>2, <2>3, <2>6, <3>2, PutPartIs
    <3> QED BY <3>2, <3>3
  <2>7. PutPart(local.put, local.def.i)'
    BY <1>2, <2>1, <2>6 DEF PutPart
  <2> QED BY <1>1, <2>1, <2>7, StillWriting DEF PutPcs
<1> QED BY <1>4, <1>5

\* With the commit the default is there.
LEMMA PutCommitDefaults ==
  ASSUME Running, ~failing', local.put.ret = "DefKv", NEW ok \in BOOLEAN, PutCommit(ok)
  PROVE  DefaultsOK'
<1> DEFINE i == local.def.i
           s == local.put.sec
           x == NodePart(i+1, "PreWrite", TRUE)
           y == DefNode(i+1)
<1>1. pc = "PutCommit" /\ pc \in PutPcs /\ pc \in NodePcs
  BY DEF PutCommit, PutPcs, NodePcs
<1>2. /\ s \in Sector /\ FlashOK /\ DefNodes(i) \in Seq(KvNode)
      /\ local \in Local /\ local.put \in PutFrame /\ NewFirst(local) /\ local.gc.ret # "NewKv"
      /\ IsNext(local.put) /\ PutPart(local.put, i) /\ i \in Nat
      /\ \A kvs : OnlyIn(s, kvs) => flash[s].kvs = kvs
      /\ \A c \in KvStatus, b \in BOOLEAN : NodePart(i+1, c, b) \in KvNode
  BY <1>1, PutDefIs
<1>3. ok = TRUE
  BY DEF PutCommit, PutNode, Program, Call
<1>4. OnlyIn(s, Append(DefNodes(i), x))
  BY <1>1, <1>2 DEF PutPart
<1>5. x \in KvNode /\ y \in KvNode
  BY <1>2 DEF KvStatus, DefNode
<1>6. PutNode(y, TRUE)
  <2>1. LastNode(flash[s]) = x
    <3>1. flash[s].kvs = Append(DefNodes(i), x)
      BY <1>2, <1>4
    <3> HIDE DEF x
    <3> QED BY <1>2, <1>5, <3>1 DEF LastNode
  <2>2. [LastNode(flash[s]) EXCEPT !.status = "Write"] = y
    <3>1. PICK c, d, z : c = "PreWrite" /\ d = TRUE /\ z = "Write"
      OBVIOUS
    <3>2. LastNode(flash[s]) = NodePart(i+1, c, d)
      BY <2>1, <3>1
    <3>3. [LastNode(flash[s]) EXCEPT !.status = z] = NodePart(i+1, z, d)
      BY <3>2, PartWrite
    <3> QED BY <3>1, <3>3 DEF DefNode
  <2> HIDE DEF y
  <2> QED BY <1>3, <2>2 DEF PutCommit
<1> DEFINE l == [local EXCEPT !.put = NoLocal.put]
           d == [l.def EXCEPT !.i = @ + 1]
           m == [l EXCEPT !.def = d]
<1>7. l \in Local /\ l.gc = local.gc /\ l.new = local.new /\ l.def = local.def
  BY <1>2, NoLocalType, FrameTypes, FrameChange DEF Local
<1>8. pc' = "DefKv" /\ local' = [l EXCEPT !.def.i = @ + 1]
  BY <1>3 DEF PutCommit, PutReturn, Goto
<1> HIDE DEF l
<1>9. [l EXCEPT !.def.i = @ + 1] = m /\ l.def \in DefFrame
  BY <1>7, FrameTypes DEF Local, DefFrame
<1>10. d.i = i + 1
  BY <1>7, <1>9 DEF DefFrame
<1> HIDE DEF d
<1>11. m.gc = l.gc /\ m.new = l.new /\ m.def = d
  BY <1>7, FrameChange
<1> HIDE DEF m
<1>12. local'.gc = local.gc /\ local'.new = local.new /\ local'.def.i = i + 1
  BY <1>7, <1>8, <1>9, <1>10, <1>11
<1>13. i + 1 <= Len(Defaults) /\ i + 1 \in 0 .. Len(Defaults) /\ i \in 0 .. Len(Defaults)
  BY <1>2, FitIs DEF IsNext, Running
<1>14. Append(DefNodes(i), y) = DefNodes(i + 1)
  <2>1. /\ Len(DefNodes(i)) = i /\ \A j \in 1 .. i : DefNodes(i)[j] = DefNode(j)
        /\ DefNodes(i+1) \in Seq(KvNode) /\ Len(DefNodes(i+1)) = i + 1
        /\ \A j \in 1 .. i + 1 : DefNodes(i+1)[j] = DefNode(j)
    BY <1>13, DefNodesIs DEF Running
  <2> HIDE DEF y
  <2>2. /\ Append(DefNodes(i), y) \in Seq(KvNode) /\ Len(Append(DefNodes(i), y)) = i + 1
        /\ Append(DefNodes(i), y)[i + 1] = y
        /\ \A j \in 1 .. i : Append(DefNodes(i), y)[j] = DefNodes(i)[j]
    <3>1. PICK q \in Seq(KvNode) : q = DefNodes(i)
      BY <1>2
    <3>2. /\ Append(q, y) \in Seq(KvNode) /\ Len(Append(q, y)) = Len(q) + 1
          /\ Append(q, y)[Len(q) + 1] = y
          /\ \A j \in 1 .. Len(q) : Append(q, y)[j] = q[j]
      BY <1>5
    <3> QED BY <2>1, <3>1, <3>2
  <2>3. \A j \in 1 .. i + 1 : Append(DefNodes(i), y)[j] = DefNodes(i+1)[j]
    <3>1. \A j \in 1 .. i + 1 : j \in 1 .. i \/ j = i + 1
      BY <1>2
    <3> QED BY <2>1, <2>2, <3>1 DEF y
  <2> QED BY <2>1, <2>2, <2>3
<1>15. ASSUME NEW e, NEW k, e = s, k = i
       PROVE  OnlyIn(e, DefNodes(k + 1))'
  <2>1. PICK n \in KvNode : n = y
    BY <1>5
  <2>2. Append(DefNodes(k), n) = DefNodes(k + 1) /\ PutNode(n, TRUE)
    BY <1>6, <1>14, <1>15, <2>1
  <2>3. OnlyIn(e, Append(DefNodes(k), n))'
    BY <1>1, <1>4, <1>5, <1>15, <2>2, PutPartIs
  <2> QED BY <2>2, <2>3
<1>16. (\E e \in Sector : FirstOnly(e, local.def.i))'
  <2>1. i + 1 # 0
    BY <1>2
  <2>2. PICK e, k : e = s /\ k = i
    OBVIOUS
  <2>3. OnlyIn(e, DefNodes(k + 1))' /\ local'.def.i = k + 1 /\ k + 1 # 0
    BY <1>12, <1>15, <2>1, <2>2
  <2> QED BY <1>2, <2>2, <2>3 DEF FirstOnly
<1> QED BY <1>2, <1>8, <1>12, <1>13, <1>16
        DEF DefaultsOK, DefaultState, InDefault, WipeFmt, DefNew, DefPut, HeaderWalk, PutPcs, NewFirst

DefaultsAlways == DefaultsFit => DefaultsOK

LEMMA DefaultsNext ==
  TInv /\ TInv' /\ LInv /\ WInv /\ SpareOK /\ DefaultsAlways /\ [Next]_vars => DefaultsAlways'
<1> SUFFICES ASSUME TInv, TInv', LInv, WInv, SpareOK, DefaultsFit, DefaultsOK, [Next]_vars
             PROVE  DefaultsOK'
  BY DEF DefaultsAlways
<1>1. CASE UNCHANGED vars
  BY <1>1 DEF vars, DefaultsOK, DefaultState, NewFirst, InDefault, WipeFmt, DefNew, DefPut, Wiped,
              HeaderWalk, FirstOnly, OnlyIn, IsNext, PutPart
<1>2. CASE failing' \/ pc' = "Off"
  <2>1. pc' = "Off" => local' = NoLocal
    BY TInvParts DEF TInv, ArgsOK
  <2> QED BY <1>2, <2>1, NoLocalFirst, FreeOK DEF DefaultsOK, FreePcs
<1>3. CASE Next /\ ~failing' /\ pc' # "Off"
  <2>1. Running
    BY <1>3, FailingStays DEF Running, DefaultsOK
  <2>2. CASE \E ok \in BOOLEAN : PutSec(ok) \/ PutStatus(ok) \/ PutHdr(ok) \/ PutBody(ok) \/ PutCommit(ok)
    BY <1>3, <2>1, <2>2, PutOther, PutSecDefaults, PutStatusDefaults, PutNodeDefaults,
       PutCommitDefaults
  <2>3. CASE \E ok \in BOOLEAN : DelStatus(ok) \/ DelDirty(ok) \/ FmtErase(ok) \/ FmtHdr(ok)
    BY <1>3, <2>1, <2>3, DelDefaults, FmtDefaults
  <2>4. CASE \/ GcStart \/ GcNode \/ GcErase \/ GcFormatted \/ GcEnd \/ MvAlloc
             \/ \E ok \in BOOLEAN : GcSector(ok)
    <3>1. \E ok \in BOOLEAN : TRUE
      OBVIOUS
    <3> QED BY <2>1, <2>4, <3>1, GcDefaults, MvAllocDefaults
  <2>5. CASE Client \/ PowerLoss \/ LoadRefused \/ SetFind \/ SetEnd \/ NewKv
    BY <2>1, <2>5, ClientDefaults, SetDefaults, NewKvDefaults
  <2>6. CASE DefFormat \/ DefKv \/ DefEnd \/ LoadHdr \/ LoadHdrEnd
    BY <2>1, <2>6, DefFormatDefaults, DefKvDefaults, DefEndDefaults, WalkDefaults
  <2>7. CASE \/ LoadGc \/ LoadScan \/ LoadMove \/ LoadPassEnd \/ LoadCollect
             \/ \E ok \in BOOLEAN : LoadErrHdr(ok)
    <3>1. \E ok \in BOOLEAN : TRUE
      OBVIOUS
    <3> QED BY <2>1, <2>7, <3>1, LoadDefaults
  <2> QED BY <1>3, <2>2, <2>3, <2>4, <2>5, <2>6, <2>7 DEF Next, Step
<1> QED BY <1>1, <1>2, <1>3

\* All of them can be read.
LEMMA DefaultsRead ==
  ASSUME DefaultsFit, NEW e \in Sector, NEW i, i \in DOMAIN Defaults,
         OnlyIn(e, DefNodes(Len(Defaults)))
  PROVE  Recoverable(Defaults[i].key) = Defaults[i].val
<1> DEFINE k == Defaults[i].key
           p == <<e, i>>
           H == {q \in Nodes : /\ Node(q).key = k /\ Node(q).status = "Write" /\ Node(q).crc
                               /\ q[1] \in InUse(flash)}
<1>1. /\ flash[e] = [ok |-> TRUE, store |-> "Using", dirty |-> "False",
                     kvs |-> DefNodes(Len(Defaults))]
      /\ \A s \in Sector : s # e => flash[s] = Formatted
  BY DEF OnlyIn
<1>2. InUse(flash) = {e}
  <2>1. e \in InUse(flash)
    BY <1>1 DEF InUse
  <2>2. \A s \in Sector : s # e => s \notin InUse(flash)
    BY <1>1 DEF InUse, Formatted
  <2> QED BY <2>1, <2>2 DEF InUse
<1>3. /\ Len(Defaults) \in 0 .. Len(Defaults) /\ i \in 1 .. Len(Defaults)
      /\ Defaults[i].val \in Values
  BY FitIs
<1>4. /\ flash[e].kvs = DefNodes(Len(Defaults)) /\ DOMAIN flash[e].kvs = 1 .. Len(Defaults)
      /\ \A j \in 1 .. Len(Defaults) : flash[e].kvs[j] = DefNode(j)
  BY <1>1, <1>3, DefNodesIs
<1>5. p \in H
  <2>1. p \in Nodes
    BY <1>3, <1>4 DEF Nodes
  <2>2. Node(p) = DefNode(i)
    BY <1>3, <1>4 DEF Node
  <2>3. DefNode(i).key = k /\ DefNode(i).status = "Write" /\ DefNode(i).crc = TRUE
    BY DEF DefNode, NodePart
  <2> HIDE DEF k
  <2> QED BY <1>2, <2>1, <2>2, <2>3
<1>6. ASSUME NEW q \in H PROVE q = p
  <2>1. q \in Nodes /\ q[1] = e /\ Node(q).key = k
    BY <1>2
  <2>2. PICK s \in Sector : \E j \in DOMAIN flash[s].kvs : q = <<s, j>>
    BY <2>1 DEF Nodes
  <2>3. PICK j \in DOMAIN flash[s].kvs : q = <<s, j>>
    BY <2>2
  <2>4. s = e /\ j \in 1 .. Len(Defaults) /\ Node(q) = DefNode(j)
    BY <1>4, <2>1, <2>3 DEF Node
  <2>5. DefNode(j).key = Defaults[j].key
    BY DEF DefNode, NodePart
  <2>6. j = i
    BY <1>3, <2>1, <2>4, <2>5, FitIs DEF DefaultsFit
  <2> QED BY <2>3, <2>4, <2>6
<1>7. H = {p}
  BY <1>5, <1>6
<1>8. FirstWith(k, "Write") = Defaults[i].val
  <2>1. Node(p).val = Defaults[i].val
    BY <1>3, <1>4 DEF Node, DefNode, NodePart
  <2>2. FirstWith(k, "Write")
          = IF H = {} THEN None ELSE Node(CHOOSE q \in H : \A r \in H \ {q} : Before(q, r)).val
    BY DEF FirstWith
  <2> HIDE DEF H, p, k
  <2>3. (CHOOSE q \in H : \A r \in H \ {q} : Before(q, r)) = p
    BY <1>7
  <2> QED BY <1>7, <2>1, <2>2, <2>3
<1>9. Defaults[i].val # None
  BY <1>3, NoneAssumption
<1> QED BY <1>8, <1>9 DEF Recoverable

\* set_default has written every default when it returns without an error, provided that
\* one sector has room for all of them.
THEOREM DefaultsWritten == Spec => [](DefaultsFit => DefaultsThere)
<1>1. Init => DefaultsAlways
  BY NoLocalFirst DEF Init, DefaultsAlways, DefaultsOK, DefaultState, InDefault, WipeFmt, DefNew,
                      DefPut, PutPcs, HeaderWalk
<1>2. TInv /\ DefaultsAlways => (DefaultsFit => DefaultsThere)
  <2> SUFFICES ASSUME DefaultsFit, DefaultsOK, TInv, pc = "DefKv",
                      local.def.i >= Len(Defaults), ~failing, NEW i \in DOMAIN Defaults
               PROVE  Recoverable(Defaults[i].key) = Defaults[i].val
    BY DEF DefaultsAlways, DefaultsThere
  <2>1. local.def.i \in Nat
    BY TInvParts, FrameTypes DEF DefFrame
  <2>2. local.def.i <= Len(Defaults) /\ \E e \in Sector : FirstOnly(e, local.def.i)
    BY DEF DefaultsOK, DefaultState
  <2>3. local.def.i = Len(Defaults) /\ local.def.i # 0
    BY <2>1, <2>2, FitIs
  <2> QED BY <2>2, <2>3, DefaultsRead DEF FirstOnly
<1> QED BY <1>1, <1>2, TInit, TNext, LInit, LNext, WInit, WNext, SpareInit, SpareNext,
           DefaultsNext, PTL DEF Spec

=============================================================================
