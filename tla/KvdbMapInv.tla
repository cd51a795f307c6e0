----------------------------- MODULE KvdbMapInv -----------------------------
(***************************************************************************)
(* The inductive invariant behind the map (KvdbMapProofs): as long as      *)
(* nothing fails a key has one live node, and besides it at most the half  *)
(* deleted one that is being replaced or moved.                            *)
(***************************************************************************)
EXTENDS KvdbInv

\* find_kv finds every key that can be stored, and no key has two defaults.
PlainKeys == /\ \A k \in Keys : KeyLen[k] # KV_NAME_MAX
             /\ \A i, j \in DOMAIN Defaults : Defaults[i].key = Defaults[j].key => i = j

----------------------------------------------------------------------------
(* The nodes that hold a value: live, or half deleted *)

Cell(s, j, n) == [sec |-> s, idx |-> j, live |-> n.status = "Write", key |-> n.key, val |-> n.val]
CellsOf(s, sec) == {Cell(s, j, sec.kvs[j]) : j \in {i \in DOMAIN sec.kvs : ToMove(sec.kvs[i])}}
Cells == UNION {CellsOf(s, flash[s]) : s \in Sector}

At(c, p) == c.sec = p.sec /\ c.idx = p.idx
LiveKey(k) == \E c \in Cells : c.live /\ c.key = k

----------------------------------------------------------------------------
(* What is executed, and for whom *)

DelFor(label, l, rets) == label \in DelPcs /\ l.del.ret \in rets
PutFor(label, l, ret) == label \in PutPcs /\ l.put.ret = ret
FmtFor(label, l, ret) == label \in {"FmtErase", "FmtHdr"} /\ l.fmt.ret = ret

\* A node is moved by a collection; a collection.
Copying(label, l) == \/ label = "MvAlloc" \/ PutFor(label, l, "MvReturn")
                     \/ DelFor(label, l, {"MvAlloc", "MvReturn"})
InGc(label, l) == \/ label \in {"GcStart", "GcSector", "GcNode", "GcFormatted"}
                  \/ Copying(label, l) \/ FmtFor(label, l, "GcFormatted")

Updating(label, l) == \/ label = "SetFind" \/ PutFor(label, l, "SetEnd")
                      \/ DelFor(label, l, {"PutSec"})
Wiping(label, l) == label = "DefFormat" \/ FmtFor(label, l, "DefFormat")
Loading(label, l) == \/ label \in {"LoadHdr", "LoadGc", "LoadScan", "LoadPass", "LoadCollect"}
                     \/ FmtFor(label, l, "LoadHdr")

\* set_kv before it has taken effect, and when it is done but for a collection.
SetCtx(l) == l.job.op = "Set" /\ ~l.job.done
EndCtx(l, r) == /\ l.job.op = "Set" /\ r \in {"Ok", "KvNameErr"}
                /\ l.job.done <=> r = "Ok"

\* set_default, and the default it writes.
DefCtx(l) == l.job.op = IF l.def.ret = "Idle" THEN "Default" ELSE "Open"
IsDefault(l, kv) ==
    /\ l.def.i + 1 \in DOMAIN Defaults /\ KeyLen[kv.key] < KV_NAME_MAX
    /\ kv.key = Defaults[l.def.i + 1].key /\ kv.val = Defaults[l.def.i + 1].val

NewCtx(l) == IF l.new.ret = "SetFind"
             THEN SetCtx(l) /\ l.new.key = l.job.key /\ l.new.val = l.job.val
             ELSE DefCtx(l) /\ IsDefault(l, l.new)

GcCtx(l, r) == /\ l.gc.ret = "NewKv" => NewCtx(l)
               /\ l.gc.ret = "Idle" => EndCtx(l, r)
               /\ l.gc.ret \in {"LoadGc", "LoadScan"} => l.job.op = "Open"

\* The call in execution, what it writes and which node it deletes.
ControlOK ==
    LET job == local.job
        del == local.del
        put == local.put
        mv == local.mv
    IN  /\ pc = "NewKv" => NewCtx(local)
        /\ InGc(pc, local) => gcRequest /\ GcCtx(local, result)
        /\ Updating(pc, local) => SetCtx(local) /\ put.key = job.key /\ put.val = job.val
        /\ Updating(pc, local) /\ pc # "SetFind" => KeyLen[put.key] < KV_NAME_MAX
        /\ pc = "SetEnd" => EndCtx(local, result)
        /\ DelFor(pc, local, {"SetEnd"}) => job.op = "Set" /\ job.done
        /\ DelFor(pc, local, {"Idle"}) => /\ job.op = "Del" /\ job.val = None
                                          /\ job.done <=> pc = "DelDirty"
        /\ pc = "DefKv" \/ Wiping(pc, local) => DefCtx(local)
        /\ PutFor(pc, local, "DefKv") => DefCtx(local) /\ IsDefault(local, put)
        /\ Loading(pc, local) => job.op = "Open"
        /\ pc \in DelPcs => (del.complete <=> del.ret \in {"SetEnd", "Idle", "MvReturn"})
        /\ DelFor(pc, local, {"PutSec", "SetEnd"}) => del.ptr = job.old /\ job.old.found
        /\ DelFor(pc, local, {"MvAlloc", "MvReturn"}) => del.ptr = mv.ptr
        /\ DelFor(pc, local, {"MvReturn"}) => mv.ok
        /\ PutFor(pc, local, "MvReturn") => put.key = mv.key /\ put.val = mv.val
        /\ Copying(pc, local) => /\ mv.ret = "GcNode" /\ ~mv.pre
                                 /\ mv.ptr.sec = local.gc.sec /\ mv.ptr.idx = local.gc.idx

----------------------------------------------------------------------------
(* The nodes of a key *)

\* The half deleted node, and the one that is about to be.
Half(label, l) ==
    IF \/ label = "DelStatus" /\ l.del.ret \in {"SetEnd", "MvReturn"}
       \/ label = "DelDirty" /\ l.del.ret \in {"PutSec", "MvAlloc"}
    THEN {l.del.ptr}
    ELSE IF label = "MvAlloc" \/ PutFor(label, l, "MvReturn") THEN {l.mv.ptr}
    ELSE IF PutFor(label, l, "SetEnd") /\ l.job.old.found THEN {l.job.old} ELSE {}
Doomed(label, l) == IF label = "DelStatus" THEN {l.del.ptr} ELSE Half(label, l)

OneEach == \A c, d \in Cells : c.live /\ d.live /\ c.key = d.key => c = d

NodesOK ==
    LET put == local.put
        mv == local.mv
        last == LastNode(flash[put.sec])
    IN  /\ OneEach
        /\ \A c \in Cells : KeyLen[c.key] < KV_NAME_MAX
        /\ \A c \in Cells : ~c.live <=> \E p \in Half(pc, local) : At(c, p)
        /\ \A p \in Doomed(pc, local) : \E c \in Cells :
              /\ At(c, p)
              /\ IF Copying(pc, local) THEN c.key = mv.key /\ c.val = mv.val
                                       ELSE c.key = local.job.key
        \* The node that replaces it is there before it is deleted, ...
        /\ pc = "DelStatus" /\ local.del.ret = "SetEnd" => LiveKey(local.job.key)
        /\ pc = "DelStatus" /\ local.del.ret = "MvReturn" => LiveKey(mv.key)
        \* ... but not yet while it is written.
        /\ pc = "MvAlloc" \/ (pc = "DelDirty" /\ local.del.ret = "MvAlloc") => ~LiveKey(mv.key)
        /\ pc \in PutPcs \/ (pc = "DelDirty" /\ local.del.ret = "PutSec") => ~LiveKey(put.key)
        /\ pc \in {"PutBody", "PutCommit"} => last.key = put.key /\ last.val = put.val

\* A sector is formatted when nothing of it is needed: by a collection or by open, and by
\* the set_default of open; set_default takes everything away before it writes.
Defaulting(label, l) ==
    \/ label = "DefKv" \/ PutFor(label, l, "DefKv")
    \/ label = "NewKv" /\ l.new.ret = "DefKv"
    \/ InGc(label, l) /\ l.gc.ret = "NewKv" /\ l.new.ret = "DefKv"

FormatsOK ==
    LET load == local.load
        def == local.def
        fmt == local.fmt
    IN  /\ FmtFor(pc, local, "GcFormatted") \/ FmtFor(pc, local, "LoadHdr") =>
              \A c \in Cells : c.sec # fmt.sec
        /\ Wiping(pc, local) =>
              /\ \A c \in Cells : c.sec >= IF pc = "FmtErase" THEN def.i - 1 ELSE def.i
              /\ pc # "DefFormat" => fmt.sec = def.i - 1 /\ def.i > 0
              /\ def.ret = "LoadGc" => Cells = {}
        /\ HeaderWalk(pc, local) =>
              /\ load.bad <= load.i /\ load.i <= N
              /\ load.bad = load.i => \A i \in 0 .. load.i-1 : \A c \in Cells : c.sec # Nth(load.from, i)
        /\ Defaulting(pc, local) =>
              \A c \in Cells : \E i \in 1 .. local.def.i :
                  i \in DOMAIN Defaults /\ Defaults[i].key = c.key /\ Defaults[i].val = c.val

----------------------------------------------------------------------------
(* A collection moves every node of the sector *)

\* The nodes of the sector that are left begin here, and those that still need a place.
NextCell == IF pc = "GcNode" \/ (pc = "DelDirty" /\ local.del.ret = "MvReturn")
            THEN local.gc.idx + 1 ELSE local.gc.idx
NextNode == IF pc = "MvAlloc" \/ DelFor(pc, local, {"MvAlloc"})
            THEN local.gc.idx ELSE local.gc.idx + 1

\* Where the nodes of sector e end when the one that is written is there.
EndOf(e) == IF pc \in PutPcs /\ e = local.put.sec THEN local.put.addr + PutLen
                                                  ELSE empty_kv(flash[e])

\* A sector that has room for what is left of sector s: no more than s has before it.
Takes(e, s) ==
    /\ e # s /\ flash[e].ok /\ flash[e].store \in {"Empty", "Using"} /\ flash[e].dirty = "False"
    /\ \A j \in DOMAIN flash[s].kvs : j >= NextNode => EndOf(e) <= flash[s].kvs[j].addr

Collected(label, l) == label = "GcNode" \/ Copying(label, l)

SectorsOK == \A t \in Sector : /\ ~flash[t].ok => flash[t].kvs = <<>>
                               /\ flash[t].store = "Empty" => flash[t].dirty = "False"

\* The mark of a collection is on the sector that is collected and on no other one.
Erasing(label, l) == label = "FmtErase" /\ l.fmt.ret = "GcFormatted"
MarksOK == \A t \in Sector : flash[t].dirty = "Gc" =>
              t = local.gc.sec /\ (Collected(pc, local) \/ Erasing(pc, local))

CollectOK == LET s == local.gc.sec
             IN  /\ flash[s].dirty = "Gc"
                 /\ \A c \in Cells : c.sec = s => c.idx >= NextCell
                 /\ \E e \in Sector : Takes(e, s)

RoomOK ==
    /\ SectorsOK /\ MarksOK
    /\ Erasing(pc, local) => local.fmt.sec = local.gc.sec
    /\ pc = "GcSector" => Empties(flash) # {}
    /\ pc = "DelDirty" => flash[local.del.ptr.sec].kvs # <<>>
    /\ PutFor(pc, local, "MvReturn") => local.put.sec # local.gc.sec
    /\ Collected(pc, local) => CollectOK

MapInv == Quiet /\ PlainKeys => ControlOK /\ NodesOK /\ FormatsOK /\ RoomOK
=============================================================================
