------------------------------ MODULE KvdbInv ------------------------------
(***************************************************************************)
(* The inductive invariants the proofs about the key-value database rest   *)
(* on.  They are checked by TLC, too.                                      *)
(***************************************************************************)
EXTENDS KvdbProps

----------------------------------------------------------------------------
(* The log: what the frames of the functions in execution hold, and how    *)
(* the place found for a node relates to the log (KvdbProofs).             *)

Stored(k, v) == k \in Keys /\ v \in Values

PutPcs == {"PutSec", "PutStatus", "PutHdr", "PutBody", "PutCommit"}
DelPcs == {"DelStatus", "DelDirty"}

\* A node is about to be written, or to be moved.
PutWaits(label, l) == \/ label \in {"SetFind", "PutSec"}
                      \/ label \in DelPcs /\ l.del.ret = "PutSec"
PutLive(label, l) == PutWaits(label, l) \/ label \in PutPcs
MvLive(label, l) == label = "MvAlloc" \/ (label \in DelPcs /\ l.del.ret = "MvAlloc")

\* The functions of a set_kv behind its new_kv are in execution only during a set.
InSet(label, l) ==
    \/ label \in {"SetFind", "SetEnd"}
    \/ label \in DelPcs /\ l.del.ret \in {"PutSec", "SetEnd"}
    \/ label \in PutPcs /\ l.put.ret = "SetEnd"

NewOK(l) == Stored(l.new.key, l.new.val) /\ (l.new.ret = "SetFind" => l.job.op = "Set")
FramesOK(l) == /\ l.job.op = "Set" => Stored(l.job.key, l.job.val)
               /\ l.gc.ret = "NewKv" => NewOK(l)

\* Every function works with a key and a value of the database.
ArgsOK(label, l) ==
    /\ FramesOK(l)
    /\ label \in {"Idle", "Off"} => l = NoLocal
    /\ label = "NewKv" => NewOK(l)
    /\ InSet(label, l) => l.job.op = "Set"
    /\ PutLive(label, l) => Stored(l.put.key, l.put.val)
    /\ MvLive(label, l) => Stored(l.mv.key, l.mv.val)

\* So does every node whose CRC is right or is about to be.
NodesNamed == \A s \in Sector : \A j \in DOMAIN flash[s].kvs :
                  flash[s].kvs[j].crc => Stored(flash[s].kvs[j].key, flash[s].kvs[j].val)
BodyNamed == LET sec == flash[local.put.sec]
             IN  pc = "PutBody" /\ sec.kvs # <<>> =>
                    Stored(LastNode(sec).key, LastNode(sec).val)
NamesOK == NodesNamed /\ BodyNamed

\* The place found for a node is behind the log of its sector and has room for it.
PlaceOK ==
    LET put == local.put
        sec == flash[put.sec]
    IN  /\ PutLive(pc, local) => put.addr + PutLen + SEC_REMAIN_THRESHOLD < SecSize
        /\ PutWaits(pc, local) => /\ sec.ok /\ sec.store \in {"Empty", "Using"}
                                  /\ put.addr = empty_kv(sec)
        /\ pc = "PutStatus" => LogEnd(sec) <= put.addr /\ (failing \/ sec.store = "Using")
        /\ pc \in {"PutHdr", "PutBody", "PutCommit"} =>
                sec.store = "Using" /\ sec.kvs # <<>> /\ LastNode(sec).addr = put.addr

\* The nodes of a sector in the state EMPTY, and the length of a node.
EmptyOK == \A s \in Sector : flash[s].store \in {"Unused", "Empty"} => flash[s].kvs = <<>>

HasKvLen(n) == n.len = kv_len(n.key, n.val)
LensOK ==
    /\ \A s \in Sector : \A j \in DOMAIN flash[s].kvs :
          flash[s].kvs[j].crc => HasKvLen(flash[s].kvs[j])
    /\ pc = "PutBody" => HasKvLen(LastNode(flash[local.put.sec]))
    /\ MvLive(pc, local) => HasKvLen(local.mv)

IInv == TypeOK /\ ArgsOK(pc, local) /\ NamesOK /\ PlaceOK /\ LensOK /\ EmptyOK /\ LogOK

----------------------------------------------------------------------------
(* The nodes that are still to be deleted, and the node that is being      *)
(* written (KvdbProofs).                                                   *)

NodePcs == {"PutHdr", "PutBody", "PutCommit"}

\* The node a set replaces, and the one a move copies, are marked or deleted later on.
OldLive(label, l) == /\ l.job.old.found
                     /\ \/ label \in PutPcs /\ l.put.ret = "SetEnd"
                        \/ label \in DelPcs /\ l.del.ret = "PutSec"
CopyLive(label, l) == MvLive(label, l) \/ (label \in PutPcs /\ l.put.ret = "MvReturn")

ToDelete(label, l) == (IF OldLive(label, l) THEN {l.job.old} ELSE {})
                      \cup (IF CopyLive(label, l) THEN {l.mv.ptr} ELSE {})
                      \cup (IF label = "DelStatus" THEN {l.del.ptr} ELSE {})

\* Such a node is there and can be deleted, and it is not the one that is written.
Held(p) == LET kvs == flash[p.sec].kvs
           IN  /\ p.idx \in DOMAIN kvs /\ kvs[p.idx].status \in {"Write", "PreDelete"}
               /\ pc \in NodePcs => ~(p.sec = local.put.sec /\ p.idx = Len(kvs))

KeptOK ==
    /\ \A p \in ToDelete(pc, local) : Held(p)
    /\ pc \in DelPcs /\ local.del.ret \in {"PutSec", "MvAlloc"} => ~local.del.complete
    /\ pc = "SetFind" \/ (pc \in DelPcs /\ local.del.ret = "PutSec") => local.put.ret = "SetEnd"

\* Every write of a node, and of a sector header, finds what the one before it left.
WrittenOK ==
    LET last == LastNode(flash[local.put.sec])
    IN  /\ pc = "PutHdr" => last.key = None
        /\ pc \in {"PutBody", "PutCommit"} => last.status = "PreWrite"
        /\ pc = "FmtHdr" => flash[local.fmt.sec] = Erased

----------------------------------------------------------------------------
(* The spare sector (KvdbSpareProofs) *)

\* A sector that is collected, or was when the session before this one ended.
Marked(img) == {s \in Sector : img[s].ok /\ img[s].dirty = "Gc"}
Bad(img) == {s \in Sector : ~img[s].ok}
HalfCollected(img) == Marked(img) \cup Bad(img)

\* A node of a sector that is collected is moved.
Moving(label, l) ==
    /\ l.mv.ret = "GcNode"
    /\ \/ label = "MvAlloc"
       \/ label \in DelPcs /\ l.del.ret \in {"MvAlloc", "MvReturn"}
       \/ label \in PutPcs /\ l.put.ret = "MvReturn"
Collecting(label, l) == label = "GcNode" \/ Moving(label, l)

\* Only then, and when a move found no place, is the spare sector asked for.
MayRequest(label, l) ==
    \/ Collecting(label, l) \/ label \in {"GcStart", "GcSector", "GcFormatted", "LoadCollect"}
    \/ label \in {"FmtErase", "FmtHdr"} /\ l.fmt.ret = "GcFormatted"

\* The labels of a session that has its spare sector.
Settled(label, l) ==
    \/ label \in {"Idle", "NewKv", "SetFind", "SetEnd", "DefKv", "LoadScan", "LoadPass",
                  "LoadCollect", "GcFormatted"}
    \/ label \in {"MvAlloc"} \cup DelPcs \cup PutPcs /\ ~Moving(label, l)

\* There is an empty sector, or the part of the code that makes one is still ahead.
SpareAhead ==
    LET none == Empties(flash) = {}
    IN  /\ Collecting(pc, local) => HalfCollected(flash) # {}
        /\ Settled(pc, local) => ~none
        /\ pc = "GcStart" /\ none => Marked(flash) # {}
        /\ pc = "GcSector" /\ none => GcAhead # {}
        /\ pc = "LoadHdr" /\ none => Marked(flash) # {} \/ BadAhead # {}
        /\ pc = "LoadGc" /\ none => GcMarkedAhead # {}
        /\ pc = "DefFormat" /\ none => local.def.i = 0
        /\ PutWaits(pc, local) /\ ~Moving(pc, local) => Empties(flash) \ {local.put.sec} # {}

\* The walk of kv_load over the sector headers.
HeaderWalk(label, l) == \/ label = "LoadHdr"
                        \/ label \in {"FmtErase", "FmtHdr"} /\ l.fmt.ret = "LoadHdr"

\* The medium alone always has an empty sector or one that was being collected.
AloneOK == Empties(flash) \cup HalfCollected(flash) # {}

\* Who may ask for the spare sector; no node fills its sector; a collection and the
\* set_default of kv_load begin with their first step.
RequestOK ==
    /\ gcRequest => MayRequest(pc, local)
    /\ PutLive(pc, local) => ~local.put.full
    /\ pc = "GcStart" => local.gc.i = 0
    /\ HeaderWalk(pc, local) => local.def.i = 0

SpareOK == AloneOK /\ RequestOK /\ (~failing => SpareAhead)

----------------------------------------------------------------------------
(* Formatted sectors and whole nodes (KvdbSpareProofs) *)

\* The sectors that may be without a header: those an open has not come to yet, and the
\* one that is being formatted.
MayBeBad ==
    (IF pc \in {"FmtErase", "FmtHdr"} THEN {local.fmt.sec} ELSE {})
    \cup (IF pc = "Off" THEN Sector
          ELSE IF HeaderWalk(pc, local)
               THEN {Nth(local.load.from, i) : i \in local.load.i .. N-1} ELSE {})

HeadersOK == ~failing => Bad(flash) \subseteq MayBeBad

\* Neither the power nor the medium has failed so far.
Quiet == losses = MaxPowerLoss /\ faults = MaxFaults

\* Then, of the sectors in use only the one that is written to may be without a node, and
\* of the nodes only the one that is written may be damaged.
QuietOK ==
    /\ failing => faults < MaxFaults
    /\ Quiet => /\ \A s \in InUse(flash) :
                      flash[s].kvs = <<>> => pc = "PutStatus" /\ s = local.put.sec
                /\ \A s \in Sector : \A j \in DOMAIN flash[s].kvs :
                      flash[s].kvs[j].crc
                      \/ (pc \in {"PutHdr", "PutBody"} /\ s = local.put.sec
                            /\ j = Len(flash[s].kvs))

MInv == KeptOK /\ WrittenOK /\ SpareOK /\ HeadersOK /\ QuietOK
=============================================================================
