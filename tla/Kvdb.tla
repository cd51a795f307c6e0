-------------------------------- MODULE Kvdb --------------------------------
(***************************************************************************)
(* The key-value database of src/src/kvdb.rs as the sequence of storage    *)
(* calls it makes.  A step of the model is at most one Storage::write or   *)
(* Storage::erase with the reads and decisions that lead to it, so that a  *)
(* power failure may fall between any two of them (PowerLoss).  As in      *)
(* FaultStorage of tests/recovery.rs the medium may also begin to fail:    *)
(* from some call on every call returns an error and leaves the image      *)
(* alone (ok = FALSE) until the power is cycled, and the code goes on as   *)
(* it does: `?' returns, `let _' ignores.  A call of the storage is atomic *)
(* and calls reach the medium in order.                                    *)
(*                                                                         *)
(* pc names the function the program is in.  The locals of each function   *)
(* are a record in "local"; a function called from several places keeps    *)
(* the place it returns to in its field ret.                               *)
(***************************************************************************)
EXTENDS KvFlash

CONSTANTS
    Defaults,       \* default_kvs, a sequence of [key, val]
    Updates,        \* bound: the pairs of a key and a value that are set
    LossInGc,       \* whether power may fail and faults begin during garbage collection
    MaxPowerLoss,   \* bound: how often power fails during an operation
    MaxFaults       \* bound: how often the medium begins to fail

ASSUME DefaultsAssumption == Defaults \in Seq([key: Keys, val: Values])
ASSUME BoundsAssumption == /\ Updates \subseteq Keys \X Values /\ LossInGc \in BOOLEAN
                           /\ MaxPowerLoss \in Nat /\ MaxFaults \in Nat

VARIABLES
    flash,       \* the storage image, sector by sector
    oldest,      \* oldest_addr
    gcRequest,   \* gc_request
    inRecovery,  \* in_recovery_check
    pc,          \* the function in execution; "Idle" between calls, "Off" without power
    local,       \* the locals of the functions in execution
    result,      \* what the last call returned
    failing,     \* every storage call fails until power is cycled
    losses, faults  \* what is left of the bounds

ram == <<oldest, gcRequest, inRecovery>>
vars == <<flash, oldest, gcRequest, inRecovery, pc, local, result, failing, losses, faults>>
medium == <<failing, losses, faults>>

----------------------------------------------------------------------------
(* Locals *)

Labels == {"Off", "Idle", "NewKv", "SetFind", "SetEnd", "DelStatus", "DelDirty",
           "PutSec", "PutStatus", "PutHdr", "PutBody", "PutCommit",
           "GcStart", "GcSector", "GcNode", "GcFormatted", "MvAlloc",
           "FmtErase", "FmtHdr", "DefFormat", "DefKv",
           "LoadHdr", "LoadGc", "LoadScan", "LoadPass", "LoadCollect"}

Results == {"None", "Ok", "SavedFull", "KvNameErr", "WriteErr", "EraseErr", "ReadErr"}

\* A KV struct holds the address of a node: its sector and position there.
Ptr == [found: BOOLEAN, sec: Sector, idx: Nat]
NoPtr == [found |-> FALSE, sec |-> 0, idx |-> 0]

\* The public operation; done is a history variable: it has taken effect.
Job == [op: {"None", "Set", "Del", "Default", "Open"}, key: Keys \cup {None},
        val: Values \cup {None}, old: Ptr, done: BOOLEAN]
NewFrame == [key: Keys \cup {None}, val: Values \cup {None}, tried: BOOLEAN,
             ret: {"SetFind", "DefKv"}]
DelFrame == [ptr: Ptr, complete: BOOLEAN,
             ret: {"PutSec", "SetEnd", "Idle", "MvAlloc", "MvReturn"}]
PutFrame == [sec: Sector, addr: Nat, key: Keys \cup {None}, val: Values \cup {None},
             full: BOOLEAN, ret: {"SetEnd", "MvReturn", "DefKv"}]
GcFrame == [from: Sector, i: Nat, sec: Sector, idx: Nat, last: Sector, free: Nat,
            ret: {"NewKv", "Idle", "LoadGc", "LoadScan"}]
\* kv is the copy of the node move_kv works from, ok the result of the copy.
MvFrame == [ptr: Ptr, key: Keys \cup {None}, val: Values \cup {None}, len: Nat,
            pre: BOOLEAN, ok: BOOLEAN, ret: {"GcNode", "LoadPass"}]
FmtFrame == [sec: Sector, ret: {"GcFormatted", "LoadHdr", "DefFormat"}]
DefFrame == [i: Nat, ret: {"Idle", "LoadGc"}]
LoadFrame == [strict: BOOLEAN, from: Sector, i: Nat, idx: Nat, bad: Nat]

Local == [job: Job, new: NewFrame, del: DelFrame, put: PutFrame, gc: GcFrame,
          mv: MvFrame, fmt: FmtFrame, def: DefFrame, load: LoadFrame]

NoLocal ==
  [job  |-> [op |-> "None", key |-> None, val |-> None, old |-> NoPtr, done |-> FALSE],
   new  |-> [key |-> None, val |-> None, tried |-> FALSE, ret |-> "SetFind"],
   del  |-> [ptr |-> NoPtr, complete |-> FALSE, ret |-> "Idle"],
   put  |-> [sec |-> 0, addr |-> 0, key |-> None, val |-> None, full |-> FALSE,
             ret |-> "SetEnd"],
   gc   |-> [from |-> 0, i |-> 0, sec |-> 0, idx |-> 0, last |-> 0, free |-> 0,
             ret |-> "Idle"],
   mv   |-> [ptr |-> NoPtr, key |-> None, val |-> None, len |-> 0, pre |-> FALSE,
             ok |-> FALSE, ret |-> "GcNode"],
   fmt  |-> [sec |-> 0, ret |-> "GcFormatted"],
   def  |-> [i |-> 0, ret |-> "Idle"],
   load |-> [strict |-> FALSE, from |-> 0, i |-> 0, idx |-> 0, bad |-> 0]]

TypeOK ==
    /\ flash \in [Sector -> SectorImage]
    /\ oldest \in Sector
    /\ gcRequest \in BOOLEAN
    /\ inRecovery \in BOOLEAN
    /\ pc \in Labels
    /\ local \in Local
    /\ result \in Results
    /\ failing \in BOOLEAN
    /\ losses \in 0 .. MaxPowerLoss
    /\ faults \in 0 .. MaxFaults

\* Erased storage, or storage that was never a database: no header is valid.
Init ==
    /\ flash = [s \in Sector |-> Erased]
    /\ oldest = 0 /\ gcRequest = FALSE /\ inRecovery = FALSE
    /\ pc = "Off" /\ local = NoLocal /\ result = "None"
    /\ failing = FALSE /\ losses = MaxPowerLoss /\ faults = MaxFaults

----------------------------------------------------------------------------
(* Storage calls *)

MayFail == LossInGc \/ local.gc = NoLocal.gc

\* The outcome of one storage call; without one the medium stays as it is.
Call(ok) ==
    /\ IF ok THEN ~failing ELSE failing \/ (faults > 0 /\ MayFail)
    /\ failing' = ~ok
    /\ faults' = IF ok \/ failing THEN faults ELSE faults - 1
    /\ UNCHANGED losses

NoCall == UNCHANGED <<flash, medium>>

Program(s, image, ok) ==
    /\ Call(ok)
    /\ flash' = IF ok THEN [flash EXCEPT ![s] = image] ELSE flash

WithNode(s, j, node) == [flash[s] EXCEPT !.kvs[j] = node]

Goto(label, l) == pc' = label /\ local' = l

\* A call of the public API returns r.
Return(r) == Goto("Idle", NoLocal) /\ result' = r

\* Calls of del_kv with a node, format_sector and new_kv.
DelCall(l, ptr, complete, ret) ==
    Goto("DelStatus", [l EXCEPT !.del = [ptr |-> ptr, complete |-> complete, ret |-> ret]])

FmtCall(l, s, ret) == Goto("FmtErase", [l EXCEPT !.fmt = [sec |-> s, ret |-> ret]])

NewCall(l, k, v, ret) ==
    Goto("NewKv", [l EXCEPT !.new = [key |-> k, val |-> v, tried |-> FALSE, ret |-> ret]])

----------------------------------------------------------------------------
(* gc_collect_by_free_size, called with its place of return *)

GcCall(l, free, ret) ==
    Goto("GcStart", [l EXCEPT !.gc = [NoLocal.gc EXCEPT !.free = free, !.ret = ret]])

\* It sets gc_request to FALSE and returns.
GcReturn(l) ==
    /\ gcRequest' = FALSE
    /\ Goto(l.gc.ret, IF l.gc.ret = "Idle" THEN NoLocal ELSE [l EXCEPT !.gc = NoLocal.gc])

\* Nothing is collected while more than the spare sector is empty.
GcStart ==
    /\ pc = "GcStart"
    /\ LET E == {i \in Sector : Nth(oldest, i) \in Empties(flash)}
           last == IF E = {} THEN 0 ELSE Nth(oldest, Greatest(E))
       IN  IF Cardinality(E) <= GC_EMPTY_SEC_THRESHOLD
           THEN /\ Goto("GcSector", [local EXCEPT !.gc.from = oldest, !.gc.last = last])
                /\ UNCHANGED gcRequest
           ELSE GcReturn(local)
    /\ NoCall /\ UNCHANGED <<oldest, inRecovery, result>>

Collectable(s) == flash[s].ok /\ flash[s].dirty \in {"True", "Gc"}

\* The steps of the walk that are left and meet a dirty sector.
GcAhead == {i \in local.gc.i .. N-1 : Collectable(Nth(local.gc.from, i))}

\* do_gc_one: mark the next dirty sector of the walk, whether or not the mark lands.
GcSector(ok) ==
    /\ pc = "GcSector" /\ GcAhead # {}
    /\ LET i == Least(GcAhead)
           s == Nth(local.gc.from, i)
       IN  /\ Program(s, [flash[s] EXCEPT !.dirty = "Gc"], ok)
           /\ Goto("GcNode", [local EXCEPT !.gc.i = i, !.gc.sec = s, !.gc.idx = 0])
    /\ UNCHANGED <<ram, result>>

GcEnd ==
    /\ pc = "GcSector" /\ GcAhead = {}
    /\ GcReturn(local)
    /\ NoCall /\ UNCHANGED <<oldest, inRecovery, result>>

\* The nodes that garbage collection has to move.
\* Mutants: the half deleted nodes are dropped; the deleted ones are moved, too.
M_LiveOnly(n) == n.crc /\ n.status = "Write"
M_EveryNode(n) == n.crc /\ n.status \in {"Write", "PreDelete", "Deleted"}
ToMove(n) == n.crc /\ n.status \in {"Write", "PreDelete"}

\* Those of the sector that are left.
\* Mutant: the walk steps over a node.
NodesFrom(i) == {j \in DOMAIN flash[local.gc.sec].kvs :
                    j >= i /\ ToMove(flash[local.gc.sec].kvs[j])}
M_GcNodes == NodesFrom(local.gc.idx + 2)
GcNodes == NodesFrom(local.gc.idx + 1)

\* move_kv(kv) of node j of sector s: a live node is first marked PreDelete.
MvCall(l0, s, j, ret) ==
    LET n == flash[s].kvs[j]
        p == [found |-> TRUE, sec |-> s, idx |-> j]
        l == [l0 EXCEPT !.mv = [ptr |-> p, key |-> n.key, val |-> n.val, len |-> n.len,
                                   pre |-> n.status = "PreDelete", ok |-> FALSE, ret |-> ret]]
    IN  IF n.status = "Write"
        THEN DelCall(l, p, FALSE, "MvAlloc")
        ELSE Goto("MvAlloc", l)

GcNode ==
    /\ pc = "GcNode" /\ GcNodes # {}
    /\ LET j == Least(GcNodes)
       IN  MvCall([local EXCEPT !.gc.idx = j], local.gc.sec, j, "GcNode")
    /\ NoCall /\ UNCHANGED <<ram, result>>

\* The whole sector was walked, whatever became of the moves: erase it.
GcErase ==
    /\ pc = "GcNode" /\ GcNodes = {}
    /\ FmtCall(local, local.gc.sec, "GcFormatted")
    /\ NoCall /\ UNCHANGED <<ram, result>>

\* The rest of do_gc_one: stop when the previous sector has room enough.
GcFormatted ==
    /\ pc = "GcFormatted"
    /\ LET gc == local.gc
           l == [local EXCEPT !.gc.i = gc.i + 1, !.gc.last = gc.sec, !.gc.sec = 0, !.gc.idx = 0]
       IN  IF flash[gc.last].ok /\ remain(flash[gc.last]) > gc.free
           THEN GcReturn(l)
           ELSE Goto("GcSector", l) /\ UNCHANGED gcRequest
    /\ oldest' = get_next_sector_addr(local.gc.sec)
    /\ NoCall /\ UNCHANGED <<inRecovery, result>>

----------------------------------------------------------------------------
(* del_kv: the status of a node, then the dirty mark of its sector *)

\* move_kv is done: back to the walk over the nodes of one sector or of all.
MvReturn(l, ok) ==
    LET l1 == [l EXCEPT !.mv = NoLocal.mv]
    IN  IF l.mv.ret = "GcNode" THEN Goto("GcNode", l1)
        ELSE Goto(IF ok THEN "LoadPass" ELSE "LoadCollect", l1)

\* Mutant: an error of the medium is not reported.
M_WriteResult(ok) == "Ok"
WriteResult(ok) == IF ok THEN "Ok" ELSE "WriteErr"

DelReturn(ok) ==
    LET ret == local.del.ret
        l == [local EXCEPT !.del = NoLocal.del]
    IN  \/ ret = "PutSec" /\ ok /\ Goto("PutSec", l) /\ UNCHANGED result
        \/ ret = "PutSec" /\ ~ok /\ Goto("SetEnd", l) /\ result' = "WriteErr"
        \/ ret = "SetEnd" /\ Goto("SetEnd", l) /\ result' = WriteResult(ok)
        \/ ret = "Idle" /\ Return(WriteResult(ok))
        \/ ret = "MvAlloc" /\ Goto("MvAlloc", l) /\ UNCHANGED result
        \/ ret = "MvReturn" /\ MvReturn(l, l.mv.ok) /\ UNCHANGED result

DelStatus(ok) ==
    /\ pc = "DelStatus"
    /\ LET del == local.del
           s == del.ptr.sec
           status == IF del.complete THEN "Deleted" ELSE "PreDelete"
           node == [flash[s].kvs[del.ptr.idx] EXCEPT !.status = status]
       IN  /\ Program(s, WithNode(s, del.ptr.idx, node), ok)
           /\ IF ok
              THEN /\ Goto("DelDirty", [local EXCEPT !.job.done = @ \/ del.ret = "Idle"])
                   /\ UNCHANGED result
              ELSE DelReturn(FALSE)
    /\ UNCHANGED ram

\* Mutant: the mark of a collection is overwritten, too.
M_Unmarked(sec) == sec.dirty # "True"
Unmarked(sec) == sec.dirty = "False"

DelDirty(ok) ==
    /\ pc = "DelDirty"
    /\ LET s == local.del.ptr.sec
       IN  IF Unmarked(flash[s])
           THEN Program(s, [flash[s] EXCEPT !.dirty = "True"], ok)
           ELSE ok /\ NoCall
    /\ DelReturn(ok)
    /\ UNCHANGED ram

----------------------------------------------------------------------------
(* create_kv_blob and move_kv_body, from update_sec_status on *)

\* The writes are over or one of them failed with "ok" FALSE.
PutReturn(ok) ==
    LET ret == local.put.ret
        l == [local EXCEPT !.put = NoLocal.put]
        done == [l EXCEPT !.job.done = ok]
    IN  \/ /\ ret = "SetEnd" /\ ok /\ l.job.old.found
           /\ DelCall(done, l.job.old, TRUE, "SetEnd")
           /\ gcRequest' = (gcRequest \/ local.put.full) /\ UNCHANGED result
        \/ /\ ret = "SetEnd" /\ ~(ok /\ l.job.old.found)
           /\ Goto("SetEnd", done) /\ result' = WriteResult(ok)
           /\ gcRequest' = (gcRequest \/ (ok /\ local.put.full))
        \/ /\ ret = "DefKv"
           /\ Goto("DefKv", [l EXCEPT !.def.i = @ + 1])
           /\ gcRequest' = (gcRequest \/ (ok /\ local.put.full)) /\ UNCHANGED result
        \* move_kv deletes the old node whatever became of the copy.
        \/ /\ ret = "MvReturn"
           /\ DelCall([l EXCEPT !.mv.ok = ok], l.mv.ptr, TRUE, "MvReturn")
           /\ UNCHANGED <<gcRequest, result>>

\* What follows a write: the next one, or the return with an error.
PutNext(ok, label) ==
    IF ok THEN Goto(label, local) /\ UNCHANGED <<gcRequest, result>> ELSE PutReturn(FALSE)

PutLen == kv_len(local.put.key, local.put.val)

\* update_sec_status.
PutSec(ok) ==
    /\ pc = "PutSec"
    /\ LET s == local.put.sec
           sec == flash[s]
           full == sec.store = "Using" /\ remain(sec) - PutLen < SEC_REMAIN_THRESHOLD
       IN  IF sec.store = "Empty" \/ full
           THEN /\ Program(s, [sec EXCEPT !.store = IF full THEN "Full" ELSE "Using"], ok)
                /\ IF ok THEN /\ Goto("PutStatus", [local EXCEPT !.put.full = full])
                              /\ UNCHANGED <<gcRequest, result>>
                         ELSE PutReturn(FALSE)
           ELSE /\ ok /\ NoCall
                /\ PutNext(TRUE, "PutStatus")
    /\ UNCHANGED <<oldest, inRecovery>>

(***************************************************************************)
(* The PRE_WRITE status alone: at the first place of a sector it is read   *)
(* as a damaged header, behind another node the scan does not see it and   *)
(* one byte is taken.                                                      *)
(***************************************************************************)
PutStatus(ok) ==
    /\ pc = "PutStatus"
    /\ LET s == local.put.sec
           len == IF local.put.addr = SECTOR_HDR_DATA_SIZE THEN KV_HDR_DATA_SIZE ELSE 1
           node == [addr |-> local.put.addr, len |-> len, status |-> "ErrHdr",
                    crc |-> FALSE, key |-> None, val |-> None]
       IN  Program(s, [flash[s] EXCEPT !.kvs = Append(@, node)], ok)
    /\ PutNext(ok, "PutHdr")
    /\ UNCHANGED <<oldest, inRecovery>>

\* The three writes to the node that follow, the last one of its sector.
PutNode(node, ok) ==
    LET s == local.put.sec
    IN  Program(s, WithNode(s, Len(flash[s].kvs), node), ok)

PutHdr(ok) ==
    /\ pc = "PutHdr"
    /\ PutNode([addr |-> local.put.addr, len |-> PutLen, status |-> "PreWrite", crc |-> FALSE,
                key |-> local.put.key, val |-> local.put.val], ok)
    /\ PutNext(ok, "PutBody")
    /\ UNCHANGED <<oldest, inRecovery>>

\* Name and value, in as many writes as it takes: only the last makes the CRC right.
PutBody(ok) ==
    /\ pc = "PutBody"
    /\ PutNode([LastNode(flash[local.put.sec]) EXCEPT !.crc = TRUE], ok)
    /\ PutNext(ok, "PutCommit")
    /\ UNCHANGED <<oldest, inRecovery>>

PutCommit(ok) ==
    /\ pc = "PutCommit"
    /\ PutNode([LastNode(flash[local.put.sec]) EXCEPT !.status = "Write"], ok)
    /\ PutReturn(ok)
    /\ UNCHANGED <<oldest, inRecovery>>

----------------------------------------------------------------------------
(* move_kv, from its alloc_kv on *)

\* Two copies of a key: recovery drops the older one.
\* Mutant: it moves it.
M_Superseded == FALSE
Superseded == local.mv.pre /\ inRecovery /\ find_name(flash, oldest, local.mv.key).found

MvAlloc ==
    /\ pc = "MvAlloc"
    /\ LET mv == local.mv
           a == alloc_kv(flash, oldest, gcRequest, mv.len)
           put == [sec |-> a.sec, addr |-> empty_kv(flash[a.sec]), key |-> mv.key,
                   val |-> mv.val, full |-> FALSE, ret |-> "MvReturn"]
       IN  /\ gcRequest' = a.gcReq
           /\ \/ ~a.found /\ MvReturn(local, FALSE)
              \/ /\ a.found /\ Superseded
                 /\ DelCall([local EXCEPT !.mv.ok = TRUE], mv.ptr, TRUE, "MvReturn")
              \/ /\ a.found /\ ~Superseded
                 /\ Goto("PutSec", [local EXCEPT !.put = put])
    /\ NoCall /\ UNCHANGED <<oldest, inRecovery, result>>

----------------------------------------------------------------------------
(* format_sector *)

\* The walk of kv_load that resumes an interrupted collection begins.
LoadGcCall(l, base) ==
    Goto("LoadGc", [l EXCEPT !.load = [NoLocal.load EXCEPT !.from = base], !.def = NoLocal.def])

\* Its error stops set_default and nothing else.
FmtReturn(ok) ==
    LET l == [local EXCEPT !.fmt = NoLocal.fmt]
        err == IF pc = "FmtErase" THEN "EraseErr" ELSE "WriteErr"
    IN  \/ local.fmt.ret # "DefFormat" /\ Goto(local.fmt.ret, l) /\ UNCHANGED result
        \/ local.fmt.ret = "DefFormat" /\ ok /\ Goto("DefFormat", l) /\ UNCHANGED result
        \/ local.fmt.ret = "DefFormat" /\ ~ok /\ l.def.ret = "Idle" /\ Return(err)
        \/ /\ local.fmt.ret = "DefFormat" /\ ~ok /\ l.def.ret = "LoadGc"
           /\ LoadGcCall(l, oldest) /\ UNCHANGED result

FmtErase(ok) ==
    /\ pc = "FmtErase"
    /\ Program(local.fmt.sec, Erased, ok)
    /\ IF ok THEN Goto("FmtHdr", local) /\ UNCHANGED result ELSE FmtReturn(FALSE)
    /\ UNCHANGED ram

FmtHdr(ok) ==
    /\ pc = "FmtHdr"
    /\ Program(local.fmt.sec, Formatted, ok)
    /\ FmtReturn(ok)
    /\ UNCHANGED ram

----------------------------------------------------------------------------
(* new_kv: allocate, collect garbage, allocate once more *)

NewKvLen == kv_len(local.new.key, local.new.val)

\* The caller goes on with the place found; set_kv looks for the old node first.
NewKvFound(a) ==
    LET new == local.new
        put == [sec |-> a.sec, addr |-> empty_kv(flash[a.sec]), key |-> new.key,
                val |-> new.val, full |-> FALSE,
                ret |-> IF new.ret = "SetFind" THEN "SetEnd" ELSE "DefKv"]
    IN  /\ Goto(IF new.ret = "SetFind" THEN "SetFind" ELSE "PutSec",
                [local EXCEPT !.put = put])
        /\ gcRequest' = a.gcReq /\ UNCHANGED result

NewKvFailed ==
    IF local.new.ret = "SetFind" THEN Return("SavedFull")
    ELSE /\ Goto("DefKv", [local EXCEPT !.def.i = @ + 1])
         /\ UNCHANGED result

\* Mutant: it collects as often as it is asked to.
M_CollectFirst(a) == a.gcReq
CollectFirst(a) == a.gcReq /\ ~local.new.tried

NewKv ==
    /\ pc = "NewKv"
    /\ LET a == alloc_kv(flash, oldest, gcRequest, NewKvLen)
       IN  \/ a.found /\ NewKvFound(a)
           \/ /\ ~a.found /\ CollectFirst(a)
              /\ GcCall([local EXCEPT !.new.tried = TRUE], NewKvLen, "NewKv")
              /\ gcRequest' = TRUE /\ UNCHANGED result
           \/ ~a.found /\ ~CollectFirst(a) /\ NewKvFailed /\ gcRequest' = FALSE
    /\ NoCall /\ UNCHANGED <<oldest, inRecovery>>

----------------------------------------------------------------------------
(* The public operations *)

Idle == pc = "Idle" /\ result' = "None" /\ NoCall

\* set, set_str
Set(k, v) ==
    /\ Idle
    /\ NewCall([local EXCEPT !.job = [@ EXCEPT !.op = "Set", !.key = k, !.val = v]],
               k, v, "SetFind")
    /\ UNCHANGED ram

SetFind ==
    /\ pc = "SetFind"
    /\ LET k == local.job.key
           f == find_kv(flash, oldest, k)
           l == [local EXCEPT !.job.old = f]
           tooLong == KeyLen[k] > KV_NAME_MAX
       IN  \/ f.found /\ DelCall(l, f, FALSE, "PutSec") /\ UNCHANGED result
           \/ ~f.found /\ tooLong /\ Goto("SetEnd", l) /\ result' = "KvNameErr"
           \/ ~f.found /\ ~tooLong /\ Goto("PutSec", l) /\ UNCHANGED result
    /\ NoCall /\ UNCHANGED ram

\* set_kv returns; what is asked for by a node that filled its sector is collected first.
SetEnd ==
    /\ pc = "SetEnd"
    /\ IF gcRequest THEN GcCall(local, kv_len(local.job.key, local.job.val), "Idle")
                    ELSE Goto("Idle", NoLocal)
    /\ NoCall /\ UNCHANGED <<ram, result>>

Del(k) ==
    /\ pc = "Idle" /\ NoCall
    /\ LET f == find_kv(flash, oldest, k)
           job == [NoLocal.job EXCEPT !.op = "Del", !.key = k]
       IN  \/ f.found /\ DelCall([local EXCEPT !.job = job], f, TRUE, "Idle") /\ result' = "None"
           \/ ~f.found /\ Return("KvNameErr")
    /\ UNCHANGED ram

SetDefault ==
    /\ Idle
    /\ Goto("DefFormat", [local EXCEPT !.job.op = "Default", !.def.ret = "Idle"])
    /\ UNCHANGED ram

\* set_default: every sector is formatted, one after the other, ...
\* Mutant: the last sector is left as it is.
M_ToFormat(i) == i < N - 1
ToFormat(i) == i < N

DefFormat ==
    /\ pc = "DefFormat"
    /\ IF ToFormat(local.def.i)
       THEN FmtCall([local EXCEPT !.def.i = @ + 1], local.def.i, "DefFormat")
       ELSE Goto("DefKv", [local EXCEPT !.def.i = 0])
    /\ NoCall /\ UNCHANGED <<ram, result>>

\* ... then the defaults are written, as far as there is room for them.
DefKv ==
    /\ pc = "DefKv" /\ local.def.i < Len(Defaults)
    /\ LET kv == Defaults[local.def.i + 1]
       IN  IF KeyLen[kv.key] > KV_NAME_MAX
                \/ kv_len(kv.key, kv.val) > SecSize - SECTOR_HDR_DATA_SIZE
           THEN Goto("DefKv", [local EXCEPT !.def.i = @ + 1])
           ELSE NewCall(local, kv.key, kv.val, "DefKv")
    /\ NoCall /\ UNCHANGED <<ram, result>>

DefEnd ==
    /\ pc = "DefKv" /\ local.def.i >= Len(Defaults)
    /\ oldest' = 0
    /\ IF local.def.ret = "Idle" THEN Return("Ok")
       ELSE LoadGcCall(local, 0) /\ UNCHANGED result
    /\ NoCall /\ UNCHANGED <<gcRequest, inRecovery>>

----------------------------------------------------------------------------
(* with_options: find_oldest_addr and kv_load *)

\* "strict" is not_formatable: damaged storage is refused and not formatted.
Open(strict) ==
    /\ pc = "Off" /\ result' = "None"
    /\ oldest' = find_oldest_addr(flash)
    /\ gcRequest' = FALSE /\ inRecovery' = TRUE
    /\ Goto("LoadHdr", [NoLocal EXCEPT !.job.op = "Open", !.load.from = oldest',
                                       !.load.strict = strict])
    /\ NoCall

\* The database object is dropped, or power is lost: what is not on the medium is gone.
Reset ==
    /\ oldest' = 0 /\ gcRequest' = FALSE /\ inRecovery' = FALSE
    /\ Goto("Off", NoLocal)

M_BadAhead == {i \in local.load.i + 1 .. N-1 : ~flash[Nth(local.load.from, i)].ok}
BadAhead == {i \in local.load.i .. N-1 : ~flash[Nth(local.load.from, i)].ok}

LoadHdr ==
    /\ pc = "LoadHdr" /\ BadAhead # {} /\ ~local.load.strict
    /\ LET i == Least(BadAhead)
       IN  FmtCall([local EXCEPT !.load.i = i + 1, !.load.bad = @ + 1],
                   Nth(local.load.from, i), "LoadHdr")
    /\ NoCall /\ UNCHANGED <<ram, result>>

LoadRefused ==
    /\ pc = "LoadHdr" /\ BadAhead # {} /\ local.load.strict
    /\ Reset /\ result' = "ReadErr"
    /\ NoCall

LoadHdrEnd ==
    /\ pc = "LoadHdr" /\ BadAhead = {}
    /\ IF local.load.bad = N
       THEN Goto("DefFormat", [local EXCEPT !.load = NoLocal.load, !.def.ret = "LoadGc"])
       ELSE LoadGcCall(local, oldest)
    /\ NoCall /\ UNCHANGED <<ram, result>>

GcMarked(i) == LET sec == flash[Nth(local.load.from, i)]
               IN  sec.ok /\ sec.dirty = "Gc"

\* Mutant: the walk begins behind the first sector.
M_GcMarkedAhead == {i \in local.load.i + 1 .. N-1 : GcMarked(i)}
GcMarkedAhead == {i \in local.load.i .. N-1 : GcMarked(i)}

LoadGc ==
    /\ pc = "LoadGc"
    /\ IF GcMarkedAhead # {}
       THEN /\ GcCall([local EXCEPT !.load.i = Least(GcMarkedAhead) + 1], N * SecSize, "LoadGc")
            /\ gcRequest' = TRUE
       ELSE Goto("LoadScan", local) /\ UNCHANGED gcRequest
    /\ NoCall /\ UNCHANGED <<oldest, inRecovery, result>>

\* recover_kvs_pass
LoadScan ==
    /\ pc = "LoadScan"
    /\ Goto("LoadPass", [local EXCEPT !.load = [NoLocal.load EXCEPT !.from = oldest]])
    /\ NoCall /\ UNCHANGED <<ram, result>>

\* The nodes of the walk that are left and are half written or half deleted.
\* Mutant: half deleted nodes are left alone.
M_Interrupted(n) == n.status = "PreWrite"
Interrupted(n) == n.status = "PreWrite" \/ (n.status = "PreDelete" /\ n.crc)

InterruptedIn(i) ==
    LET s == Nth(local.load.from, i)
    IN  {j \in DOMAIN flash[s].kvs : /\ s \in InUse(flash) /\ Interrupted(flash[s].kvs[j])
                                     /\ (i > local.load.i \/ j > local.load.idx)}

StepsAhead == {i \in local.load.i .. N-1 : InterruptedIn(i) # {}}

\* recover_one_kv: move a half deleted node on, ...
LoadMove ==
    /\ pc = "LoadPass" /\ StepsAhead # {}
    /\ LET i == Least(StepsAhead)
           s == Nth(local.load.from, i)
           j == Least(InterruptedIn(i))
       IN  /\ flash[s].kvs[j].status = "PreDelete"
           /\ MvCall([local EXCEPT !.load.i = i, !.load.idx = j], s, j, "LoadPass")
    /\ NoCall /\ UNCHANGED <<ram, result>>

\* ... mark a half written one as damaged and stop the pass.
LoadErrHdr(ok) ==
    /\ pc = "LoadPass" /\ StepsAhead # {}
    /\ LET i == Least(StepsAhead)
           s == Nth(local.load.from, i)
           j == Least(InterruptedIn(i))
       IN  /\ flash[s].kvs[j].status = "PreWrite"
           /\ Program(s, WithNode(s, j, [flash[s].kvs[j] EXCEPT !.status = "ErrHdr"]), ok)
    /\ Goto("LoadCollect", local)
    /\ UNCHANGED <<ram, result>>

LoadPassEnd ==
    /\ pc = "LoadPass" /\ StepsAhead = {}
    /\ Goto("LoadCollect", local)
    /\ NoCall /\ UNCHANGED <<ram, result>>

LoadCollect ==
    /\ pc = "LoadCollect"
    /\ IF gcRequest
       THEN GcCall(local, N * SecSize, "LoadScan") /\ UNCHANGED <<inRecovery, result>>
       ELSE Return("Ok") /\ inRecovery' = FALSE
    /\ NoCall /\ UNCHANGED <<oldest, gcRequest>>

----------------------------------------------------------------------------
(* The end of a session *)

\* into_storage, or the database is dropped; power is cycled before it is opened again.
Close ==
    /\ pc = "Idle"
    /\ Reset /\ result' = "None" /\ failing' = FALSE
    /\ UNCHANGED <<flash, losses, faults>>

PowerLoss ==
    /\ pc \notin {"Off", "Idle"} /\ losses > 0 /\ MayFail
    /\ losses' = losses - 1
    /\ Reset /\ result' = "None" /\ failing' = FALSE
    /\ UNCHANGED <<flash, faults>>

----------------------------------------------------------------------------

Client ==
    \/ \E u \in Updates : Set(u[1], u[2])
    \/ \E k \in Keys : Del(k)
    \/ \E strict \in BOOLEAN : Open(strict)
    \/ SetDefault \/ Close

Step ==
    \/ NewKv \/ SetFind \/ SetEnd
    \/ \E ok \in BOOLEAN : \/ DelStatus(ok) \/ DelDirty(ok)
                           \/ PutSec(ok) \/ PutStatus(ok) \/ PutHdr(ok)
                           \/ PutBody(ok) \/ PutCommit(ok)
                           \/ FmtErase(ok) \/ FmtHdr(ok)
                           \/ GcSector(ok) \/ LoadErrHdr(ok)
    \/ GcStart \/ GcNode \/ GcErase \/ GcFormatted \/ GcEnd \/ MvAlloc
    \/ DefFormat \/ DefKv \/ DefEnd
    \/ LoadHdr \/ LoadRefused \/ LoadHdrEnd \/ LoadGc \/ LoadScan
    \/ LoadMove \/ LoadPassEnd \/ LoadCollect

Next == Client \/ Step \/ PowerLoss

\* A call runs to its end unless power is lost; nobody has to call.
Spec == Init /\ [][Next]_vars /\ WF_vars(Step)
=============================================================================
