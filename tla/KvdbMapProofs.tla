--------------------------- MODULE KvdbMapProofs ---------------------------
(***************************************************************************)
(* As long as nothing fails the database is a map: no key has two live     *)
(* nodes, get returns what the medium holds, every step of the storage     *)
(* code is a step of KvMap or none, and a client that holds an iterator    *)
(* while it sets and deletes sees every entry that stays exactly once.     *)
(*                                                                         *)
(* All of it rests on MapInv (KvdbMapInv).  It is preserved by four groups *)
(* of lemmas, which use each other's parts for the state before a step:    *)
(* the call in execution (ControlNext), the nodes of a key (NodesNext),    *)
(* the sectors that are formatted (FormatsNext) and the collection         *)
(* (RoomNext), which moves every node because there is always a sector     *)
(* that takes what is left of the collected one (Takes).  What is held for *)
(* a key is then read off the nodes (RecoverNow), and a step changes it    *)
(* only where a call takes effect (EntriesSame).                           *)
(*                                                                         *)
(* For the iterator (IterInv) two places are compared: that of an entry,   *)
(* which is that of its only live node and stays where it is, and that of  *)
(* the iterator, which only goes forward.                                  *)
(*                                                                         *)
(* At the end, with failures again: a collection that was broken off is    *)
(* finished by the next open of a database of two sectors (MarksAhead).    *)
(***************************************************************************)
EXTENDS KvdbMapInv, KvIteration, KvdbSpareProofs

----------------------------------------------------------------------------
(* The call in execution *)

\* Between the calls nothing is executed.
LEMMA ControlIdle == ASSUME pc' \in {"Off", "Idle"} PROVE ControlOK'
BY DEF ControlOK, InGc, Copying, Updating, Wiping, Loading, DelFor, PutFor, FmtFor, DelPcs, PutPcs

\* The same request, as far as it is carried out.
SameJob(a, b) == a.op = b.op /\ a.key = b.key /\ a.val = b.val /\ a.done = b.done

\* The frames a collection leaves alone.
SameCtx == /\ local'.job.op = local.job.op /\ local'.job.key = local.job.key
           /\ local'.job.val = local.job.val /\ local'.job.done = local.job.done
           /\ local'.new = local.new /\ local'.def = local.def
           /\ local'.gc.ret = local.gc.ret /\ result' = result
LEMMA CtxStays ==
  ASSUME SameCtx
  PROVE  /\ NewCtx(local) => NewCtx(local)'
         /\ GcCtx(local, result) => GcCtx(local, result)'
         /\ SetCtx(local) => SetCtx(local)'
         /\ DefCtx(local) => DefCtx(local)'
         /\ EndCtx(local, result) => EndCtx(local, result)'
BY DEF SameCtx, NewCtx, GcCtx, SetCtx, DefCtx, EndCtx, IsDefault

\* The writes of a node before the last one.
LEMMA WriteIs ==
  ASSUME TInv, PutSec(TRUE) \/ PutStatus(TRUE) \/ PutHdr(TRUE) \/ PutBody(TRUE)
  PROVE  /\ \/ pc = "PutSec" /\ pc' = "PutStatus"
            \/ pc = "PutStatus" /\ pc' = "PutHdr"
            \/ pc = "PutHdr" /\ pc' = "PutBody"
            \/ pc = "PutBody" /\ pc' = "PutCommit"
         /\ local'.put.sec = local.put.sec /\ local'.put.addr = local.put.addr
         /\ local'.put.key = local.put.key /\ local'.put.val = local.put.val
         /\ local'.put.ret = local.put.ret
         /\ SameCtx /\ local'.job = local.job /\ local'.gc = local.gc /\ local'.mv = local.mv
         /\ gcRequest' = gcRequest
<1> DEFINE m(b) == [local EXCEPT !.put.full = b]
<1>1. local \in Local /\ local.put \in PutFrame
  BY TInvParts, FrameTypes
<1>2. \/ pc = "PutSec" /\ pc' = "PutStatus"
      \/ pc = "PutStatus" /\ pc' = "PutHdr"
      \/ pc = "PutHdr" /\ pc' = "PutBody"
      \/ pc = "PutBody" /\ pc' = "PutCommit"
  BY DEF PutSec, PutStatus, PutHdr, PutBody, PutNext, Goto
<1>3. gcRequest' = gcRequest /\ result' = result /\ (local' = local \/ \E b : local' = m(b))
  <2>1. CASE PutSec(TRUE)
    <3> DEFINE sec == flash[local.put.sec]
               full == sec.store = "Using" /\ remain(sec) - PutLen < SEC_REMAIN_THRESHOLD
               b == full /\ TRUE
    <3>1. /\ gcRequest' = gcRequest /\ result' = result
          /\ local' = local \/ local' = [local EXCEPT !.put.full = b]
      BY <2>1 DEF PutSec, PutNext, Goto
    <3> HIDE DEF b
    <3> QED BY <3>1
  <2>2. CASE PutStatus(TRUE) \/ PutHdr(TRUE) \/ PutBody(TRUE)
    BY <2>2 DEF PutStatus, PutHdr, PutBody, PutNext, Goto
  <2> QED BY <2>1, <2>2
<1>4. ASSUME NEW b PROVE /\ m(b).put.sec = local.put.sec /\ m(b).put.addr = local.put.addr
                         /\ m(b).put.key = local.put.key /\ m(b).put.val = local.put.val
                         /\ m(b).put.ret = local.put.ret
                         /\ m(b).job = local.job /\ m(b).new = local.new /\ m(b).gc = local.gc
                         /\ m(b).mv = local.mv /\ m(b).def = local.def /\ m(b).load = local.load
  BY <1>1 DEF Local, PutFrame
<1> HIDE DEF m
<1> QED BY <1>2, <1>3, <1>4 DEF SameCtx

LEMMA ControlWrite ==
  ASSUME TInv, ControlOK, PutSec(TRUE) \/ PutStatus(TRUE) \/ PutHdr(TRUE) \/ PutBody(TRUE)
  PROVE  ControlOK'
<1>1. pc \in PutPcs /\ pc' \in PutPcs
  BY WriteIs DEF PutPcs
<1>2. ASSUME NEW x PROVE PutFor(pc', local', x) <=> PutFor(pc, local, x)
  BY <1>1, WriteIs DEF PutFor
<1>3. /\ InGc(pc, local) <=> PutFor(pc, local, "MvReturn")
      /\ InGc(pc', local') <=> PutFor(pc', local', "MvReturn")
      /\ Copying(pc, local) <=> PutFor(pc, local, "MvReturn")
      /\ Copying(pc', local') <=> PutFor(pc', local', "MvReturn")
      /\ Updating(pc, local) <=> PutFor(pc, local, "SetEnd")
      /\ Updating(pc', local') <=> PutFor(pc', local', "SetEnd")
      /\ ~Wiping(pc', local') /\ ~Loading(pc', local')
      /\ \A x : ~DelFor(pc', local', x)
      /\ pc' \notin DelPcs \cup {"NewKv", "SetEnd", "DefKv", "SetFind"}
      /\ pc # "SetFind"
  BY <1>1 DEF InGc, Copying, Updating, Wiping, Loading, DelFor, PutFor, FmtFor, PutPcs, DelPcs
<1>4. ControlOK
  OBVIOUS
<1> QED
  BY ZenonT(30), <1>2, <1>3, <1>4, WriteIs, CtxStays DEF ControlOK, IsDefault, SameCtx

\* del_kv: first the status of the node, ...
LEMMA DelStatusIs ==
  ASSUME TInv, DelStatus(TRUE)
  PROVE  /\ pc = "DelStatus" /\ pc' = "DelDirty"
         /\ local'.del = local.del /\ local'.put = local.put /\ local'.mv = local.mv
         /\ local'.gc = local.gc /\ local'.new = local.new /\ local'.def = local.def
         /\ local'.job.op = local.job.op /\ local'.job.key = local.job.key
         /\ local'.job.val = local.job.val /\ local'.job.old = local.job.old
         /\ local'.job.done = (local.job.done \/ local.del.ret = "Idle")
         /\ local.del.ret # "Idle" => SameCtx
         /\ gcRequest' = gcRequest /\ result' = result
<1> DEFINE b == local.job.done \/ local.del.ret = "Idle"
           m == [local EXCEPT !.job.done = b]
<1>1. local \in Local /\ local.job \in Job
  BY TInvParts, FrameTypes
<1>2. /\ m.del = local.del /\ m.put = local.put /\ m.mv = local.mv
      /\ m.gc = local.gc /\ m.new = local.new /\ m.def = local.def
      /\ m.job.op = local.job.op /\ m.job.key = local.job.key
      /\ m.job.val = local.job.val /\ m.job.old = local.job.old /\ m.job.done = b
  BY <1>1 DEF Local, Job
<1>3. local' = m /\ pc = "DelStatus" /\ pc' = "DelDirty" /\ result' = result /\ gcRequest' = gcRequest
  BY DEF DelStatus, Goto, ram
<1>4. local.del.ret # "Idle" => b = local.job.done
  BY <1>1 DEF Job
<1> HIDE DEF m
<1> QED BY <1>2, <1>3, <1>4 DEF SameCtx

\* ... then the mark of the sector.
LEMMA DelDirtyIs ==
  ASSUME TInv, DelDirty(TRUE)
  PROVE  /\ pc = "DelDirty" /\ gcRequest' = gcRequest
         /\ local.del.ret = "Idle" => pc' = "Idle" /\ local' = NoLocal /\ result' = "Ok"
         /\ local.del.ret # "Idle" =>
               /\ local'.job = local.job /\ local'.new = local.new /\ local'.put = local.put
               /\ local'.gc = local.gc /\ local'.def = local.def
         /\ local.del.ret = "SetEnd" => pc' = "SetEnd" /\ result' = "Ok"
         /\ local.del.ret \in {"PutSec", "MvAlloc"} =>
               pc' = local.del.ret /\ local'.mv = local.mv /\ result' = result
         /\ local.del.ret = "MvReturn" =>
               /\ result' = result
               /\ local.mv.ret = "GcNode" => pc' = "GcNode"
<1> DEFINE m == [local EXCEPT !.del = NoLocal.del]
           h == [m EXCEPT !.mv = NoLocal.mv]
<1>1. local \in Local
  BY TInvParts
<1>2. /\ m.job = local.job /\ m.new = local.new /\ m.put = local.put /\ m.gc = local.gc
      /\ m.def = local.def /\ m.mv = local.mv
  BY <1>1 DEF Local
<1>3. /\ h.job = local.job /\ h.new = local.new /\ h.put = local.put /\ h.gc = local.gc
      /\ h.def = local.def
  BY <1>1 DEF Local
<1>4. pc = "DelDirty" /\ gcRequest' = gcRequest /\ DelReturn(TRUE)
  BY DEF DelDirty, ram
<1>5. /\ local.del.ret = "Idle" => pc' = "Idle" /\ local' = NoLocal /\ result' = "Ok"
      /\ local.del.ret = "SetEnd" => pc' = "SetEnd" /\ local' = m /\ result' = "Ok"
      /\ local.del.ret \in {"PutSec", "MvAlloc"} =>
            pc' = local.del.ret /\ local' = m /\ result' = result
      /\ local.del.ret = "MvReturn" =>
            /\ result' = result /\ local' = h
            /\ m.mv.ret = "GcNode" => pc' = "GcNode"
  BY <1>4 DEF DelReturn, MvReturn, Return, WriteResult, Goto
<1>6. local.del.ret \in {"PutSec", "SetEnd", "Idle", "MvAlloc", "MvReturn"}
  BY <1>1, FrameTypes DEF DelFrame
<1> HIDE DEF m, h
<1> QED BY <1>2, <1>3, <1>4, <1>5, <1>6

LEMMA ControlDel ==
  ASSUME TInv, WInv, ControlOK, DelStatus(TRUE) \/ DelDirty(TRUE)
  PROVE  ControlOK'
<1>1. pc \in DelPcs
  BY DelStatusIs, DelDirtyIs DEF DelPcs
<1>2. ASSUME DelStatus(TRUE) PROVE ControlOK'
  <2>1. CASE local.del.ret = "Idle"
    BY <1>2, <2>1, DelStatusIs DEF ControlOK, InGc, Copying, Updating, Wiping, Loading, DelFor,
       PutFor, FmtFor, DelPcs, PutPcs
  <2>2. CASE local.del.ret # "Idle"
    <3>1. SameCtx
      BY <1>2, <2>2, DelStatusIs
    <3> QED BY <1>2, <2>2, <3>1, DelStatusIs, CtxStays DEF ControlOK, InGc, Copying, Updating,
            Wiping, Loading, DelFor, PutFor, FmtFor, DelPcs, PutPcs, SameCtx
  <2> QED BY <2>1, <2>2
<1>3. ASSUME DelDirty(TRUE) PROVE ControlOK'
  <2>1. CASE local.del.ret = "Idle"
    BY <1>3, <2>1, DelDirtyIs, ControlIdle
  <2>2. CASE local.del.ret = "SetEnd"
    BY <1>3, <2>2, DelDirtyIs DEF ControlOK, InGc, Copying, Updating, Wiping, Loading, DelFor,
       PutFor, FmtFor, DelPcs, PutPcs, EndCtx
  <2>3. CASE local.del.ret = "PutSec"
    <3>1. SameCtx /\ local.put.ret = "SetEnd"
      BY <1>1, <1>3, <2>3, DelDirtyIs DEF SameCtx, WInv, KeptOK
    <3> QED BY <1>1, <1>3, <2>3, <3>1, DelDirtyIs, CtxStays DEF ControlOK, InGc, Copying, Updating,
            Wiping, Loading, DelFor, PutFor, FmtFor, DelPcs, PutPcs, SameCtx
  <2>4. CASE local.del.ret = "MvAlloc"
    <3>1. SameCtx
      BY <1>3, <2>4, DelDirtyIs DEF SameCtx
    <3> QED BY <1>1, <1>3, <2>4, <3>1, DelDirtyIs, CtxStays DEF ControlOK, InGc, Copying, Updating,
            Wiping, Loading, DelFor, PutFor, FmtFor, DelPcs, PutPcs, SameCtx
  <2>5. CASE local.del.ret = "MvReturn"
    <3>1. SameCtx /\ pc' = "GcNode"
      BY <1>1, <1>3, <2>5, DelDirtyIs DEF SameCtx, ControlOK, Copying, DelFor
    <3> QED BY <1>1, <1>3, <2>5, <3>1, DelDirtyIs, CtxStays DEF ControlOK, InGc, Copying, Updating,
            Wiping, Loading, DelFor, PutFor, FmtFor, DelPcs, PutPcs, SameCtx
  <2>6. local.del.ret \in {"PutSec", "SetEnd", "Idle", "MvAlloc", "MvReturn"}
    BY TInvParts, FrameTypes DEF DelFrame
  <2> QED BY <2>1, <2>2, <2>3, <2>4, <2>5, <2>6
<1> QED BY <1>2, <1>3

\* The last write of a node, and where create_kv_blob and move_kv_body return to.
LEMMA PutCommitIs ==
  ASSUME TInv, PutCommit(TRUE)
  PROVE  /\ pc = "PutCommit" /\ (gcRequest => gcRequest')
         /\ local'.job.op = local.job.op /\ local'.job.key = local.job.key
         /\ local'.job.val = local.job.val /\ local'.job.old = local.job.old
         /\ local'.job.done = (local.job.done \/ local.put.ret = "SetEnd")
         /\ local'.new = local.new /\ local'.gc = local.gc
         /\ local.put.ret = "SetEnd" /\ local.job.old.found =>
               /\ pc' = "DelStatus" /\ result' = result
               /\ local'.del = [ptr |-> local.job.old, complete |-> TRUE, ret |-> "SetEnd"]
         /\ local.put.ret = "SetEnd" /\ ~local.job.old.found => pc' = "SetEnd" /\ result' = "Ok"
         /\ local.put.ret = "DefKv" =>
               /\ pc' = "DefKv" /\ result' = result
               /\ local'.def.i = local.def.i + 1 /\ local'.def.ret = local.def.ret
         /\ local.put.ret # "DefKv" => local'.def = local.def
         /\ local.put.ret = "MvReturn" =>
               /\ pc' = "DelStatus" /\ result' = result /\ SameCtx
               /\ local'.del = [ptr |-> local.mv.ptr, complete |-> TRUE, ret |-> "MvReturn"]
               /\ local'.mv = [local.mv EXCEPT !.ok = TRUE]
<1> DEFINE l == [local EXCEPT !.put = NoLocal.put]
           done == [l EXCEPT !.job.done = TRUE]
           d(p, r) == [ptr |-> p, complete |-> TRUE, ret |-> r]
           m1 == [done EXCEPT !.del = d(l.job.old, "SetEnd")]
           m2 == [l EXCEPT !.def.i = @ + 1]
           m3 == [[l EXCEPT !.mv.ok = TRUE] EXCEPT !.del = d(l.mv.ptr, "MvReturn")]
<1>1. /\ local \in Local /\ local.job \in Job /\ local.mv \in MvFrame /\ local.def \in DefFrame
      /\ local.put \in PutFrame
  BY TInvParts, FrameTypes
<1>2. /\ l.job = local.job /\ l.mv = local.mv /\ l.def = local.def
      /\ l.new = local.new /\ l.gc = local.gc
  BY <1>1 DEF Local
<1>3. /\ done.job.op = local.job.op /\ done.job.key = local.job.key
      /\ done.job.val = local.job.val
      /\ done.job.old = local.job.old /\ done.job.done = TRUE
      /\ done.new = local.new /\ done.gc = local.gc /\ done.def = local.def
  BY <1>1 DEF Local, Job
<1>4. /\ m1.job.op = local.job.op /\ m1.job.key = local.job.key /\ m1.job.val = local.job.val
      /\ m1.job.old = local.job.old /\ m1.job.done = TRUE
      /\ m1.new = local.new /\ m1.gc = local.gc /\ m1.def = local.def
      /\ m1.del = d(local.job.old, "SetEnd")
  BY <1>1 DEF Local, Job
<1>5. /\ m2.job = local.job /\ m2.new = local.new /\ m2.gc = local.gc
      /\ m2.def.i = local.def.i + 1 /\ m2.def.ret = local.def.ret
  BY <1>1 DEF Local, DefFrame
<1>6. /\ m3.job = local.job /\ m3.new = local.new /\ m3.gc = local.gc /\ m3.def = local.def
      /\ m3.del = d(local.mv.ptr, "MvReturn") /\ m3.mv = [local.mv EXCEPT !.ok = TRUE]
  BY <1>1 DEF Local
<1>7. pc = "PutCommit" /\ PutReturn(TRUE)
  BY DEF PutCommit
<1>8. local.put.ret \in {"SetEnd", "MvReturn", "DefKv"} /\ local.job.done \in BOOLEAN
  BY <1>1 DEF PutFrame, Job
<1> HIDE DEF m1, m2, m3, done
<1>9. ASSUME local.put.ret = "SetEnd", local.job.old.found
      PROVE  pc' = "DelStatus" /\ result' = result /\ local' = m1 /\ (gcRequest => gcRequest')
  <2>1. l.job.old.found
    BY <1>2, <1>9
  <2> QED BY <1>7, <1>9, <2>1 DEF PutReturn, DelCall, Goto, m1, done
<1>10. ASSUME local.put.ret = "SetEnd", ~local.job.old.found
       PROVE  pc' = "SetEnd" /\ result' = "Ok" /\ local' = done /\ (gcRequest => gcRequest')
  <2>1. ~l.job.old.found
    BY <1>2, <1>10
  <2> QED BY <1>7, <1>10, <2>1 DEF PutReturn, Goto, WriteResult, done
<1>11. ASSUME local.put.ret = "DefKv"
       PROVE  pc' = "DefKv" /\ result' = result /\ local' = m2 /\ (gcRequest => gcRequest')
  BY <1>7, <1>11 DEF PutReturn, Goto, m2
<1>12. ASSUME local.put.ret = "MvReturn"
       PROVE  pc' = "DelStatus" /\ result' = result /\ local' = m3 /\ (gcRequest => gcRequest')
  BY <1>7, <1>12 DEF PutReturn, DelCall, Goto, m3
<1> HIDE DEF l
<1>13. gcRequest => gcRequest'
  BY <1>8, <1>9, <1>10, <1>11, <1>12
<1>14. CASE local.put.ret = "SetEnd"
  BY <1>3, <1>4, <1>7, <1>9, <1>10, <1>13, <1>14
<1>15. CASE local.put.ret = "DefKv"
  BY <1>5, <1>7, <1>8, <1>11, <1>13, <1>15
<1>16. CASE local.put.ret = "MvReturn"
  BY <1>6, <1>7, <1>8, <1>12, <1>13, <1>16 DEF SameCtx
<1> QED BY <1>8, <1>14, <1>15, <1>16

LEMMA ControlCommit == ASSUME TInv, ControlOK, PutCommit(TRUE) PROVE ControlOK'
<1>1. pc = "PutCommit" /\ local.put.ret \in {"SetEnd", "MvReturn", "DefKv"}
  BY PutCommitIs, TInvParts, FrameTypes DEF PutFrame
<1>2. CASE local.put.ret = "SetEnd" /\ local.job.old.found
  <2>1. /\ local'.del.ptr = local.job.old /\ local'.del.complete = TRUE
        /\ local'.del.ret = "SetEnd"
    BY <1>2, PutCommitIs
  <2>2. SetCtx(local)
    BY <1>1, <1>2 DEF ControlOK, Updating, PutFor, PutPcs
  <2> QED BY <1>2, <2>1, <2>2, PutCommitIs DEF ControlOK, InGc, Copying, Updating,
          Wiping, Loading, DelFor, PutFor, FmtFor, DelPcs, PutPcs, SetCtx
<1>3. CASE local.put.ret = "SetEnd" /\ ~local.job.old.found
  <2>1. SetCtx(local)
    BY <1>1, <1>3 DEF ControlOK, Updating, PutFor, PutPcs
  <2> QED BY <1>3, <2>1, PutCommitIs DEF ControlOK, InGc, Copying, Updating,
          Wiping, Loading, DelFor, PutFor, FmtFor, DelPcs, PutPcs, SetCtx, EndCtx
<1>4. CASE local.put.ret = "DefKv"
  <2>1. DefCtx(local)
    BY <1>1, <1>4 DEF ControlOK, PutFor, PutPcs
  <2> QED BY <1>4, <2>1, PutCommitIs DEF ControlOK, InGc, Copying, Updating,
          Wiping, Loading, DelFor, PutFor, FmtFor, DelPcs, PutPcs, DefCtx
<1>5. CASE local.put.ret = "MvReturn"
  <2>1. /\ local'.del.ptr = local.mv.ptr /\ local'.del.complete = TRUE
        /\ local'.del.ret = "MvReturn"
    BY <1>5, PutCommitIs
  <2>2. /\ local'.mv.ptr = local.mv.ptr /\ local'.mv.ret = local.mv.ret
        /\ local'.mv.pre = local.mv.pre /\ local'.mv.ok
    BY <1>5, PutCommitIs, TInvParts, FrameTypes DEF MvFrame
  <2>3. SameCtx /\ pc' = "DelStatus" /\ local'.gc = local.gc
    BY <1>5, PutCommitIs
  <2>4. Copying(pc, local) /\ InGc(pc, local)
    BY <1>1, <1>5 DEF InGc, Copying, PutFor, PutPcs
  <2>5. gcRequest' /\ GcCtx(local, result)'
    BY <2>3, <2>4, CtxStays, PutCommitIs DEF ControlOK
  <2>6. /\ local.mv.ret = "GcNode" /\ ~local.mv.pre
        /\ local.mv.ptr.sec = local.gc.sec /\ local.mv.ptr.idx = local.gc.idx
    BY <2>4 DEF ControlOK
  <2> QED BY <2>1, <2>2, <2>3, <2>5, <2>6 DEF ControlOK, InGc, Copying, Updating,
          Wiping, Loading, DelFor, PutFor, FmtFor, DelPcs, PutPcs
<1> QED BY <1>1, <1>2, <1>3, <1>4, <1>5

----------------------------------------------------------------------------

\* A collection begins for its caller ...
LEMMA ControlGcCall ==
  ASSUME NEW l \in Local, NEW free, NEW r, GcCall(l, free, r), gcRequest' = TRUE,
         r = "NewKv" => NewCtx(l), r = "Idle" => EndCtx(l, result'),
         r \in {"LoadGc", "LoadScan"} => l.job.op = "Open"
  PROVE  ControlOK'
<1> DEFINE x == [NoLocal.gc EXCEPT !.free = free, !.ret = r]
           m == [l EXCEPT !.gc = x]
<1>1. x.ret = r
  BY DEF NoLocal
<1>2. m.job = l.job /\ m.new = l.new /\ m.def = l.def /\ m.gc.ret = r
  BY <1>1 DEF Local
<1>3. pc' = "GcStart" /\ local' = m
  BY DEF GcCall, Goto
<1> HIDE DEF x, m
<1>4. GcCtx(local, result)'
  BY <1>2, <1>3 DEF GcCtx, NewCtx, SetCtx, DefCtx, EndCtx, IsDefault
<1> QED BY <1>3, <1>4 DEF ControlOK, InGc, Copying, Updating, Wiping, Loading, DelFor, PutFor,
        FmtFor, DelPcs, PutPcs

\* ... and goes back to it.
LEMMA GcReturnIs ==
  ASSUME NEW l \in Local, GcReturn(l)
  PROVE  /\ pc' = l.gc.ret /\ gcRequest' = FALSE
         /\ pc' \in {"NewKv", "Idle", "LoadGc", "LoadScan"}
         /\ pc' # "Idle" => /\ local'.job = l.job /\ local'.new = l.new /\ local'.def = l.def
                            /\ local'.load = l.load
         /\ pc' = "Idle" => local' = NoLocal
<1>1. l.gc.ret \in {"NewKv", "Idle", "LoadGc", "LoadScan"}
  BY FrameTypes DEF GcFrame
<1>2. LET m == [l EXCEPT !.gc = NoLocal.gc]
      IN  m.job = l.job /\ m.new = l.new /\ m.def = l.def /\ m.load = l.load
  BY DEF Local
<1> QED BY <1>1, <1>2 DEF GcReturn, Goto

LEMMA ControlGcReturn ==
  ASSUME NEW l \in Local, GcReturn(l), GcCtx(l, result), result' = result
  PROVE  ControlOK'
<1>1. CASE pc' = "Idle"
  BY <1>1, ControlIdle
<1>2. CASE pc' = "NewKv"
  <2>1. NewCtx(local)'
    BY <1>2, GcReturnIs DEF GcCtx, NewCtx, SetCtx, DefCtx, EndCtx, IsDefault
  <2> QED BY <1>2, <2>1 DEF ControlOK, InGc, Copying, Updating, Wiping, Loading, DelFor, PutFor,
        FmtFor, DelPcs, PutPcs
<1>3. CASE pc' \in {"LoadGc", "LoadScan"}
  <2>1. local'.job.op = "Open"
    BY <1>3, GcReturnIs DEF GcCtx
  <2> QED BY <1>3, <2>1 DEF ControlOK, InGc, Copying, Updating, Wiping, Loading, DelFor, PutFor,
        FmtFor, DelPcs, PutPcs
<1> QED BY <1>1, <1>2, <1>3, GcReturnIs

\* Inside, until the first node is moved, nothing changes but where it is.
LEMMA ControlGcInner ==
  ASSUME ControlOK, InGc(pc, local), SameCtx, gcRequest' = gcRequest,
         pc' \in {"GcSector", "GcNode", "GcFormatted"} \/ FmtFor(pc', local', "GcFormatted")
  PROVE  ControlOK'
<1>1. gcRequest' /\ GcCtx(local, result)'
  BY CtxStays DEF ControlOK
<1> QED BY <1>1 DEF ControlOK, InGc, Copying, Updating, Wiping, Loading, DelFor, PutFor,
        FmtFor, DelPcs, PutPcs

LEMMA GcStartIs ==
  ASSUME TInv, GcStart
  PROVE  /\ pc = "GcStart"
         /\ \/ GcReturn(local)
            \/ /\ pc' = "GcSector" /\ SameCtx /\ gcRequest' = gcRequest
               /\ Cardinality({i \in Sector : Nth(oldest, i) \in Empties(flash)})
                     <= GC_EMPTY_SEC_THRESHOLD
         /\ result' = result /\ flash' = flash
<1> DEFINE m(a, b) == [local EXCEPT !.gc.from = a, !.gc.last = b]
           E == {i \in Sector : Nth(oldest, i) \in Empties(flash)}
           last == IF E = {} THEN 0 ELSE Nth(oldest, Greatest(E))
<1>1. local \in Local /\ local.gc \in GcFrame
  BY TInvParts, FrameTypes
<1>2. ASSUME NEW a, NEW b
      PROVE  /\ m(a, b).job = local.job /\ m(a, b).new = local.new /\ m(a, b).def = local.def
             /\ m(a, b).gc.ret = local.gc.ret
  BY <1>1 DEF Local, GcFrame
<1>3. \/ GcReturn(local)
      \/ /\ pc' = "GcSector" /\ local' = m(oldest, last) /\ gcRequest' = gcRequest
         /\ Cardinality(E) <= GC_EMPTY_SEC_THRESHOLD
  BY DEF GcStart, Goto
<1>4. pc = "GcStart" /\ result' = result /\ flash' = flash
  BY DEF GcStart, NoCall
<1> HIDE DEF m, last
<1> QED BY <1>2, <1>3, <1>4 DEF SameCtx

LEMMA GcSectorIs ==
  ASSUME TInv, GcSector(TRUE)
  PROVE  LET i == Least(GcAhead)
             s == Nth(local.gc.from, i)
         IN  /\ pc = "GcSector" /\ pc' = "GcNode" /\ i \in GcAhead /\ s \in Sector /\ Collectable(s)
             /\ SameCtx /\ gcRequest' = gcRequest
             /\ local'.gc.sec = s /\ local'.gc.idx = 0
             /\ Program(s, [flash[s] EXCEPT !.dirty = "Gc"], TRUE)
<1> DEFINE i == Least(GcAhead)
           s == Nth(local.gc.from, i)
           m == [local EXCEPT !.gc.i = i, !.gc.sec = s, !.gc.idx = 0]
<1>1. local \in Local /\ local.gc \in GcFrame
  BY TInvParts, FrameTypes
<1>2. GcAhead \subseteq Nat /\ GcAhead # {} /\ local.gc.from \in Sector
  BY <1>1, GeometryType DEF GcSector, GcAhead, GcFrame
<1>3. i \in GcAhead /\ i \in Nat
  BY <1>2, LeastExists
<1>4. Collectable(s) /\ s \in Sector
  BY <1>2, <1>3, NthType DEF GcAhead
<1>5. /\ pc = "GcSector" /\ pc' = "GcNode" /\ local' = m /\ gcRequest' = gcRequest
      /\ result' = result /\ Program(s, [flash[s] EXCEPT !.dirty = "Gc"], TRUE)
  BY DEF GcSector, Goto, ram
<1> HIDE DEF i, s
<1>6. /\ m.job = local.job /\ m.new = local.new /\ m.def = local.def
      /\ m.gc.ret = local.gc.ret /\ m.gc.sec = s /\ m.gc.idx = 0
  BY <1>1 DEF Local, GcFrame
<1> HIDE DEF m
<1> QED BY <1>3, <1>4, <1>5, <1>6 DEF SameCtx, i, s

LEMMA GcFormattedIs ==
  ASSUME TInv, GcFormatted
  PROVE  LET gc == local.gc
             l == [local EXCEPT !.gc.i = gc.i + 1, !.gc.last = gc.sec, !.gc.sec = 0, !.gc.idx = 0]
         IN  /\ pc = "GcFormatted" /\ result' = result /\ flash' = flash
             /\ l \in Local /\ l.gc.ret = local.gc.ret
             /\ l.job = local.job /\ l.new = local.new /\ l.def = local.def
             /\ l.load = local.load
             /\ \/ GcReturn(l)
                \/ pc' = "GcSector" /\ local' = l /\ gcRequest' = gcRequest
<1> DEFINE gc == local.gc
           l == [local EXCEPT !.gc.i = gc.i + 1, !.gc.last = gc.sec, !.gc.sec = 0, !.gc.idx = 0]
<1>1. local \in Local /\ local.gc \in GcFrame
  BY TInvParts, FrameTypes
<1>2. /\ l.gc.ret = local.gc.ret /\ l.job = local.job /\ l.new = local.new /\ l.def = local.def
      /\ l.load = local.load
  BY <1>1 DEF Local, GcFrame
<1>3. l \in Local
  <2>1. gc.i + 1 \in Nat /\ gc.sec \in Sector /\ 0 \in Nat
    BY <1>1 DEF GcFrame
  <2> QED BY <1>1, <2>1, ZeroSector DEF Local, GcFrame
<1>4. /\ pc = "GcFormatted" /\ result' = result /\ flash' = flash
      /\ \/ GcReturn(l)
         \/ pc' = "GcSector" /\ local' = l /\ gcRequest' = gcRequest
  BY DEF GcFormatted, NoCall, Goto
<1> QED BY <1>2, <1>3, <1>4

\* format_sector.
LEMMA FmtIs ==
  ASSUME TInv, FmtErase(TRUE) \/ FmtHdr(TRUE)
  PROVE  /\ FmtErase(TRUE) => pc = "FmtErase" /\ pc' = "FmtHdr" /\ local' = local
         /\ FmtHdr(TRUE) => pc = "FmtHdr" /\ pc' = local.fmt.ret
                            /\ pc' \in {"GcFormatted", "LoadHdr", "DefFormat"}
         /\ SameCtx /\ gcRequest' = gcRequest /\ local'.gc = local.gc /\ local'.load = local.load
<1>1. local \in Local /\ local.fmt.ret \in {"GcFormatted", "LoadHdr", "DefFormat"}
  BY TInvParts, FrameTypes DEF FmtFrame
<1>2. LET m == [local EXCEPT !.fmt = NoLocal.fmt]
      IN  /\ m.job = local.job /\ m.new = local.new /\ m.def = local.def /\ m.gc = local.gc
          /\ m.load = local.load
  BY <1>1 DEF Local
<1>3. ASSUME FmtErase(TRUE)
      PROVE  /\ pc = "FmtErase" /\ pc' = "FmtHdr" /\ local' = local
             /\ gcRequest' = gcRequest /\ result' = result
  BY <1>3 DEF FmtErase, Goto, ram
<1>4. ASSUME FmtHdr(TRUE)
      PROVE  /\ pc = "FmtHdr" /\ pc' = local.fmt.ret /\ local' = [local EXCEPT !.fmt = NoLocal.fmt]
             /\ gcRequest' = gcRequest /\ result' = result
  BY <1>1, <1>4 DEF FmtHdr, FmtReturn, Goto, ram
<1>5. ~(FmtErase(TRUE) /\ FmtHdr(TRUE))
  BY <1>3, <1>4
<1> QED BY <1>1, <1>2, <1>3, <1>4, <1>5 DEF SameCtx

LEMMA ControlFmt ==
  ASSUME TInv, ControlOK, FmtErase(TRUE) \/ FmtHdr(TRUE)
  PROVE  ControlOK'
<1>1. /\ pc = "FmtErase" /\ pc' = "FmtHdr" /\ local' = local
      \/ /\ pc = "FmtHdr" /\ pc' = local.fmt.ret
         /\ pc' \in {"GcFormatted", "LoadHdr", "DefFormat"}
  BY FmtIs
<1>2. SameCtx /\ gcRequest' = gcRequest
  BY FmtIs
<1>3. CASE local.fmt.ret = "GcFormatted"
  <2>1. InGc(pc, local)
    BY <1>1, <1>3 DEF InGc, FmtFor
  <2> QED BY <1>1, <1>2, <1>3, <2>1, ControlGcInner DEF FmtFor
<1>4. CASE local.fmt.ret = "LoadHdr"
  <2>1. local'.job.op = "Open"
    BY <1>1, <1>2, <1>4 DEF ControlOK, Loading, FmtFor, SameCtx
  <2> QED BY <1>1, <1>4, <2>1 DEF ControlOK, InGc, Copying, Updating, Wiping, Loading, DelFor,
          PutFor, FmtFor, DelPcs, PutPcs
<1>5. CASE local.fmt.ret = "DefFormat"
  <2>1. DefCtx(local)'
    BY <1>1, <1>2, <1>5, CtxStays DEF ControlOK, Wiping, FmtFor
  <2> QED BY <1>1, <1>5, <2>1 DEF ControlOK, InGc, Copying, Updating, Wiping, Loading, DelFor,
          PutFor, FmtFor, DelPcs, PutPcs
<1> QED BY <1>3, <1>4, <1>5, TInvParts, FrameTypes DEF FmtFrame

LEMMA ControlGc ==
  ASSUME TInv, ControlOK, GcStart \/ GcSector(TRUE) \/ GcFormatted \/ GcEnd \/ GcErase
  PROVE  ControlOK'
<1>1. local \in Local
  BY TInvParts
<1>2. InGc(pc, local) /\ GcCtx(local, result) /\ gcRequest
  BY DEF GcStart, GcSector, GcFormatted, GcEnd, GcErase, ControlOK, InGc
<1>3. CASE GcStart
  BY <1>1, <1>2, <1>3, GcStartIs, ControlGcReturn, ControlGcInner
<1>4. CASE GcSector(TRUE)
  BY <1>2, <1>4, GcSectorIs, ControlGcInner
<1>5. CASE GcFormatted
  <2> DEFINE gc == local.gc
             l == [local EXCEPT !.gc.i = gc.i + 1, !.gc.last = gc.sec, !.gc.sec = 0, !.gc.idx = 0]
  <2>1. /\ result' = result /\ l \in Local /\ l.gc.ret = local.gc.ret
        /\ l.job = local.job /\ l.new = local.new /\ l.def = local.def
        /\ \/ GcReturn(l)
           \/ pc' = "GcSector" /\ local' = l /\ gcRequest' = gcRequest
    BY <1>5, GcFormattedIs
  <2> HIDE DEF l
  <2>2. GcCtx(l, result)
    BY <1>2, <2>1 DEF GcCtx, NewCtx, SetCtx, DefCtx, EndCtx, IsDefault
  <2>3. CASE GcReturn(l)
    BY <2>1, <2>2, <2>3, ControlGcReturn
  <2>4. CASE pc' = "GcSector" /\ local' = l /\ gcRequest' = gcRequest
    BY <1>2, <2>1, <2>4, ControlGcInner DEF SameCtx
  <2> QED BY <2>1, <2>3, <2>4
<1>6. CASE GcEnd
  BY <1>1, <1>2, <1>6, ControlGcReturn DEF GcEnd
<1>7. CASE GcErase
  <2>1. FmtCall(local, local.gc.sec, "GcFormatted") /\ gcRequest' = gcRequest /\ result' = result
    BY <1>7 DEF GcErase, ram
  <2>2. SameCtx /\ FmtFor(pc', local', "GcFormatted")
    BY <1>1, <2>1, FmtCallIs, FrameChange DEF FmtCall, Goto, SameCtx, FmtFor
  <2> QED BY <1>2, <2>1, <2>2, ControlGcInner
<1> QED BY <1>3, <1>4, <1>5, <1>6, <1>7

\* A collection moves its next node, which is live.
LEMMA GcNodeIs ==
  ASSUME TInv, GcNode, flash[local.gc.sec].kvs[Least(GcNodes)].status = "Write"
  PROVE  LET j == Least(GcNodes)
             n == flash[local.gc.sec].kvs[j]
             p == [found |-> TRUE, sec |-> local.gc.sec, idx |-> j]
         IN  /\ pc = "GcNode" /\ pc' = "DelStatus" /\ flash' = flash /\ gcRequest' = gcRequest
             /\ j \in GcNodes /\ (\A i \in GcNodes : j <= i) /\ j \in Nat
             /\ local'.del = [ptr |-> p, complete |-> FALSE, ret |-> "MvAlloc"]
             /\ local'.mv = [ptr |-> p, key |-> n.key, val |-> n.val, len |-> n.len,
                             pre |-> FALSE, ok |-> FALSE, ret |-> "GcNode"]
             /\ SameCtx /\ local'.gc.sec = local.gc.sec /\ local'.gc.idx = j
<1> DEFINE j == Least(GcNodes)
           n == flash[local.gc.sec].kvs[j]
           p == [found |-> TRUE, sec |-> local.gc.sec, idx |-> j]
           x == [ptr |-> p, key |-> n.key, val |-> n.val, len |-> n.len,
                 pre |-> n.status = "PreDelete", ok |-> FALSE, ret |-> "GcNode"]
           l0 == [local EXCEPT !.gc.idx = j]
           d == [ptr |-> p, complete |-> FALSE, ret |-> "MvAlloc"]
           m == [[l0 EXCEPT !.mv = x] EXCEPT !.del = d]
<1>1. local \in Local /\ local.gc \in GcFrame
  BY TInvParts, FrameTypes
<1>2. GcNodes \subseteq Nat /\ GcNodes # {}
  <2>1. flash[local.gc.sec] \in SectorImage
    BY <1>1, TInvParts DEF GcFrame
  <2> QED BY SMTT(20), <2>1 DEF GcNode, GcNodes, NodesFrom, SectorImage
<1>3. j \in GcNodes /\ (\A i \in GcNodes : j <= i) /\ j \in Nat
  BY <1>2, LeastExists
<1>4. /\ pc = "GcNode" /\ pc' = "DelStatus" /\ flash' = flash /\ gcRequest' = gcRequest
      /\ result' = result /\ local' = m
  BY DEF GcNode, MvCall, DelCall, Goto, NoCall, ram
<1>5. x.pre = FALSE
  OBVIOUS
<1> HIDE DEF j, n, p, d
<1>6. /\ m.job = local.job /\ m.new = local.new /\ m.def = local.def /\ m.del = d
      /\ m.gc.ret = local.gc.ret /\ m.gc.sec = local.gc.sec /\ m.gc.idx = j /\ m.mv = x
  BY <1>1 DEF Local, GcFrame
<1>7. x = [ptr |-> p, key |-> n.key, val |-> n.val, len |-> n.len,
           pre |-> FALSE, ok |-> FALSE, ret |-> "GcNode"]
  BY <1>5
<1> HIDE DEF m, x
<1> QED BY <1>3, <1>4, <1>6, <1>7 DEF SameCtx, j, n, p, d

LEMMA ControlGcNode ==
  ASSUME TInv, ControlOK, GcNode, flash[local.gc.sec].kvs[Least(GcNodes)].status = "Write"
  PROVE  ControlOK'
<1> DEFINE j == Least(GcNodes)
           n == flash[local.gc.sec].kvs[j]
           p == [found |-> TRUE, sec |-> local.gc.sec, idx |-> j]
<1>1. /\ pc = "GcNode" /\ pc' = "DelStatus" /\ gcRequest' = gcRequest
      /\ local'.del = [ptr |-> p, complete |-> FALSE, ret |-> "MvAlloc"]
      /\ local'.mv = [ptr |-> p, key |-> n.key, val |-> n.val, len |-> n.len,
                      pre |-> FALSE, ok |-> FALSE, ret |-> "GcNode"]
      /\ SameCtx /\ local'.gc.sec = local.gc.sec /\ local'.gc.idx = j
  BY GcNodeIs
<1> HIDE DEF j, n
<1>2. /\ local'.del.ptr = p /\ local'.del.complete = FALSE /\ local'.del.ret = "MvAlloc"
      /\ local'.mv.ptr = p /\ local'.mv.pre = FALSE /\ local'.mv.ret = "GcNode"
      /\ p.sec = local.gc.sec /\ p.idx = j
  BY <1>1
<1> HIDE DEF p
<1>3. gcRequest' /\ GcCtx(local, result)'
  BY <1>1, CtxStays DEF ControlOK, InGc
<1> QED BY <1>1, <1>2, <1>3 DEF ControlOK, InGc, Copying, Updating, Wiping, Loading, DelFor, PutFor,
        FmtFor, DelPcs, PutPcs

\* ... to the place it finds.
LEMMA MvAllocIs ==
  ASSUME TInv, MvAlloc, ~local.mv.pre, local.mv.ret = "GcNode"
  PROVE  LET a == alloc_kv(flash, oldest, gcRequest, local.mv.len)
         IN  /\ pc = "MvAlloc" /\ flash' = flash /\ gcRequest' = a.gcReq
             /\ SameCtx /\ local'.gc = local.gc
             /\ ~a.found => pc' = "GcNode"
             /\ a.found => /\ pc' = "PutSec" /\ local'.mv = local.mv
                           /\ local'.put = [sec |-> a.sec, addr |-> empty_kv(flash[a.sec]),
                                            key |-> local.mv.key, val |-> local.mv.val,
                                            full |-> FALSE, ret |-> "MvReturn"]
<1> DEFINE a == alloc_kv(flash, oldest, gcRequest, local.mv.len)
           put == [sec |-> a.sec, addr |-> empty_kv(flash[a.sec]), key |-> local.mv.key,
                   val |-> local.mv.val, full |-> FALSE, ret |-> "MvReturn"]
           m == [local EXCEPT !.put = put]
           h == [local EXCEPT !.mv = NoLocal.mv]
<1>1. local \in Local
  BY TInvParts
<1>2. ~Superseded
  BY DEF Superseded
<1>3. /\ pc = "MvAlloc" /\ flash' = flash /\ gcRequest' = a.gcReq /\ result' = result
      /\ \/ ~a.found /\ MvReturn(local, FALSE)
         \/ a.found /\ pc' = "PutSec" /\ local' = m
  BY <1>2 DEF MvAlloc, NoCall, Goto
<1>4. MvReturn(local, FALSE) => pc' = "GcNode" /\ local' = h
  BY DEF MvReturn, Goto
<1> HIDE DEF a, put
<1>5. /\ m.job = local.job /\ m.new = local.new /\ m.def = local.def /\ m.gc = local.gc
      /\ m.mv = local.mv /\ m.put = put
      /\ h.job = local.job /\ h.new = local.new /\ h.def = local.def /\ h.gc = local.gc
  BY <1>1 DEF Local
<1> HIDE DEF m, h
<1> QED BY <1>3, <1>4, <1>5 DEF SameCtx, a, put

LEMMA ControlMvAlloc == ASSUME TInv, ControlOK, MvAlloc PROVE ControlOK'
<1> DEFINE a == alloc_kv(flash, oldest, gcRequest, local.mv.len)
           put == [sec |-> a.sec, addr |-> empty_kv(flash[a.sec]), key |-> local.mv.key,
                   val |-> local.mv.val, full |-> FALSE, ret |-> "MvReturn"]
<1>1. Copying(pc, local) /\ InGc(pc, local)
  BY DEF MvAlloc, Copying, InGc
<1>2. /\ local.mv.ret = "GcNode" /\ ~local.mv.pre /\ gcRequest
      /\ local.mv.ptr.sec = local.gc.sec /\ local.mv.ptr.idx = local.gc.idx
  BY <1>1 DEF ControlOK
<1>3. /\ gcRequest' = a.gcReq /\ SameCtx /\ local'.gc = local.gc
      /\ ~a.found => pc' = "GcNode"
      /\ a.found => pc' = "PutSec" /\ local'.mv = local.mv /\ local'.put = put
  BY <1>2, MvAllocIs
<1>4. a.gcReq
  BY <1>2 DEF alloc_kv
<1>5. GcCtx(local, result)'
  BY <1>1, <1>3, CtxStays DEF ControlOK
<1>6. put.key = local.mv.key /\ put.val = local.mv.val /\ put.ret = "MvReturn"
  OBVIOUS
<1> HIDE DEF a, put
<1> QED BY <1>2, <1>3, <1>4, <1>5, <1>6 DEF ControlOK, InGc, Copying, Updating, Wiping, Loading,
        DelFor, PutFor, FmtFor, DelPcs, PutPcs

----------------------------------------------------------------------------

\* new_kv: a place, a collection or a failure.
LEMMA NewKvIs ==
  ASSUME TInv, NewKv
  PROVE  LET a == alloc_kv(flash, oldest, gcRequest, NewKvLen)
             l == [local EXCEPT !.new.tried = TRUE]
         IN  /\ pc = "NewKv" /\ flash' = flash
             /\ \/ /\ a.found /\ SameCtx
                   /\ pc' = IF local.new.ret = "SetFind" THEN "SetFind" ELSE "PutSec"
                   /\ local'.put = [sec |-> a.sec, addr |-> empty_kv(flash[a.sec]),
                                    key |-> local.new.key, val |-> local.new.val, full |-> FALSE,
                                    ret |-> IF local.new.ret = "SetFind" THEN "SetEnd" ELSE "DefKv"]
                \/ /\ GcCall(l, NewKvLen, "NewKv") /\ gcRequest' = TRUE /\ result' = result
                   /\ l \in Local /\ l.job = local.job /\ l.def = local.def
                   /\ l.new.key = local.new.key /\ l.new.val = local.new.val
                   /\ l.new.ret = local.new.ret
                \/ /\ local.new.ret = "SetFind" /\ pc' = "Idle" /\ local' = NoLocal
                   /\ result' = "SavedFull"
                \/ /\ local.new.ret # "SetFind" /\ pc' = "DefKv" /\ result' = result
                   /\ local'.job = local.job /\ local'.def.i = local.def.i + 1
                   /\ local'.def.ret = local.def.ret
<1> DEFINE a == alloc_kv(flash, oldest, gcRequest, NewKvLen)
           new == local.new
           put == [sec |-> a.sec, addr |-> empty_kv(flash[a.sec]), key |-> new.key,
                   val |-> new.val, full |-> FALSE,
                   ret |-> IF new.ret = "SetFind" THEN "SetEnd" ELSE "DefKv"]
           l == [local EXCEPT !.new.tried = TRUE]
           m == [local EXCEPT !.put = put]
           h == [local EXCEPT !.def.i = @ + 1]
<1>1. local \in Local /\ local.new \in NewFrame /\ local.def \in DefFrame
  BY TInvParts, FrameTypes
<1>2. /\ pc = "NewKv" /\ flash' = flash
      /\ \/ /\ a.found /\ result' = result /\ local' = m
            /\ pc' = IF local.new.ret = "SetFind" THEN "SetFind" ELSE "PutSec"
         \/ GcCall(l, NewKvLen, "NewKv") /\ gcRequest' = TRUE /\ result' = result
         \/ /\ local.new.ret = "SetFind" /\ pc' = "Idle" /\ local' = NoLocal
            /\ result' = "SavedFull"
         \/ local.new.ret # "SetFind" /\ pc' = "DefKv" /\ result' = result /\ local' = h
  BY DEF NewKv, NewKvFound, NewKvFailed, Return, Goto, NoCall
<1>3. /\ l \in Local /\ l.job = local.job /\ l.def = local.def
      /\ l.new.key = local.new.key /\ l.new.val = local.new.val /\ l.new.ret = local.new.ret
  BY <1>1 DEF Local, NewFrame
<1>4. h.job = local.job /\ h.def.i = local.def.i + 1 /\ h.def.ret = local.def.ret
  BY <1>1 DEF Local, DefFrame
<1> HIDE DEF a, put, l, h
<1>5. /\ m.job = local.job /\ m.new = local.new /\ m.def = local.def /\ m.gc = local.gc
      /\ m.put = put
  BY <1>1 DEF Local
<1> HIDE DEF m
<1>6. CASE a.found /\ result' = result /\ local' = m
           /\ pc' = (IF local.new.ret = "SetFind" THEN "SetFind" ELSE "PutSec")
  BY <1>2, <1>5, <1>6 DEF SameCtx, a, put
<1>7. CASE GcCall(l, NewKvLen, "NewKv") /\ gcRequest' = TRUE /\ result' = result
  BY <1>2, <1>3, <1>7 DEF l
<1>8. CASE /\ local.new.ret = "SetFind" /\ pc' = "Idle" /\ local' = NoLocal
           /\ result' = "SavedFull"
  BY <1>2, <1>8
<1>9. CASE local.new.ret # "SetFind" /\ pc' = "DefKv" /\ result' = result /\ local' = h
  BY <1>2, <1>4, <1>9
<1> QED BY <1>2, <1>6, <1>7, <1>8, <1>9

LEMMA ControlNewKv == ASSUME TInv, ControlOK, NewKv PROVE ControlOK'
<1> DEFINE a == alloc_kv(flash, oldest, gcRequest, NewKvLen)
           l == [local EXCEPT !.new.tried = TRUE]
           put == [sec |-> a.sec, addr |-> empty_kv(flash[a.sec]),
                   key |-> local.new.key, val |-> local.new.val, full |-> FALSE,
                   ret |-> IF local.new.ret = "SetFind" THEN "SetEnd" ELSE "DefKv"]
<1>1. NewCtx(local)
  BY DEF NewKv, ControlOK
<1>2. \/ /\ SameCtx /\ local'.put = put
         /\ pc' = IF local.new.ret = "SetFind" THEN "SetFind" ELSE "PutSec"
      \/ /\ GcCall(l, NewKvLen, "NewKv") /\ gcRequest' = TRUE /\ result' = result
         /\ l \in Local /\ l.job = local.job /\ l.def = local.def
         /\ l.new.key = local.new.key /\ l.new.val = local.new.val /\ l.new.ret = local.new.ret
      \/ pc' = "Idle"
      \/ /\ local.new.ret # "SetFind" /\ pc' = "DefKv" /\ result' = result
         /\ local'.job = local.job /\ local'.def.i = local.def.i + 1
         /\ local'.def.ret = local.def.ret
  BY NewKvIs
<1>3. /\ put.key = local.new.key /\ put.val = local.new.val
      /\ put.ret = IF local.new.ret = "SetFind" THEN "SetEnd" ELSE "DefKv"
  OBVIOUS
<1> HIDE DEF a, put, l
<1>4. CASE /\ SameCtx /\ local'.put = put
           /\ pc' = IF local.new.ret = "SetFind" THEN "SetFind" ELSE "PutSec"
  <2>1. CASE local.new.ret = "SetFind"
    BY <1>1, <1>3, <1>4, <2>1, CtxStays DEF ControlOK, InGc, Copying, Updating, Wiping, Loading,
       DelFor, PutFor, FmtFor, DelPcs, PutPcs, NewCtx, SameCtx
  <2>2. CASE local.new.ret # "SetFind"
    <3>1. DefCtx(local) /\ IsDefault(local, local.new)
      BY <1>1, <2>2 DEF NewCtx
    <3>2. DefCtx(local)'
      BY <1>4, <3>1, CtxStays
    <3>3. IsDefault(local, local.put)'
      BY <1>3, <1>4, <3>1 DEF IsDefault, SameCtx
    <3> QED BY <1>3, <1>4, <2>2, <3>2, <3>3 DEF ControlOK, InGc, Copying, Updating, Wiping,
            Loading, DelFor, PutFor, FmtFor, DelPcs, PutPcs
  <2> QED BY <2>1, <2>2
<1>5. CASE /\ GcCall(l, NewKvLen, "NewKv") /\ gcRequest' = TRUE /\ result' = result
           /\ l \in Local /\ l.job = local.job /\ l.def = local.def
           /\ l.new.key = local.new.key /\ l.new.val = local.new.val /\ l.new.ret = local.new.ret
  <2>1. NewCtx(l)
    BY <1>1, <1>5 DEF NewCtx, SetCtx, DefCtx, IsDefault
  <2> QED BY <1>5, <2>1, ControlGcCall
<1>6. CASE pc' = "Idle"
  BY <1>6, ControlIdle
<1>7. CASE /\ local.new.ret # "SetFind" /\ pc' = "DefKv" /\ result' = result
           /\ local'.job = local.job /\ local'.def.i = local.def.i + 1
           /\ local'.def.ret = local.def.ret
  <2>1. DefCtx(local)'
    BY <1>1, <1>7 DEF NewCtx, DefCtx
  <2> QED BY <1>7, <2>1 DEF ControlOK, InGc, Copying, Updating, Wiping, Loading,
       DelFor, PutFor, FmtFor, DelPcs, PutPcs
<1> QED BY <1>2, <1>4, <1>5, <1>6, <1>7

LEMMA SetIs ==
  ASSUME TInv, NEW k \in Keys, NEW v \in Values, Set(k, v)
  PROVE  /\ pc = "Idle" /\ pc' = "NewKv" /\ flash' = flash /\ result' = "None" /\ local = NoLocal
         /\ local'.new = [key |-> k, val |-> v, tried |-> FALSE, ret |-> "SetFind"]
         /\ local'.job.op = "Set" /\ local'.job.key = k /\ local'.job.val = v
         /\ ~local'.job.done
<1> DEFINE x == [key |-> k, val |-> v, tried |-> FALSE, ret |-> "SetFind"]
           y == [local.job EXCEPT !.op = "Set", !.key = k, !.val = v]
           m == [[local EXCEPT !.job = y] EXCEPT !.new = x]
<1>1. /\ pc = "Idle" /\ pc' = "NewKv" /\ flash' = flash /\ result' = "None"
      /\ local' = [[local EXCEPT !.job = [@ EXCEPT !.op = "Set", !.key = k, !.val = v]]
                      EXCEPT !.new = x]
  BY DEF Set, Idle, NewCall, Goto, NoCall
<1>2. local = NoLocal
  BY <1>1 DEF TInv, ArgsOK
<1>3. y.op = "Set" /\ y.key = k /\ y.val = v /\ y.done = FALSE
  <2>1. local.job \in Job /\ local.job.done = FALSE
    BY <1>2, TInvParts, FrameTypes DEF NoLocal
  <2> QED BY <2>1 DEF Job
<1> HIDE DEF x, y
<1>4. m.job = y /\ m.new = x
  <2>1. local \in Local
    BY TInvParts
  <2> QED BY <2>1 DEF Local
<1>5. local' = m
  BY <1>1, <1>2 DEF NoLocal, y
<1> HIDE DEF m
<1> QED BY <1>1, <1>2, <1>3, <1>4, <1>5 DEF x

LEMMA ControlSet ==
  ASSUME TInv, NEW k \in Keys, NEW v \in Values, Set(k, v)
  PROVE  ControlOK'
<1>1. local'.new.key = k /\ local'.new.val = v /\ local'.new.ret = "SetFind"
  <2>1. local'.new = [key |-> k, val |-> v, tried |-> FALSE, ret |-> "SetFind"]
    BY SetIs
  <2> QED BY <2>1
<1>2. NewCtx(local)'
  BY <1>1, SetIs DEF NewCtx, SetCtx
<1> QED BY <1>2, SetIs DEF ControlOK, InGc, Copying, Updating, Wiping, Loading, DelFor, PutFor,
        FmtFor, DelPcs, PutPcs

\* set_kv looks for the old node.
LEMMA SetFindIs ==
  ASSUME TInv, SetFind
  PROVE  LET k == local.job.key
             f == find_kv(flash, oldest, k)
         IN  /\ pc = "SetFind" /\ flash' = flash /\ SameJob(local'.job, local.job)
             /\ local'.job.old = f /\ local'.put = local.put
             /\ f.found => /\ pc' = "DelStatus" /\ result' = result
                           /\ local'.del = [ptr |-> f, complete |-> FALSE, ret |-> "PutSec"]
             /\ ~f.found /\ KeyLen[k] > KV_NAME_MAX => pc' = "SetEnd" /\ result' = "KvNameErr"
             /\ ~f.found /\ ~(KeyLen[k] > KV_NAME_MAX) => pc' = "PutSec" /\ result' = result
<1> DEFINE k == local.job.key
           f == find_kv(flash, oldest, k)
           l == [local EXCEPT !.job.old = f]
           d == [ptr |-> f, complete |-> FALSE, ret |-> "PutSec"]
           m == [l EXCEPT !.del = d]
<1>1. local \in Local /\ local.job \in Job
  BY TInvParts, FrameTypes
<1>2. /\ pc = "SetFind" /\ flash' = flash
      /\ f.found => pc' = "DelStatus" /\ result' = result /\ local' = m
      /\ ~f.found /\ KeyLen[k] > KV_NAME_MAX =>
            pc' = "SetEnd" /\ result' = "KvNameErr" /\ local' = l
      /\ ~f.found /\ ~(KeyLen[k] > KV_NAME_MAX) =>
            pc' = "PutSec" /\ result' = result /\ local' = l
  BY DEF SetFind, DelCall, Goto, NoCall
<1> HIDE DEF k, f, d
<1>3. l.job.op = local.job.op /\ l.job.key = local.job.key /\ l.job.val = local.job.val
      /\ l.job.done = local.job.done /\ l.job.old = f /\ l.put = local.put
  BY <1>1 DEF Local, Job
<1>4. m.job.op = local.job.op /\ m.job.key = local.job.key /\ m.job.val = local.job.val
      /\ m.job.done = local.job.done /\ m.job.old = f /\ m.put = local.put /\ m.del = d
  BY <1>1 DEF Local, Job
<1> HIDE DEF l, m
<1> QED BY <1>2, <1>3, <1>4 DEF SameJob, k, f, d

LEMMA ControlSetFind ==
  ASSUME TInv, WInv, PlainKeys, ControlOK, SetFind
  PROVE  ControlOK'
<1> DEFINE k == local.job.key
           f == find_kv(flash, oldest, k)
           d == [ptr |-> f, complete |-> FALSE, ret |-> "PutSec"]
<1>1. SetCtx(local) /\ local.put.key = local.job.key /\ local.put.val = local.job.val
  BY DEF SetFind, ControlOK, Updating
<1>2. /\ pc = "SetFind" /\ SameJob(local'.job, local.job)
      /\ local'.job.old = f /\ local'.put = local.put
      /\ f.found => pc' = "DelStatus" /\ result' = result /\ local'.del = d
      /\ ~f.found /\ KeyLen[k] > KV_NAME_MAX => pc' = "SetEnd" /\ result' = "KvNameErr"
      /\ ~f.found /\ ~(KeyLen[k] > KV_NAME_MAX) => pc' = "PutSec" /\ result' = result
  BY SetFindIs
<1>3. local.put.ret = "SetEnd"
  BY <1>2 DEF WInv, KeptOK
<1>4. d.ptr = f /\ d.complete = FALSE /\ d.ret = "PutSec"
  OBVIOUS
<1>5. k \in Keys /\ KeyLen[k] \in Nat
  <2>1. Stored(local.put.key, local.put.val)
    BY <1>2, TInvParts DEF ArgsOK, PutLive, PutWaits
  <2> QED BY <1>1, <2>1, LengthAssumption DEF Stored
<1>6. f.found => KeyLen[k] < KV_NAME_MAX
  BY DEF find_kv
<1>7. ~(KeyLen[k] > KV_NAME_MAX) => KeyLen[k] < KV_NAME_MAX
  BY <1>5 DEF PlainKeys, KV_NAME_MAX
<1> HIDE DEF f, d
<1>8. CASE f.found
  <2>1. /\ local'.del.ptr = f /\ local'.del.complete = FALSE /\ local'.del.ret = "PutSec"
    BY <1>2, <1>4, <1>8
  <2> QED BY <1>1, <1>2, <1>6, <1>8, <2>1 DEF ControlOK, InGc, Copying, Updating, Wiping, Loading,
          DelFor, PutFor, FmtFor, DelPcs, PutPcs, SetCtx, SameJob
<1>9. CASE ~f.found /\ KeyLen[k] > KV_NAME_MAX
  BY <1>1, <1>2, <1>9 DEF ControlOK, InGc, Copying, Updating, Wiping, Loading,
     DelFor, PutFor, FmtFor, DelPcs, PutPcs, SetCtx, EndCtx, SameJob
<1>10. CASE ~f.found /\ ~(KeyLen[k] > KV_NAME_MAX)
  BY <1>1, <1>2, <1>3, <1>7, <1>10 DEF ControlOK, InGc, Copying, Updating, Wiping, Loading,
     DelFor, PutFor, FmtFor, DelPcs, PutPcs, SetCtx, SameJob
<1> QED BY <1>8, <1>9, <1>10

LEMMA ControlSetEnd == ASSUME TInv, ControlOK, SetEnd PROVE ControlOK'
<1>1. EndCtx(local, result) /\ local \in Local
  BY TInvParts DEF SetEnd, ControlOK
<1>2. CASE gcRequest
  <2>1. gcRequest' = TRUE /\ result' = result
        /\ GcCall(local, kv_len(local.job.key, local.job.val), "Idle")
    BY <1>2, TInvParts DEF SetEnd, RamOK, ram
  <2> QED BY <1>1, <2>1, ControlGcCall
<1>3. CASE ~gcRequest
  BY <1>3, ControlIdle DEF SetEnd, Goto
<1> QED BY <1>2, <1>3

\* del: the node is found and deleted.
LEMMA DelIs ==
  ASSUME TInv, NEW k \in Keys, Del(k)
  PROVE  LET f == find_kv(flash, oldest, k)
         IN  /\ pc = "Idle" /\ flash' = flash /\ local = NoLocal
             /\ f.found => /\ pc' = "DelStatus" /\ result' = "None"
                           /\ local'.del = [ptr |-> f, complete |-> TRUE, ret |-> "Idle"]
                           /\ local'.job.op = "Del" /\ local'.job.key = k /\ local'.job.val = None
                           /\ ~local'.job.done
             /\ ~f.found => pc' = "Idle" /\ result' = "KvNameErr" /\ local' = NoLocal
<1> DEFINE f == find_kv(flash, oldest, k)
           job == [NoLocal.job EXCEPT !.op = "Del", !.key = k]
           d == [ptr |-> f, complete |-> TRUE, ret |-> "Idle"]
           m == [[local EXCEPT !.job = job] EXCEPT !.del = d]
<1>1. local \in Local /\ NoLocal.job \in Job
  BY TInvParts, NoLocalType, FrameTypes
<1>2. /\ pc = "Idle" /\ flash' = flash
      /\ f.found => pc' = "DelStatus" /\ result' = "None" /\ local' = m
      /\ ~f.found => pc' = "Idle" /\ result' = "KvNameErr" /\ local' = NoLocal
  BY DEF Del, DelCall, Return, Goto, NoCall
<1>3. local = NoLocal
  BY <1>2 DEF TInv, ArgsOK
<1>4. job.op = "Del" /\ job.key = k /\ job.val = None /\ job.done = FALSE
  <2>1. NoLocal.job.val = None /\ NoLocal.job.done = FALSE
    BY DEF NoLocal
  <2> QED BY <1>1, <2>1 DEF Job
<1> HIDE DEF f, job, d
<1>5. m.job = job /\ m.del = d
  BY <1>1 DEF Local
<1> HIDE DEF m
<1> QED BY <1>2, <1>3, <1>4, <1>5 DEF f, d

LEMMA ControlDelete == ASSUME TInv, NEW k \in Keys, Del(k) PROVE ControlOK'
<1> DEFINE f == find_kv(flash, oldest, k)
<1>1. CASE f.found
  <2>1. local'.del.complete = TRUE /\ local'.del.ret = "Idle"
    <3>1. local'.del = [ptr |-> f, complete |-> TRUE, ret |-> "Idle"]
      BY <1>1, DelIs
    <3> QED BY <3>1
  <2>2. /\ pc' = "DelStatus" /\ local'.job.op = "Del" /\ local'.job.val = None
        /\ ~local'.job.done
    BY <1>1, DelIs
  <2> QED BY <2>1, <2>2 DEF ControlOK, InGc, Copying, Updating, Wiping, Loading,
          DelFor, PutFor, FmtFor, DelPcs, PutPcs
<1>2. CASE ~f.found
  BY <1>2, DelIs, ControlIdle
<1> QED BY <1>1, <1>2

----------------------------------------------------------------------------

\* set_default formats one sector after the other, then it writes the defaults.
LEMMA SetDefaultIs ==
  ASSUME TInv, SetDefault
  PROVE  /\ pc = "Idle" /\ pc' = "DefFormat" /\ flash' = flash /\ local = NoLocal
         /\ local'.job.op = "Default" /\ local'.def.ret = "Idle" /\ local'.def.i = 0
         /\ local'.job.key = None /\ local'.job.val = None /\ ~local'.job.done /\ result' = "None"
<1> DEFINE m == [local EXCEPT !.job.op = "Default", !.def.ret = "Idle"]
<1>1. /\ pc = "Idle" /\ pc' = "DefFormat" /\ flash' = flash /\ local' = m /\ result' = "None"
  BY DEF SetDefault, Idle, Goto, NoCall
<1>2. local = NoLocal
  BY <1>1 DEF TInv, ArgsOK
<1>3. /\ local.def.i = 0 /\ local.job.key = None /\ local.job.val = None
      /\ local.job.done = FALSE
  BY <1>2 DEF NoLocal
<1>4. local \in Local /\ local.job \in Job /\ local.def \in DefFrame
  BY TInvParts, FrameTypes
<1>5. /\ m.job.op = "Default" /\ m.def.ret = "Idle" /\ m.def.i = local.def.i
      /\ m.job.key = local.job.key /\ m.job.val = local.job.val /\ m.job.done = local.job.done
  BY <1>4 DEF Local, Job, DefFrame
<1> HIDE DEF m
<1> QED BY <1>1, <1>2, <1>3, <1>5

LEMMA DefFormatIs ==
  ASSUME TInv, DefFormat
  PROVE  /\ pc = "DefFormat" /\ flash' = flash /\ local'.job = local.job /\ result' = result
         /\ local'.def.ret = local.def.ret
         /\ local.def.i < N => /\ pc' = "FmtErase" /\ local'.def.i = local.def.i + 1
                               /\ local'.fmt.sec = local.def.i /\ local'.fmt.ret = "DefFormat"
         /\ ~(local.def.i < N) => pc' = "DefKv" /\ local'.def.i = 0
<1> DEFINE h(x) == [local EXCEPT !.def.i = x]
<1>1. local \in Local /\ local.def \in DefFrame
  BY TInvParts, FrameTypes
<1>2. ASSUME NEW x
      PROVE  /\ h(x).job = local.job /\ h(x).def.i = x /\ h(x).def.ret = local.def.ret
  BY <1>1 DEF Local, DefFrame
<1>3. /\ pc = "DefFormat" /\ flash' = flash /\ result' = result
      /\ local.def.i < N => FmtCall(h(local.def.i + 1), local.def.i, "DefFormat")
      /\ ~(local.def.i < N) => pc' = "DefKv" /\ local' = h(0)
  BY DEF DefFormat, ToFormat, Goto, NoCall
<1>4. h(local.def.i + 1) \in Local
  <2>1. local.def.i + 1 \in Nat
    BY <1>1 DEF DefFrame
  <2> QED BY <1>1, <2>1 DEF Local, DefFrame
<1> HIDE DEF h
<1>5. CASE local.def.i < N
  <2> DEFINE x == [sec |-> local.def.i, ret |-> "DefFormat"]
             l == h(local.def.i + 1)
             m == [l EXCEPT !.fmt = x]
  <2>1. pc' = "FmtErase" /\ local' = m
    BY <1>3, <1>5 DEF FmtCall, Goto
  <2>2. x.sec = local.def.i /\ x.ret = "DefFormat"
    OBVIOUS
  <2>3. /\ l.job = local.job /\ l.def.i = local.def.i + 1
        /\ l.def.ret = local.def.ret
    BY <1>2
  <2> HIDE DEF x, l
  <2>4. m.fmt = x /\ m.job = l.job /\ m.def = l.def
    BY <1>4, FrameChange DEF l
  <2> HIDE DEF m
  <2> QED BY <1>3, <1>5, <2>1, <2>2, <2>3, <2>4
<1>6. CASE ~(local.def.i < N)
  BY <1>2, <1>3, <1>6
<1> QED BY <1>5, <1>6

LEMMA DefaultTypes ==
  \A i \in DOMAIN Defaults : Defaults[i].key \in Keys /\ Defaults[i].val \in Values
<1> TAKE i \in DOMAIN Defaults
<1>1. ASSUME NEW S, NEW q \in Seq(S), NEW j \in DOMAIN q PROVE q[j] \in S
  OBVIOUS
<1>2. Defaults[i] \in [key: Keys, val: Values]
  BY ONLY <1>1, DefaultsAssumption, i \in DOMAIN Defaults
<1> QED BY <1>2

LEMMA DefKvIs ==
  ASSUME TInv, DefKv
  PROVE  LET kv == Defaults[local.def.i + 1]
         IN  /\ pc = "DefKv" /\ flash' = flash /\ result' = result
             /\ local.def.i + 1 \in DOMAIN Defaults
             /\ local'.job = local.job /\ local'.def.ret = local.def.ret
             /\ \/ pc' = "DefKv" /\ local'.def.i = local.def.i + 1
                \/ /\ pc' = "NewKv" /\ local'.def = local.def /\ ~(KeyLen[kv.key] > KV_NAME_MAX)
                   /\ local'.new = [key |-> kv.key, val |-> kv.val, tried |-> FALSE,
                                    ret |-> "DefKv"]
<1> DEFINE kv == Defaults[local.def.i + 1]
           x == [key |-> kv.key, val |-> kv.val, tried |-> FALSE, ret |-> "DefKv"]
           h == [local EXCEPT !.def.i = @ + 1]
           m == [local EXCEPT !.new = x]
<1>1. local \in Local /\ local.def \in DefFrame
  BY TInvParts, FrameTypes
<1>2. /\ pc = "DefKv" /\ flash' = flash /\ result' = result /\ local.def.i < Len(Defaults)
      /\ \/ pc' = "DefKv" /\ local' = h
         \/ pc' = "NewKv" /\ local' = m /\ ~(KeyLen[kv.key] > KV_NAME_MAX)
  BY DEF DefKv, NewCall, Goto, NoCall, ram
<1>3. local.def.i + 1 \in DOMAIN Defaults
  BY <1>1, <1>2, DefaultsAssumption DEF DefFrame
<1>4. h.job = local.job /\ h.def.i = local.def.i + 1 /\ h.def.ret = local.def.ret
  BY <1>1 DEF Local, DefFrame
<1> HIDE DEF kv, x, h
<1>5. m.job = local.job /\ m.def = local.def /\ m.new = x
  BY <1>1 DEF Local
<1> HIDE DEF m
<1>6. CASE pc' = "DefKv" /\ local' = h
  BY <1>2, <1>3, <1>4, <1>6
<1>7. CASE pc' = "NewKv" /\ local' = m /\ ~(KeyLen[kv.key] > KV_NAME_MAX)
  BY <1>2, <1>3, <1>5, <1>7 DEF kv, x
<1> QED BY <1>2, <1>6, <1>7

LEMMA LoadGcCallIs ==
  ASSUME NEW l \in Local, NEW base, LoadGcCall(l, base)
  PROVE  pc' = "LoadGc" /\ local'.job = l.job
BY DEF LoadGcCall, Goto, Local

LEMMA DefEndIs ==
  ASSUME TInv, DefEnd
  PROVE  /\ pc = "DefKv" /\ flash' = flash
         /\ local.def.ret = "Idle" => pc' = "Idle" /\ local' = NoLocal /\ result' = "Ok"
         /\ local.def.ret # "Idle" => pc' = "LoadGc" /\ local'.job = local.job
BY TInvParts, LoadGcCallIs DEF DefEnd, Return, Goto, NoCall

LEMMA ControlDefault ==
  ASSUME TInv, PlainKeys, ControlOK, SetDefault \/ DefFormat \/ DefKv \/ DefEnd
  PROVE  ControlOK'
<1>1. CASE SetDefault
  <2>1. DefCtx(local)'
    BY <1>1, SetDefaultIs DEF DefCtx
  <2> QED BY <1>1, <2>1, SetDefaultIs DEF ControlOK, InGc, Copying, Updating, Wiping, Loading,
          DelFor, PutFor, FmtFor, DelPcs, PutPcs
<1>2. CASE DefFormat
  <2>1. DefCtx(local)
    BY <1>2 DEF DefFormat, ControlOK, Wiping
  <2>2. DefCtx(local)' /\ (pc' = "DefKv" \/ (pc' = "FmtErase" /\ local'.fmt.ret = "DefFormat"))
    BY <1>2, <2>1, DefFormatIs DEF DefCtx
  <2> QED BY <2>2 DEF ControlOK, InGc, Copying, Updating, Wiping, Loading,
          DelFor, PutFor, FmtFor, DelPcs, PutPcs
<1>3. CASE DefKv
  <2> DEFINE kv == Defaults[local.def.i + 1]
             x == [key |-> kv.key, val |-> kv.val, tried |-> FALSE, ret |-> "DefKv"]
  <2>1. /\ DefCtx(local) /\ pc = "DefKv" /\ local'.job = local.job
        /\ local'.def.ret = local.def.ret
        /\ local.def.i + 1 \in DOMAIN Defaults
        /\ \/ pc' = "DefKv"
           \/ /\ pc' = "NewKv" /\ local'.def = local.def /\ ~(KeyLen[kv.key] > KV_NAME_MAX)
              /\ local'.new = x
    BY <1>3, DefKvIs DEF ControlOK
  <2>2. DefCtx(local)'
    BY <2>1 DEF DefCtx
  <2>3. CASE pc' = "DefKv"
    BY <2>2, <2>3 DEF ControlOK, InGc, Copying, Updating, Wiping, Loading,
       DelFor, PutFor, FmtFor, DelPcs, PutPcs
  <2>4. CASE /\ pc' = "NewKv" /\ local'.def = local.def /\ ~(KeyLen[kv.key] > KV_NAME_MAX)
             /\ local'.new = x
    <3>1. KeyLen[kv.key] \in Nat /\ kv.key \in Keys
      BY <2>1, DefaultTypes, LengthAssumption
    <3>2. KeyLen[kv.key] < KV_NAME_MAX
      BY <2>4, <3>1 DEF PlainKeys, KV_NAME_MAX
    <3>3. x.key = kv.key /\ x.val = kv.val /\ x.ret = "DefKv"
      OBVIOUS
    <3> HIDE DEF x
    <3>4. IsDefault(local, local.new)'
      BY <2>1, <2>4, <3>2, <3>3 DEF IsDefault
    <3>5. NewCtx(local)'
      BY <2>2, <2>4, <3>3, <3>4 DEF NewCtx
    <3> QED BY <2>4, <3>5 DEF ControlOK, InGc, Copying, Updating, Wiping, Loading,
            DelFor, PutFor, FmtFor, DelPcs, PutPcs
  <2> QED BY <2>1, <2>3, <2>4
<1>4. CASE DefEnd
  <2>1. CASE local.def.ret = "Idle"
    BY <1>4, <2>1, DefEndIs, ControlIdle
  <2>2. CASE local.def.ret # "Idle"
    <3>1. local'.job.op = "Open"
      BY <1>4, <2>2, DefEndIs DEF ControlOK, DefCtx
    <3> QED BY <1>4, <2>2, <3>1, DefEndIs DEF ControlOK, InGc, Copying, Updating, Wiping, Loading,
            DelFor, PutFor, FmtFor, DelPcs, PutPcs
  <2> QED BY <2>1, <2>2
<1> QED BY <1>1, <1>2, <1>3, <1>4

----------------------------------------------------------------------------

\* kv_load.
LEMMA OpenIs ==
  ASSUME TInv, NEW strict \in BOOLEAN, Open(strict)
  PROVE  /\ pc = "Off" /\ pc' = "LoadHdr" /\ flash' = flash /\ result' = "None"
         /\ local'.job.op = "Open" /\ local'.job.key = None /\ local'.job.val = None
         /\ ~local'.job.done
         /\ local'.load.i = 0 /\ local'.load.bad = 0
<1> DEFINE m(x) == [NoLocal EXCEPT !.job.op = "Open", !.load.from = x, !.load.strict = strict]
<1>1. /\ pc = "Off" /\ pc' = "LoadHdr" /\ flash' = flash /\ result' = "None"
      /\ local' = m(oldest')
  BY DEF Open, Goto, NoCall
<1>2. /\ NoLocal.job.key = None /\ NoLocal.job.val = None /\ NoLocal.job.done = FALSE
      /\ NoLocal.load.i = 0 /\ NoLocal.load.bad = 0
  BY DEF NoLocal
<1>3. NoLocal \in Local /\ NoLocal.job \in Job /\ NoLocal.load \in LoadFrame
  BY NoLocalType, FrameTypes
<1>4. ASSUME NEW x
      PROVE  /\ m(x).job.op = "Open" /\ m(x).job.key = NoLocal.job.key
             /\ m(x).job.val = NoLocal.job.val /\ m(x).job.done = NoLocal.job.done
             /\ m(x).load.i = NoLocal.load.i /\ m(x).load.bad = NoLocal.load.bad
  BY <1>3 DEF Local, Job, LoadFrame
<1> HIDE DEF m
<1> QED BY <1>1, <1>2, <1>4

LEMMA LoadHdrIs ==
  ASSUME TInv, LoadHdr
  PROVE  LET i == Least(BadAhead)
         IN  /\ pc = "LoadHdr" /\ pc' = "FmtErase" /\ flash' = flash /\ result' = result
             /\ i \in BadAhead /\ i \in Nat
             /\ local'.job = local.job /\ local'.fmt.sec = Nth(local.load.from, i)
             /\ local'.fmt.ret = "LoadHdr"
             /\ local'.load.i = i + 1 /\ local'.load.bad = local.load.bad + 1
             /\ local'.load.from = local.load.from
<1>1. PICK i : i = Least(BadAhead)
  OBVIOUS
<1> DEFINE from == local.load.from
           x == [local.load EXCEPT !.i = i + 1, !.bad = @ + 1]
           l == [local EXCEPT !.load = x]
<1>2. /\ local \in Local /\ local.load \in LoadFrame /\ flash' = flash /\ result' = result
      /\ pc = "LoadHdr" /\ N \in Nat
  BY TInvParts, FrameTypes, GeometryType DEF LoadHdr, NoCall
<1>3. i \in Nat /\ i \in BadAhead
  <2>1. BadAhead \subseteq Nat /\ BadAhead # {}
    BY <1>2 DEF LoadHdr, BadAhead, LoadFrame
  <2> QED BY <1>1, <2>1, LeastExists
<1>4. x \in LoadFrame /\ x.i = i + 1 /\ x.from = from /\ x.bad = local.load.bad + 1
  <2>1. \A a, b \in Nat : LET y == [local.load EXCEPT !.i = a, !.bad = b]
                          IN  y \in LoadFrame /\ y.i = a /\ y.from = from /\ y.bad = b
    BY <1>2 DEF LoadFrame
  <2>2. i + 1 \in Nat /\ local.load.bad + 1 \in Nat
    BY <1>2, <1>3 DEF LoadFrame
  <2> QED BY <2>1, <2>2
<1>5. FmtCall(l, Nth(from, i), "LoadHdr")
  <2>1. FmtCall([local EXCEPT !.load.i = i + 1, !.load.bad = @ + 1], Nth(from, i), "LoadHdr")
    BY <1>1 DEF LoadHdr
  <2>2. l = [local EXCEPT !.load.i = i + 1, !.load.bad = @ + 1]
    BY <1>2 DEF Local, LoadFrame
  <2> QED BY <2>1, <2>2
<1> HIDE DEF x
<1>6. l \in Local /\ l.load = x /\ l.job = local.job
  BY <1>2, <1>4 DEF Local
<1> HIDE DEF l
<1>7. /\ pc' = "FmtErase" /\ local'.fmt.ret = "LoadHdr" /\ local'.fmt.sec = Nth(from, i)
      /\ local'.load = l.load
  BY <1>5, <1>6, FmtCallIs
<1>8. local'.job = l.job
  BY <1>5, <1>6, FrameChange DEF FmtCall, Goto
<1> QED BY <1>1, <1>2, <1>3, <1>4, <1>6, <1>7, <1>8

LEMMA LoadHdrEndIs ==
  ASSUME TInv, LoadHdrEnd
  PROVE  /\ pc = "LoadHdr" /\ BadAhead = {} /\ flash' = flash /\ local'.job = local.job
         /\ result' = result
         /\ \/ /\ local.load.bad = N /\ pc' = "DefFormat"
               /\ local'.def.ret = "LoadGc" /\ local'.def.i = local.def.i
            \/ pc' = "LoadGc"
<1> DEFINE d == [local EXCEPT !.load = NoLocal.load, !.def.ret = "LoadGc"]
<1>1. local \in Local /\ local.def \in DefFrame
  BY TInvParts, FrameTypes
<1>2. /\ pc = "LoadHdr" /\ BadAhead = {} /\ flash' = flash /\ result' = result
      /\ \/ local.load.bad = N /\ pc' = "DefFormat" /\ local' = d
         \/ LoadGcCall(local, oldest)
  BY DEF LoadHdrEnd, Goto, NoCall
<1>3. d.job = local.job /\ d.def.ret = "LoadGc" /\ d.def.i = local.def.i
  BY <1>1 DEF Local, DefFrame
<1> HIDE DEF d
<1> QED BY <1>1, <1>2, <1>3, LoadGcCallIs

\* The other steps of kv_load.
LEMMA LoadIs ==
  ASSUME TInv, LoadGc \/ LoadScan \/ LoadErrHdr(TRUE) \/ LoadPassEnd \/ LoadCollect
  PROVE  /\ pc \in {"LoadGc", "LoadScan", "LoadPass", "LoadCollect"}
         /\ \/ pc' \in {"LoadScan", "LoadPass", "LoadCollect"} /\ local'.job = local.job
            \/ \E l \in Local : \E r \in {"LoadGc", "LoadScan"} :
                  /\ l.job = local.job /\ GcCall(l, N * SecSize, r) /\ gcRequest' = TRUE
                  /\ local'.job = l.job
            \/ pc' = "Idle" /\ local' = NoLocal /\ result' = "Ok"
         /\ pc' # "Idle" => result' = result
<1>1. local \in Local /\ local.load \in LoadFrame /\ oldest \in Sector /\ gcRequest \in BOOLEAN
  BY TInvParts, FrameTypes DEF RamOK
<1>2. CASE LoadGc
  <2> DEFINE i == Least(GcMarkedAhead) + 1
             l == [local EXCEPT !.load.i = i]
             x == [NoLocal.gc EXCEPT !.free = N * SecSize, !.ret = "LoadGc"]
  <2>1. CASE GcMarkedAhead # {}
    <3>1. GcCall(l, N * SecSize, "LoadGc") /\ gcRequest' = TRUE
          /\ pc = "LoadGc" /\ result' = result
      BY <1>2, <2>1 DEF LoadGc
    <3>2. i \in Nat
      <4>1. GcMarkedAhead \subseteq Nat
        BY <1>1, GeometryType DEF GcMarkedAhead, LoadFrame
      <4>2. Least(GcMarkedAhead) \in Nat
        BY <2>1, <4>1, LeastExists
      <4> QED BY <4>2
    <3> HIDE DEF i
    <3>3. l \in Local /\ l.job = local.job
      BY <1>1, <3>2 DEF Local, LoadFrame
    <3>4. local'.job = l.job
      BY <3>1, <3>3, FrameChange DEF GcCall, Goto
    <3> HIDE DEF l
    <3> QED BY <3>1, <3>3, <3>4
  <2>2. CASE GcMarkedAhead = {}
    BY <1>2, <2>2 DEF LoadGc, Goto
  <2> QED BY <2>1, <2>2
<1>3. CASE LoadScan
  <2>1. /\ pc = "LoadScan" /\ pc' = "LoadPass" /\ result' = result
        /\ local' = [local EXCEPT !.load = [NoLocal.load EXCEPT !.from = oldest]]
    BY <1>3 DEF LoadScan, Goto
  <2>2. local'.job = local.job
    BY <1>1, <2>1, FrameChange
  <2> QED BY <2>1, <2>2
<1>4. CASE LoadErrHdr(TRUE) \/ LoadPassEnd
  BY <1>4 DEF LoadErrHdr, LoadPassEnd, Goto
<1>5. CASE LoadCollect
  <2>1. CASE gcRequest
    <3>1. GcCall(local, N * SecSize, "LoadScan") /\ gcRequest' = TRUE /\ pc = "LoadCollect"
          /\ result' = result
      BY <1>1, <1>5, <2>1 DEF LoadCollect
    <3>2. local'.job = local.job
      BY <1>1, <3>1, FrameChange DEF GcCall, Goto
    <3> QED BY <1>1, <3>1, <3>2
  <2>2. CASE ~gcRequest
    BY <1>5, <2>2 DEF LoadCollect, Return, Goto
  <2> QED BY <2>1, <2>2
<1> QED BY <1>2, <1>3, <1>4, <1>5

LEMMA ControlOpen ==
  ASSUME TInv, ControlOK,
         \/ \E strict \in BOOLEAN : Open(strict)
         \/ LoadHdr \/ LoadHdrEnd \/ LoadGc \/ LoadScan \/ LoadErrHdr(TRUE) \/ LoadPassEnd
         \/ LoadCollect
  PROVE  ControlOK'
<1>1. ASSUME pc' \in {"LoadHdr", "LoadGc", "LoadScan", "LoadPass", "LoadCollect"}
                \/ FmtFor(pc', local', "LoadHdr"),
             local'.job.op = "Open"
      PROVE  ControlOK'
  BY <1>1 DEF ControlOK, InGc, Copying, Updating, Wiping, Loading, DelFor, PutFor, FmtFor, DelPcs, PutPcs
<1>2. CASE \E strict \in BOOLEAN : Open(strict)
  BY <1>1, <1>2, OpenIs
<1>3. ASSUME LoadHdr \/ LoadHdrEnd PROVE local.job.op = "Open"
  BY <1>3 DEF LoadHdr, LoadHdrEnd, ControlOK, Loading
<1>4. CASE LoadHdr
  BY <1>1, <1>3, <1>4, LoadHdrIs DEF FmtFor
<1>5. CASE LoadHdrEnd
  <2>1. CASE pc' = "LoadGc"
    BY <1>1, <1>3, <1>5, <2>1, LoadHdrEndIs
  <2>2. CASE pc' # "LoadGc"
    <3>1. DefCtx(local)' /\ pc' = "DefFormat"
      BY <1>3, <1>5, <2>2, LoadHdrEndIs DEF DefCtx
    <3> QED BY <3>1 DEF ControlOK, InGc, Copying, Updating, Wiping, Loading, DelFor, PutFor, FmtFor,
            DelPcs, PutPcs
  <2> QED BY <2>1, <2>2
<1>6. CASE LoadGc \/ LoadScan \/ LoadErrHdr(TRUE) \/ LoadPassEnd \/ LoadCollect
  <2>1. local.job.op = "Open"
    BY <1>6, LoadIs DEF ControlOK, Loading
  <2>2. CASE pc' \in {"LoadScan", "LoadPass", "LoadCollect"} /\ local'.job = local.job
    BY <1>1, <2>1, <2>2
  <2>3. CASE \E l \in Local : \E r \in {"LoadGc", "LoadScan"} :
                  l.job = local.job /\ GcCall(l, N * SecSize, r) /\ gcRequest' = TRUE
    <3>1. PICK l \in Local : \E r \in {"LoadGc", "LoadScan"} :
                  l.job = local.job /\ GcCall(l, N * SecSize, r) /\ gcRequest' = TRUE
      BY <2>3
    <3>3. PICK r \in {"LoadGc", "LoadScan"} :
                  l.job = local.job /\ GcCall(l, N * SecSize, r) /\ gcRequest' = TRUE
      BY <3>1
    <3> QED BY <2>1, <3>3, ControlGcCall
  <2>4. CASE pc' = "Idle"
    BY <2>4, ControlIdle
  <2> QED BY <1>6, <2>2, <2>3, <2>4, LoadIs
<1> QED BY <1>2, <1>4, <1>5, <1>6

----------------------------------------------------------------------------
(* While nothing fails *)

Clean ==
    \/ \E u \in Updates : Set(u[1], u[2])
    \/ \E k \in Keys : Del(k)
    \/ \E strict \in BOOLEAN : Open(strict)
    \/ SetDefault \/ Close
    \/ NewKv \/ SetFind \/ SetEnd
    \/ DelStatus(TRUE) \/ DelDirty(TRUE)
    \/ PutSec(TRUE) \/ PutStatus(TRUE) \/ PutHdr(TRUE) \/ PutBody(TRUE) \/ PutCommit(TRUE)
    \/ FmtErase(TRUE) \/ FmtHdr(TRUE) \/ GcSector(TRUE) \/ LoadErrHdr(TRUE)
    \/ GcStart \/ GcNode \/ GcErase \/ GcFormatted \/ GcEnd \/ MvAlloc
    \/ DefFormat \/ DefKv \/ DefEnd
    \/ LoadHdr \/ LoadRefused \/ LoadHdrEnd \/ LoadGc \/ LoadScan \/ LoadMove
    \/ LoadPassEnd \/ LoadCollect

LEMMA CleanCall ==
  ASSUME TInv, QuietOK, [Next]_vars, Quiet', NEW ok \in BOOLEAN, Call(ok)
  PROVE  ok = TRUE
<1>1. MaxFaults \in Nat /\ faults' = MaxFaults
  BY BoundsAssumption DEF Quiet
<1>2. ~(faults' < MaxFaults)
  BY <1>1
<1>3. ~failing'
  BY <1>2, FaultsNext
<1> QED BY <1>3 DEF Call

LEMMA CleanNext ==
  ASSUME TInv, QuietOK, [Next]_vars, Quiet'
  PROVE  Clean \/ UNCHANGED vars
<1>1. CASE \E ok \in BOOLEAN : \/ DelStatus(ok) \/ DelDirty(ok) \/ PutSec(ok) \/ PutStatus(ok)
                               \/ PutHdr(ok) \/ PutBody(ok) \/ PutCommit(ok)
                               \/ FmtErase(ok) \/ FmtHdr(ok) \/ GcSector(ok) \/ LoadErrHdr(ok)
  <2>1. PICK ok \in BOOLEAN : \/ DelStatus(ok) \/ DelDirty(ok) \/ PutSec(ok) \/ PutStatus(ok)
                               \/ PutHdr(ok) \/ PutBody(ok) \/ PutCommit(ok)
                               \/ FmtErase(ok) \/ FmtHdr(ok) \/ GcSector(ok) \/ LoadErrHdr(ok)
    BY <1>1
  <2>2. Call(ok) \/ ok = TRUE
    BY <2>1 DEF DelStatus, DelDirty, PutSec, PutStatus, PutHdr, PutBody, PutCommit, PutNode,
                FmtErase, FmtHdr, GcSector, LoadErrHdr, Program
  <2>3. ok = TRUE
    BY <2>2, CleanCall
  <2> QED BY <2>1, <2>3 DEF Clean
<1>2. CASE PowerLoss
  <2>1. MaxPowerLoss \in Nat /\ losses \in 0 .. MaxPowerLoss /\ losses' = losses - 1
    BY <1>2, BoundsAssumption DEF PowerLoss, TInv, TypeOK
  <2> QED BY <2>1 DEF Quiet
<1> QED BY <1>1, <1>2 DEF Next, Client, Step, Clean

----------------------------------------------------------------------------
(* The nodes that hold a value *)

\* What a cell is.
LEMMA CellIs ==
  ASSUME NEW c \in Cells
  PROVE  LET n == flash[c.sec].kvs[c.idx]
         IN  /\ c.sec \in Sector /\ c.idx \in DOMAIN flash[c.sec].kvs /\ ToMove(n)
             /\ c = Cell(c.sec, c.idx, n)
             /\ c.live <=> n.status = "Write"
             /\ c.key = n.key /\ c.val = n.val
<1>1. PICK s \in Sector : c \in CellsOf(s, flash[s])
  BY DEF Cells
<1>2. PICK j \in DOMAIN flash[s].kvs : ToMove(flash[s].kvs[j]) /\ c = Cell(s, j, flash[s].kvs[j])
  BY <1>1 DEF CellsOf
<1>3. PICK n : n = flash[s].kvs[j]
  OBVIOUS
<1>4. c = [sec |-> s, idx |-> j, live |-> n.status = "Write", key |-> n.key, val |-> n.val]
  BY <1>2, <1>3 DEF Cell
<1>5. c.sec = s /\ c.idx = j /\ c.live = (n.status = "Write") /\ c.key = n.key /\ c.val = n.val
  BY <1>4
<1> QED BY <1>2, <1>3, <1>5

LEMMA NodeCell ==
  ASSUME NEW s \in Sector, NEW j \in DOMAIN flash[s].kvs, ToMove(flash[s].kvs[j])
  PROVE  Cell(s, j, flash[s].kvs[j]) \in Cells
BY DEF Cells, CellsOf

LEMMA CellFields ==
  ASSUME NEW s, NEW j, NEW n
  PROVE  LET c == Cell(s, j, n)
         IN  /\ c.sec = s /\ c.idx = j /\ c.live = (n.status = "Write") /\ c.key = n.key /\ c.val = n.val
BY DEF Cell

\* One place holds one cell.
LEMMA CellAt ==
  ASSUME NEW c \in Cells, NEW d \in Cells, c.sec = d.sec, c.idx = d.idx
  PROVE  c = d
BY CellIs

\* A write that leaves the nodes with a value alone.
LEMMA SameCells ==
  ASSUME \A s \in Sector : CellsOf(s, flash'[s]) = CellsOf(s, flash[s])
  PROVE  Cells' = Cells
BY DEF Cells

\* A write to one sector.
LEMMA SectorCells ==
  ASSUME NEW s \in Sector, \A t \in Sector : t # s => flash'[t] = flash[t]
  PROVE  Cells' = {c \in Cells : c.sec # s} \cup CellsOf(s, flash'[s])
<1>1. ASSUME NEW t, NEW sec, NEW c \in CellsOf(t, sec) PROVE c.sec = t
  BY <1>1, CellFields DEF CellsOf
<1>2. Cells' = UNION {CellsOf(t, flash'[t]) : t \in Sector}
  BY DEF Cells
<1>3. ASSUME NEW c \in Cells' PROVE c \in {d \in Cells : d.sec # s} \cup CellsOf(s, flash'[s])
  <2>1. PICK t \in Sector : c \in CellsOf(t, flash'[t])
    BY <1>2, <1>3
  <2>2. CASE t # s
    <3>1. c \in CellsOf(t, flash[t])
      BY <2>1, <2>2
    <3>2. c.sec = t /\ c \in Cells
      BY <1>1, <3>1 DEF Cells
    <3> QED BY <2>2, <3>2
  <2> QED BY <2>1, <2>2
<1>4. ASSUME NEW c \in Cells, c.sec # s PROVE c \in Cells'
  <2>1. PICK t \in Sector : c \in CellsOf(t, flash[t])
    BY DEF Cells
  <2>2. t # s
    BY <1>1, <1>4, <2>1
  <2>3. c \in CellsOf(t, flash'[t])
    BY <2>1, <2>2
  <2> QED BY <1>2, <2>3
<1>5. CellsOf(s, flash'[s]) \subseteq Cells'
  BY <1>2
<1> QED BY <1>3, <1>4, <1>5

\* A write to one node of it.
Elsewhere(s, j) == {c \in Cells : ~(c.sec = s /\ c.idx = j)}
CellIn(s, j, n) == IF ToMove(n) THEN {Cell(s, j, n)} ELSE {}
LEMMA OneCell ==
  ASSUME FlashOK, NEW s \in Sector, NEW j \in DOMAIN flash[s].kvs, NEW node,
         Program(s, WithNode(s, j, node), TRUE)
  PROVE  /\ Cells' = Elsewhere(s, j) \cup CellIn(s, j, node)
         /\ flash'[s].kvs[j] = node /\ DOMAIN flash'[s].kvs = DOMAIN flash[s].kvs
         /\ \A i \in DOMAIN flash[s].kvs : i # j => flash'[s].kvs[i] = flash[s].kvs[i]
<1>1. /\ flash'[s] = WithNode(s, j, node)
      /\ \A t \in Sector : t # s => flash'[t] = flash[t]
  BY ProgramFlash
<1>2. flash[s] \in SectorImage
  BY DEF FlashOK, Flash
<1>3. /\ flash'[s].kvs = [flash[s].kvs EXCEPT ![j] = node]
  BY <1>1, <1>2 DEF WithNode, SectorImage
<1>4. /\ DOMAIN flash'[s].kvs = DOMAIN flash[s].kvs /\ flash'[s].kvs[j] = node
      /\ \A i \in DOMAIN flash[s].kvs : i # j => flash'[s].kvs[i] = flash[s].kvs[i]
  <2>1. flash[s].kvs \in Seq(KvNode)
    BY <1>2 DEF SectorImage
  <2> QED BY <1>3, <2>1
<1>5. Cells' = {c \in Cells : c.sec # s} \cup CellsOf(s, flash'[s])
  BY <1>1, SectorCells
<1> DEFINE R == {c \in Cells : ~(c.sec = s /\ c.idx = j)}
                       \cup (IF ToMove(node) THEN {Cell(s, j, node)} ELSE {})
<1>0. R = Elsewhere(s, j) \cup CellIn(s, j, node)
  BY DEF Elsewhere, CellIn
<1>6. ASSUME NEW c \in CellsOf(s, flash'[s]) PROVE c \in R
  <2>1. PICK i \in DOMAIN flash'[s].kvs : /\ ToMove(flash'[s].kvs[i])
                                          /\ c = Cell(s, i, flash'[s].kvs[i])
    BY <1>6 DEF CellsOf
  <2>2. CASE i = j
    BY <1>4, <2>1, <2>2
  <2>3. CASE i # j
    <3>1. i \in DOMAIN flash[s].kvs /\ flash'[s].kvs[i] = flash[s].kvs[i]
      BY <1>4, <2>1, <2>3
    <3>2. c \in Cells /\ c.idx = i
      BY <2>1, <3>1, NodeCell, CellFields
    <3> QED BY <2>3, <3>2
  <2> QED BY <2>2, <2>3
<1>7. ASSUME NEW c \in Cells, c.sec = s, c.idx # j PROVE c \in CellsOf(s, flash'[s])
  <2>1. /\ c.idx \in DOMAIN flash[s].kvs /\ ToMove(flash[s].kvs[c.idx])
        /\ c = Cell(s, c.idx, flash[s].kvs[c.idx])
    BY <1>7, CellIs
  <2> QED BY <1>4, <1>7, <2>1 DEF CellsOf
<1>8. ToMove(node) => Cell(s, j, node) \in CellsOf(s, flash'[s])
  BY <1>4 DEF CellsOf
<1> QED BY <1>0, <1>4, <1>5, <1>6, <1>7, <1>8

\* What the writes do to the nodes with a value: most leave them alone, ...
LEMMA CellsSame ==
  ASSUME TInv, LInv, WInv, QuietOK, Quiet,
         \/ DelDirty(TRUE) \/ PutSec(TRUE) \/ PutStatus(TRUE) \/ PutHdr(TRUE) \/ PutBody(TRUE)
         \/ FmtHdr(TRUE) \/ GcSector(TRUE) \/ LoadErrHdr(TRUE)
  PROVE  Cells' = Cells
<1>1. FlashOK /\ \A s \in Sector : flash[s] \in SectorImage
  BY TInvParts
<1>2. local.put.sec \in Sector /\ local.del.ptr.sec \in Sector /\ local.fmt.sec \in Sector
  BY TInvParts, FrameTypes DEF PutFrame, DelFrame, FmtFrame, Ptr
<1>3. ASSUME NEW s \in Sector, NEW image, Program(s, image, TRUE),
             CellsOf(s, image) = CellsOf(s, flash[s])
      PROVE  Cells' = Cells
  <2>1. /\ flash'[s] = image
        /\ \A t \in Sector : t # s => flash'[t] = flash[t]
    BY <1>1, <1>3, ProgramFlash
  <2>2. ASSUME NEW t \in Sector PROVE CellsOf(t, flash'[t]) = CellsOf(t, flash[t])
    BY <1>3, <2>1
  <2> QED BY <2>2, SameCells
<1>4. ASSUME NEW s \in Sector, NEW image, Program(s, image, TRUE), image.kvs = flash[s].kvs
      PROVE  Cells' = Cells
  BY <1>3, <1>4 DEF CellsOf
<1>5. ASSUME NoCall PROVE Cells' = Cells
  BY <1>5 DEF Cells, NoCall
<1>6. CASE DelDirty(TRUE)
  <2>1. PICK s \in Sector : s = local.del.ptr.sec
    BY <1>2
  <2>2. [flash[s] EXCEPT !.dirty = "True"].kvs = flash[s].kvs
    BY <1>1 DEF SectorImage
  <2>3. NoCall \/ Program(s, [flash[s] EXCEPT !.dirty = "True"], TRUE)
    BY <1>6, <2>1 DEF DelDirty
  <2> QED BY <1>4, <1>5, <2>2, <2>3
<1>7. CASE GcSector(TRUE)
  <2>1. PICK s \in Sector : Program(s, [flash[s] EXCEPT !.dirty = "Gc"], TRUE)
    BY <1>7, GcSectorIs
  <2>2. [flash[s] EXCEPT !.dirty = "Gc"].kvs = flash[s].kvs
    BY <1>1 DEF SectorImage
  <2> QED BY <1>4, <2>1, <2>2
<1>8. CASE PutSec(TRUE)
  <2>1. PICK s \in Sector : s = local.put.sec
    BY <1>2
  <2>2. [flash[s] EXCEPT !.store = "Using"].kvs = flash[s].kvs
    BY <1>1 DEF SectorImage
  <2>3. NoCall \/ Program(s, [flash[s] EXCEPT !.store = "Using"], TRUE)
    BY <1>8, <2>1, PutSecIs
  <2> QED BY <1>4, <1>5, <2>2, <2>3
<1>9. CASE PutStatus(TRUE)
  <2>1. PICK s \in Sector : s = local.put.sec
    BY <1>2
  <2> DEFINE len == IF local.put.addr = SECTOR_HDR_DATA_SIZE THEN KV_HDR_DATA_SIZE ELSE 1
             node == [addr |-> local.put.addr, len |-> len, status |-> "ErrHdr",
                      crc |-> FALSE, key |-> None, val |-> None]
             image == [flash[s] EXCEPT !.kvs = Append(@, node)]
  <2>2. Program(s, image, TRUE)
    BY <1>9, <2>1 DEF PutStatus
  <2>3. node.crc = FALSE
    OBVIOUS
  <2> HIDE DEF node
  <2>4. image.kvs = Append(flash[s].kvs, node) /\ flash[s].kvs \in Seq(KvNode)
    BY <1>1 DEF SectorImage
  <2> HIDE DEF image
  <2>5. /\ DOMAIN image.kvs = 1 .. Len(flash[s].kvs) + 1
        /\ image.kvs[Len(flash[s].kvs) + 1] = node
        /\ \A j \in DOMAIN flash[s].kvs : image.kvs[j] = flash[s].kvs[j]
        /\ DOMAIN flash[s].kvs = 1 .. Len(flash[s].kvs) /\ Len(flash[s].kvs) \in Nat
    BY <2>4
  <2>6. \A j \in DOMAIN image.kvs : ToMove(image.kvs[j]) => j \in DOMAIN flash[s].kvs
    BY <2>3, <2>5 DEF ToMove
  <2>7. CellsOf(s, image) = CellsOf(s, flash[s])
    BY <2>5, <2>6 DEF CellsOf
  <2> QED BY <1>3, <2>2, <2>7
<1>10. ASSUME NEW s \in Sector, NEW j \in DOMAIN flash[s].kvs, NEW node,
              Program(s, WithNode(s, j, node), TRUE), ~ToMove(flash[s].kvs[j]), ~ToMove(node)
       PROVE  Cells' = Cells
  <2>1. Cells' = Elsewhere(s, j) \cup CellIn(s, j, node)
    BY <1>1, <1>10, OneCell
  <2>2. \A c \in Cells : ~(c.sec = s /\ c.idx = j)
    BY <1>10, CellIs
  <2> QED BY <1>10, <2>1, <2>2 DEF Elsewhere, CellIn
<1>11. CASE PutHdr(TRUE) \/ PutBody(TRUE)
  <2>1. PICK s \in Sector : s = local.put.sec
    BY <1>2
  <2> DEFINE last == LastNode(flash[s])
             j == Len(flash[s].kvs)
  <2>2. pc \in NodePcs /\ j \in DOMAIN flash[s].kvs /\ last = flash[s].kvs[j] /\ last \in KvNode
    <3>1. pc \in {"PutHdr", "PutBody", "PutCommit"}
      BY <1>11 DEF PutHdr, PutBody
    <3>2. flash[s].kvs # <<>> /\ flash[s] \in SectorImage
      BY <2>1, <3>1, PutNodeFacts
    <3> QED BY <3>1, <3>2, LastNodeType DEF NodePcs
  <2>3. CASE PutHdr(TRUE)
    <3>1. PICK node : node = [addr |-> local.put.addr, len |-> PutLen, status |-> "PreWrite",
                crc |-> FALSE, key |-> local.put.key, val |-> local.put.val]
      OBVIOUS
    <3>2. Program(s, WithNode(s, j, node), TRUE)
      BY <2>1, <2>3, <3>1 DEF PutHdr, PutNode
    <3>3. last.key = None
      BY <2>1, <2>3 DEF WInv, WrittenOK, PutHdr
    <3>4. ~ToMove(last)
      <4>1. ~Stored(last.key, last.val)
        BY <3>3, NoneAssumption DEF Stored
      <4>2. last.crc => Stored(last.key, last.val)
        BY <2>2 DEF TInv, NamesOK, NodesNamed
      <4> QED BY <4>1, <4>2 DEF ToMove
    <3>5. ~ToMove(node)
      BY <3>1 DEF ToMove
    <3> QED BY <1>10, <2>2, <3>2, <3>4, <3>5
  <2>4. CASE PutBody(TRUE)
    <3>1. PICK node : node = [last EXCEPT !.crc = TRUE]
      OBVIOUS
    <3>2. Program(s, WithNode(s, j, node), TRUE)
      BY <2>1, <2>4, <3>1 DEF PutBody, PutNode
    <3>3. last.status = "PreWrite"
      BY <2>1, <2>4 DEF WInv, WrittenOK, PutBody
    <3>4. node.status = "PreWrite"
      BY <2>2, <3>1, <3>3 DEF KvNode
    <3> QED BY <1>10, <2>2, <3>2, <3>3, <3>4 DEF ToMove
  <2> QED BY <1>11, <2>3, <2>4
<1>12. CASE FmtHdr(TRUE)
  <2>1. PICK s \in Sector : s = local.fmt.sec
    BY <1>2
  <2>2. flash[s] = Erased
    BY <1>12, <2>1 DEF WInv, WrittenOK, FmtHdr
  <2>3. Program(s, Formatted, TRUE)
    BY <1>12, <2>1 DEF FmtHdr
  <2>4. Formatted.kvs = flash[s].kvs
    BY <2>2 DEF Formatted, Erased
  <2> QED BY <1>4, <2>3, <2>4
<1>13. CASE LoadErrHdr(TRUE)
  <2> DEFINE i == Least(StepsAhead)
             s == Nth(local.load.from, i)
             j == Least(InterruptedIn(i))
             node == [flash[s].kvs[j] EXCEPT !.status = "ErrHdr"]
  <2>1. StepsAhead # {} /\ flash[s].kvs[j].status = "PreWrite"
        /\ Program(s, WithNode(s, j, node), TRUE)
    BY <1>13 DEF LoadErrHdr
  <2>2. s \in Sector /\ j \in DOMAIN flash[s].kvs
    BY <2>1, StepsOK
  <2> HIDE DEF i, s, j
  <2>3. flash[s].kvs[j] \in KvNode
    BY <1>1, <2>2, NodeType
  <2>4. node.status = "ErrHdr"
    BY <2>3 DEF KvNode
  <2> HIDE DEF node
  <2> QED BY <1>10, <2>1, <2>2, <2>4 DEF ToMove
<1> QED BY <1>6, <1>7, <1>8, <1>9, <1>11, <1>12, <1>13

\* ... del_kv marks one or takes it away, ...
LEMMA CellsDelStatus ==
  ASSUME TInv, WInv, DelStatus(TRUE), NEW c \in Cells, At(c, local.del.ptr)
  PROVE  /\ local.del.complete => Cells' = Cells \ {c}
         /\ ~local.del.complete =>
               \E d : /\ Cells' = (Cells \ {c}) \cup {d} /\ d.sec = c.sec /\ d.idx = c.idx
                      /\ ~d.live /\ d.key = c.key /\ d.val = c.val
<1> DEFINE s == local.del.ptr.sec
           j == local.del.ptr.idx
           x == IF local.del.complete THEN "Deleted" ELSE "PreDelete"
           node == [flash[s].kvs[j] EXCEPT !.status = x]
<1>1. /\ c.sec = s /\ c.idx = j /\ s \in Sector /\ j \in DOMAIN flash[s].kvs
      /\ ToMove(flash[s].kvs[j]) /\ c.key = flash[s].kvs[j].key /\ c.val = flash[s].kvs[j].val
  BY CellIs DEF At
<1>2. FlashOK /\ flash[s].kvs[j] \in KvNode
  BY <1>1, TInvParts, NodeType
<1>3. Program(s, WithNode(s, j, node), TRUE)
  BY DEF DelStatus
<1>4. /\ node.status = x /\ node.crc = flash[s].kvs[j].crc
      /\ node.key = flash[s].kvs[j].key /\ node.val = flash[s].kvs[j].val
  BY <1>2 DEF KvNode
<1> HIDE DEF node
<1>5. Cells' = Elsewhere(s, j) \cup CellIn(s, j, node)
  BY <1>1, <1>2, <1>3, OneCell
<1>6. Elsewhere(s, j) = Cells \ {c}
  <2>1. ASSUME NEW d \in Cells PROVE (d.sec = s /\ d.idx = j) <=> d = c
    BY <1>1, CellAt
  <2> HIDE DEF s, j
  <2> QED BY <2>1 DEF Elsewhere
<1>7. ASSUME local.del.complete PROVE Cells' = Cells \ {c}
  BY <1>4, <1>5, <1>6, <1>7 DEF ToMove, CellIn
<1>8. ASSUME ~local.del.complete
      PROVE  \E d : /\ Cells' = (Cells \ {c}) \cup {d} /\ d.sec = c.sec /\ d.idx = c.idx
                    /\ ~d.live /\ d.key = c.key /\ d.val = c.val
  <2>1. ToMove(node) /\ node.status = "PreDelete"
    BY <1>1, <1>4, <1>8 DEF ToMove
  <2>2. PICK d : d = Cell(s, j, node)
    OBVIOUS
  <2>3. d.sec = s /\ d.idx = j /\ d.live = (node.status = "Write") /\ d.key = node.key
        /\ d.val = node.val
    BY <2>2, CellFields
  <2>4. Cells' = (Cells \ {c}) \cup {d}
    BY <1>5, <1>6, <2>1, <2>2 DEF CellIn
  <2> QED BY <1>1, <1>4, <2>1, <2>3, <2>4
<1> QED BY <1>7, <1>8

\* ... the commit of a node adds one, ...
LEMMA CellsCommit ==
  ASSUME TInv, LInv, WInv, QuietOK, Quiet, PutCommit(TRUE)
  PROVE  LET last == LastNode(flash[local.put.sec])
         IN  \E d : /\ Cells' = Cells \cup {d} /\ \A c \in Cells : ~(c.sec = d.sec /\ c.idx = d.idx)
                    /\ d.sec = local.put.sec /\ d.idx = Len(flash[local.put.sec].kvs)
                    /\ d.live /\ d.key = last.key /\ d.val = last.val
<1>1. PICK s \in Sector : s = local.put.sec
  BY TInvParts, FrameTypes DEF PutFrame
<1>2. pc = "PutCommit"
  BY DEF PutCommit
<1>3. flash[s].kvs # <<>> /\ flash[s] \in SectorImage /\ FlashOK
  BY <1>1, <1>2, PutNodeFacts
<1> DEFINE last == LastNode(flash[s])
           j == Len(flash[s].kvs)
           node == [last EXCEPT !.status = "Write"]
<1>4. j \in DOMAIN flash[s].kvs /\ last = flash[s].kvs[j] /\ last \in KvNode
  BY <1>3, LastNodeType
<1>5. Program(s, WithNode(s, j, node), TRUE)
  BY <1>1 DEF PutCommit, PutNode
<1>6. last.status = "PreWrite"
  BY <1>1, <1>2 DEF WInv, WrittenOK
<1>7. last.crc
  BY <1>2, <1>4 DEF QuietOK
<1>8. node.status = "Write" /\ node.crc /\ node.key = last.key /\ node.val = last.val
  BY <1>4, <1>7 DEF KvNode
<1> HIDE DEF node
<1>9. \A c \in Cells : ~(c.sec = s /\ c.idx = j)
  BY <1>4, <1>6, CellIs DEF ToMove
<1>10. Cells' = Cells \cup {Cell(s, j, node)}
  <2>1. Cells' = Elsewhere(s, j) \cup CellIn(s, j, node)
    BY <1>3, <1>4, <1>5, OneCell
  <2> QED BY <1>8, <1>9, <2>1 DEF ToMove, Elsewhere, CellIn
<1>11. PICK d : d = Cell(s, j, node)
  OBVIOUS
<1>12. d.sec = s /\ d.idx = j /\ d.live = (node.status = "Write") /\ d.key = node.key
        /\ d.val = node.val
  BY <1>11, CellFields
<1>13. d.live /\ d.key = last.key /\ d.val = last.val
  BY <1>8, <1>12
<1> HIDE DEF last, j
<1> QED BY <1>1, <1>9, <1>10, <1>11, <1>12, <1>13 DEF last, j

\* ... and an erase takes those of a sector away.
LEMMA CellsErase ==
  ASSUME TInv, FmtErase(TRUE)
  PROVE  Cells' = {c \in Cells : c.sec # local.fmt.sec}
<1>1. PICK s \in Sector : s = local.fmt.sec
  BY TInvParts, FrameTypes DEF FmtFrame
<1>2. /\ flash'[s] = Erased
      /\ \A t \in Sector : t # s => flash'[t] = flash[t]
  BY <1>1, TInvParts, ProgramFlash DEF FmtErase
<1>3. CellsOf(s, Erased) = {}
  BY DEF CellsOf, Erased
<1> QED BY <1>1, <1>2, <1>3, SectorCells

----------------------------------------------------------------------------
(* The nodes of a key *)

Known == /\ TInv /\ LInv /\ WInv /\ SpareOK /\ HeadersOK /\ QuietOK /\ Quiet /\ PlainKeys
         /\ ControlOK /\ NodesOK /\ FormatsOK /\ RoomOK

NodePhase == DelPcs \cup PutPcs \cup {"MvAlloc"}
AllLive == \A c \in Cells : c.live
ShortKeys == \A c \in Cells : KeyLen[c.key] < KV_NAME_MAX

\* While no node is written, moved or deleted every node that holds a value is live.
LEMMA RestHalf ==
  ASSUME NEW label, NEW l, label \notin NodePhase
  PROVE  Half(label, l) = {} /\ Doomed(label, l) = {}
BY DEF NodePhase, Half, Doomed, PutFor, PutPcs, DelPcs

LEMMA LiveNow == ASSUME Known, Half(pc, local) = {} PROVE AllLive
BY DEF Known, NodesOK, AllLive

LEMMA NodesRest ==
  ASSUME pc' \notin NodePhase, OneEach', ShortKeys', AllLive'
  PROVE  NodesOK'
<1>1. Half(pc', local') = {} /\ Doomed(pc', local') = {}
  BY RestHalf
<1>2. pc' \notin PutPcs /\ pc' \notin {"DelStatus", "DelDirty", "MvAlloc", "PutBody", "PutCommit"}
  BY DEF NodePhase, DelPcs, PutPcs
<1> QED BY <1>1, <1>2 DEF NodesOK, ShortKeys, AllLive

\* Nothing is added.
LEMMA FewerNodes ==
  ASSUME Known, Cells' \subseteq Cells
  PROVE  /\ OneEach' /\ ShortKeys'
         /\ pc \notin NodePhase => AllLive'
<1>1. OneEach /\ ShortKeys
  BY DEF Known, NodesOK, ShortKeys
<1>2. pc \notin NodePhase => AllLive
  BY RestHalf, LiveNow
<1> QED BY <1>1, <1>2 DEF OneEach, ShortKeys, AllLive

LEMMA NodesQuiet ==
  ASSUME Known, pc \notin NodePhase, pc' \notin NodePhase, Cells' \subseteq Cells
  PROVE  NodesOK'
BY FewerNodes, NodesRest

\* del_kv programs the status.
LEMMA NodesDelStatus == ASSUME Known, DelStatus(TRUE) PROVE NodesOK'
<1> DEFINE p == local.del.ptr
<1>1. /\ pc = "DelStatus" /\ pc' = "DelDirty" /\ local'.del = local.del
      /\ local'.put = local.put /\ local'.mv = local.mv /\ local'.gc = local.gc
      /\ local'.job.key = local.job.key /\ local'.job.old = local.job.old
  BY DelStatusIs DEF Known
<1>2. PICK c \in Cells : /\ At(c, p)
                         /\ IF Copying(pc, local) THEN c.key = local.mv.key /\ c.val = local.mv.val
                                                  ELSE c.key = local.job.key
  BY <1>1 DEF Known, NodesOK, Doomed
<1>3. \A d \in Cells : At(d, p) => d = c
  BY <1>2, CellAt DEF At
<1>4. OneEach /\ ShortKeys /\ \A d \in Cells : ~d.live <=> \E q \in Half(pc, local) : At(d, q)
  BY DEF Known, NodesOK, ShortKeys
<1>5. /\ local.del.complete => Cells' = Cells \ {c}
      /\ ~local.del.complete =>
               \E d : /\ Cells' = (Cells \ {c}) \cup {d} /\ d.sec = c.sec /\ d.idx = c.idx
                      /\ ~d.live /\ d.key = c.key /\ d.val = c.val
  BY <1>2, CellsDelStatus DEF Known
<1>6. local.del.complete <=> local.del.ret \in {"SetEnd", "Idle", "MvReturn"}
  BY <1>1 DEF Known, ControlOK, DelPcs
<1>7. local.del.ret \in {"PutSec", "SetEnd", "Idle", "MvAlloc", "MvReturn"}
  BY TInvParts, FrameTypes DEF DelFrame, Known
<1>8. \A d \in Cells : d # c => d.live
  <2>1. Half(pc, local) \subseteq {p}
    BY <1>1 DEF Half, PutFor, PutPcs
  <2> QED BY <1>3, <1>4, <2>1
<1>9. CASE local.del.complete
  <2>1. Cells' = Cells \ {c}
    BY <1>5, <1>9
  <2>2. Half(pc', local') = {} /\ Doomed(pc', local') = {}
    BY <1>1, <1>6, <1>9 DEF Half, Doomed, PutFor, PutPcs
  <2>3. OneEach' /\ ShortKeys' /\ AllLive'
    BY <1>4, <1>8, <2>1 DEF OneEach, ShortKeys, AllLive
  <2> QED BY <1>1, <1>6, <1>9, <2>2, <2>3 DEF NodesOK, ShortKeys, AllLive, PutPcs
<1>10. CASE ~local.del.complete
  <2>1. PICK d : /\ Cells' = (Cells \ {c}) \cup {d} /\ d.sec = c.sec /\ d.idx = c.idx
                 /\ ~d.live /\ d.key = c.key /\ d.val = c.val
    BY <1>5, <1>10
  <2>2. local.del.ret \in {"PutSec", "MvAlloc"}
    BY <1>6, <1>7, <1>10
  <2>3. Half(pc, local) = {} /\ Half(pc', local') = {p} /\ Doomed(pc', local') = {p}
    BY <1>1, <2>2 DEF Half, Doomed, PutFor, PutPcs
  <2>4. c.live /\ At(d, p) /\ d \in Cells'
    BY <1>2, <1>4, <2>1, <2>3 DEF At
  <2>5. OneEach' /\ ShortKeys'
    BY <1>4, <2>1 DEF OneEach, ShortKeys
  <2>6. \A e \in Cells' : ~e.live <=> At(e, p)
    BY <1>3, <1>8, <2>1, <2>4
  <2>7. ~LiveKey(c.key)'
    <3>1. \A e \in Cells' : ~(e.live /\ e.key = c.key)
      BY <1>4, <2>1, <2>4 DEF OneEach
    <3> QED BY <3>1 DEF LiveKey
  <2>8. CASE local.del.ret = "PutSec"
    <3>1. ~Copying(pc, local) /\ ~Copying(pc', local')
      BY <1>1, <2>8 DEF Copying, DelFor, PutFor, PutPcs
    <3>2. c.key = local.job.key /\ local.put.key = local.job.key
      BY <1>1, <1>2, <2>8, <3>1 DEF Known, ControlOK, Updating, DelFor, DelPcs
    <3>3. ~LiveKey(local.put.key)'
      BY <1>1, <2>7, <3>2 DEF LiveKey
    <3> QED BY <1>1, <2>1, <2>3, <2>4, <2>5, <2>6, <2>8, <3>1, <3>2, <3>3 DEF NodesOK, ShortKeys, PutPcs
  <2>9. CASE local.del.ret = "MvAlloc"
    <3>1. Copying(pc, local) /\ Copying(pc', local')
      BY <1>1, <2>9 DEF Copying, DelFor, DelPcs
    <3>2. c.key = local.mv.key /\ c.val = local.mv.val
      BY <1>2, <3>1
    <3>3. ~LiveKey(local.mv.key)'
      BY <1>1, <2>7, <3>2 DEF LiveKey
    <3> QED BY <1>1, <2>1, <2>3, <2>4, <2>5, <2>6, <2>9, <3>1, <3>2, <3>3 DEF NodesOK, ShortKeys, PutPcs
  <2> QED BY <2>2, <2>8, <2>9
<1> QED BY <1>9, <1>10

\* del_kv marks the sector and returns.
LEMMA NodesDelDirty == ASSUME Known, DelDirty(TRUE) PROVE NodesOK'
<1>1. Cells' = Cells /\ OneEach' /\ ShortKeys'
  BY CellsSame, FewerNodes DEF Known
<1>2. pc = "DelDirty"
  BY DelDirtyIs DEF Known
<1>3. local.del.ret \in {"PutSec", "SetEnd", "Idle", "MvAlloc", "MvReturn"}
  BY TInvParts, FrameTypes DEF DelFrame, Known
<1>4. CASE local.del.ret \in {"SetEnd", "Idle", "MvReturn"}
  <2>1. Half(pc, local) = {}
    BY <1>2, <1>4 DEF Half, PutFor, PutPcs
  <2>2. AllLive'
    BY <1>1, <2>1, LiveNow DEF AllLive
  <2>3. pc' \in {"Idle", "SetEnd", "GcNode"}
    <3>1. local.del.ret = "MvReturn" => local.mv.ret = "GcNode"
      BY <1>2 DEF Known, ControlOK, Copying, DelFor, DelPcs
    <3> QED BY <1>4, <3>1, DelDirtyIs DEF Known
  <2> QED BY <1>1, <2>2, <2>3, NodesRest DEF NodePhase, DelPcs, PutPcs
<1>5. ASSUME NEW p, Half(pc, local) = {p}, Half(pc', local') = {p}, Doomed(pc', local') = {p}
      PROVE  /\ \A c \in Cells' : ~c.live <=> \E q \in Half(pc', local') : At(c, q)
             /\ \E c \in Cells' : At(c, p) /\ (IF Copying(pc, local)
                   THEN c.key = local.mv.key /\ c.val = local.mv.val ELSE c.key = local.job.key)
  <2>1. Doomed(pc, local) = {p}
    BY <1>2, <1>5 DEF Doomed
  <2> QED BY <1>1, <1>5, <2>1 DEF Known, NodesOK
<1>6. CASE local.del.ret = "PutSec"
  <2> DEFINE p == local.del.ptr
  <2>1. /\ local'.job = local.job /\ local'.put = local.put /\ pc' = "PutSec"
    BY <1>6, DelDirtyIs DEF Known
  <2>2. p = local.job.old /\ p.found /\ local.put.ret = "SetEnd"
    BY <1>2, <1>6 DEF Known, ControlOK, DelFor, DelPcs, WInv, KeptOK
  <2>3. Half(pc, local) = {p} /\ Half(pc', local') = {p} /\ Doomed(pc', local') = {p}
    BY <1>2, <1>6, <2>1, <2>2 DEF Half, Doomed, PutFor, PutPcs
  <2>4. ~Copying(pc, local) /\ ~Copying(pc', local')
    BY <1>2, <1>6, <2>1, <2>2 DEF Copying, DelFor, PutFor, DelPcs, PutPcs
  <2>5. ~LiveKey(local.put.key)'
    BY <1>1, <1>2, <1>6, <2>1 DEF Known, NodesOK, LiveKey
  <2> QED BY <1>1, <1>5, <2>1, <2>3, <2>4, <2>5 DEF NodesOK, ShortKeys, PutPcs
<1>7. CASE local.del.ret = "MvAlloc"
  <2> DEFINE p == local.del.ptr
  <2>1. /\ local'.job = local.job /\ local'.mv = local.mv /\ pc' = "MvAlloc"
    BY <1>7, DelDirtyIs DEF Known
  <2>2. p = local.mv.ptr
    BY <1>2, <1>7 DEF Known, ControlOK, DelFor, DelPcs
  <2>3. Half(pc, local) = {p} /\ Half(pc', local') = {p} /\ Doomed(pc', local') = {p}
    BY <1>2, <1>7, <2>1, <2>2 DEF Half, Doomed, PutFor, PutPcs
  <2>4. Copying(pc, local) /\ Copying(pc', local')
    BY <1>2, <1>7, <2>1 DEF Copying, DelFor, PutFor, DelPcs, PutPcs
  <2>5. ~LiveKey(local.mv.key)'
    BY <1>1, <1>2, <1>7, <2>1 DEF Known, NodesOK, LiveKey
  <2> QED BY <1>1, <1>5, <2>1, <2>3, <2>4, <2>5 DEF NodesOK, ShortKeys, PutPcs
<1> QED BY <1>3, <1>4, <1>6, <1>7

\* What find_kv finds, and what it does not.
LEMMA FindCell ==
  ASSUME Known, NEW k, find_kv(flash, oldest, k).found
  PROVE  LET f == find_kv(flash, oldest, k)
         IN  \E c \in Cells : At(c, f) /\ c.live /\ c.key = k
<1> DEFINE f == find_kv(flash, oldest, k)
<1>1. flash \in Flash /\ oldest \in Sector
  BY TInvParts DEF Known, FlashOK, RamOK
<1>2. /\ f.sec \in Sector /\ f.idx \in DOMAIN flash[f.sec].kvs
      /\ Readable(flash[f.sec].kvs[f.idx], k)
  BY <1>1, FindLive
<1> HIDE DEF f
<1>3. PICK n : n = flash[f.sec].kvs[f.idx]
  OBVIOUS
<1>4. n.crc /\ n.status = "Write" /\ n.key = k
  BY <1>2, <1>3 DEF Readable
<1>5. Cell(f.sec, f.idx, n) \in Cells
  BY <1>2, <1>3, <1>4, NodeCell DEF ToMove
<1>6. PICK c \in Cells : c = Cell(f.sec, f.idx, n)
  BY <1>5
<1>7. c.sec = f.sec /\ c.idx = f.idx /\ c.live = (n.status = "Write") /\ c.key = n.key
  BY <1>6, CellFields
<1> QED BY <1>4, <1>7 DEF At, f

\* Every node with a value lies in a sector that is searched.
LEMMA CellInUse == ASSUME Known, NEW c \in Cells PROVE c.sec \in InUse(flash)
<1>1. c.sec \in Sector /\ c.idx \in DOMAIN flash[c.sec].kvs
  BY CellIs
<1>2. flash[c.sec].kvs # <<>>
  BY <1>1
<1>3. flash[c.sec].ok /\ flash[c.sec].store \notin {"Unused", "Empty"}
  BY <1>1, <1>2 DEF Known, RoomOK, SectorsOK, LInv, EmptyOK
<1>4. flash[c.sec].store \in SectorStoreStatus
  BY <1>1, TInvParts DEF Known, SectorImage
<1> QED BY <1>1, <1>3, <1>4 DEF InUse, SectorStoreStatus

LEMMA FindNone ==
  ASSUME Known, NEW k, KeyLen[k] < KV_NAME_MAX, ~find_kv(flash, oldest, k).found
  PROVE  ~LiveKey(k)
<1> SUFFICES ASSUME NEW c \in Cells, c.live, c.key = k PROVE FALSE
  BY DEF LiveKey
<1>1. /\ c.sec \in InUse(flash) /\ c.idx \in DOMAIN flash[c.sec].kvs
      /\ Readable(flash[c.sec].kvs[c.idx], k)
  BY CellInUse, CellIs DEF Readable, ToMove
<1>2. ~find_name(flash, oldest, k).found
  BY DEF find_kv
<1> DEFINE Hits(s) == {j \in DOMAIN flash[s].kvs : Readable(flash[s].kvs[j], k)}
           S == {s \in InUse(flash) : Hits(s) # {}}
<1>3. S = {}
  BY <1>2 DEF find_name
<1>4. c.idx \in Hits(c.sec)
  BY <1>1
<1> QED BY <1>1, <1>3, <1>4

\* new_kv has a place: for set_kv, which looks for the old node first, or for a default.
LEMMA NodesNewKv == ASSUME Known, NewKv PROVE NodesOK'
<1>1. pc = "NewKv" /\ flash' = flash
  BY NewKvIs DEF Known
<1>2. Cells' = Cells /\ OneEach' /\ ShortKeys' /\ AllLive'
  <2>1. Cells' = Cells
    BY <1>1 DEF Cells
  <2> QED BY <1>1, <2>1, FewerNodes DEF NodePhase, DelPcs, PutPcs
<1> DEFINE a == alloc_kv(flash, oldest, gcRequest, NewKvLen)
           put == [sec |-> a.sec, addr |-> empty_kv(flash[a.sec]),
                   key |-> local.new.key, val |-> local.new.val, full |-> FALSE,
                   ret |-> IF local.new.ret = "SetFind" THEN "SetEnd" ELSE "DefKv"]
<1>3. \/ SameCtx /\ pc' = "PutSec" /\ local'.put = put /\ local.new.ret # "SetFind"
      \/ pc' \in {"SetFind", "GcStart", "Idle", "DefKv"}
  BY NewKvIs DEF Known, GcCall, Goto
<1>4. put.key = local.new.key /\ put.ret = (IF local.new.ret = "SetFind" THEN "SetEnd" ELSE "DefKv")
  OBVIOUS
<1> HIDE DEF a, put
<1>5. CASE pc' \in {"SetFind", "GcStart", "Idle", "DefKv"}
  BY <1>2, <1>5, NodesRest DEF NodePhase, DelPcs, PutPcs
<1>6. CASE SameCtx /\ pc' = "PutSec" /\ local'.put = put /\ local.new.ret # "SetFind"
  <2>1. local.new.ret = "DefKv"
    BY <1>6, TInvParts, FrameTypes DEF Known, NewFrame
  <2>2. local'.put.key = local.new.key /\ local'.put.ret = "DefKv"
    BY <1>4, <1>6
  <2>3. Half(pc', local') = {} /\ Doomed(pc', local') = {}
    BY <1>6, <2>2 DEF Half, Doomed, PutFor, PutPcs
  <2>4. IsDefault(local, local.new)
    BY <1>1, <1>6 DEF Known, ControlOK, NewCtx
  <2>5. \A c \in Cells : c.key # local.new.key
    <3> SUFFICES ASSUME NEW c \in Cells PROVE c.key # local.new.key
      OBVIOUS
    <3>1. PICK i \in 1 .. local.def.i : i \in DOMAIN Defaults /\ Defaults[i].key = c.key
      BY <1>1, <2>1 DEF Known, FormatsOK, Defaulting
    <3>2. local.def.i \in Nat
      BY TInvParts, FrameTypes DEF Known, DefFrame
    <3>3. i # local.def.i + 1
      BY <3>1, <3>2
    <3>4. local.def.i + 1 \in DOMAIN Defaults /\ Defaults[local.def.i + 1].key = local.new.key
      BY <2>4 DEF IsDefault
    <3> QED BY <3>1, <3>3, <3>4 DEF Known, PlainKeys
  <2>6. ~LiveKey(local.put.key)'
    BY <1>2, <2>2, <2>5 DEF LiveKey
  <2> QED BY <1>2, <1>6, <2>3, <2>6 DEF NodesOK, ShortKeys, AllLive
<1> QED BY <1>3, <1>5, <1>6

\* A deletion is called with a live node.
LEMMA NodesCall ==
  ASSUME Known, Cells' = Cells, pc \notin NodePhase, pc' = "DelStatus",
         local'.del.ret \in {"PutSec", "Idle", "MvAlloc"},
         \E c \in Cells : /\ At(c, local'.del.ptr)
                          /\ IF Copying(pc', local')
                             THEN c.key = local'.mv.key /\ c.val = local'.mv.val
                             ELSE c.key = local'.job.key
  PROVE  NodesOK'
<1>1. OneEach' /\ ShortKeys' /\ AllLive'
  BY FewerNodes
<1>2. Half(pc', local') = {} /\ Doomed(pc', local') = {local'.del.ptr}
  BY DEF Half, Doomed, PutFor, PutPcs
<1> QED BY <1>1, <1>2 DEF NodesOK, ShortKeys, AllLive, PutPcs

LEMMA NodesSetFind == ASSUME Known, SetFind PROVE NodesOK'
<1> DEFINE k == local.job.key
           f == find_kv(flash, oldest, k)
           d == [ptr |-> f, complete |-> FALSE, ret |-> "PutSec"]
<1>1. /\ pc = "SetFind" /\ flash' = flash /\ local'.job.key = k
      /\ local'.job.old = f /\ local'.put = local.put
      /\ f.found => pc' = "DelStatus" /\ local'.del = d
      /\ ~f.found /\ KeyLen[k] > KV_NAME_MAX => pc' = "SetEnd"
      /\ ~f.found /\ ~(KeyLen[k] > KV_NAME_MAX) => pc' = "PutSec"
  BY SetFindIs DEF Known, SameJob
<1>2. pc \notin NodePhase /\ Cells' = Cells
  BY <1>1 DEF NodePhase, DelPcs, PutPcs, Cells
<1>3. OneEach' /\ ShortKeys' /\ AllLive'
  BY <1>2, FewerNodes
<1>4. d.ptr = f /\ d.ret = "PutSec"
  OBVIOUS
<1>5. CASE f.found
  <2>1. local'.del.ptr = f /\ local'.del.ret = "PutSec"
    BY <1>1, <1>4, <1>5
  <2>2. \E c \in Cells : At(c, f) /\ c.key = k
    BY <1>5, FindCell
  <2>3. ~Copying(pc', local')
    BY <1>1, <1>5, <2>1 DEF Copying, DelFor, PutFor, PutPcs
  <2> HIDE DEF f, d, k
  <2> QED BY <1>1, <1>2, <1>5, <2>1, <2>2, <2>3, NodesCall
<1>6. CASE ~f.found /\ KeyLen[k] > KV_NAME_MAX
  BY <1>1, <1>3, <1>6, NodesRest DEF NodePhase, DelPcs, PutPcs
<1>7. CASE ~f.found /\ ~(KeyLen[k] > KV_NAME_MAX)
  <2>1. local.put.ret = "SetEnd" /\ local.put.key = k
    BY <1>1 DEF Known, WInv, KeptOK, ControlOK, Updating
  <2>2. k \in Keys
    BY <1>1, <2>1, TInvParts DEF Known, ArgsOK, PutLive, PutWaits, Stored
  <2>3. KeyLen[k] \in Nat /\ KeyLen[k] # KV_NAME_MAX
    BY <2>2, LengthAssumption DEF Known, PlainKeys
  <2>4. KeyLen[k] < KV_NAME_MAX
    BY <1>7, <2>3 DEF KV_NAME_MAX
  <2>5. ~LiveKey(k)
    BY <1>7, <2>4, FindNone
  <2>6. ~LiveKey(local.put.key)'
    BY <1>1, <1>2, <2>1, <2>5 DEF LiveKey
  <2>8. pc' = "PutSec" /\ ~local'.job.old.found /\ local'.put.ret = "SetEnd"
    BY <1>1, <1>7, <2>1
  <2>7. Half(pc', local') = {} /\ Doomed(pc', local') = {}
    BY <2>8 DEF Half, Doomed, PutFor
  <2> QED BY <1>3, <2>6, <2>7, <2>8 DEF NodesOK, ShortKeys, AllLive
<1> QED BY <1>5, <1>6, <1>7

LEMMA NodesDel == ASSUME Known, NEW k \in Keys, Del(k) PROVE NodesOK'
<1> DEFINE f == find_kv(flash, oldest, k)
           d == [ptr |-> f, complete |-> TRUE, ret |-> "Idle"]
<1>1. /\ pc = "Idle" /\ flash' = flash
      /\ f.found => pc' = "DelStatus" /\ local'.del = d /\ local'.job.key = k
      /\ ~f.found => pc' = "Idle"
  BY DelIs DEF Known
<1>2. pc \notin NodePhase /\ Cells' = Cells
  BY <1>1 DEF NodePhase, DelPcs, PutPcs, Cells
<1>3. d.ptr = f /\ d.ret = "Idle"
  OBVIOUS
<1>4. CASE f.found
  <2>1. local'.del.ptr = f /\ local'.del.ret = "Idle"
    BY <1>1, <1>3, <1>4
  <2>2. \E c \in Cells : At(c, f) /\ c.key = k
    BY <1>4, FindCell
  <2>3. ~Copying(pc', local')
    BY <1>1, <1>4, <2>1 DEF Copying, DelFor, PutFor, PutPcs
  <2> HIDE DEF f, d
  <2> QED BY <1>1, <1>2, <1>4, <2>1, <2>2, <2>3, NodesCall
<1>5. CASE ~f.found
  BY <1>1, <1>2, <1>5, NodesQuiet DEF NodePhase, DelPcs, PutPcs
<1> QED BY <1>4, <1>5

\* A node that is moved is live.
LEMMA MovedLive ==
  ASSUME Known, GcNode
  PROVE  LET n == flash[local.gc.sec].kvs[Least(GcNodes)]
         IN  ToMove(n) /\ n.status = "Write"
<1>1. pc = "GcNode" /\ GcNodes # {}
  BY DEF GcNode
<1>2. local.gc.sec \in Sector
  BY TInvParts, FrameTypes DEF Known, GcFrame
<1>3. PICK j : j = Least(GcNodes)
  OBVIOUS
<1>4. j \in GcNodes
  <2>1. GcNodes \subseteq Nat
    <3>1. flash[local.gc.sec] \in SectorImage
      BY <1>2, TInvParts DEF Known
    <3> QED BY <3>1 DEF GcNodes, NodesFrom, SectorImage
  <2> QED BY <1>1, <1>3, <2>1, LeastExists
<1>5. j \in DOMAIN flash[local.gc.sec].kvs /\ ToMove(flash[local.gc.sec].kvs[j])
  BY <1>4 DEF GcNodes, NodesFrom
<1>6. PICK c \in Cells : c = Cell(local.gc.sec, j, flash[local.gc.sec].kvs[j])
  BY <1>2, <1>5, NodeCell
<1>7. c.live = (flash[local.gc.sec].kvs[j].status = "Write")
  BY <1>6, CellFields
<1>8. c.live
  BY <1>1, RestHalf, LiveNow DEF NodePhase, DelPcs, PutPcs, AllLive
<1> QED BY <1>3, <1>5, <1>7, <1>8

LEMMA NodesGcNode == ASSUME Known, GcNode PROVE NodesOK'
<1> DEFINE j == Least(GcNodes)
           n == flash[local.gc.sec].kvs[j]
           p == [found |-> TRUE, sec |-> local.gc.sec, idx |-> j]
<1>1. ToMove(n) /\ n.status = "Write"
  BY MovedLive
<1>2. /\ pc = "GcNode" /\ pc' = "DelStatus" /\ flash' = flash /\ j \in GcNodes
      /\ local'.del = [ptr |-> p, complete |-> FALSE, ret |-> "MvAlloc"]
      /\ local'.mv = [ptr |-> p, key |-> n.key, val |-> n.val, len |-> n.len,
                      pre |-> FALSE, ok |-> FALSE, ret |-> "GcNode"]
  BY <1>1, GcNodeIs DEF Known
<1>3. local.gc.sec \in Sector /\ j \in DOMAIN flash[local.gc.sec].kvs
  BY <1>2, TInvParts, FrameTypes DEF Known, GcFrame, GcNodes, NodesFrom
<1>4. Cell(local.gc.sec, j, n) \in Cells
  BY <1>1, <1>3, NodeCell
<1> HIDE DEF j, n
<1>5. /\ local'.del.ptr = p /\ local'.del.ret = "MvAlloc"
      /\ local'.mv.key = n.key /\ local'.mv.val = n.val
      /\ p.sec = local.gc.sec /\ p.idx = j
  BY <1>2
<1> HIDE DEF p
<1>6. PICK c \in Cells : c = Cell(local.gc.sec, j, n)
  BY <1>4
<1>7. At(c, p) /\ c.key = n.key /\ c.val = n.val
  BY <1>5, <1>6, CellFields DEF At
<1>8. pc \notin NodePhase /\ Cells' = Cells
  BY <1>2 DEF NodePhase, DelPcs, PutPcs, Cells
<1>9. Copying(pc', local')
  BY <1>2, <1>5 DEF Copying, DelFor, DelPcs
<1> QED BY <1>2, <1>5, <1>7, <1>8, <1>9, NodesCall

\* The nodes of a sector lie one behind the other.
LEMMA NodesApart ==
  ASSUME NEW sec \in SectorImage, SectorLogOK(sec), NEW i \in DOMAIN sec.kvs
  PROVE  \A j \in DOMAIN sec.kvs : j > i => sec.kvs[j].addr >= sec.kvs[i].addr + sec.kvs[i].len
<1>1. sec.kvs \in Seq(KvNode) /\ Len(sec.kvs) \in Nat /\ DOMAIN sec.kvs = 1 .. Len(sec.kvs)
  BY DEF SectorImage
<1>2. \A j \in DOMAIN sec.kvs : sec.kvs[j].addr \in Nat /\ sec.kvs[j].len \in Nat
  BY NodeType DEF KvNode
<1> DEFINE end == sec.kvs[i].addr + sec.kvs[i].len
           S == {j \in DOMAIN sec.kvs : j > i /\ sec.kvs[j].addr < end}
<1>3. end \in Nat
  BY <1>2
<1>4. ASSUME S # {} PROVE FALSE
  <2>1. S \subseteq Nat
    BY <1>1
  <2>2. PICK m : m = Least(S)
    OBVIOUS
  <2>3. m \in S /\ \A y \in S : m <= y
    BY <1>4, <2>1, <2>2, LeastExists
  <2>4. m \in DOMAIN sec.kvs /\ m > i /\ sec.kvs[m].addr < end
    BY <2>3
  <2>5. m - 1 \in 1 .. Len(sec.kvs)-1 /\ m - 1 \in DOMAIN sec.kvs /\ m - 1 >= i /\ (m - 1) + 1 = m
    BY <1>1, <2>4
  <2>6. sec.kvs[m].addr >= sec.kvs[m-1].addr + sec.kvs[m-1].len
    BY <2>5 DEF SectorLogOK
  <2>7. CASE m - 1 = i
    BY <1>2, <2>4, <2>6, <2>7
  <2>8. CASE m - 1 > i
    <3>1. m - 1 \notin S
      <4>1. ~(m <= m - 1)
        BY <1>1, <2>4
      <4> QED BY <2>3, <4>1
    <3>2. ~(sec.kvs[m-1].addr < end)
      BY <2>5, <2>8, <3>1
    <3> QED BY <1>2, <1>3, <2>4, <2>5, <2>6, <3>2
  <2> QED BY <1>1, <2>5, <2>7, <2>8
<1>5. S = {}
  BY <1>4
<1>6. \A j \in DOMAIN sec.kvs : j > i => ~(sec.kvs[j].addr < end)
  BY <1>5
<1> HIDE DEF S
<1> QED BY <1>2, <1>3, <1>6

\* They end where the log does.
LEMMA NodeInLog ==
  ASSUME NEW sec \in SectorImage, SectorLogOK(sec), NEW i \in DOMAIN sec.kvs
  PROVE  /\ sec.kvs[i].addr >= SECTOR_HDR_DATA_SIZE
         /\ sec.kvs[i].addr + sec.kvs[i].len <= LogEnd(sec)
         /\ sec.kvs[i].addr + sec.kvs[i].len < SecSize - SEC_REMAIN_THRESHOLD
<1>1. sec.kvs \in Seq(KvNode) /\ Len(sec.kvs) \in Nat /\ DOMAIN sec.kvs = 1 .. Len(sec.kvs)
      /\ sec.kvs # <<>>
  BY DEF SectorImage
<1>2. \A j \in DOMAIN sec.kvs : sec.kvs[j].addr \in Nat /\ sec.kvs[j].len \in Nat
  BY NodeType DEF KvNode
<1>3. Len(sec.kvs) \in DOMAIN sec.kvs /\ LogEnd(sec) = sec.kvs[Len(sec.kvs)].addr + sec.kvs[Len(sec.kvs)].len
  BY <1>1 DEF LogEnd, LastNode
<1>4. sec.kvs[i].addr + sec.kvs[i].len <= LogEnd(sec)
  <2>1. CASE i = Len(sec.kvs)
    BY <1>2, <1>3, <2>1
  <2>2. CASE i # Len(sec.kvs)
    <3>1. Len(sec.kvs) > i
      BY <1>1, <2>2
    <3>2. sec.kvs[Len(sec.kvs)].addr >= sec.kvs[i].addr + sec.kvs[i].len
      BY <1>3, <3>1, NodesApart
    <3> QED BY <1>2, <1>3, <3>2
  <2> QED BY <2>1, <2>2
<1>5. LogEnd(sec) < SecSize - SEC_REMAIN_THRESHOLD /\ sec.kvs[i].addr >= SECTOR_HDR_DATA_SIZE
  BY <1>1 DEF SectorLogOK
<1>6. LogEnd(sec) \in Nat /\ SecSize \in Nat /\ SEC_REMAIN_THRESHOLD \in Nat
  BY <1>2, <1>3, GeometryType DEF SEC_REMAIN_THRESHOLD, KV_HDR_DATA_SIZE, KV_NAME_MAX
<1> QED BY <1>2, <1>4, <1>5, <1>6

\* The sector that takes the nodes of the one that is collected has room for the next one.
LEMMA MvAllocFinds ==
  ASSUME Known, pc = "MvAlloc"
  PROVE  alloc_kv(flash, oldest, gcRequest, local.mv.len).found
<1> DEFINE s == local.gc.sec
           j == local.gc.idx
           len == local.mv.len
<1>1. /\ Copying(pc, local) /\ InGc(pc, local) /\ Collected(pc, local)
      /\ Doomed(pc, local) = {local.mv.ptr} /\ MvLive(pc, local) /\ NextNode = j
      /\ pc \notin PutPcs
  BY DEF Copying, InGc, Collected, Doomed, Half, MvLive, NextNode, PutPcs
<1>2. gcRequest /\ local.mv.ptr.sec = s /\ local.mv.ptr.idx = j
  BY <1>1 DEF Known, ControlOK
<1>3. PICK c \in Cells : At(c, local.mv.ptr) /\ c.key = local.mv.key /\ c.val = local.mv.val
  BY <1>1 DEF Known, NodesOK
<1>4. /\ s \in Sector /\ j \in DOMAIN flash[s].kvs /\ flash[s].kvs[j].crc
      /\ flash[s].kvs[j].key = local.mv.key /\ flash[s].kvs[j].val = local.mv.val
  BY <1>2, <1>3, CellIs DEF At, ToMove
<1>5. flash[s] \in SectorImage /\ SectorLogOK(flash[s]) /\ flash[s].kvs[j] \in KvNode
  BY <1>4, TInvParts, NodeType DEF Known, LInv, LogOK
<1>6. len = flash[s].kvs[j].len
  BY <1>1, <1>4 DEF Known, LInv, LensOK, HasKvLen
<1>7. PICK e \in Sector : Takes(e, s)
  BY <1>1 DEF Known, RoomOK, CollectOK
<1>8. /\ flash[e].ok /\ flash[e].store \in {"Empty", "Using"} /\ flash[e].dirty = "False"
      /\ empty_kv(flash[e]) <= flash[s].kvs[j].addr
  <2>1. j \in Nat
    BY TInvParts, FrameTypes DEF Known, GcFrame
  <2>2. j >= NextNode
    BY <1>1, <2>1
  <2> QED BY <1>1, <1>4, <1>7, <2>2 DEF Takes, EndOf
<1>9. flash[s].kvs[j].addr + len < SecSize - SEC_REMAIN_THRESHOLD
  BY <1>4, <1>5, <1>6, NodeInLog
<1>10. Fits(flash[e], len)
  <2>1. remain(flash[e]) = SecSize - empty_kv(flash[e])
    BY <1>8 DEF remain
  <2>2. empty_kv(flash[e]) \in Nat /\ flash[s].kvs[j].addr \in Nat /\ len \in Nat
        /\ SecSize \in Nat /\ SEC_REMAIN_THRESHOLD \in Nat
    BY <1>5, <1>6, TInvParts, EmptyKvType, GeometryType
       DEF Known, KvNode, SEC_REMAIN_THRESHOLD, KV_HDR_DATA_SIZE, KV_NAME_MAX
  <2> HIDE DEF s, j, len
  <2>3. SecSize - empty_kv(flash[e]) > len + SEC_REMAIN_THRESHOLD
    BY <1>8, <1>9, <2>2
  <2> QED BY <2>1, <2>3 DEF Fits
<1>11. HasRoom(flash[e], flash[e].store, len, gcRequest)
  BY <1>8, <1>10 DEF HasRoom
<1>12. CASE flash[e].store = "Using"
  BY <1>11, <1>12 DEF alloc_kv
<1>13. CASE flash[e].store = "Empty"
  <2>1. e \in Empties(flash) /\ MayTakeEmpty(flash, gcRequest)
    BY <1>2, <1>8, <1>13 DEF Empties, MayTakeEmpty
  <2> QED BY <1>11, <1>13, <2>1 DEF alloc_kv
<1> QED BY <1>8, <1>12, <1>13

\* A place for a moved node.
LEMMA NodesMvAlloc == ASSUME Known, MvAlloc PROVE NodesOK'
<1> DEFINE a == alloc_kv(flash, oldest, gcRequest, local.mv.len)
           put == [sec |-> a.sec, addr |-> empty_kv(flash[a.sec]), key |-> local.mv.key,
                   val |-> local.mv.val, full |-> FALSE, ret |-> "MvReturn"]
<1>1. pc = "MvAlloc" /\ ~local.mv.pre /\ local.mv.ret = "GcNode"
  BY DEF MvAlloc, Known, ControlOK, Copying
<1>2. /\ flash' = flash /\ SameCtx
      /\ a.found => pc' = "PutSec" /\ local'.mv = local.mv /\ local'.put = put
  BY <1>1, MvAllocIs DEF Known
<1>3. put.key = local.mv.key /\ put.ret = "MvReturn"
  OBVIOUS
<1>4. a.found
  BY <1>1, MvAllocFinds
<1> HIDE DEF a, put
<1>5. Cells' = Cells /\ OneEach' /\ ShortKeys'
  <2>1. Cells' = Cells
    BY <1>2 DEF Cells
  <2> QED BY <2>1, FewerNodes
<1>6. Half(pc, local) = {local.mv.ptr} /\ Half(pc', local') = {local.mv.ptr}
      /\ Doomed(pc, local) = {local.mv.ptr} /\ Doomed(pc', local') = {local.mv.ptr}
  BY <1>1, <1>2, <1>3, <1>4 DEF Half, Doomed, PutFor, PutPcs
<1>7. Copying(pc, local) /\ Copying(pc', local')
  BY <1>1, <1>2, <1>3, <1>4 DEF Copying, PutFor, PutPcs
<1>8. ~LiveKey(local.put.key)'
  <2>1. ~LiveKey(local.mv.key)
    BY <1>1 DEF Known, NodesOK
  <2> QED BY <1>2, <1>3, <1>4, <1>5, <2>1 DEF LiveKey
<1>9. /\ \A c \in Cells' : ~c.live <=> \E q \in Half(pc', local') : At(c, q)
      /\ \A q \in Doomed(pc', local') : \E c \in Cells' :
            At(c, q) /\ c.key = local'.mv.key /\ c.val = local'.mv.val
  BY <1>2, <1>4, <1>5, <1>6, <1>7 DEF Known, NodesOK
<1> QED BY <1>2, <1>4, <1>5, <1>7, <1>8, <1>9 DEF NodesOK, ShortKeys

\* The writes before the last one.
LEMMA NodesWrite ==
  ASSUME Known, PutSec(TRUE) \/ PutStatus(TRUE) \/ PutHdr(TRUE) \/ PutBody(TRUE)
  PROVE  NodesOK'
<1>1. Cells' = Cells /\ OneEach' /\ ShortKeys'
  BY CellsSame, FewerNodes DEF Known
<1>2. /\ \/ pc = "PutSec" /\ pc' = "PutStatus"
         \/ pc = "PutStatus" /\ pc' = "PutHdr"
         \/ pc = "PutHdr" /\ pc' = "PutBody"
         \/ pc = "PutBody" /\ pc' = "PutCommit"
      /\ local'.put.sec = local.put.sec
      /\ local'.put.key = local.put.key /\ local'.put.val = local.put.val
      /\ local'.put.ret = local.put.ret /\ local'.job = local.job /\ local'.mv = local.mv
  BY WriteIs DEF Known
<1>3. pc \in PutPcs /\ pc' \in PutPcs
  BY <1>2 DEF PutPcs
<1>4. /\ Half(pc', local') = Half(pc, local) /\ Doomed(pc', local') = Doomed(pc, local)
      /\ Copying(pc', local') <=> Copying(pc, local)
  BY <1>2 DEF Half, Doomed, Copying, PutFor, DelFor, PutPcs, DelPcs
<1>5. ~LiveKey(local.put.key)'
  <2>1. ~LiveKey(local.put.key)
    BY <1>3 DEF Known, NodesOK
  <2> QED BY <1>1, <1>2, <2>1 DEF LiveKey
<1>6. ASSUME pc' \in {"PutBody", "PutCommit"}
      PROVE  LET last == LastNode(flash'[local'.put.sec])
             IN  last.key = local'.put.key /\ last.val = local'.put.val
  <2>1. pc \in {"PutHdr", "PutBody"} /\ pc \in NodePcs
    BY <1>2, <1>6 DEF NodePcs
  <2>2. PICK s \in Sector : s = local.put.sec
    BY TInvParts, FrameTypes DEF Known, PutFrame
  <2>3. flash[s].kvs # <<>> /\ flash[s] \in SectorImage
    BY <2>1, <2>2, PutNodeFacts DEF Known
  <2>4. LastNode(flash[s]) \in KvNode
    BY <2>3, LastNodeType
  <2>5. CASE PutHdr(TRUE)
    <3>1. PICK node : node = [addr |-> local.put.addr, len |-> PutLen, status |-> "PreWrite",
                crc |-> FALSE, key |-> local.put.key, val |-> local.put.val]
      OBVIOUS
    <3>2. PutNode(node, TRUE)
      BY <2>5, <3>1 DEF PutHdr
    <3>3. LastNode(flash'[s]) = node
      BY <2>1, <2>2, <3>2, PutNodeFlash DEF Known
    <3>4. node.key = local.put.key /\ node.val = local.put.val
      BY <3>1
    <3> QED BY <1>2, <2>2, <3>3, <3>4
  <2>6. CASE PutBody(TRUE)
    <3>1. PICK node : node = [LastNode(flash[s]) EXCEPT !.crc = TRUE]
      OBVIOUS
    <3>2. PutNode(node, TRUE)
      BY <2>2, <2>6, <3>1 DEF PutBody
    <3>3. LastNode(flash'[s]) = node
      BY <2>1, <2>2, <3>2, PutNodeFlash DEF Known
    <3>4. node.key = LastNode(flash[s]).key /\ node.val = LastNode(flash[s]).val
      BY <2>4, <3>1 DEF KvNode
    <3>5. LastNode(flash[s]).key = local.put.key /\ LastNode(flash[s]).val = local.put.val
      BY <2>2, <2>6 DEF Known, NodesOK, PutBody
    <3> QED BY <1>2, <2>2, <3>3, <3>4, <3>5
  <2>7. PutHdr(TRUE) \/ PutBody(TRUE)
    BY <2>1 DEF PutSec, PutStatus
  <2> QED BY <2>5, <2>6, <2>7
<1>7. /\ \A c \in Cells' : ~c.live <=> \E q \in Half(pc', local') : At(c, q)
      /\ \A p \in Doomed(pc', local') : \E c \in Cells' :
              /\ At(c, p)
              /\ IF Copying(pc', local') THEN c.key = local'.mv.key /\ c.val = local'.mv.val
                                         ELSE c.key = local'.job.key
  BY <1>1, <1>2, <1>4 DEF Known, NodesOK
<1> QED BY <1>1, <1>2, <1>3, <1>5, <1>6, <1>7 DEF NodesOK, ShortKeys, PutPcs

\* The commit.
LEMMA NodesCommit == ASSUME Known, PutCommit(TRUE) PROVE NodesOK'
<1>1. pc = "PutCommit"
  BY PutCommitIs DEF Known
<1>2. LastNode(flash[local.put.sec]).key = local.put.key /\ ~LiveKey(local.put.key)
  BY <1>1 DEF Known, NodesOK, PutPcs
<1>3. PICK d : /\ Cells' = Cells \cup {d} /\ \A c \in Cells : ~(c.sec = d.sec /\ c.idx = d.idx)
               /\ d.live /\ d.key = local.put.key
  BY <1>2, CellsCommit DEF Known
<1>4. KeyLen[d.key] < KV_NAME_MAX
  <2>1. local.put.ret \in {"SetEnd", "MvReturn", "DefKv"}
    BY TInvParts, FrameTypes DEF Known, PutFrame
  <2>2. CASE local.put.ret = "SetEnd"
    BY <1>1, <1>3, <2>2 DEF Known, ControlOK, Updating, PutFor, PutPcs
  <2>3. CASE local.put.ret = "DefKv"
    BY <1>1, <1>3, <2>3 DEF Known, ControlOK, IsDefault, PutFor, PutPcs
  <2>4. CASE local.put.ret = "MvReturn"
    <3>1. local.put.key = local.mv.key
      BY <1>1, <2>4 DEF Known, ControlOK, PutFor, PutPcs
    <3>2. \E c \in Cells : c.key = local.mv.key
      <4>1. Copying(pc, local) /\ Doomed(pc, local) = {local.mv.ptr}
        BY <1>1, <2>4 DEF Copying, Doomed, Half, PutFor, PutPcs
      <4> QED BY <4>1 DEF Known, NodesOK
    <3> QED BY <1>3, <3>1, <3>2 DEF Known, NodesOK
  <2> QED BY <2>1, <2>2, <2>3, <2>4
<1>5. OneEach' /\ ShortKeys'
  <2>1. OneEach /\ ShortKeys
    BY DEF Known, NodesOK, ShortKeys
  <2>2. \A c \in Cells : ~(c.live /\ c.key = d.key)
    BY <1>2, <1>3 DEF LiveKey
  <2> QED BY <1>3, <1>4, <2>1, <2>2 DEF OneEach, ShortKeys
<1>6. /\ local'.job.key = local.job.key /\ local'.job.old = local.job.old
      /\ local.put.ret = "SetEnd" /\ local.job.old.found =>
            pc' = "DelStatus" /\ local'.del.ptr = local.job.old /\ local'.del.ret = "SetEnd"
      /\ local.put.ret = "SetEnd" /\ ~local.job.old.found => pc' = "SetEnd"
      /\ local.put.ret = "DefKv" => pc' = "DefKv"
      /\ local.put.ret = "MvReturn" =>
            /\ pc' = "DelStatus" /\ local'.del.ptr = local.mv.ptr /\ local'.del.ret = "MvReturn"
            /\ local'.mv.key = local.mv.key /\ local'.mv.val = local.mv.val
  <2>1. local.mv \in MvFrame
    BY TInvParts, FrameTypes DEF Known
  <2> QED BY <2>1, PutCommitIs DEF Known, MvFrame
<1>7. ASSUME Half(pc, local) = {} PROVE AllLive'
  BY <1>3, <1>7, LiveNow DEF AllLive
<1>8. ASSUME NEW p, Half(pc, local) = {p}, Doomed(pc, local) = {p},
             Half(pc', local') = {p}, Doomed(pc', local') = {p}
      PROVE  /\ \A c \in Cells' : ~c.live <=> \E q \in Half(pc', local') : At(c, q)
             /\ \E c \in Cells' : At(c, p) /\ (IF Copying(pc, local)
                   THEN c.key = local.mv.key /\ c.val = local.mv.val ELSE c.key = local.job.key)
  <2>1. PICK c \in Cells : At(c, p) /\ (IF Copying(pc, local)
                   THEN c.key = local.mv.key /\ c.val = local.mv.val ELSE c.key = local.job.key)
    BY <1>8 DEF Known, NodesOK
  <2>2. ~At(d, p)
    BY <1>3, <2>1 DEF At
  <2> QED BY <1>3, <1>8, <2>1, <2>2 DEF Known, NodesOK
<1>9. LiveKey(d.key)'
  BY <1>3 DEF LiveKey
<1>10. CASE local.put.ret = "SetEnd" /\ local.job.old.found
  <2>1. Half(pc, local) = {local.job.old} /\ Doomed(pc, local) = {local.job.old}
        /\ Half(pc', local') = {local.job.old} /\ Doomed(pc', local') = {local.job.old}
    BY <1>1, <1>6, <1>10 DEF Half, Doomed, PutFor, PutPcs
  <2>2. ~Copying(pc, local) /\ ~Copying(pc', local')
    BY <1>1, <1>6, <1>10 DEF Copying, DelFor, PutFor, DelPcs, PutPcs
  <2>3. LiveKey(local.job.key)'
    <3>1. local.put.key = local.job.key
      BY <1>1, <1>10 DEF Known, ControlOK, Updating, PutFor, PutPcs
    <3> QED BY <1>3, <1>6, <1>9, <3>1 DEF LiveKey
  <2>4. pc' = "DelStatus" /\ local'.del.ret = "SetEnd" /\ local'.job.key = local.job.key
    BY <1>6, <1>10
  <2> QED BY <1>5, <1>8, <2>1, <2>2, <2>3, <2>4 DEF NodesOK, ShortKeys, PutPcs
<1>11. CASE local.put.ret = "MvReturn"
  <2>1. Half(pc, local) = {local.mv.ptr} /\ Doomed(pc, local) = {local.mv.ptr}
        /\ Half(pc', local') = {local.mv.ptr} /\ Doomed(pc', local') = {local.mv.ptr}
    BY <1>1, <1>6, <1>11 DEF Half, Doomed, PutFor, PutPcs
  <2>2. Copying(pc, local) /\ Copying(pc', local')
    BY <1>1, <1>6, <1>11 DEF Copying, DelFor, PutFor, DelPcs, PutPcs
  <2>3. LiveKey(local.mv.key)'
    <3>1. local.put.key = local.mv.key
      BY <1>1, <1>11 DEF Known, ControlOK, PutFor, PutPcs
    <3> QED BY <1>3, <1>6, <1>9, <1>11, <3>1 DEF LiveKey
  <2>4. pc' = "DelStatus" /\ local'.del.ret = "MvReturn" /\ local'.job.key = local.job.key
        /\ local'.mv.key = local.mv.key /\ local'.mv.val = local.mv.val
    BY <1>6, <1>11
  <2> QED BY <1>5, <1>8, <2>1, <2>2, <2>3, <2>4 DEF NodesOK, ShortKeys, PutPcs
<1>12. CASE \/ local.put.ret = "SetEnd" /\ ~local.job.old.found
            \/ local.put.ret = "DefKv"
  <2>1. Half(pc, local) = {} /\ pc' \notin NodePhase
    BY <1>1, <1>6, <1>12 DEF Half, PutFor, PutPcs, DelPcs, NodePhase
  <2> QED BY <1>5, <1>7, <2>1, NodesRest
<1> QED BY <1>10, <1>11, <1>12, TInvParts, FrameTypes DEF Known, PutFrame

LEMMA NodesErase == ASSUME Known, FmtErase(TRUE) PROVE NodesOK'
<1>1. Cells' \subseteq Cells
  BY CellsErase DEF Known
<1>2. pc = "FmtErase" /\ pc' = "FmtHdr"
  BY FmtIs DEF Known, FmtErase, FmtHdr
<1> QED BY <1>1, <1>2, NodesQuiet DEF NodePhase, DelPcs, PutPcs

----------------------------------------------------------------------------
(* Every step *)

\* Recovery finds no half deleted node.
LEMMA NothingToMove == ASSUME Known, LoadMove PROVE FALSE
<1> DEFINE i == Least(StepsAhead)
           s == Nth(local.load.from, i)
           j == Least(InterruptedIn(i))
<1>1. pc = "LoadPass" /\ StepsAhead # {} /\ flash[s].kvs[j].status = "PreDelete"
  BY DEF LoadMove
<1>2. s \in Sector /\ j \in DOMAIN flash[s].kvs /\ Interrupted(flash[s].kvs[j])
  BY <1>1, StepsOK DEF Known
<1> HIDE DEF i, s, j
<1>3. PICK n : n = flash[s].kvs[j]
  OBVIOUS
<1>4. ToMove(n)
  BY <1>1, <1>2, <1>3 DEF Interrupted, ToMove
<1>5. PICK c \in Cells : c = Cell(s, j, n)
  BY <1>2, <1>3, <1>4, NodeCell
<1>6. c.live = (n.status = "Write")
  BY <1>5, CellFields
<1>7. c.live
  BY <1>1, RestHalf, LiveNow DEF NodePhase, DelPcs, PutPcs, AllLive
<1> QED BY <1>1, <1>3, <1>6, <1>7

LEMMA ControlNext == ASSUME Known, Clean PROVE ControlOK'
<1> USE DEF Known
<1>1. CASE \E u \in Updates : Set(u[1], u[2])
  <2>1. PICK u \in Updates : Set(u[1], u[2])
    BY <1>1
  <2>2. u[1] \in Keys /\ u[2] \in Values
    BY BoundsAssumption
  <2> QED BY <2>1, <2>2, ControlSet
<1>2. CASE \E k \in Keys : Del(k)
  BY <1>2, ControlDelete
<1>3. CASE \/ \E strict \in BOOLEAN : Open(strict)
           \/ LoadHdr \/ LoadHdrEnd \/ LoadGc \/ LoadScan \/ LoadErrHdr(TRUE) \/ LoadPassEnd
           \/ LoadCollect
  BY <1>3, ControlOpen
<1>4. CASE SetDefault \/ DefFormat \/ DefKv \/ DefEnd
  BY <1>4, ControlDefault
<1>5. CASE Close \/ LoadRefused
  BY <1>5, ControlIdle DEF Close, LoadRefused, Reset, Goto
<1>6. CASE GcStart \/ GcSector(TRUE) \/ GcFormatted \/ GcEnd \/ GcErase
  BY <1>6, ControlGc
<1>7. CASE GcNode
  BY <1>7, MovedLive, ControlGcNode
<1>8. CASE DelStatus(TRUE) \/ DelDirty(TRUE)
  BY <1>8, ControlDel
<1>9. CASE PutSec(TRUE) \/ PutStatus(TRUE) \/ PutHdr(TRUE) \/ PutBody(TRUE)
  BY <1>9, ControlWrite
<1>10. CASE FmtErase(TRUE) \/ FmtHdr(TRUE)
  BY <1>10, ControlFmt
<1> QED BY <1>1, <1>2, <1>3, <1>4, <1>5, <1>6, <1>7, <1>8, <1>9, <1>10, NothingToMove,
           ControlCommit, ControlMvAlloc, ControlNewKv, ControlSetFind, ControlSetEnd DEF Clean

\* The steps that neither write nor begin to write, move or delete a node.
NodesStay ==
    \/ \E u \in Updates : Set(u[1], u[2])
    \/ \E strict \in BOOLEAN : Open(strict)
    \/ SetDefault \/ Close \/ SetEnd
    \/ GcStart \/ GcErase \/ GcFormatted \/ GcEnd
    \/ DefFormat \/ DefKv \/ DefEnd
    \/ LoadHdr \/ LoadRefused \/ LoadHdrEnd \/ LoadGc \/ LoadScan \/ LoadPassEnd \/ LoadCollect

LEMMA StayIs ==
  ASSUME TInv, NodesStay
  PROVE  flash' = flash /\ pc \notin NodePhase /\ pc' \notin NodePhase
<1>1. flash' = flash /\ pc' \in RestPcs
  BY CalmStep DEF NodesStay, CalmAction
<1>2. pc \notin NodePhase
  BY DEF NodesStay, NodePhase, DelPcs, PutPcs, Set, Idle, Open, SetDefault, Close, SetEnd, GcStart,
         GcErase, GcFormatted, GcEnd, DefFormat, DefKv, DefEnd, LoadHdr, LoadRefused, LoadHdrEnd,
         LoadGc, LoadScan, LoadPassEnd, LoadCollect
<1>3. \A label \in RestPcs : label \notin NodePhase
  BY DEF RestPcs, CalmPcs, Plain, NodePhase, DelPcs, PutPcs
<1> QED BY <1>1, <1>2, <1>3

LEMMA NodesNext == ASSUME Known, Clean PROVE NodesOK'
<1>1. CASE NodesStay
  <2>1. flash' = flash /\ pc \notin NodePhase /\ pc' \notin NodePhase
    BY <1>1, StayIs DEF Known
  <2>2. Cells' = Cells
    BY <2>1 DEF Cells
  <2> QED BY <2>1, <2>2, NodesQuiet
<1>2. CASE FmtHdr(TRUE) \/ GcSector(TRUE) \/ LoadErrHdr(TRUE)
  <2>1. Cells' = Cells
    BY <1>2, CellsSame DEF Known
  <2>2. pc \in {"FmtHdr", "GcSector", "LoadPass"}
        /\ pc' \in {"GcFormatted", "LoadHdr", "DefFormat", "GcNode", "LoadCollect"}
    <3>1. CASE FmtHdr(TRUE)
      BY <3>1, FmtIs DEF Known
    <3>2. CASE GcSector(TRUE) \/ LoadErrHdr(TRUE)
      BY <3>2 DEF GcSector, LoadErrHdr, Goto
    <3> QED BY <1>2, <3>1, <3>2
  <2> QED BY <2>1, <2>2, NodesQuiet DEF NodePhase, DelPcs, PutPcs
<1>3. CASE DelStatus(TRUE) \/ DelDirty(TRUE)
  BY <1>3, NodesDelStatus, NodesDelDirty
<1>4. CASE PutSec(TRUE) \/ PutStatus(TRUE) \/ PutHdr(TRUE) \/ PutBody(TRUE) \/ PutCommit(TRUE)
  BY <1>4, NodesWrite, NodesCommit
<1>5. CASE NewKv \/ SetFind \/ (\E k \in Keys : Del(k))
  BY <1>5, NodesNewKv, NodesSetFind, NodesDel
<1>6. CASE GcNode \/ MvAlloc \/ FmtErase(TRUE)
  BY <1>6, NodesGcNode, NodesMvAlloc, NodesErase
<1> QED BY <1>1, <1>2, <1>3, <1>4, <1>5, <1>6, NothingToMove DEF Clean, NodesStay

----------------------------------------------------------------------------
(* What the database holds *)

\* The steps that only read.
LEMMA ReadsOnly ==
  ASSUME TInv, NodesStay \/ NewKv \/ SetFind \/ (\E k \in Keys : Del(k)) \/ GcNode \/ MvAlloc
  PROVE  flash' = flash /\ Cells' = Cells
<1>1. flash' = flash
  BY StayIs DEF NewKv, SetFind, Del, GcNode, MvAlloc, NoCall
<1> QED BY <1>1 DEF Cells

\* No step but the commit of a new node brings a key or a value into it.
EntriesStay == \A d \in Cells' : \E c \in Cells : c.key = d.key /\ c.val = d.val
LEMMA EntriesKept ==
  ASSUME Known, Clean, PutCommit(TRUE) => local.put.ret = "MvReturn"
  PROVE  EntriesStay
<1>1. ASSUME Cells' \subseteq Cells PROVE EntriesStay
  BY <1>1 DEF EntriesStay
<1>2. CASE NodesStay \/ NewKv \/ SetFind \/ (\E k \in Keys : Del(k)) \/ GcNode \/ MvAlloc
  BY <1>1, <1>2, ReadsOnly DEF Known
<1>3. CASE \/ DelDirty(TRUE) \/ PutSec(TRUE) \/ PutStatus(TRUE) \/ PutHdr(TRUE) \/ PutBody(TRUE)
           \/ FmtHdr(TRUE) \/ GcSector(TRUE) \/ LoadErrHdr(TRUE)
  BY <1>1, <1>3, CellsSame DEF Known
<1>4. CASE FmtErase(TRUE)
  BY <1>1, <1>4, CellsErase DEF Known
<1>5. CASE DelStatus(TRUE)
  <2>1. PICK c \in Cells : At(c, local.del.ptr)
    BY <1>5 DEF Known, NodesOK, Doomed, DelStatus
  <2>2. CASE local.del.complete
    BY <1>1, <1>5, <2>1, <2>2, CellsDelStatus DEF Known
  <2>3. CASE ~local.del.complete
    <3>1. PICK d : Cells' = (Cells \ {c}) \cup {d} /\ d.key = c.key /\ d.val = c.val
      BY <1>5, <2>1, <2>3, CellsDelStatus DEF Known
    <3> QED BY <3>1 DEF EntriesStay
  <2> QED BY <2>2, <2>3
<1>6. CASE PutCommit(TRUE)
  <2>1. pc = "PutCommit" /\ local.put.ret = "MvReturn"
    BY <1>6 DEF PutCommit
  <2>2. /\ LastNode(flash[local.put.sec]).key = local.put.key
        /\ LastNode(flash[local.put.sec]).val = local.put.val
    BY <2>1 DEF Known, NodesOK
  <2>3. local.put.key = local.mv.key /\ local.put.val = local.mv.val
    BY <2>1 DEF Known, ControlOK, PutFor, PutPcs
  <2>4. PICK d : Cells' = Cells \cup {d} /\ d.key = local.mv.key /\ d.val = local.mv.val
    BY <1>6, <2>2, <2>3, CellsCommit DEF Known
  <2>5. \E c \in Cells : c.key = local.mv.key /\ c.val = local.mv.val
    <3>1. Copying(pc, local) /\ Doomed(pc, local) = {local.mv.ptr}
      BY <2>1 DEF Copying, Doomed, Half, PutFor, PutPcs
    <3> QED BY <3>1 DEF Known, NodesOK
  <2> QED BY <2>4, <2>5 DEF EntriesStay
<1> QED BY <1>2, <1>3, <1>4, <1>5, <1>6, NothingToMove DEF Clean, NodesStay

\* Only defaults are there while the defaults are written.
DefaultsOnly ==
    \A c \in Cells : \E i \in 1 .. local.def.i :
        i \in DOMAIN Defaults /\ Defaults[i].key = c.key /\ Defaults[i].val = c.val

LEMMA DefaultsStay ==
  ASSUME Known, EntriesStay, Defaulting(pc, local), local'.def.i \in Nat,
         local'.def.i >= local.def.i
  PROVE  DefaultsOnly'
<1>1. local.def.i \in Nat
  BY TInvParts, FrameTypes DEF Known, DefFrame
<1>2. DefaultsOnly
  BY DEF Known, FormatsOK, DefaultsOnly
<1> SUFFICES ASSUME NEW d \in Cells'
             PROVE  \E i \in 1 .. local'.def.i :
                        i \in DOMAIN Defaults /\ Defaults[i].key = d.key /\ Defaults[i].val = d.val
  BY DEF DefaultsOnly
<1>3. PICK c \in Cells : c.key = d.key /\ c.val = d.val
  BY DEF EntriesStay
<1>4. PICK i \in 1 .. local.def.i :
                        i \in DOMAIN Defaults /\ Defaults[i].key = c.key /\ Defaults[i].val = c.val
  BY <1>2 DEF DefaultsOnly
<1>5. i \in 1 .. local'.def.i
  BY <1>1, <1>4
<1> QED BY <1>3, <1>4, <1>5

FmtPcs == {"FmtErase", "FmtHdr", "DefFormat", "LoadHdr"}
LEMMA FormatsRest ==
  ASSUME pc' \notin FmtPcs, Defaulting(pc', local') => DefaultsOnly'
  PROVE  FormatsOK'
BY DEF FmtPcs, FormatsOK, FmtFor, Wiping, HeaderWalk, DefaultsOnly

LEMMA NoDefaults ==
  ASSUME NEW label, NEW l,
         \/ label \notin {"DefKv", "NewKv"} /\ ~InGc(label, l) /\ ~PutFor(label, l, "DefKv")
         \/ label = "NewKv" /\ l.new.ret # "DefKv"
         \/ InGc(label, l) /\ (l.gc.ret # "NewKv" \/ l.new.ret # "DefKv")
  PROVE  ~Defaulting(label, l)
BY DEF Defaulting, InGc, Copying, PutFor, DelFor, FmtFor, DelPcs, PutPcs

\* A collection takes place for the same default.
LEMMA FormatsGc ==
  ASSUME Known, EntriesStay, SameCtx, InGc(pc, local), InGc(pc', local'), pc' \notin FmtPcs
  PROVE  FormatsOK'
<1>1. ASSUME Defaulting(pc', local') PROVE DefaultsOnly'
  <2>1. Defaulting(pc, local)
    BY <1>1, NoDefaults DEF Defaulting, SameCtx
  <2>2. local'.def.i = local.def.i /\ local.def.i \in Nat
    BY TInvParts, FrameTypes DEF SameCtx, Known, DefFrame
  <2> QED BY <2>1, <2>2, DefaultsStay
<1> QED BY <1>1, FormatsRest

LEMMA FormatsGcReturn ==
  ASSUME Known, flash' = flash, InGc(pc, local), NEW l \in Local, GcReturn(l),
         l.gc.ret = local.gc.ret, l.new = local.new, l.def = local.def
  PROVE  FormatsOK'
<1>1. /\ pc' = local.gc.ret /\ pc' \in {"NewKv", "Idle", "LoadGc", "LoadScan"}
      /\ pc' # "Idle" => local'.new = local.new /\ local'.def = local.def
  BY GcReturnIs
<1>2. CASE pc' = "NewKv"
  <2>1. ASSUME Defaulting(pc', local') PROVE DefaultsOnly'
    <3>1. local'.new.ret = "DefKv"
      BY <1>2, <2>1, NoDefaults
    <3>2. Defaulting(pc, local)
      BY <1>1, <1>2, <3>1 DEF Defaulting
    <3>3. local'.def.i = local.def.i /\ local.def.i \in Nat
      BY <1>1, <1>2, TInvParts, FrameTypes DEF Known, DefFrame
    <3>4. EntriesStay
      BY DEF EntriesStay, Cells
    <3> QED BY <3>2, <3>3, <3>4, DefaultsStay
  <2> QED BY <1>2, <2>1, FormatsRest DEF FmtPcs
<1>3. CASE pc' # "NewKv"
  <2>1. ~Defaulting(pc', local')
    BY <1>1, <1>3 DEF Defaulting, InGc, Copying, PutFor, DelFor, FmtFor, DelPcs, PutPcs
  <2> QED BY <1>1, <2>1, FormatsRest DEF FmtPcs
<1> QED BY <1>2, <1>3

\* The calls, and the end of a session.
LEMMA FormatsBegin ==
  ASSUME Known,
         \/ \E u \in Updates : Set(u[1], u[2])
         \/ \E k \in Keys : Del(k)
         \/ \E strict \in BOOLEAN : Open(strict)
         \/ SetDefault \/ Close \/ LoadRefused
  PROVE  FormatsOK'
<1>1. CASE \E u \in Updates : Set(u[1], u[2])
  <2>1. PICK u \in Updates : Set(u[1], u[2])
    BY <1>1
  <2>2. u[1] \in Keys /\ u[2] \in Values
    BY BoundsAssumption
  <2>3. pc' = "NewKv" /\ local'.new = [key |-> u[1], val |-> u[2], tried |-> FALSE, ret |-> "SetFind"]
    BY <2>1, <2>2, SetIs DEF Known
  <2>4. local'.new.ret = "SetFind"
    BY <2>3
  <2> QED BY <2>3, <2>4, NoDefaults, FormatsRest DEF FmtPcs
<1>2. CASE \E k \in Keys : Del(k)
  <2>1. PICK k \in Keys : Del(k)
    BY <1>2
  <2> DEFINE d == [ptr |-> find_kv(flash, oldest, k), complete |-> TRUE, ret |-> "Idle"]
  <2>2. pc' = "Idle" \/ (pc' = "DelStatus" /\ local'.del = d)
    BY <2>1, DelIs DEF Known
  <2>3. d.ret = "Idle"
    OBVIOUS
  <2> HIDE DEF d
  <2>4. ~InGc(pc', local') /\ ~PutFor(pc', local', "DefKv")
    BY <2>2, <2>3 DEF InGc, Copying, PutFor, DelFor, FmtFor, DelPcs, PutPcs
  <2> QED BY <2>2, <2>4, NoDefaults, FormatsRest DEF FmtPcs
<1>3. CASE \E strict \in BOOLEAN : Open(strict)
  <2>1. pc' = "LoadHdr" /\ local'.load.i = 0 /\ local'.load.bad = 0
    BY <1>3, OpenIs DEF Known
  <2>2. ~Defaulting(pc', local')
    BY <2>1 DEF Defaulting, InGc, Copying, PutFor, DelFor, FmtFor, DelPcs, PutPcs
  <2>3. 0 <= 0 /\ 0 <= N /\ 0 .. 0-1 = {}
    BY GeometryType
  <2> QED BY <2>1, <2>2, <2>3 DEF FormatsOK, FmtFor, Wiping
<1>4. CASE SetDefault
  <2>1. pc' = "DefFormat" /\ local'.def.ret = "Idle" /\ local'.def.i = 0 /\ flash' = flash
    BY <1>4, SetDefaultIs DEF Known
  <2>2. ~Defaulting(pc', local')
    BY <2>1 DEF Defaulting, InGc, Copying, PutFor, DelFor, FmtFor, DelPcs, PutPcs
  <2>3. \A c \in Cells' : c.sec >= 0
    <3>1. \A c \in Cells : c.sec \in Sector
      BY CellIs
    <3> QED BY <2>1, <3>1 DEF Cells, Sector
  <2> QED BY <2>1, <2>2, <2>3 DEF FormatsOK, FmtFor, Wiping, HeaderWalk
<1>5. CASE Close \/ LoadRefused
  <2>1. pc' = "Off"
    BY <1>5 DEF Close, LoadRefused, Reset, Goto
  <2>2. ~Defaulting(pc', local')
    BY <2>1 DEF Defaulting, InGc, Copying, PutFor, DelFor, FmtFor, DelPcs, PutPcs
  <2> QED BY <2>1, <2>2, FormatsRest DEF FmtPcs
<1> QED BY <1>1, <1>2, <1>3, <1>4, <1>5

LEMMA FormatsDel == ASSUME Known, DelStatus(TRUE) \/ DelDirty(TRUE) PROVE FormatsOK'
<1>1. EntriesStay
  BY EntriesKept DEF Clean, DelStatus, DelDirty, PutCommit
<1>2. local.del.ret \in {"PutSec", "SetEnd", "Idle", "MvAlloc", "MvReturn"}
  BY TInvParts, FrameTypes DEF DelFrame, Known
<1>3. pc \in DelPcs
  BY DEF DelStatus, DelDirty, DelPcs
<1>4. CASE local.del.ret \in {"MvAlloc", "MvReturn"}
  <2>1. InGc(pc, local)
    BY <1>3, <1>4 DEF InGc, Copying, DelFor
  <2>2. SameCtx /\ InGc(pc', local') /\ pc' \notin FmtPcs
    <3>1. CASE DelStatus(TRUE)
      BY <1>4, <3>1, DelStatusIs DEF Known, InGc, Copying, DelFor, DelPcs, FmtPcs
    <3>2. CASE DelDirty(TRUE)
      <4>1. local.mv.ret = "GcNode"
        BY <2>1, <1>3, <1>4 DEF Known, ControlOK, Copying, DelFor
      <4>2. pc' \in {"MvAlloc", "GcNode"}
        BY <1>4, <3>2, <4>1, DelDirtyIs DEF Known
      <4>3. SameCtx
        BY <1>4, <3>2, DelDirtyIs DEF Known, SameCtx
      <4> QED BY <4>2, <4>3 DEF InGc, Copying, FmtPcs
    <3> QED BY <3>1, <3>2
  <2> QED BY <1>1, <2>1, <2>2, FormatsGc
<1>5. CASE local.del.ret \in {"PutSec", "SetEnd", "Idle"}
  <2>1. /\ pc' \in {"DelDirty", "PutSec", "SetEnd", "Idle"}
        /\ pc' = "DelDirty" => local'.del = local.del
        /\ pc' = "PutSec" => local'.put.ret = "SetEnd"
    <3>1. local.del.ret = "PutSec" => local.put.ret = "SetEnd"
      BY <1>3 DEF Known, WInv, KeptOK
    <3> QED BY <1>5, <3>1, DelStatusIs, DelDirtyIs DEF Known
  <2>2. ~InGc(pc', local') /\ ~PutFor(pc', local', "DefKv")
    BY <1>5, <2>1 DEF InGc, Copying, PutFor, DelFor, FmtFor, DelPcs, PutPcs
  <2> QED BY <2>1, <2>2, NoDefaults, FormatsRest DEF FmtPcs
<1> QED BY <1>2, <1>4, <1>5

LEMMA FormatsWrite ==
  ASSUME Known, PutSec(TRUE) \/ PutStatus(TRUE) \/ PutHdr(TRUE) \/ PutBody(TRUE)
  PROVE  FormatsOK'
<1>1. EntriesStay
  BY EntriesKept DEF Clean, PutSec, PutStatus, PutHdr, PutBody, PutCommit
<1>2. pc \in PutPcs /\ pc' \in PutPcs /\ local'.put.ret = local.put.ret /\ SameCtx
  BY WriteIs DEF Known, PutPcs
<1>3. local.put.ret \in {"SetEnd", "MvReturn", "DefKv"}
  BY TInvParts, FrameTypes DEF Known, PutFrame
<1>4. pc' \notin FmtPcs \cup DelPcs \cup {"DefKv", "NewKv"}
  BY <1>2 DEF PutPcs, FmtPcs, DelPcs
<1>5. CASE local.put.ret = "MvReturn"
  BY <1>1, <1>2, <1>4, <1>5, FormatsGc DEF InGc, Copying, PutFor
<1>6. CASE local.put.ret = "DefKv"
  <2>1. Defaulting(pc, local)
    BY <1>2, <1>6 DEF Defaulting, PutFor
  <2>2. local'.def.i = local.def.i /\ local.def.i \in Nat
    BY <1>2, TInvParts, FrameTypes DEF SameCtx, Known, DefFrame
  <2> QED BY <1>1, <1>4, <2>1, <2>2, DefaultsStay, FormatsRest
<1>7. CASE local.put.ret = "SetEnd"
  <2>1. ~InGc(pc', local') /\ ~PutFor(pc', local', "DefKv")
    BY <1>2, <1>7 DEF InGc, Copying, PutFor, DelFor, FmtFor, DelPcs, PutPcs
  <2> QED BY <1>4, <2>1, NoDefaults, FormatsRest
<1> QED BY <1>3, <1>5, <1>6, <1>7

\* A default is written.
LEMMA FormatsCommit == ASSUME Known, PutCommit(TRUE) PROVE FormatsOK'
<1>1. pc = "PutCommit" /\ pc \in PutPcs
  BY DEF PutCommit, PutPcs
<1>2. local.put.ret \in {"SetEnd", "MvReturn", "DefKv"}
  BY TInvParts, FrameTypes DEF Known, PutFrame
<1>3. CASE local.put.ret = "MvReturn"
  <2> DEFINE d == [ptr |-> local.mv.ptr, complete |-> TRUE, ret |-> "MvReturn"]
  <2>1. EntriesStay
    BY <1>3, EntriesKept DEF Clean
  <2>2. pc' = "DelStatus" /\ SameCtx /\ local'.del = d
    BY <1>3, PutCommitIs DEF Known
  <2>3. d.ret = "MvReturn"
    OBVIOUS
  <2> HIDE DEF d
  <2>4. InGc(pc, local) /\ InGc(pc', local')
    BY <1>1, <1>3, <2>2, <2>3 DEF InGc, Copying, PutFor, DelFor, DelPcs
  <2> QED BY <2>1, <2>2, <2>4, FormatsGc DEF FmtPcs
<1>4. CASE local.put.ret = "SetEnd"
  <2> DEFINE d == [ptr |-> local.job.old, complete |-> TRUE, ret |-> "SetEnd"]
  <2>1. pc' = "SetEnd" \/ (pc' = "DelStatus" /\ local'.del = d)
    BY <1>4, PutCommitIs DEF Known
  <2>2. d.ret = "SetEnd"
    OBVIOUS
  <2> HIDE DEF d
  <2>3. ~InGc(pc', local') /\ ~PutFor(pc', local', "DefKv")
    BY <2>1, <2>2 DEF InGc, Copying, PutFor, DelFor, FmtFor, DelPcs, PutPcs
  <2> QED BY <2>1, <2>3, NoDefaults, FormatsRest DEF FmtPcs
<1>5. CASE local.put.ret = "DefKv"
  <2>1. pc' = "DefKv" /\ local'.def.i = local.def.i + 1 /\ local.def.i \in Nat
    BY <1>5, PutCommitIs, TInvParts, FrameTypes DEF Known, DefFrame
  <2>2. Defaulting(pc, local)
    BY <1>1, <1>5 DEF Defaulting, PutFor
  <2>3. DefaultsOnly
    BY <2>2 DEF Known, FormatsOK, DefaultsOnly
  <2>4. IsDefault(local, local.put)
    BY <1>1, <1>5 DEF Known, ControlOK, PutFor
  <2>5. PICK d : Cells' = Cells \cup {d} /\ d.key = local.put.key /\ d.val = local.put.val
    BY <1>1, CellsCommit DEF Known, NodesOK
  <2>6. DefaultsOnly'
    <3> SUFFICES ASSUME NEW c \in Cells'
                 PROVE  \E i \in 1 .. local'.def.i :
                            i \in DOMAIN Defaults /\ Defaults[i].key = c.key /\ Defaults[i].val = c.val
      BY DEF DefaultsOnly
    <3>1. CASE c = d
      <4>1. local.def.i + 1 \in 1 .. local'.def.i
        BY <2>1
      <4> QED BY <2>4, <2>5, <3>1, <4>1 DEF IsDefault
    <3>2. CASE c \in Cells
      <4>1. PICK i \in 1 .. local.def.i :
                            i \in DOMAIN Defaults /\ Defaults[i].key = c.key /\ Defaults[i].val = c.val
        BY <2>3, <3>2 DEF DefaultsOnly
      <4>2. i \in 1 .. local'.def.i
        BY <2>1, <4>1
      <4> QED BY <4>1, <4>2
    <3> QED BY <2>5, <3>1, <3>2
  <2> QED BY <2>1, <2>6, FormatsRest DEF FmtPcs
<1> QED BY <1>2, <1>3, <1>4, <1>5

\* A sector is formatted.
LEMMA FormatsFmt == ASSUME Known, FmtErase(TRUE) \/ FmtHdr(TRUE) PROVE FormatsOK'
<1>1. EntriesStay /\ Cells' \subseteq Cells
  BY EntriesKept, CellsErase, CellsSame DEF Clean, FmtErase, FmtHdr, PutCommit, Known
<1>2. /\ SameCtx /\ local'.load = local.load /\ local'.def = local.def
      /\ FmtErase(TRUE) => pc = "FmtErase" /\ pc' = "FmtHdr" /\ local' = local
      /\ FmtHdr(TRUE) => pc = "FmtHdr" /\ pc' = local.fmt.ret
  BY FmtIs DEF Known, SameCtx
<1>3. local.fmt.ret \in {"GcFormatted", "LoadHdr", "DefFormat"} /\ local.def.i \in Nat
  BY TInvParts, FrameTypes DEF Known, FmtFrame, DefFrame
<1>4. CASE local.fmt.ret = "GcFormatted"
  <2>1. InGc(pc, local) /\ InGc(pc', local') /\ pc' \in {"FmtHdr", "GcFormatted"}
    BY <1>2, <1>4 DEF InGc, FmtFor
  <2>2. DefaultsOnly' \/ ~Defaulting(pc', local')
    <3>1. Defaulting(pc', local') => Defaulting(pc, local)
      BY <1>2, <2>1, NoDefaults DEF Defaulting, SameCtx
    <3> QED BY <1>1, <1>2, <1>3, <3>1, DefaultsStay
  <2>3. pc' = "FmtHdr" => \A c \in Cells' : c.sec # local'.fmt.sec
    BY <1>1, <1>2, <1>4, <2>1 DEF Known, FormatsOK, FmtFor
  <2> QED BY <1>2, <1>4, <2>1, <2>2, <2>3
          DEF FormatsOK, FmtFor, Wiping, HeaderWalk, DefaultsOnly
<1>5. CASE local.fmt.ret = "LoadHdr"
  <2>1. HeaderWalk(pc, local) /\ HeaderWalk(pc', local') /\ pc' \in {"FmtHdr", "LoadHdr"}
    BY <1>2, <1>5 DEF HeaderWalk
  <2>2. ~Defaulting(pc', local')
    BY <1>2, <1>5, <2>1 DEF Defaulting, InGc, Copying, PutFor, DelFor, FmtFor, DelPcs, PutPcs
  <2>3. pc' = "FmtHdr" => \A c \in Cells' : c.sec # local'.fmt.sec
    BY <1>1, <1>2, <1>5, <2>1 DEF Known, FormatsOK, FmtFor
  <2>4. /\ local.load.bad <= local.load.i /\ local.load.i <= N
        /\ local.load.bad = local.load.i =>
              \A i \in 0 .. local.load.i-1 : \A c \in Cells' : c.sec # Nth(local.load.from, i)
    BY <1>1, <2>1 DEF Known, FormatsOK
  <2> QED BY <1>2, <1>5, <2>1, <2>2, <2>3, <2>4 DEF FormatsOK, FmtFor, Wiping
<1>6. CASE local.fmt.ret = "DefFormat"
  <2>1. Wiping(pc, local) /\ pc' \in {"FmtHdr", "DefFormat"} /\ pc # "DefFormat"
    BY <1>2, <1>6 DEF Wiping, FmtFor
  <2>2. /\ \A c \in Cells : c.sec >= IF pc = "FmtErase" THEN local.def.i - 1 ELSE local.def.i
        /\ local.fmt.sec = local.def.i - 1 /\ local.def.i > 0
        /\ local.def.ret = "LoadGc" => Cells = {}
    BY <2>1 DEF Known, FormatsOK
  <2>3. \A c \in Cells' : c.sec >= local.def.i
    <3>1. CASE FmtErase(TRUE)
      <4>1. Cells' = {c \in Cells : c.sec # local.fmt.sec}
        BY <3>1, CellsErase DEF Known
      <4>2. \A c \in Cells : c.sec \in Nat
        BY CellIs, GeometryType DEF Sector
      <4> QED BY <1>2, <1>3, <2>2, <3>1, <4>1, <4>2
    <3>2. CASE FmtHdr(TRUE)
      BY <1>1, <1>2, <2>2, <3>2
    <3> QED BY <3>1, <3>2
  <2>4. ~Defaulting(pc', local')
    BY <1>2, <1>6, <2>1 DEF Defaulting, InGc, Copying, PutFor, DelFor, FmtFor, DelPcs, PutPcs
  <2>5. local.def.ret = "LoadGc" => Cells' = {}
    BY <1>1, <2>2
  <2> QED BY <1>2, <1>6, <2>1, <2>2, <2>3, <2>4, <2>5 DEF FormatsOK, FmtFor, HeaderWalk
<1> QED BY <1>3, <1>4, <1>5, <1>6

\* The steps of a collection.
LEMMA FormatsCollect ==
  ASSUME Known,
         GcStart \/ GcSector(TRUE) \/ GcFormatted \/ GcEnd \/ GcErase \/ GcNode \/ MvAlloc
  PROVE  FormatsOK'
<1>1. EntriesStay
  BY EntriesKept DEF Clean, GcStart, GcSector, GcFormatted, GcEnd, GcErase, GcNode, MvAlloc, PutCommit
<1>2. CASE GcStart
  <2>1. InGc(pc, local) /\ flash' = flash /\ local \in Local
    BY <1>2, TInvParts, GcStartIs DEF InGc, Known
  <2>2. CASE GcReturn(local)
    BY <2>1, <2>2, FormatsGcReturn
  <2>3. CASE ~GcReturn(local)
    <3>1. pc' = "GcSector" /\ SameCtx
      BY <1>2, <2>3, GcStartIs DEF Known
    <3> QED BY <1>1, <2>1, <3>1, FormatsGc DEF InGc, FmtPcs
  <2> QED BY <2>2, <2>3
<1>3. CASE GcSector(TRUE)
  <2>1. pc = "GcSector" /\ pc' = "GcNode" /\ SameCtx
    BY <1>3, GcSectorIs DEF Known
  <2> QED BY <1>1, <2>1, FormatsGc DEF InGc, FmtPcs
<1>4. CASE GcEnd
  <2>1. InGc(pc, local) /\ flash' = flash /\ local \in Local /\ GcReturn(local)
    BY <1>4, TInvParts DEF InGc, Known, GcEnd, NoCall
  <2> QED BY <2>1, FormatsGcReturn
<1>5. CASE GcFormatted
  <2>1. PICK l : l = [local EXCEPT !.gc.i = local.gc.i + 1, !.gc.last = local.gc.sec,
                                   !.gc.sec = 0, !.gc.idx = 0]
    OBVIOUS
  <2>2. /\ pc = "GcFormatted" /\ result' = result /\ flash' = flash
        /\ l \in Local /\ l.gc.ret = local.gc.ret
        /\ l.job = local.job /\ l.new = local.new /\ l.def = local.def
        /\ GcReturn(l) \/ (pc' = "GcSector" /\ local' = l)
    BY <1>5, <2>1, GcFormattedIs DEF Known
  <2>3. InGc(pc, local)
    BY <2>2 DEF InGc
  <2>4. CASE GcReturn(l)
    BY <2>2, <2>3, <2>4, FormatsGcReturn
  <2>5. CASE pc' = "GcSector" /\ local' = l
    <3>1. SameCtx
      BY <2>2, <2>5 DEF SameCtx
    <3> QED BY <1>1, <2>3, <2>5, <3>1, FormatsGc DEF InGc, FmtPcs
  <2> QED BY <2>2, <2>4, <2>5
<1>6. CASE GcErase
  <2>1. local \in Local /\ local.gc \in GcFrame /\ local.gc.sec \in Sector
    BY TInvParts, FrameTypes DEF Known, GcFrame
  <2>2. pc = "GcNode" /\ GcNodes = {} /\ flash' = flash /\ result' = result
        /\ FmtCall(local, local.gc.sec, "GcFormatted")
    BY <1>6 DEF GcErase, NoCall
  <2>3. /\ pc' = "FmtErase" /\ local'.fmt.ret = "GcFormatted" /\ local'.fmt.sec = local.gc.sec
        /\ local'.def = local.def
    BY <2>1, <2>2, FmtCallIs
  <2>4. local'.gc = local.gc /\ local'.new = local.new /\ local'.job = local.job
    BY <2>1, <2>2, FrameChange DEF FmtCall, Goto
  <2>5. \A c \in Cells' : c.sec # local'.fmt.sec
    <3> SUFFICES ASSUME NEW c \in Cells, c.sec = local.gc.sec PROVE FALSE
      BY <2>2, <2>3 DEF Cells
    <3>1. c.idx >= local.gc.idx + 1
      BY <2>2 DEF Known, RoomOK, CollectOK, Collected, NextCell
    <3>2. c.idx \in DOMAIN flash[local.gc.sec].kvs /\ ToMove(flash[local.gc.sec].kvs[c.idx])
      BY CellIs
    <3>3. c.idx \in GcNodes
      BY <3>1, <3>2 DEF GcNodes, NodesFrom
    <3> QED BY <2>2, <3>3
  <2>6. Defaulting(pc', local') => DefaultsOnly'
    <3>1. InGc(pc, local) /\ InGc(pc', local')
      BY <2>2, <2>3 DEF InGc, FmtFor
    <3>2. Defaulting(pc', local') => Defaulting(pc, local)
      BY <2>4, <3>1, NoDefaults DEF Defaulting
    <3>3. local'.def.i = local.def.i /\ local.def.i \in Nat
      BY <2>3, TInvParts, FrameTypes DEF Known, DefFrame
    <3> QED BY <1>1, <3>2, <3>3, DefaultsStay
  <2> QED BY <2>3, <2>5, <2>6 DEF FormatsOK, Wiping, HeaderWalk, FmtFor, DefaultsOnly
<1>7. CASE GcNode
  <2> DEFINE p == [found |-> TRUE, sec |-> local.gc.sec, idx |-> Least(GcNodes)]
             d == [ptr |-> p, complete |-> FALSE, ret |-> "MvAlloc"]
  <2>1. pc = "GcNode" /\ pc' = "DelStatus" /\ SameCtx /\ local'.del = d
    BY <1>7, MovedLive, GcNodeIs DEF Known
  <2>2. d.ret = "MvAlloc"
    OBVIOUS
  <2> HIDE DEF d
  <2>3. InGc(pc, local) /\ InGc(pc', local')
    BY <2>1, <2>2 DEF InGc, Copying, DelFor, DelPcs
  <2> QED BY <1>1, <2>1, <2>3, FormatsGc DEF FmtPcs
<1>8. CASE MvAlloc
  <2> DEFINE a == alloc_kv(flash, oldest, gcRequest, local.mv.len)
             put == [sec |-> a.sec, addr |-> empty_kv(flash[a.sec]), key |-> local.mv.key,
                     val |-> local.mv.val, full |-> FALSE, ret |-> "MvReturn"]
  <2>1. pc = "MvAlloc" /\ ~local.mv.pre /\ local.mv.ret = "GcNode"
    BY <1>8 DEF MvAlloc, Known, ControlOK, Copying
  <2>2. pc' = "PutSec" /\ SameCtx /\ local'.put = put
    BY <1>8, <2>1, MvAllocIs, MvAllocFinds DEF Known
  <2>3. put.ret = "MvReturn"
    OBVIOUS
  <2> HIDE DEF put
  <2>4. InGc(pc, local) /\ InGc(pc', local')
    BY <2>1, <2>2, <2>3 DEF InGc, Copying, PutFor, PutPcs
  <2> QED BY <1>1, <2>2, <2>4, FormatsGc DEF FmtPcs
<1> QED BY <1>2, <1>3, <1>4, <1>5, <1>6, <1>7, <1>8

\* The steps of set_kv and set_default between the writes.
LEMMA FormatsSet == ASSUME Known, NewKv \/ SetFind \/ SetEnd PROVE FormatsOK'
<1>1. EntriesStay /\ local.def.i \in Nat
  BY EntriesKept, TInvParts, FrameTypes DEF Clean, NewKv, SetFind, SetEnd, PutCommit, Known, DefFrame
<1>2. CASE NewKv
  <2> DEFINE a == alloc_kv(flash, oldest, gcRequest, NewKvLen)
             put == [sec |-> a.sec, addr |-> empty_kv(flash[a.sec]),
                     key |-> local.new.key, val |-> local.new.val, full |-> FALSE,
                     ret |-> IF local.new.ret = "SetFind" THEN "SetEnd" ELSE "DefKv"]
  <2>1. PICK l : l = [local EXCEPT !.new.tried = TRUE]
    OBVIOUS
  <2>2. /\ pc = "NewKv"
        /\ \/ /\ SameCtx /\ local'.put = put
              /\ pc' = IF local.new.ret = "SetFind" THEN "SetFind" ELSE "PutSec"
           \/ /\ GcCall(l, NewKvLen, "NewKv")
              /\ l \in Local /\ l.def = local.def /\ l.new.ret = local.new.ret
           \/ pc' = "Idle"
           \/ /\ local.new.ret # "SetFind" /\ pc' = "DefKv"
              /\ local'.def.i = local.def.i + 1
    BY <1>2, <2>1, NewKvIs DEF Known
  <2>3. put.ret = IF local.new.ret = "SetFind" THEN "SetEnd" ELSE "DefKv"
    OBVIOUS
  <2> HIDE DEF put
  <2>4. local.new.ret \in {"SetFind", "DefKv"}
    BY TInvParts, FrameTypes DEF Known, NewFrame
  <2>5. local.new.ret # "SetFind" => Defaulting(pc, local)
    BY <2>2, <2>4 DEF Defaulting
  <2>6. ASSUME pc' \notin FmtPcs, ~Defaulting(pc', local') \/ local.new.ret # "SetFind",
               local'.def.i \in Nat, local'.def.i >= local.def.i
        PROVE  FormatsOK'
    BY <1>1, <2>5, <2>6, DefaultsStay, FormatsRest
  <2>7. CASE SameCtx /\ local'.put = put
              /\ pc' = IF local.new.ret = "SetFind" THEN "SetFind" ELSE "PutSec"
    <3>1. local'.def.i = local.def.i /\ pc' \in {"SetFind", "PutSec"}
      BY <2>7 DEF SameCtx
    <3>2. local.new.ret = "SetFind" => ~Defaulting(pc', local')
      BY <2>7 DEF Defaulting, InGc, Copying, PutFor, DelFor, FmtFor, DelPcs, PutPcs
    <3>3. local'.def.i >= local.def.i
      BY <1>1, <3>1
    <3> QED BY <1>1, <2>6, <3>1, <3>2, <3>3 DEF FmtPcs
  <2>8. CASE /\ GcCall(l, NewKvLen, "NewKv")
             /\ l \in Local /\ l.def = local.def /\ l.new.ret = local.new.ret
    <3>1. pc' = "GcStart" /\ local'.def = l.def /\ local'.new = l.new
      BY <2>8, FrameChange DEF GcCall, Goto
    <3>2. local.new.ret = "SetFind" => ~Defaulting(pc', local')
      BY <2>8, <3>1 DEF Defaulting, PutFor, PutPcs
    <3>3. local'.def.i = local.def.i /\ local'.def.i >= local.def.i
      BY <1>1, <2>8, <3>1
    <3> QED BY <1>1, <2>6, <3>1, <3>2, <3>3 DEF FmtPcs
  <2>9. CASE pc' = "Idle"
    <3>1. ~Defaulting(pc', local')
      BY <2>9 DEF Defaulting, InGc, Copying, PutFor, DelFor, FmtFor, DelPcs, PutPcs
    <3> QED BY <2>9, <3>1, FormatsRest DEF FmtPcs
  <2>10. CASE local.new.ret # "SetFind" /\ pc' = "DefKv" /\ local'.def.i = local.def.i + 1
    <3>1. local'.def.i \in Nat /\ local'.def.i >= local.def.i
      BY <1>1, <2>10
    <3> QED BY <2>6, <2>10, <3>1 DEF FmtPcs
  <2> QED BY <2>2, <2>7, <2>8, <2>9, <2>10
<1>3. CASE SetFind
  <2> DEFINE f == find_kv(flash, oldest, local.job.key)
             d == [ptr |-> f, complete |-> FALSE, ret |-> "PutSec"]
  <2>1. /\ pc = "SetFind" /\ local'.put = local.put
        /\ \/ pc' = "DelStatus" /\ local'.del = d
           \/ pc' \in {"SetEnd", "PutSec"}
    BY <1>3, SetFindIs DEF Known
  <2>2. d.ret = "PutSec" /\ local.put.ret = "SetEnd"
    BY <2>1 DEF Known, WInv, KeptOK
  <2> HIDE DEF d
  <2>3. ~InGc(pc', local') /\ ~PutFor(pc', local', "DefKv")
    BY <2>1, <2>2 DEF InGc, Copying, PutFor, DelFor, FmtFor, DelPcs, PutPcs
  <2> QED BY <2>1, <2>3, NoDefaults, FormatsRest DEF FmtPcs
<1>4. CASE SetEnd
  <2>1. CASE gcRequest
    <3> DEFINE g == [NoLocal.gc EXCEPT !.free = kv_len(local.job.key, local.job.val), !.ret = "Idle"]
    <3>1. local \in Local /\ NoLocal.gc \in GcFrame
      BY TInvParts, NoLocalType, FrameTypes DEF Known
    <3>2. pc' = "GcStart" /\ local' = [local EXCEPT !.gc = g]
      BY <1>4, <2>1 DEF SetEnd, GcCall, Goto
    <3>3. g.ret = "Idle"
      BY <3>1 DEF GcFrame
    <3> HIDE DEF g
    <3>4. local'.gc.ret = "Idle"
      BY <3>1, <3>2, <3>3, FrameChange
    <3>5. ~Defaulting(pc', local')
      BY <3>2, <3>4 DEF Defaulting, PutFor, PutPcs
    <3> QED BY <3>2, <3>5, FormatsRest DEF FmtPcs
  <2>2. CASE ~gcRequest
    <3>1. pc' = "Idle"
      BY <1>4, <2>2 DEF SetEnd, Goto
    <3>2. ~Defaulting(pc', local')
      BY <3>1 DEF Defaulting, InGc, Copying, PutFor, DelFor, FmtFor, DelPcs, PutPcs
    <3> QED BY <3>1, <3>2, FormatsRest DEF FmtPcs
  <2> QED BY <2>1, <2>2
<1> QED BY <1>2, <1>3, <1>4

LEMMA FormatsDefault == ASSUME Known, DefFormat \/ DefKv \/ DefEnd PROVE FormatsOK'
<1>1. local.def.i \in Nat /\ flash' = flash
  BY TInvParts, FrameTypes DEF Known, DefFrame, DefFormat, DefKv, DefEnd, NoCall
<1>2. EntriesStay /\ Cells' = Cells
  BY <1>1 DEF EntriesStay, Cells
<1>3. CASE DefFormat
  <2>1. /\ pc = "DefFormat" /\ local'.def.ret = local.def.ret
        /\ local.def.i < N => /\ pc' = "FmtErase" /\ local'.def.i = local.def.i + 1
                              /\ local'.fmt.sec = local.def.i /\ local'.fmt.ret = "DefFormat"
        /\ ~(local.def.i < N) => pc' = "DefKv" /\ local'.def.i = 0
    BY <1>3, DefFormatIs DEF Known
  <2>2. /\ \A c \in Cells : c.sec >= local.def.i
        /\ local.def.ret = "LoadGc" => Cells = {}
    BY <2>1 DEF Known, FormatsOK, Wiping
  <2>3. CASE local.def.i < N
    <3>1. pc' = "FmtErase" /\ local'.fmt.ret = "DefFormat"
      BY <2>1, <2>3
    <3>2. ~Defaulting(pc', local') /\ ~FmtFor(pc', local', "GcFormatted")
          /\ ~FmtFor(pc', local', "LoadHdr") /\ ~HeaderWalk(pc', local')
      BY <3>1 DEF Defaulting, InGc, Copying, PutFor, DelFor, FmtFor, DelPcs, PutPcs, HeaderWalk
    <3>3. /\ local'.def.i - 1 = local.def.i /\ local'.def.i > 0
          /\ local'.fmt.sec = local'.def.i - 1
      BY <1>1, <2>1, <2>3
    <3> QED BY <1>2, <2>1, <2>2, <3>1, <3>2, <3>3 DEF FormatsOK
  <2>4. CASE ~(local.def.i < N)
    <3>1. Cells' = {}
      <4> SUFFICES ASSUME NEW c \in Cells PROVE FALSE
        BY <1>2
      <4>1. c.sec \in 0 .. N-1 /\ c.sec >= local.def.i
        BY <2>2, CellIs DEF Sector
      <4> QED BY <1>1, <2>4, <4>1, GeometryType
    <3> QED BY <2>1, <2>4, <3>1, FormatsRest DEF FmtPcs, DefaultsOnly
  <2> QED BY <2>3, <2>4
<1>4. CASE DefKv
  <2> DEFINE kv == Defaults[local.def.i + 1]
             new == [key |-> kv.key, val |-> kv.val, tried |-> FALSE, ret |-> "DefKv"]
  <2>1. /\ pc = "DefKv"
        /\ \/ pc' = "DefKv" /\ local'.def.i = local.def.i + 1
           \/ pc' = "NewKv" /\ local'.def = local.def
    BY <1>4, DefKvIs DEF Known
  <2>2. local'.def.i \in Nat /\ local'.def.i >= local.def.i
    BY <1>1, <2>1
  <2>3. Defaulting(pc, local)
    BY <2>1 DEF Defaulting
  <2> QED BY <1>2, <2>1, <2>2, <2>3, DefaultsStay, FormatsRest DEF FmtPcs
<1>5. CASE DefEnd
  <2>1. pc' \in {"Idle", "LoadGc"}
    BY <1>5, DefEndIs DEF Known
  <2>2. ~Defaulting(pc', local')
    BY <2>1 DEF Defaulting, InGc, Copying, PutFor, DelFor, FmtFor, DelPcs, PutPcs
  <2> QED BY <2>1, <2>2, FormatsRest DEF FmtPcs
<1> QED BY <1>3, <1>4, <1>5

\* The walk of kv_load over the headers: a sector without one has no nodes.
LEMMA FormatsHeaders == ASSUME Known, LoadHdr \/ LoadHdrEnd PROVE FormatsOK'
<1> DEFINE load == local.load
<1>1. /\ load.i \in Nat /\ load.bad \in Nat /\ load.from \in Sector
      /\ N \in Nat /\ flash' = flash /\ Cells' = Cells
  BY TInvParts, FrameTypes, GeometryType DEF Known, LoadFrame, LoadHdr, LoadHdrEnd, NoCall, Cells
<1>2. /\ load.bad <= load.i /\ load.i <= N
      /\ load.bad = load.i => \A i \in 0 .. load.i-1 : \A c \in Cells : c.sec # Nth(load.from, i)
  BY DEF Known, FormatsOK, HeaderWalk, LoadHdr, LoadHdrEnd
<1>3. CASE LoadHdr
  <2>1. PICK i : i = Least(BadAhead)
    OBVIOUS
  <2>2. /\ pc' = "FmtErase" /\ i \in BadAhead
        /\ local'.fmt.sec = Nth(load.from, i) /\ local'.fmt.ret = "LoadHdr"
        /\ local'.load.i = i + 1 /\ local'.load.bad = load.bad + 1 /\ local'.load.from = load.from
    BY <1>3, <2>1, LoadHdrIs DEF Known
  <2>3. i \in load.i .. N-1 /\ ~flash[Nth(load.from, i)].ok
    BY <2>2 DEF BadAhead
  <2>4. \A c \in Cells : c.sec # Nth(load.from, i)
    <3> SUFFICES ASSUME NEW c \in Cells, c.sec = Nth(load.from, i) PROVE FALSE
      OBVIOUS
    <3>1. Nth(load.from, i) \in Sector
      BY CellIs
    <3>2. flash[Nth(load.from, i)].kvs = <<>>
      BY <2>3, <3>1 DEF Known, RoomOK, SectorsOK
    <3>3. c.idx \in DOMAIN flash[Nth(load.from, i)].kvs
      BY CellIs
    <3> QED BY <3>2, <3>3
  <2>5. load.bad + 1 <= i + 1 /\ i + 1 <= N
    BY <1>1, <1>2, <2>3
  <2>6. ASSUME load.bad + 1 = i + 1
        PROVE  \A x \in 0 .. (i+1)-1 : \A c \in Cells : c.sec # Nth(load.from, x)
    <3>1. load.bad = load.i /\ i = load.i
      BY <1>1, <1>2, <2>3, <2>6
    <3>2. \A x \in 0 .. (i+1)-1 : x = i \/ x \in 0 .. load.i-1
      BY <1>1, <2>3, <3>1
    <3> QED BY <1>2, <2>4, <3>1, <3>2
  <2>7. ~Defaulting(pc', local') /\ ~Wiping(pc', local')
    BY <2>2 DEF Defaulting, Wiping, InGc, Copying, PutFor, DelFor, FmtFor, DelPcs, PutPcs
  <2> HIDE DEF load
  <2> QED BY <1>1, <2>2, <2>4, <2>5, <2>6, <2>7 DEF FormatsOK
<1>4. CASE LoadHdrEnd
  <2>1. /\ BadAhead = {}
        /\ \/ load.bad = N /\ pc' = "DefFormat"
           \/ pc' = "LoadGc"
    BY <1>4, LoadHdrEndIs DEF Known
  <2>2. ~Defaulting(pc', local')
    BY <2>1 DEF Defaulting, InGc, Copying, PutFor, DelFor, FmtFor, DelPcs, PutPcs
  <2>3. CASE load.bad = N /\ pc' = "DefFormat"
    <3>1. load.i = N /\ load.bad = load.i
      BY <1>1, <1>2, <2>3
    <3>2. Cells = {}
      <4> SUFFICES ASSUME NEW c \in Cells PROVE FALSE
        OBVIOUS
      <4>1. PICK i \in Sector : Nth(load.from, i) = c.sec
        BY <1>1, CellIs, NthOnto
      <4>2. i \in 0 .. load.i-1
        BY <3>1, <4>1 DEF Sector
      <4> QED BY <1>2, <3>1, <4>1, <4>2
    <3> QED BY <1>1, <2>2, <2>3, <3>2 DEF FormatsOK, FmtFor, Wiping, HeaderWalk
  <2>4. CASE pc' = "LoadGc"
    BY <2>2, <2>4, FormatsRest DEF FmtPcs
  <2> QED BY <2>1, <2>3, <2>4
<1> QED BY <1>3, <1>4

LEMMA FormatsLoad ==
  ASSUME Known, LoadGc \/ LoadScan \/ LoadErrHdr(TRUE) \/ LoadPassEnd \/ LoadCollect
  PROVE  FormatsOK'
<1>1. /\ pc' \in {"LoadScan", "LoadPass", "LoadCollect", "GcStart", "Idle"}
      /\ pc' = "GcStart" => local'.gc.ret # "NewKv"
  <2>1. CASE \E l \in Local : \E r \in {"LoadGc", "LoadScan"} : GcCall(l, N * SecSize, r)
    <3>1. PICK l \in Local : \E r \in {"LoadGc", "LoadScan"} : GcCall(l, N * SecSize, r)
      BY <2>1
    <3>2. PICK r \in {"LoadGc", "LoadScan"} : GcCall(l, N * SecSize, r)
      BY <3>1
    <3> DEFINE g == [NoLocal.gc EXCEPT !.free = N * SecSize, !.ret = r]
    <3>3. pc' = "GcStart" /\ local' = [l EXCEPT !.gc = g]
      BY <3>2 DEF GcCall, Goto
    <3>4. g.ret = r
      BY NoLocalType, FrameTypes DEF GcFrame
    <3> HIDE DEF g
    <3>5. local'.gc = g
      BY <3>3, FrameChange
    <3> QED BY <3>3, <3>4, <3>5
  <2> QED BY <2>1, LoadIs DEF Known
<1>2. ~Defaulting(pc', local')
  BY <1>1 DEF Defaulting, InGc, Copying, PutFor, DelFor, FmtFor, DelPcs, PutPcs
<1> QED BY <1>1, <1>2, FormatsRest DEF FmtPcs

LEMMA FormatsNext == ASSUME Known, Clean PROVE FormatsOK'
BY FormatsBegin, FormatsDel, FormatsWrite, FormatsCommit, FormatsFmt, FormatsCollect, FormatsSet,
   FormatsDefault, FormatsHeaders, FormatsLoad, NothingToMove DEF Clean

----------------------------------------------------------------------------
(* The headers of the sectors *)

\* While nothing fails every sector has one, but for the ones that are formatted.
LEMMA Healthy ==
  ASSUME Known
  PROVE  /\ ~failing
         /\ pc \notin {"Off", "LoadHdr", "FmtErase", "FmtHdr"} => \A s \in Sector : flash[s].ok
<1>1. ~failing
  <2>1. failing => faults < MaxFaults
    BY DEF Known, QuietOK
  <2>2. faults = MaxFaults /\ MaxFaults \in Nat
    BY BoundsType DEF Known, Quiet
  <2> QED BY <2>1, <2>2
<1>2. ASSUME pc \notin {"Off", "LoadHdr", "FmtErase", "FmtHdr"}, NEW s \in Sector PROVE flash[s].ok
  <2>1. MayBeBad = {}
    BY <1>2 DEF MayBeBad, HeaderWalk
  <2> QED BY <1>1, <2>1 DEF Known, HeadersOK, Bad
<1> QED BY <1>1, <1>2

\* What is executed where.
LEMMA CleanPc ==
  ASSUME Clean
  PROVE  /\ pc = "FmtErase" => FmtErase(TRUE)
         /\ pc = "GcNode" => GcNode \/ GcErase
         /\ pc = "MvAlloc" => MvAlloc
         /\ pc \in DelPcs => DelStatus(TRUE) \/ DelDirty(TRUE)
         /\ pc \in PutPcs => PutSec(TRUE) \/ PutStatus(TRUE) \/ PutHdr(TRUE) \/ PutBody(TRUE)
                             \/ PutCommit(TRUE)
<1>1. CASE NodesStay
  <2>1. \/ GcErase
        \/ pc \in {"Idle", "Off", "SetEnd", "GcStart", "GcFormatted", "GcSector", "DefFormat", "DefKv",
                   "LoadHdr", "LoadGc", "LoadScan", "LoadPass", "LoadCollect"}
    BY <1>1 DEF NodesStay, Set, Idle, Open, SetDefault, Close, SetEnd, GcStart, GcFormatted, GcEnd,
                DefFormat, DefKv, DefEnd, LoadHdr, LoadRefused, LoadHdrEnd, LoadGc, LoadScan,
                LoadPassEnd, LoadCollect
  <2> QED BY <2>1 DEF GcErase, DelPcs, PutPcs
<1>2. CASE GcNode \/ NewKv \/ SetFind \/ (\E k \in Keys : Del(k)) \/ MvAlloc \/ LoadMove
  BY <1>2 DEF GcNode, NewKv, SetFind, Del, MvAlloc, LoadMove, DelPcs, PutPcs
<1>3. CASE FmtErase(TRUE) \/ FmtHdr(TRUE) \/ GcSector(TRUE) \/ LoadErrHdr(TRUE)
  BY <1>3 DEF FmtErase, FmtHdr, GcSector, LoadErrHdr, DelPcs, PutPcs
<1>4. CASE DelStatus(TRUE) \/ DelDirty(TRUE)
  BY <1>4 DEF DelStatus, DelDirty, DelPcs, PutPcs
<1>5. CASE PutSec(TRUE) \/ PutStatus(TRUE) \/ PutHdr(TRUE) \/ PutBody(TRUE) \/ PutCommit(TRUE)
  BY <1>5 DEF PutSec, PutStatus, PutHdr, PutBody, PutCommit, DelPcs, PutPcs
<1> QED BY <1>1, <1>2, <1>3, <1>4, <1>5 DEF Clean, NodesStay

\* A write to the nodes of a sector.
SameHeader(s) == /\ flash'[s].ok = flash[s].ok /\ flash'[s].store = flash[s].store
                 /\ flash'[s].dirty = flash[s].dirty
LEMMA BodyWrite ==
  ASSUME TInv,
         \/ DelStatus(TRUE) \/ PutStatus(TRUE) \/ PutHdr(TRUE) \/ PutBody(TRUE) \/ PutCommit(TRUE)
         \/ LoadErrHdr(TRUE)
  PROVE  \A t \in Sector : SameHeader(t)
<1>1. FlashOK /\ \A s \in Sector : flash[s] \in SectorImage
  BY TInvParts
<1>2. local.put.sec \in Sector /\ local.del.ptr.sec \in Sector
  BY TInvParts, FrameTypes DEF PutFrame, DelFrame, Ptr
<1>3. ASSUME NEW s \in Sector, NEW image, Program(s, image, TRUE), image.ok = flash[s].ok,
             image.store = flash[s].store, image.dirty = flash[s].dirty
      PROVE  \A t \in Sector : SameHeader(t)
  BY <1>1, <1>3, ProgramFlash DEF SameHeader
<1>4. ASSUME NEW s \in Sector, NEW j, NEW node
      PROVE  /\ WithNode(s, j, node).ok = flash[s].ok
             /\ WithNode(s, j, node).store = flash[s].store
             /\ WithNode(s, j, node).dirty = flash[s].dirty
  BY <1>1 DEF WithNode, SectorImage
<1>5. ASSUME NEW s \in Sector, NEW j, NEW node, Program(s, WithNode(s, j, node), TRUE)
      PROVE  \A t \in Sector : SameHeader(t)
  BY <1>3, <1>4, <1>5
<1>6. CASE DelStatus(TRUE)
  <2>1. \E node : Program(local.del.ptr.sec, WithNode(local.del.ptr.sec, local.del.ptr.idx, node), TRUE)
    BY <1>6 DEF DelStatus
  <2> QED BY <1>2, <1>5, <2>1
<1>7. CASE PutHdr(TRUE) \/ PutBody(TRUE) \/ PutCommit(TRUE)
  <2>1. \E node : PutNode(node, TRUE)
    BY <1>7 DEF PutHdr, PutBody, PutCommit
  <2>2. \E node : Program(local.put.sec, WithNode(local.put.sec, Len(flash[local.put.sec].kvs), node), TRUE)
    BY <2>1 DEF PutNode
  <2> QED BY <1>2, <1>5, <2>2
<1>8. CASE PutStatus(TRUE)
  <2>1. \E node : Program(local.put.sec, [flash[local.put.sec] EXCEPT !.kvs = Append(@, node)], TRUE)
    BY <1>8 DEF PutStatus
  <2>2. PICK node : Program(local.put.sec, [flash[local.put.sec] EXCEPT !.kvs = Append(@, node)], TRUE)
    BY <2>1
  <2>3. PICK s \in Sector : s = local.put.sec
    BY <1>2
  <2> DEFINE image == [flash[s] EXCEPT !.kvs = Append(@, node)]
  <2>4. Program(s, image, TRUE)
    BY <2>2, <2>3
  <2>5. image.ok = flash[s].ok /\ image.store = flash[s].store /\ image.dirty = flash[s].dirty
    BY <1>1 DEF SectorImage
  <2> QED BY <1>3, <2>4, <2>5
<1>9. CASE LoadErrHdr(TRUE)
  <2> DEFINE i == Least(StepsAhead)
             s == Nth(local.load.from, i)
             j == Least(InterruptedIn(i))
             node == [flash[s].kvs[j] EXCEPT !.status = "ErrHdr"]
  <2>1. StepsAhead # {} /\ Program(s, WithNode(s, j, node), TRUE)
    BY <1>9 DEF LoadErrHdr
  <2>2. s \in Sector
    BY <2>1, StepsOK
  <2> HIDE DEF i, s, j, node
  <2> QED BY <1>5, <2>1, <2>2
<1> QED BY <1>6, <1>7, <1>8, <1>9

\* What a step does to the header of a sector: a sector that is marked dirty holds a node, and
\* so it is in use.
MarkOnly(t) == /\ flash'[t].ok = flash[t].ok /\ flash'[t].store = flash[t].store
              /\ flash'[t].kvs = flash[t].kvs
HeaderChange(t) ==
    \/ SameHeader(t) /\ (flash' = flash \/ pc \notin {"Off", "LoadHdr", "FmtErase", "FmtHdr"})
    \/ FmtErase(TRUE) /\ t = local.fmt.sec /\ flash'[t] = Erased
    \/ FmtHdr(TRUE) /\ t = local.fmt.sec /\ flash'[t] = Formatted
    \/ (FmtErase(TRUE) \/ FmtHdr(TRUE)) /\ t # local.fmt.sec /\ flash'[t] = flash[t]
    \/ /\ DelDirty(TRUE) /\ flash[t].dirty = "False" /\ flash[t].store # "Empty"
       /\ flash'[t].dirty = "True" /\ MarkOnly(t)
    \/ /\ PutSec(TRUE) /\ flash[t].store = "Empty" /\ flash'[t].store = "Using"
       /\ flash'[t].dirty = flash[t].dirty /\ flash'[t].ok = flash[t].ok
       /\ flash'[t].kvs = flash[t].kvs
    \/ /\ GcSector(TRUE) /\ t = local'.gc.sec /\ flash[t].dirty \in {"True", "Gc"}
       /\ flash'[t].dirty = "Gc" /\ MarkOnly(t)
DirtyOf == pc = "DelDirty" => flash[local.del.ptr.sec].kvs # <<>>
LEMMA HeaderMoves ==
  ASSUME TInv, LInv, DirtyOf, Clean, NEW t \in Sector
  PROVE  HeaderChange(t)
<1> USE DEF HeaderChange
<1>1. TInv /\ LInv /\ FlashOK /\ \A s \in Sector : flash[s] \in SectorImage
  BY TInvParts
<1>2. /\ local.put.sec \in Sector /\ local.del.ptr.sec \in Sector /\ local.fmt.sec \in Sector
  BY <1>1, TInvParts, FrameTypes DEF PutFrame, DelFrame, FmtFrame, Ptr
<1>3. flash'[t] = flash[t] => SameHeader(t)
  BY DEF SameHeader
<1>4. CASE NodesStay \/ NewKv \/ SetFind \/ (\E k \in Keys : Del(k)) \/ GcNode \/ MvAlloc
  BY <1>1, <1>3, <1>4, ReadsOnly
<1>5. CASE \/ DelStatus(TRUE) \/ PutStatus(TRUE) \/ PutHdr(TRUE) \/ PutBody(TRUE) \/ PutCommit(TRUE)
           \/ LoadErrHdr(TRUE)
  <2>1. SameHeader(t)
    BY <1>1, <1>5, BodyWrite
  <2>2. pc \notin {"Off", "LoadHdr", "FmtErase", "FmtHdr"}
    BY <1>5 DEF DelStatus, PutStatus, PutHdr, PutBody, PutCommit, LoadErrHdr
  <2> QED BY <2>1, <2>2
<1>6. CASE FmtErase(TRUE)
  <2>1. Program(local.fmt.sec, Erased, TRUE)
    BY <1>6 DEF FmtErase
  <2>2. flash'[local.fmt.sec] = Erased /\ (t # local.fmt.sec => flash'[t] = flash[t])
    BY <1>1, <1>2, <2>1, ProgramFlash
  <2> QED BY <1>6, <2>2
<1>7. CASE FmtHdr(TRUE)
  <2>1. Program(local.fmt.sec, Formatted, TRUE)
    BY <1>7 DEF FmtHdr
  <2>2. flash'[local.fmt.sec] = Formatted /\ (t # local.fmt.sec => flash'[t] = flash[t])
    BY <1>1, <1>2, <2>1, ProgramFlash
  <2> QED BY <1>7, <2>2
<1>8. CASE DelDirty(TRUE)
  <2>1. PICK s \in Sector : s = local.del.ptr.sec
    BY <1>2
  <2>2. pc = "DelDirty" /\ pc \notin {"Off", "LoadHdr", "FmtErase", "FmtHdr"}
    BY <1>8 DEF DelDirty
  <2> DEFINE image == [flash[s] EXCEPT !.dirty = "True"]
  <2>3. \/ flash[s].dirty = "False" /\ Program(s, image, TRUE)
        \/ NoCall
    BY <1>8, <2>1 DEF DelDirty, Unmarked
  <2>4. CASE NoCall
    BY <1>3, <2>4 DEF NoCall
  <2>5. CASE flash[s].dirty = "False" /\ Program(s, image, TRUE)
    <3>1. flash[s].kvs # <<>>
      BY <2>1, <2>2 DEF DirtyOf
    <3>2. flash[s].store # "Empty"
      BY <1>1, <3>1 DEF LInv, EmptyOK
    <3>3. flash'[s] = image /\ (t # s => flash'[t] = flash[t])
      BY <1>1, <2>5, ProgramFlash
    <3>4. /\ image.ok = flash[s].ok /\ image.store = flash[s].store /\ image.kvs = flash[s].kvs
          /\ image.dirty = "True"
      BY <1>1 DEF SectorImage
    <3>5. CASE t = s
      BY <1>8, <2>5, <3>2, <3>3, <3>4, <3>5 DEF MarkOnly
    <3>6. CASE t # s
      BY <1>3, <2>2, <3>3, <3>6
    <3> QED BY <3>5, <3>6
  <2> QED BY <2>3, <2>4, <2>5
<1>9. CASE PutSec(TRUE)
  <2>1. PICK s \in Sector : s = local.put.sec
    BY <1>2
  <2> DEFINE image == [flash[s] EXCEPT !.store = "Using"]
  <2>2. /\ pc = "PutSec"
        /\ (flash[s].store = "Empty" /\ Program(s, image, TRUE)) \/ NoCall
    BY <1>1, <1>9, <2>1, PutSecIs
  <2>4. CASE NoCall
    BY <1>3, <2>4 DEF NoCall
  <2>5. CASE flash[s].store = "Empty" /\ Program(s, image, TRUE)
    <3>3. flash'[s] = image /\ (t # s => flash'[t] = flash[t])
      BY <1>1, <2>5, ProgramFlash
    <3>4. /\ image.ok = flash[s].ok /\ image.store = "Using" /\ image.kvs = flash[s].kvs
          /\ image.dirty = flash[s].dirty
      BY <1>1 DEF SectorImage
    <3>5. CASE t = s
      BY <1>9, <2>5, <3>3, <3>4, <3>5
    <3>6. CASE t # s
      BY <1>3, <2>2, <3>3, <3>6
    <3> QED BY <3>5, <3>6
  <2> QED BY <2>2, <2>4, <2>5
<1>10. CASE GcSector(TRUE)
  <2> DEFINE s == Nth(local.gc.from, Least(GcAhead))
             image == [flash[s] EXCEPT !.dirty = "Gc"]
  <2>1. /\ pc = "GcSector" /\ s \in Sector /\ Collectable(s) /\ local'.gc.sec = s
        /\ Program(s, image, TRUE)
    BY <1>1, <1>10, GcSectorIs
  <2>2. flash'[s] = image /\ (t # s => flash'[t] = flash[t])
    BY <1>1, <2>1, ProgramFlash
  <2>3. /\ image.ok = flash[s].ok /\ image.store = flash[s].store /\ image.kvs = flash[s].kvs
        /\ image.dirty = "Gc"
    BY <1>1, <2>1 DEF SectorImage
  <2>4. flash[s].dirty \in {"True", "Gc"}
    BY <2>1 DEF Collectable
  <2> HIDE DEF s, image
  <2>5. CASE t = s
    BY <1>10, <2>1, <2>2, <2>3, <2>4, <2>5 DEF MarkOnly
  <2>6. CASE t # s
    BY <1>3, <2>1, <2>2, <2>6
  <2> QED BY <2>5, <2>6
<1>11. CASE LoadMove
  BY <1>3, <1>11 DEF LoadMove, NoCall
<1> QED BY <1>4, <1>5, <1>6, <1>7, <1>8, <1>9, <1>10, <1>11 DEF Clean, NodesStay

LEMMA HeaderStep == ASSUME Known, Clean, NEW t \in Sector PROVE HeaderChange(t)
BY HeaderMoves DEF Known, RoomOK, DirtyOf

LEMMA SectorsNext == ASSUME Known, Clean PROVE SectorsOK'
<1> SUFFICES ASSUME NEW t \in Sector
             PROVE  /\ ~flash'[t].ok => flash'[t].kvs = <<>>
                    /\ flash'[t].store = "Empty" => flash'[t].dirty = "False"
  BY DEF SectorsOK
<1>1. /\ ~flash[t].ok => flash[t].kvs = <<>>
      /\ flash[t].store = "Empty" => flash[t].dirty = "False"
  BY DEF Known, RoomOK, SectorsOK
<1>2. pc \notin {"Off", "LoadHdr", "FmtErase", "FmtHdr"} => flash[t].ok
  BY Healthy
<1>3. /\ Erased.kvs = <<>> /\ Erased.store = "Unused" /\ Formatted.kvs = <<>>
      /\ Formatted.dirty = "False"
  BY DEF Erased, Formatted
<1> QED BY <1>1, <1>2, <1>3, HeaderStep DEF HeaderChange, SameHeader, MarkOnly

\* The walk over the nodes of a sector stays with it until the sector is erased.
LEMMA CollectedStays ==
  ASSUME Known, Clean, Collected(pc, local)
  PROVE  /\ local'.gc.sec = local.gc.sec
         /\ Collected(pc', local') \/ (Erasing(pc', local') /\ local'.fmt.sec = local.gc.sec)
<1>1. TInv /\ local \in Local
  BY TInvParts DEF Known
<1>2. Copying(pc, local) => local.mv.ret = "GcNode" /\ ~local.mv.pre
  BY DEF Known, ControlOK
<1>3. CASE pc = "GcNode"
  <2>1. CASE GcNode
    <3>1. /\ pc' = "DelStatus" /\ local'.gc.sec = local.gc.sec /\ local'.del.ret = "MvAlloc"
      BY <1>1, <2>1, MovedLive, GcNodeIs
    <3> QED BY <3>1 DEF Collected, Copying, DelFor, DelPcs
  <2>2. CASE GcErase
    <3>1. FmtCall(local, local.gc.sec, "GcFormatted")
      BY <2>2 DEF GcErase
    <3>2. local'.gc = local.gc
      BY <1>1, <3>1, FrameChange DEF FmtCall, Goto
    <3>3. pc' = "FmtErase" /\ local'.fmt.ret = "GcFormatted" /\ local'.fmt.sec = local.gc.sec
      BY <1>1, <3>1, FmtCallIs
    <3> QED BY <3>2, <3>3 DEF Erasing
  <2> QED BY <1>3, <2>1, <2>2, CleanPc
<1>4. CASE pc = "MvAlloc"
  <2>1. MvAlloc /\ Copying(pc, local)
    BY <1>4, CleanPc DEF Copying
  <2> DEFINE a == alloc_kv(flash, oldest, gcRequest, local.mv.len)
  <2>2. /\ local'.gc = local.gc
        /\ ~a.found => pc' = "GcNode"
        /\ a.found => /\ pc' = "PutSec"
                      /\ local'.put = [sec |-> a.sec, addr |-> empty_kv(flash[a.sec]),
                                       key |-> local.mv.key, val |-> local.mv.val,
                                       full |-> FALSE, ret |-> "MvReturn"]
    BY <1>1, <1>2, <2>1, MvAllocIs
  <2> HIDE DEF a
  <2>3. a.found => local'.put.ret = "MvReturn"
    BY <2>2
  <2> QED BY <2>2, <2>3 DEF Collected, Copying, PutFor, PutPcs
<1>5. CASE PutFor(pc, local, "MvReturn")
  <2>1. CASE PutSec(TRUE) \/ PutStatus(TRUE) \/ PutHdr(TRUE) \/ PutBody(TRUE)
    BY <1>1, <1>5, <2>1, WriteIs DEF Collected, Copying, PutFor, PutPcs
  <2>2. CASE PutCommit(TRUE)
    <3>1. local.put.ret = "MvReturn"
      BY <1>5 DEF PutFor
    <3>2. /\ pc' = "DelStatus" /\ local'.gc = local.gc
          /\ local'.del = [ptr |-> local.mv.ptr, complete |-> TRUE, ret |-> "MvReturn"]
      BY <1>1, <2>2, <3>1, PutCommitIs
    <3>3. local'.del.ret = "MvReturn"
      BY <3>2
    <3> QED BY <3>2, <3>3 DEF Collected, Copying, DelFor, DelPcs
  <2> QED BY <1>5, <2>1, <2>2, CleanPc DEF PutFor
<1>6. CASE DelFor(pc, local, {"MvAlloc", "MvReturn"})
  <2>1. CASE DelStatus(TRUE)
    BY <1>1, <1>6, <2>1, DelStatusIs DEF Collected, Copying, DelFor, DelPcs
  <2>2. CASE DelDirty(TRUE)
    <3>1. local.del.ret \in {"MvAlloc", "MvReturn"} /\ local.mv.ret = "GcNode"
      BY <1>2, <1>6 DEF DelFor, Copying
    <3> QED BY <1>1, <2>2, <3>1, DelDirtyIs DEF Collected, Copying
  <2> QED BY <1>6, <2>1, <2>2, CleanPc DEF DelFor
<1> QED BY <1>3, <1>4, <1>5, <1>6 DEF Collected, Copying

LEMMA MarksNext == ASSUME Known, Clean PROVE MarksOK'
<1> SUFFICES ASSUME NEW t \in Sector, flash'[t].dirty = "Gc"
             PROVE  t = local'.gc.sec /\ (Collected(pc', local') \/ Erasing(pc', local'))
  BY DEF MarksOK
<1>1. flash[t].dirty = "Gc" => t = local.gc.sec /\ (Collected(pc, local) \/ Erasing(pc, local))
  BY DEF Known, RoomOK, MarksOK
<1>2. Erased.dirty = "Unused" /\ Formatted.dirty = "False"
  BY DEF Erased, Formatted
<1>3. CASE GcSector(TRUE) /\ t = local'.gc.sec
  <2>1. pc' = "GcNode"
    BY <1>3, GcSectorIs DEF Known
  <2> QED BY <1>3, <2>1 DEF Collected
<1>4. CASE flash[t].dirty = "Gc" /\ ~(FmtErase(TRUE) /\ t = local.fmt.sec)
  <2>1. CASE Collected(pc, local)
    BY <1>1, <1>4, <2>1, CollectedStays
  <2>2. CASE Erasing(pc, local)
    <3>1. pc = "FmtErase" /\ local.fmt.sec = local.gc.sec
      BY <2>2 DEF Erasing, Known, RoomOK
    <3> QED BY <1>1, <1>4, <3>1, CleanPc
  <2> QED BY <1>1, <1>4, <2>1, <2>2
<1>5. ~(FmtErase(TRUE) /\ t = local.fmt.sec)
  <2> SUFFICES ASSUME FmtErase(TRUE), t = local.fmt.sec PROVE FALSE
    OBVIOUS
  <2>1. Program(t, Erased, TRUE) /\ FlashOK
    BY TInvParts DEF FmtErase, Known
  <2>2. flash'[t] = Erased
    BY <2>1, ProgramFlash
  <2> QED BY <1>2, <2>2
<1> QED BY <1>2, <1>3, <1>4, <1>5, HeaderStep DEF HeaderChange, SameHeader, MarkOnly

\* The sector of a node is marked dirty behind the status of the node, and nowhere else.
LEMMA DirtyAfter == ASSUME TInv, Clean, pc' = "DelDirty" PROVE DelStatus(TRUE)
<1>1. local \in Local /\ local.del \in DelFrame /\ local.put \in PutFrame
  BY TInvParts, FrameTypes
<1>2. ASSUME NEW l, NEW s, NEW j, NEW r, MvCall(l, s, j, r) PROVE FALSE
  BY <1>2 DEF MvCall, DelCall, Goto
<1>3. ~(\/ \E u \in Updates : Set(u[1], u[2])
        \/ \E strict \in BOOLEAN : Open(strict)
        \/ SetDefault \/ Close \/ SetEnd \/ LoadRefused)
  BY DEF Set, NewCall, Open, SetDefault, Close, SetEnd, LoadRefused, Reset, GcCall, Return, Goto
<1>4. ~(\E k \in Keys : Del(k))
  <2>1. \A k \in Keys : Del(k) => pc' # "DelDirty"
    BY <1>1, DelIs
  <2> QED BY <2>1
<1>5. ~NewKv
  BY NewKvIs DEF GcCall, Goto
<1>6. ~SetFind
  BY SetFindIs
<1>7. ~(GcStart \/ GcEnd \/ GcFormatted)
  BY <1>1, GcStartIs, GcReturnIs, GcFormattedIs DEF GcEnd
<1>8. ~GcNode
  BY <1>2 DEF GcNode
<1>9. ~LoadMove
  BY <1>2 DEF LoadMove
<1>10. ~(GcErase \/ MvAlloc)
  BY DEF GcErase, FmtCall, MvAlloc, MvReturn, DelCall, Goto
<1>11. ~(DefFormat \/ LoadHdr \/ DefKv \/ DefEnd \/ LoadHdrEnd)
  <2>1. local.def.i < N \/ ~(local.def.i < N)
    OBVIOUS
  <2>2. DefEnd => pc' \in {"Idle", "LoadGc"}
    BY DefEndIs
  <2> QED BY <2>1, <2>2, DefFormatIs, LoadHdrIs, DefKvIs, LoadHdrEndIs
<1>12. ~(LoadGc \/ LoadScan \/ LoadErrHdr(TRUE) \/ LoadPassEnd \/ LoadCollect)
  BY LoadIs DEF GcCall, Goto
<1>13. ~(PutSec(TRUE) \/ PutStatus(TRUE) \/ PutHdr(TRUE) \/ PutBody(TRUE))
  BY WriteIs
<1>14. ~PutCommit(TRUE)
  <2>1. local.put.ret \in {"SetEnd", "DefKv", "MvReturn"}
    BY <1>1 DEF PutFrame
  <2> QED BY <2>1, PutCommitIs
<1>15. ~(FmtErase(TRUE) \/ FmtHdr(TRUE) \/ GcSector(TRUE))
  BY FmtIs, GcSectorIs
<1>16. ~DelDirty(TRUE)
  BY DEF DelDirty, DelReturn, MvReturn, Return, Goto
<1> QED BY <1>3, <1>4, <1>5, <1>6, <1>7, <1>8, <1>9, <1>10, <1>11, <1>12, <1>13, <1>14, <1>15, <1>16
        DEF Clean

\* Its sector holds that node.
LEMMA DirtyNext == ASSUME TInv, WInv, Clean PROVE DirtyOf'
<1> SUFFICES ASSUME pc' = "DelDirty" PROVE flash'[local'.del.ptr.sec].kvs # <<>>
  BY DEF DirtyOf
<1>1. FlashOK /\ local.del \in DelFrame
  BY TInvParts, FrameTypes
<1>2. DelStatus(TRUE) /\ pc = "DelStatus" /\ local'.del = local.del
  BY DirtyAfter, DelStatusIs
<1> DEFINE s == local.del.ptr.sec
           j == local.del.ptr.idx
<1>3. s \in Sector /\ j \in DOMAIN flash[s].kvs
  <2>1. local.del.ptr \in ToDelete(pc, local)
    BY <1>2 DEF ToDelete
  <2> QED BY <1>1, <2>1 DEF WInv, KeptOK, Held, DelFrame, Ptr
<1>4. \E node : Program(s, WithNode(s, j, node), TRUE)
  BY <1>2 DEF DelStatus
<1> HIDE DEF s, j
<1>5. DOMAIN flash'[s].kvs = DOMAIN flash[s].kvs
  BY <1>1, <1>3, <1>4, OneCell
<1>6. j \in DOMAIN flash'[s].kvs
  BY <1>3, <1>5
<1>7. flash'[s].kvs # <<>>
  BY <1>6
<1> QED BY <1>2, <1>7 DEF s

\* Where a step leads to.
LEMMA Arrives ==
  ASSUME Known, Clean
  PROVE  /\ Collected(pc', local') => Collected(pc, local) \/ GcSector(TRUE)
         /\ pc' = "GcSector" => GcStart \/ GcFormatted
         /\ Erasing(pc', local') => GcErase
<1> DEFINE Goal == /\ Collected(pc', local') => Collected(pc, local) \/ GcSector(TRUE)
                   /\ pc' = "GcSector" => GcStart \/ GcFormatted
                   /\ Erasing(pc', local') => GcErase
           Free == {"Off", "Idle", "NewKv", "SetFind", "SetEnd", "GcStart", "GcFormatted", "LoadHdr",
                    "DefFormat", "DefKv", "LoadGc", "LoadScan", "LoadPass", "LoadCollect", "FmtHdr"}
<1>1. TInv /\ WInv /\ local \in Local
  BY TInvParts DEF Known
<1>2. pc' \in Free => Goal
  BY DEF Collected, Copying, PutFor, DelFor, DelPcs, PutPcs, Erasing
<1>3. ASSUME NEW l \in Local, GcReturn(l) PROVE Goal
  BY <1>2, <1>3, GcReturnIs
<1>4. CASE \/ \E u \in Updates : Set(u[1], u[2])
           \/ \E strict \in BOOLEAN : Open(strict)
           \/ SetDefault \/ Close \/ SetEnd \/ LoadRefused
  <2>1. pc' \in Free
    BY <1>4 DEF Set, NewCall, Open, SetDefault, Close, SetEnd, LoadRefused, Reset, GcCall, Goto
  <2> QED BY <1>2, <2>1
<1>5. CASE GcStart
  BY <1>1, <1>3, <1>5, GcStartIs DEF Collected, Copying, PutFor, DelFor, DelPcs, PutPcs, Erasing
<1>6. CASE GcEnd
  BY <1>1, <1>3, <1>6 DEF GcEnd
<1>7. CASE GcFormatted
  <2> DEFINE l == [local EXCEPT !.gc.i = local.gc.i + 1, !.gc.last = local.gc.sec, !.gc.sec = 0,
                                !.gc.idx = 0]
  <2>1. l \in Local /\ (GcReturn(l) \/ pc' = "GcSector")
    BY <1>1, <1>7, GcFormattedIs
  <2> HIDE DEF l
  <2> QED BY <1>3, <1>7, <2>1 DEF Collected, Copying, PutFor, DelFor, DelPcs, PutPcs, Erasing
<1>8. CASE GcErase
  <2>1. pc' = "FmtErase"
    BY <1>8 DEF GcErase, FmtCall, Goto
  <2> QED BY <1>8, <2>1 DEF Collected, Copying, PutFor, DelFor, DelPcs, PutPcs
<1>9. CASE DefFormat \/ LoadHdr
  <2>1. pc' = "DefKv" \/ (pc' = "FmtErase" /\ local'.fmt.ret \in {"DefFormat", "LoadHdr"})
    <3>1. local.def.i < N \/ ~(local.def.i < N)
      OBVIOUS
    <3> QED BY <1>1, <1>9, <3>1, DefFormatIs, LoadHdrIs
  <2> QED BY <2>1 DEF Collected, Copying, PutFor, DelFor, DelPcs, PutPcs, Erasing
<1>10. CASE DefKv \/ DefEnd \/ LoadHdrEnd
  BY <1>1, <1>2, <1>10, DefKvIs, DefEndIs, LoadHdrEndIs
<1>11. CASE LoadGc \/ LoadScan \/ LoadErrHdr(TRUE) \/ LoadPassEnd \/ LoadCollect
  <2>1. pc' \in Free
    BY <1>1, <1>11, LoadIs DEF GcCall, Goto
  <2> QED BY <1>2, <2>1
<1>12. CASE NewKv
  <2> DEFINE a == alloc_kv(flash, oldest, gcRequest, NewKvLen)
             l == [local EXCEPT !.new.tried = TRUE]
  <2>1. \/ pc' \in {"SetFind", "Idle", "DefKv"}
        \/ /\ pc' = "PutSec"
           /\ local'.put = [sec |-> a.sec, addr |-> empty_kv(flash[a.sec]),
                            key |-> local.new.key, val |-> local.new.val, full |-> FALSE,
                            ret |-> IF local.new.ret = "SetFind" THEN "SetEnd" ELSE "DefKv"]
        \/ GcCall(l, NewKvLen, "NewKv")
    BY <1>1, <1>12, NewKvIs
  <2> HIDE DEF a, l
  <2>2. CASE pc' = "PutSec" /\ local'.put.ret # "MvReturn"
    BY <2>2 DEF Collected, Copying, PutFor, DelFor, DelPcs, Erasing
  <2>3. CASE GcCall(l, NewKvLen, "NewKv")
    BY <1>2, <2>3 DEF GcCall, Goto
  <2>4. pc' = "PutSec" => local'.put.ret # "MvReturn" \/ GcCall(l, NewKvLen, "NewKv")
    BY <2>1
  <2>5. pc' \in Free \/ pc' = "PutSec" \/ GcCall(l, NewKvLen, "NewKv")
    BY <2>1
  <2> HIDE DEF Free
  <2> QED BY <1>2, <2>2, <2>3, <2>4, <2>5
<1>13. CASE SetFind
  <2>1. pc = "SetFind" /\ local.put.ret = "SetEnd"
    BY <1>1, <1>13 DEF SetFind, WInv, KeptOK
  <2> DEFINE f == find_kv(flash, oldest, local.job.key)
  <2>2. /\ local'.put = local.put
        /\ \/ /\ pc' = "DelStatus"
              /\ local'.del = [ptr |-> f, complete |-> FALSE, ret |-> "PutSec"]
           \/ pc' = "SetEnd" \/ pc' = "PutSec"
    <3>1. f.found \/ (~f.found /\ KeyLen[local.job.key] > KV_NAME_MAX)
          \/ (~f.found /\ ~(KeyLen[local.job.key] > KV_NAME_MAX))
      OBVIOUS
    <3> QED BY <1>1, <1>13, <3>1, SetFindIs
  <2> HIDE DEF f
  <2>3. CASE pc' = "DelStatus" /\ local'.del.ret = "PutSec"
    BY <2>3 DEF Collected, Copying, PutFor, DelFor, PutPcs, Erasing
  <2>4. CASE pc' = "PutSec" /\ local'.put.ret = "SetEnd"
    BY <2>4 DEF Collected, Copying, PutFor, DelFor, DelPcs, Erasing
  <2>5. pc' = "DelStatus" => local'.del.ret = "PutSec"
    BY <2>2
  <2>6. pc' \in Free \/ pc' = "PutSec" \/ pc' = "DelStatus"
    BY <2>2
  <2> HIDE DEF Free
  <2> QED BY <1>2, <2>1, <2>2, <2>3, <2>4, <2>5, <2>6
<1>14. CASE \E k \in Keys : Del(k)
  <2>1. PICK k \in Keys : Del(k)
    BY <1>14
  <2> DEFINE f == find_kv(flash, oldest, k)
  <2>2. \/ /\ pc' = "DelStatus"
           /\ local'.del = [ptr |-> f, complete |-> TRUE, ret |-> "Idle"]
        \/ pc' = "Idle"
    BY <1>1, <2>1, DelIs
  <2> HIDE DEF f
  <2>3. CASE pc' = "DelStatus" /\ local'.del.ret = "Idle"
    BY <2>3 DEF Collected, Copying, PutFor, DelFor, PutPcs, Erasing
  <2>4. pc' = "DelStatus" => local'.del.ret = "Idle"
    BY <2>2
  <2>5. pc' \in Free \/ pc' = "DelStatus"
    BY <2>2
  <2> HIDE DEF Free
  <2> QED BY <1>2, <2>3, <2>4, <2>5
<1>15. CASE GcNode \/ MvAlloc
  <2>1. Collected(pc, local)
    BY <1>15 DEF GcNode, MvAlloc, Collected, Copying
  <2>2. pc' \notin {"GcSector", "DelDirty", "FmtErase"}
    <3>1. CASE GcNode
      BY <1>1, <3>1, MovedLive, GcNodeIs
    <3>2. CASE MvAlloc
      <4>1. pc = "MvAlloc" /\ Copying(pc, local)
        BY <3>2 DEF MvAlloc, Copying
      <4>2. ~local.mv.pre /\ local.mv.ret = "GcNode"
        BY <4>1 DEF Known, ControlOK
      <4> QED BY <1>1, <3>2, <4>2, MvAllocIs
    <3> QED BY <1>15, <3>1, <3>2
  <2> QED BY <2>1, <2>2 DEF Erasing
<1>16. CASE DelStatus(TRUE)
  BY <1>1, <1>16, DelStatusIs DEF Collected, Copying, DelFor, PutFor, DelPcs, PutPcs, Erasing
<1>17. CASE DelDirty(TRUE)
  <2>1. pc = "DelDirty" /\ local.del \in DelFrame
    BY <1>1, <1>17, FrameTypes DEF DelDirty
  <2>2. CASE local.del.ret \in {"SetEnd", "Idle"}
    BY <1>1, <1>2, <1>17, <2>2, DelDirtyIs
  <2>3. CASE local.del.ret \in {"MvAlloc", "MvReturn"}
    <3>1. Collected(pc, local) /\ local.mv.ret = "GcNode"
      BY <2>1, <2>3 DEF Collected, Copying, DelFor, DelPcs, Known, ControlOK
    <3>2. pc' \in {"MvAlloc", "GcNode"}
      BY <1>1, <1>17, <2>3, <3>1, DelDirtyIs
    <3> QED BY <3>1, <3>2 DEF Erasing
  <2>4. CASE local.del.ret = "PutSec"
    <3>1. local.put.ret = "SetEnd"
      BY <1>1, <2>1, <2>4 DEF WInv, KeptOK, DelPcs
    <3>2. pc' = "PutSec" /\ local'.put = local.put
      BY <1>1, <1>17, <2>4, DelDirtyIs
    <3> QED BY <3>1, <3>2 DEF Collected, Copying, PutFor, DelFor, DelPcs, Erasing
  <2> QED BY <2>1, <2>2, <2>3, <2>4 DEF DelFrame
<1>18. CASE PutSec(TRUE) \/ PutStatus(TRUE) \/ PutHdr(TRUE) \/ PutBody(TRUE)
  BY <1>1, <1>18, WriteIs DEF Collected, Copying, DelFor, PutFor, DelPcs, PutPcs, Erasing
<1>19. CASE PutCommit(TRUE)
  <2>1. pc = "PutCommit" /\ local.put \in PutFrame
    BY <1>1, <1>19, FrameTypes DEF PutCommit
  <2>2. CASE local.put.ret = "MvReturn"
    <3>1. Collected(pc, local)
      BY <2>1, <2>2 DEF Collected, Copying, PutFor, PutPcs
    <3>2. pc' = "DelStatus"
      BY <1>1, <1>19, <2>2, PutCommitIs
    <3> QED BY <3>1, <3>2 DEF Erasing
  <2>3. CASE local.put.ret = "DefKv"
    BY <1>1, <1>2, <1>19, <2>3, PutCommitIs
  <2>4. CASE local.put.ret = "SetEnd" /\ ~local.job.old.found
    BY <1>1, <1>2, <1>19, <2>4, PutCommitIs
  <2>5. CASE local.put.ret = "SetEnd" /\ local.job.old.found
    <3>1. /\ pc' = "DelStatus"
          /\ local'.del = [ptr |-> local.job.old, complete |-> TRUE, ret |-> "SetEnd"]
      BY <1>1, <1>19, <2>5, PutCommitIs
    <3>2. local'.del.ret = "SetEnd"
      BY <3>1
    <3> QED BY <3>1, <3>2 DEF Collected, Copying, PutFor, DelFor, PutPcs, Erasing
  <2> QED BY <2>1, <2>2, <2>3, <2>4, <2>5 DEF PutFrame
<1>20. CASE FmtErase(TRUE) \/ FmtHdr(TRUE)
  BY <1>1, <1>2, <1>20, FmtIs
<1>21. CASE GcSector(TRUE)
  BY <1>21, GcSectorIs DEF Known, Erasing
<1> HIDE DEF Free
<1> QED BY <1>4, <1>5, <1>6, <1>7, <1>8, <1>9, <1>10, <1>11, <1>12, <1>13, <1>14, <1>15, <1>16,
           <1>17, <1>18, <1>19, <1>20, <1>21, NothingToMove DEF Clean

\* While garbage is collected no sector with a deleted node is taken.
LEMMA AllocClean ==
  ASSUME Known, gcRequest, NEW len, alloc_kv(flash, oldest, gcRequest, len).found
  PROVE  LET a == alloc_kv(flash, oldest, gcRequest, len)
         IN  a.sec \in Sector /\ flash[a.sec].dirty = "False"
<1> DEFINE using == {s \in Sector : HasRoom(flash[s], "Using", len, gcRequest)}
           empty == {s \in Sector : HasRoom(flash[s], "Empty", len, gcRequest)}
           from == IF using # {} THEN using
                   ELSE IF Empties(flash) # {} /\ MayTakeEmpty(flash, gcRequest) THEN empty ELSE {}
           a == alloc_kv(flash, oldest, gcRequest, len)
<1>1. from \subseteq Sector /\ \A s \in from : flash[s].dirty = "False"
  BY DEF HasRoom
<1>2. a.found = (from # {}) /\ a.sec = (IF from # {} THEN FirstMet(oldest, from) ELSE 0)
  BY DEF alloc_kv
<1>3. oldest \in Sector
  BY TInvParts DEF Known, RamOK
<1> HIDE DEF from
<1>4. FirstMet(oldest, from) \in from
  BY <1>1, <1>2, <1>3, FirstMetIn
<1> QED BY <1>1, <1>2, <1>4

LEMMA RoomRest ==
  ASSUME Known, Clean
  PROVE  /\ Erasing(pc', local') => local'.fmt.sec = local'.gc.sec
         /\ pc' = "GcSector" => Empties(flash') # {}
         /\ pc' = "DelDirty" => flash'[local'.del.ptr.sec].kvs # <<>>
         /\ PutFor(pc', local', "MvReturn") => local'.put.sec # local'.gc.sec
<1>1. TInv /\ WInv /\ local \in Local /\ FlashOK
  BY TInvParts DEF Known
<1>2. ASSUME Erasing(pc', local') PROVE local'.fmt.sec = local'.gc.sec
  <2>1. FmtCall(local, local.gc.sec, "GcFormatted")
    BY <1>2, Arrives DEF GcErase
  <2>2. local'.gc = local.gc
    BY <1>1, <2>1, FrameChange DEF FmtCall, Goto
  <2> QED BY <1>1, <2>1, <2>2, FmtCallIs
<1>3. ASSUME pc' = "GcSector" PROVE Empties(flash') # {}
  <2>1. SpareAhead
    BY Healthy DEF Known, SpareOK
  <2>2. CASE GcStart
    <3>1. flash' = flash /\ pc = "GcStart"
      BY <1>1, <2>2, GcStartIs
    <3>2. Marked(flash) = {}
      BY <3>1 DEF Known, RoomOK, MarksOK, Marked, Collected, Copying, PutFor, DelFor, PutPcs,
                  DelPcs, Erasing
    <3> QED BY <2>1, <3>1, <3>2 DEF SpareAhead
  <2>3. CASE GcFormatted
    <3>1. flash' = flash /\ pc = "GcFormatted"
      BY <1>1, <2>3, GcFormattedIs
    <3> QED BY <2>1, <3>1 DEF SpareAhead, Settled
  <2> QED BY <1>3, <2>2, <2>3, Arrives
<1>4. pc' = "DelDirty" => flash'[local'.del.ptr.sec].kvs # <<>>
  BY <1>1, DirtyNext DEF DirtyOf
<1>5. ASSUME PutFor(pc', local', "MvReturn") PROVE local'.put.sec # local'.gc.sec
  <2>1. Collected(pc', local') /\ pc' \in PutPcs /\ local'.put.ret = "MvReturn"
    BY <1>5 DEF Collected, Copying, PutFor
  <2>2. ~GcSector(TRUE)
    BY <1>1, <2>1, GcSectorIs DEF PutPcs
  <2>3. Collected(pc, local) /\ local'.gc.sec = local.gc.sec /\ flash[local.gc.sec].dirty = "Gc"
    BY <2>1, <2>2, Arrives, CollectedStays DEF Known, RoomOK, CollectOK
  <2>4. Copying(pc, local) => gcRequest /\ local.mv.ret = "GcNode" /\ ~local.mv.pre
    BY DEF Known, ControlOK, InGc
  <2>5. CASE pc = "GcNode"
    <3>1. pc' \in {"DelStatus", "FmtErase"}
      <4>1. CASE GcNode
        BY <1>1, <4>1, MovedLive, GcNodeIs
      <4>2. CASE GcErase
        BY <4>2 DEF GcErase, FmtCall, Goto
      <4> QED BY <2>5, <4>1, <4>2, CleanPc
    <3> QED BY <2>1, <3>1 DEF PutPcs
  <2>6. CASE pc = "MvAlloc"
    <3>1. MvAlloc /\ Copying(pc, local)
      BY <2>6, CleanPc DEF Copying
    <3> DEFINE a == alloc_kv(flash, oldest, gcRequest, local.mv.len)
    <3>2. a.found /\ flash[a.sec].dirty = "False"
      BY <2>4, <2>6, <3>1, MvAllocFinds, AllocClean
    <3>3. local'.put = [sec |-> a.sec, addr |-> empty_kv(flash[a.sec]),
                        key |-> local.mv.key, val |-> local.mv.val,
                        full |-> FALSE, ret |-> "MvReturn"]
      BY <1>1, <2>4, <3>1, <3>2, MvAllocIs
    <3> HIDE DEF a
    <3>4. local'.put.sec = a.sec
      BY <3>3
    <3> QED BY <2>3, <3>2, <3>4
  <2>7. CASE PutFor(pc, local, "MvReturn")
    <3>1. CASE PutSec(TRUE) \/ PutStatus(TRUE) \/ PutHdr(TRUE) \/ PutBody(TRUE)
      BY <1>1, <2>7, <3>1, WriteIs DEF Known, RoomOK
    <3>2. CASE PutCommit(TRUE)
      <4>1. pc' = "DelStatus"
        BY <1>1, <2>7, <3>2, PutCommitIs DEF PutFor
      <4> QED BY <2>1, <4>1 DEF PutPcs
    <3> QED BY <2>7, <3>1, <3>2, CleanPc DEF PutFor
  <2>8. CASE DelFor(pc, local, {"MvAlloc", "MvReturn"})
    <3>1. CASE DelStatus(TRUE)
      BY <1>1, <2>1, <3>1, DelStatusIs DEF PutPcs
    <3>2. CASE DelDirty(TRUE)
      <4>1. local.del.ret \in {"MvAlloc", "MvReturn"} /\ local.mv.ret = "GcNode"
        BY <2>4, <2>8 DEF DelFor, Copying
      <4>2. pc' \in {"MvAlloc", "GcNode"}
        BY <1>1, <3>2, <4>1, DelDirtyIs
      <4> QED BY <2>1, <4>2 DEF PutPcs
    <3> QED BY <2>8, <3>1, <3>2, CleanPc DEF DelFor
  <2> QED BY <2>3, <2>5, <2>6, <2>7, <2>8 DEF Collected, Copying
<1> QED BY <1>2, <1>3, <1>4, <1>5

\* The headers of the sector that is collected and of one with room.
Dry(sec) == sec.ok /\ sec.store \in {"Empty", "Using"} /\ sec.dirty = "False"
LEMMA CollectHeaders ==
  ASSUME Known, Clean, Collected(pc, local)
  PROVE  /\ local.gc.sec \in Sector /\ flash'[local.gc.sec].dirty = "Gc"
         /\ \A e \in Sector : Dry(flash[e]) => Dry(flash'[e])
<1>1. TInv /\ local \in Local /\ local.gc.sec \in Sector
  BY TInvParts, FrameTypes DEF Known, GcFrame
<1>2. flash[local.gc.sec].dirty = "Gc"
  BY DEF Known, RoomOK, CollectOK
<1>3. CASE DelDirty(TRUE)
  <2>1. Copying(pc, local) /\ DelFor(pc, local, {"MvAlloc", "MvReturn"})
    BY <1>3 DEF DelDirty, Collected, Copying, PutFor, PutPcs
  <2>2. local.del.ptr.sec = local.gc.sec
    BY <2>1 DEF Known, ControlOK
  <2>3. flash' = flash
    BY <1>2, <1>3, <2>2 DEF DelDirty, Unmarked, NoCall
  <2> QED BY <1>1, <1>2, <2>3
<1>4. CASE ~DelDirty(TRUE)
  <2>1. ~FmtErase(TRUE) /\ ~FmtHdr(TRUE) /\ ~GcSector(TRUE)
    BY DEF Collected, Copying, PutFor, DelFor, PutPcs, DelPcs, FmtErase, FmtHdr, GcSector
  <2> QED BY <1>1, <1>2, <1>4, <2>1, HeaderStep DEF HeaderChange, SameHeader, Dry
<1> QED BY <1>3, <1>4

LEMMA CollectOn ==
  ASSUME Known, Clean, Collected(pc, local),
         \A c \in Cells' : c.sec = local.gc.sec => c.idx >= NextCell',
         \A e \in Sector : Takes(e, local.gc.sec) =>
            \A j \in DOMAIN flash'[local.gc.sec].kvs :
               j >= NextNode' => EndOf(e)' <= flash'[local.gc.sec].kvs[j].addr
  PROVE  CollectOK'
<1>1. local'.gc.sec = local.gc.sec
  BY CollectedStays
<1>2. PICK e \in Sector : Takes(e, local.gc.sec)
  BY DEF Known, RoomOK, CollectOK
<1>3. Takes(e, local.gc.sec)'
  <2>1. Dry(flash[e]) /\ e # local.gc.sec
    BY <1>2 DEF Takes, Dry
  <2>2. Dry(flash'[e])
    BY <2>1, CollectHeaders
  <2> QED BY <1>1, <1>2, <2>1, <2>2 DEF Takes, Dry
<1>4. flash'[local.gc.sec].dirty = "Gc"
  BY CollectHeaders
<1> QED BY <1>1, <1>3, <1>4 DEF CollectOK

\* A collection of a sector begins.
LEMMA CollectBegin == ASSUME Known, Clean, GcSector(TRUE) PROVE CollectOK'
<1>1. TInv /\ FlashOK /\ LInv
  BY TInvParts DEF Known
<1> DEFINE next == Nth(local.gc.from, Least(GcAhead))
<1>0. /\ pc = "GcSector" /\ pc' = "GcNode" /\ next \in Sector /\ Collectable(next)
      /\ local'.gc.sec = next /\ local'.gc.idx = 0
      /\ Program(next, [flash[next] EXCEPT !.dirty = "Gc"], TRUE)
  BY <1>1, GcSectorIs
<1> HIDE DEF next
<1> PICK s \in Sector : s = next
  BY <1>0
<1>2. /\ pc = "GcSector" /\ pc' = "GcNode" /\ Collectable(s)
      /\ local'.gc.sec = s /\ local'.gc.idx = 0
      /\ Program(s, [flash[s] EXCEPT !.dirty = "Gc"], TRUE)
  BY <1>0
<1>3. /\ flash'[s] = [flash[s] EXCEPT !.dirty = "Gc"]
      /\ \A t \in Sector : t # s => flash'[t] = flash[t]
  BY <1>1, <1>2, ProgramFlash
<1>4. flash[s] \in SectorImage /\ SectorLogOK(flash[s])
  BY <1>1, <1>2, TInvParts DEF LInv, LogOK
<1>5. flash'[s].dirty = "Gc" /\ flash'[s].kvs = flash[s].kvs
  BY <1>3, <1>4 DEF SectorImage
<1>6. NextCell' = 1 /\ NextNode' = 1 /\ \A t : EndOf(t)' = empty_kv(flash'[t])
  BY <1>2 DEF NextCell, NextNode, EndOf, DelFor, DelPcs, PutPcs
<1>7. ASSUME NEW c \in Cells' PROVE c.idx >= 1
  <2>1. Cells' = Cells
    BY CellsSame DEF Known
  <2>2. c.sec \in Sector /\ c.idx \in DOMAIN flash[c.sec].kvs
    BY <2>1, CellIs
  <2>3. flash[c.sec] \in SectorImage
    BY <1>1, <2>2, TInvParts
  <2> QED BY <2>2, <2>3 DEF SectorImage
<1>8. PICK e \in Sector : e \in Empties(flash)
  BY <1>2 DEF Known, RoomOK, Empties
<1>9. flash[e].ok /\ flash[e].store = "Empty" /\ flash[e].dirty = "False" /\ flash[e].kvs = <<>>
  BY <1>1, <1>8 DEF Empties, Known, RoomOK, SectorsOK, LInv, EmptyOK
<1>10. e # s /\ flash'[e] = flash[e]
  BY <1>2, <1>3, <1>8, <1>9 DEF Collectable
<1>11. EndOf(e)' = SECTOR_HDR_DATA_SIZE
  BY <1>6, <1>9, <1>10 DEF empty_kv
<1>12. \A j \in DOMAIN flash[s].kvs : SECTOR_HDR_DATA_SIZE <= flash[s].kvs[j].addr
  <2> TAKE j \in DOMAIN flash[s].kvs
  <2>1. flash[s].kvs[j].addr >= SECTOR_HDR_DATA_SIZE
    BY <1>4, NodeInLog
  <2>2. flash[s].kvs[j].addr \in Nat /\ SECTOR_HDR_DATA_SIZE \in Nat
    BY <1>4, NodeType DEF KvNode, SECTOR_HDR_DATA_SIZE
  <2> QED BY <2>1, <2>2
<1>13. Takes(e, s)'
  <2>1. \A j \in DOMAIN flash'[s].kvs : EndOf(e)' <= flash'[s].kvs[j].addr
    BY <1>5, <1>11, <1>12
  <2> QED BY <1>9, <1>10, <2>1 DEF Takes
<1> QED BY <1>2, <1>5, <1>6, <1>7, <1>13 DEF CollectOK

\* The next node of the sector is moved.
LEMMA CollectNode == ASSUME Known, Clean, GcNode PROVE CollectOK'
<1> DEFINE j == Least(GcNodes)
           s == local.gc.sec
<1>1. TInv /\ Collected(pc, local) /\ local.gc \in GcFrame
  BY TInvParts, FrameTypes DEF Known, GcNode, Collected
<1>2. /\ pc = "GcNode" /\ pc' = "DelStatus" /\ flash' = flash /\ j \in GcNodes /\ j \in Nat
      /\ \A i \in GcNodes : j <= i
      /\ local'.del.ret = "MvAlloc" /\ local'.gc.idx = j
  BY <1>1, MovedLive, GcNodeIs
<1>3. j >= local.gc.idx + 1
  BY <1>2 DEF GcNodes, NodesFrom
<1> HIDE DEF j
<1>4. /\ NextCell = local.gc.idx + 1 /\ NextNode = local.gc.idx + 1
      /\ NextCell' = j /\ NextNode' = j /\ \A t : EndOf(t)' = EndOf(t)
  BY <1>2 DEF NextCell, NextNode, EndOf, DelFor, DelPcs, PutPcs
<1>5. ASSUME NEW c \in Cells', c.sec = s PROVE c.idx >= NextCell'
  <2>1. c \in Cells
    BY <1>2 DEF Cells
  <2>2. c.idx \in DOMAIN flash[s].kvs /\ ToMove(flash[s].kvs[c.idx])
    BY <1>5, <2>1, CellIs
  <2>3. c.idx >= local.gc.idx + 1
    BY <1>1, <1>4, <1>5, <2>1 DEF Known, RoomOK, CollectOK
  <2>4. c.idx \in GcNodes
    BY <2>2, <2>3 DEF GcNodes, NodesFrom
  <2>5. c.idx \in Nat
    <3>1. s \in Sector /\ flash[s] \in SectorImage
      BY <1>1, TInvParts DEF GcFrame
    <3> QED BY <2>2, <3>1 DEF SectorImage
  <2>6. j <= c.idx
    BY <1>2, <2>4
  <2> QED BY <1>2, <1>4, <2>5, <2>6
<1>6. ASSUME NEW e \in Sector, Takes(e, s), NEW i \in DOMAIN flash'[s].kvs, i >= NextNode'
      PROVE  EndOf(e)' <= flash'[s].kvs[i].addr
  <2>1. i \in DOMAIN flash[s].kvs /\ i \in Nat
    <3>1. s \in Sector /\ flash[s] \in SectorImage
      BY <1>1, TInvParts DEF GcFrame
    <3> QED BY <1>2, <1>6, <3>1 DEF SectorImage
  <2>2. i >= NextNode
    BY <1>1, <1>2, <1>3, <1>4, <1>6, <2>1 DEF GcFrame
  <2> QED BY <1>2, <1>4, <1>6, <2>1, <2>2 DEF Takes
<1> QED BY <1>1, <1>5, <1>6, CollectOn

\* A place for the moved node: the nodes that follow it begin behind its end.
LEMMA CollectAlloc == ASSUME Known, Clean, MvAlloc PROVE CollectOK'
<1> DEFINE s == local.gc.sec
           j == local.gc.idx
           a == alloc_kv(flash, oldest, gcRequest, local.mv.len)
<1>1. /\ TInv /\ pc = "MvAlloc" /\ Copying(pc, local) /\ Collected(pc, local)
      /\ Doomed(pc, local) = {local.mv.ptr} /\ MvLive(pc, local)
      /\ local.gc \in GcFrame /\ local.mv \in MvFrame
  BY TInvParts, FrameTypes DEF Known, MvAlloc, Copying, Collected, Doomed, Half, MvLive
<1>2. local.mv.ptr.sec = s /\ local.mv.ptr.idx = j /\ ~local.mv.pre /\ local.mv.ret = "GcNode"
  BY <1>1 DEF Known, ControlOK
<1>3. PICK c \in Cells : At(c, local.mv.ptr) /\ c.key = local.mv.key /\ c.val = local.mv.val
  BY <1>1 DEF Known, NodesOK
<1>4. /\ s \in Sector /\ j \in DOMAIN flash[s].kvs /\ flash[s].kvs[j].crc
      /\ flash[s].kvs[j].key = local.mv.key /\ flash[s].kvs[j].val = local.mv.val
  BY <1>2, <1>3, CellIs DEF At, ToMove
<1>5. flash[s] \in SectorImage /\ SectorLogOK(flash[s])
  BY <1>4, TInvParts DEF Known, LInv, LogOK
<1>6. /\ flash[s].kvs[j].len = local.mv.len
      /\ kv_len(local.mv.key, local.mv.val) = local.mv.len
  BY <1>1, <1>4 DEF Known, LInv, LensOK, HasKvLen
<1>7. /\ flash' = flash /\ pc' = "PutSec" /\ local'.gc = local.gc
      /\ local'.put = [sec |-> a.sec, addr |-> empty_kv(flash[a.sec]), key |-> local.mv.key,
                       val |-> local.mv.val, full |-> FALSE, ret |-> "MvReturn"]
  BY <1>1, <1>2, MvAllocFinds, MvAllocIs
<1> HIDE DEF a
<1>8. /\ local'.put.sec = a.sec /\ local'.put.addr = empty_kv(flash[a.sec])
      /\ local'.put.ret = "MvReturn" /\ local'.put.key = local.mv.key
      /\ local'.put.val = local.mv.val
  BY <1>7
<1>9. PutLen' = local.mv.len
  BY <1>6, <1>8 DEF PutLen
<1>10. /\ NextCell = j /\ NextCell' = j /\ NextNode = j /\ NextNode' = j + 1
       /\ \A t : EndOf(t) = empty_kv(flash[t])
       /\ \A t : EndOf(t)' = IF t = a.sec THEN empty_kv(flash[t]) + local.mv.len
                                          ELSE empty_kv(flash[t])
  BY <1>1, <1>7, <1>8, <1>9 DEF NextCell, NextNode, EndOf, DelFor, DelPcs, PutPcs
<1>11. ASSUME NEW d \in Cells', d.sec = s PROVE d.idx >= NextCell'
  BY <1>1, <1>7, <1>10, <1>11 DEF Cells, Known, RoomOK, CollectOK
<1>12. ASSUME NEW e \in Sector, Takes(e, s), NEW i \in DOMAIN flash'[s].kvs, i >= NextNode'
       PROVE  EndOf(e)' <= flash'[s].kvs[i].addr
  <2>1. i \in DOMAIN flash[s].kvs /\ i \in Nat /\ j \in Nat /\ local.mv.len \in Nat
    BY <1>1, <1>5, <1>7, <1>12 DEF SectorImage, GcFrame, MvFrame
  <2>2. i > j /\ j >= NextNode
    BY <1>10, <1>12, <2>1
  <2>3. empty_kv(flash[e]) <= flash[s].kvs[j].addr
    BY <1>4, <1>10, <1>12, <2>2 DEF Takes
  <2>4. flash[s].kvs[i].addr >= flash[s].kvs[j].addr + flash[s].kvs[j].len
    BY <1>4, <1>5, <2>1, <2>2, NodesApart
  <2>5. /\ flash[s].kvs[i].addr \in Nat /\ flash[s].kvs[j].addr \in Nat
        /\ empty_kv(flash[e]) \in Nat
    BY <1>1, <1>4, <1>5, <2>1, NodeType, TInvParts, EmptyKvType DEF KvNode
  <2>6. empty_kv(flash[e]) + local.mv.len <= flash[s].kvs[i].addr
    BY <1>6, <2>1, <2>3, <2>4, <2>5
  <2>7. EndOf(e)' <= empty_kv(flash[e]) + local.mv.len
    BY <1>10, <2>1, <2>5
  <2>8. EndOf(e)' \in Nat
    BY <1>10, <2>1, <2>5
  <2> QED BY <1>7, <2>1, <2>5, <2>6, <2>7, <2>8
<1> QED BY <1>1, <1>11, <1>12, CollectOn

\* A write goes to one sector.
LEMMA WriteElsewhere ==
  ASSUME Known,
         PutSec(TRUE) \/ PutStatus(TRUE) \/ PutHdr(TRUE) \/ PutBody(TRUE) \/ PutCommit(TRUE)
  PROVE  \A t \in Sector : t # local.put.sec => flash'[t] = flash[t]
<1>1. TInv /\ LInv /\ FlashOK /\ local.put.sec \in Sector
  BY TInvParts, FrameTypes DEF Known, PutFrame
<1>2. (\E image : Program(local.put.sec, image, TRUE)) \/ NoCall
  <2>1. CASE PutSec(TRUE)
    BY <1>1, <2>1, PutSecIs
  <2>2. CASE PutStatus(TRUE)
    BY <2>2 DEF PutStatus
  <2>3. CASE PutHdr(TRUE) \/ PutBody(TRUE) \/ PutCommit(TRUE)
    BY <2>3 DEF PutHdr, PutBody, PutCommit, PutNode
  <2> QED BY <2>1, <2>2, <2>3
<1>3. CASE NoCall
  BY <1>3 DEF NoCall
<1>4. CASE \E image : Program(local.put.sec, image, TRUE)
  BY <1>1, <1>4, ProgramFlash
<1> QED BY <1>2, <1>3, <1>4

\* The moved node is written, to another sector.
LEMMA CollectWrite ==
  ASSUME Known, Clean, Collected(pc, local),
         PutSec(TRUE) \/ PutStatus(TRUE) \/ PutHdr(TRUE) \/ PutBody(TRUE)
  PROVE  CollectOK'
<1> DEFINE s == local.gc.sec
<1>1. TInv /\ s \in Sector
  BY TInvParts, FrameTypes DEF Known, GcFrame
<1>2. /\ pc \in PutPcs /\ pc' \in PutPcs /\ local'.gc = local.gc
      /\ local'.put.sec = local.put.sec /\ local'.put.addr = local.put.addr
      /\ local'.put.key = local.put.key /\ local'.put.val = local.put.val
  BY <1>1, WriteIs DEF PutPcs
<1>3. local.put.sec # s
  BY <1>2 DEF Known, RoomOK, Collected, Copying, PutFor, DelFor, PutPcs, DelPcs
<1>4. \A t \in Sector : t # local.put.sec => flash'[t] = flash[t]
  BY WriteElsewhere
<1>5. Cells' = Cells
  BY CellsSame DEF Known
<1>6. /\ NextCell = local.gc.idx /\ NextCell' = local.gc.idx
      /\ NextNode = local.gc.idx + 1 /\ NextNode' = local.gc.idx + 1
  BY <1>2 DEF NextCell, NextNode, DelFor, DelPcs, PutPcs
<1>7. \A t \in Sector : EndOf(t)' = EndOf(t)
  BY <1>2, <1>4 DEF EndOf, PutLen
<1>8. ASSUME NEW d \in Cells', d.sec = s PROVE d.idx >= NextCell'
  BY <1>5, <1>6, <1>8 DEF Known, RoomOK, CollectOK
<1>9. flash'[s] = flash[s]
  BY <1>1, <1>3, <1>4
<1>10. ASSUME NEW e \in Sector, Takes(e, s), NEW i \in DOMAIN flash'[s].kvs, i >= NextNode'
       PROVE  EndOf(e)' <= flash'[s].kvs[i].addr
  BY <1>6, <1>7, <1>9, <1>10 DEF Takes
<1> QED BY <1>8, <1>10, CollectOn

\* The moved node is there: the sector is filled as far as was kept free for it.
LEMMA CollectCommit ==
  ASSUME Known, Clean, Collected(pc, local), PutCommit(TRUE)
  PROVE  CollectOK'
<1> DEFINE s == local.gc.sec
           sec == flash[local.put.sec]
           last == LastNode(sec)
<1>1. TInv /\ LInv /\ FlashOK /\ s \in Sector /\ pc = "PutCommit" /\ local.put.sec \in Sector
  BY TInvParts, FrameTypes DEF Known, GcFrame, PutFrame, PutCommit
<1>2. local.put.ret = "MvReturn" /\ local.put.sec # s
  BY <1>1 DEF Known, RoomOK, Collected, Copying, PutFor, DelFor, PutPcs, DelPcs
<1>3. /\ pc' = "DelStatus" /\ local'.gc = local.gc
      /\ local'.del = [ptr |-> local.mv.ptr, complete |-> TRUE, ret |-> "MvReturn"]
  BY <1>1, <1>2, PutCommitIs
<1>4. local'.del.ret = "MvReturn"
  BY <1>3
<1>5. /\ NextCell = local.gc.idx /\ NextCell' = local.gc.idx
      /\ NextNode = local.gc.idx + 1 /\ NextNode' = local.gc.idx + 1
      /\ \A t : EndOf(t)' = empty_kv(flash'[t])
      /\ \A t : EndOf(t) = IF t = local.put.sec THEN local.put.addr + PutLen ELSE empty_kv(flash[t])
  BY <1>1, <1>3, <1>4 DEF NextCell, NextNode, EndOf, DelFor, DelPcs, PutPcs
<1>6. \A t \in Sector : t # local.put.sec => flash'[t] = flash[t]
  BY WriteElsewhere
<1>7. ASSUME NEW d \in Cells', d.sec = s PROVE d.idx >= NextCell'
  <2>1. d \in Cells
    <3>1. PICK x : Cells' = Cells \cup {x} /\ x.sec = local.put.sec
      BY <1>1, CellsCommit DEF Known
    <3> QED BY <1>2, <1>7, <3>1
  <2> QED BY <1>5, <1>7, <2>1 DEF Known, RoomOK, CollectOK
<1>8. flash'[s] = flash[s]
  BY <1>1, <1>2, <1>6
<1>9. /\ sec \in SectorImage /\ sec.kvs # <<>> /\ last.addr = local.put.addr
      /\ Len(sec.kvs) \in DOMAIN sec.kvs /\ last = sec.kvs[Len(sec.kvs)]
  <2>1. sec \in SectorImage /\ sec.kvs # <<>> /\ Begun
    BY <1>1, PutNodeFacts
  <2> QED BY <2>1, LastNodeType DEF Begun
<1>10. last.len = PutLen
  <2>1. last.crc
    BY <1>1, <1>9 DEF Known, QuietOK
  <2>2. last.key = local.put.key /\ last.val = local.put.val
    BY <1>1 DEF Known, NodesOK
  <2>3. HasKvLen(last)
    BY <1>1, <1>9, <2>1 DEF LInv, LensOK
  <2> QED BY <2>2, <2>3 DEF HasKvLen, PutLen
<1>11. empty_kv(sec) = local.put.addr + PutLen
  BY <1>9, <1>10 DEF empty_kv
<1>12. empty_kv(flash'[local.put.sec]) = empty_kv(sec)
  <2> DEFINE image == WithNode(local.put.sec, Len(sec.kvs), [last EXCEPT !.status = "Write"])
  <2>1. Program(local.put.sec, image, TRUE)
    BY <1>1 DEF PutCommit, PutNode
  <2>2. flash'[local.put.sec] = image /\ image \in SectorImage
    <3>1. TInv'
      BY <1>1, PutCommitOK
    <3> HIDE DEF image
    <3>2. flash'[local.put.sec] = image
      BY <1>1, <2>1, ProgramFlash
    <3>3. flash'[local.put.sec] \in SectorImage
      BY <1>1, <3>1 DEF TInv, TypeOK
    <3> QED BY <3>2, <3>3
  <2>3. SameShape(sec, image)
    <3>1. Len(sec.kvs) \in Nat /\ "Write" \in KvStatus
      BY <1>9 DEF SectorImage, KvStatus
    <3>2. FlashGood
      BY <1>1, LInvFlash
    <3>3. image = WithNode(local.put.sec, Len(sec.kvs),
                           [flash[local.put.sec].kvs[Len(sec.kvs)] EXCEPT !.status = "Write"])
      BY <1>9
    <3> HIDE DEF image
    <3>4. PICK j \in Nat : j = Len(sec.kvs)
      BY <3>1
    <3>5. image = WithNode(local.put.sec, j, [flash[local.put.sec].kvs[j] EXCEPT !.status = "Write"])
      BY <3>3, <3>4
    <3> QED BY <1>1, <3>1, <3>2, <3>5, StatusGood
  <2> HIDE DEF image
  <2> QED BY <1>9, <2>2, <2>3, ShapeLast
<1>13. ASSUME NEW e \in Sector, Takes(e, s), NEW i \in DOMAIN flash'[s].kvs, i >= NextNode'
       PROVE  EndOf(e)' <= flash'[s].kvs[i].addr
  <2>1. EndOf(e)' = EndOf(e)
    BY <1>5, <1>6, <1>11, <1>12
  <2> QED BY <1>5, <1>8, <1>13, <2>1 DEF Takes
<1> QED BY <1>7, <1>13, CollectOn

\* The node that is moved is marked, and deleted when it is written.
LEMMA CollectStatus ==
  ASSUME Known, Clean, Collected(pc, local), DelStatus(TRUE)
  PROVE  CollectOK'
<1> DEFINE s == local.gc.sec
           del == local.del
<1>1. /\ TInv /\ TInv' /\ LInv /\ WInv /\ FlashOK /\ s \in Sector /\ pc = "DelStatus"
      /\ local.gc.idx \in Nat /\ del.complete \in BOOLEAN /\ del.ptr.sec \in Sector
      /\ del.ptr.idx \in Nat
  <2>1. TInv' /\ pc = "DelStatus"
    BY DelStatusOK DEF Known, DelStatus
  <2> QED BY <2>1, TInvParts, FrameTypes DEF Known, GcFrame, DelFrame, Ptr
<1>2. del.ret \in {"MvAlloc", "MvReturn"} /\ Copying(pc, local)
  BY <1>1 DEF Collected, Copying, PutFor, DelFor, PutPcs, DelPcs
<1>3. /\ del.ptr = local.mv.ptr /\ local.mv.ptr.sec = s /\ local.mv.ptr.idx = local.gc.idx
      /\ del.complete <=> del.ret = "MvReturn"
  <2>1. DelFor(pc, local, {"MvAlloc", "MvReturn"}) /\ pc \in DelPcs
    BY <1>1, <1>2 DEF DelFor, DelPcs
  <2> QED BY <1>2, <2>1 DEF Known, ControlOK
<1>4. pc' = "DelDirty" /\ local'.del = del /\ local'.gc = local.gc
  BY <1>1, DelStatusIs
<1>5. PICK c \in Cells : At(c, del.ptr)
  <2>1. del.ptr \in Doomed(pc, local)
    BY <1>1 DEF Doomed
  <2> QED BY <2>1 DEF Known, NodesOK
<1>6. c.sec = s /\ c.idx = local.gc.idx
  BY <1>3, <1>5 DEF At
<1>7. /\ NextCell = local.gc.idx
      /\ NextCell' = IF del.ret = "MvReturn" THEN local.gc.idx + 1 ELSE local.gc.idx
      /\ NextNode' = NextNode
      /\ \A t : EndOf(t) = empty_kv(flash[t]) /\ EndOf(t)' = empty_kv(flash'[t])
  BY <1>1, <1>4 DEF NextCell, NextNode, EndOf, DelFor, DelPcs, PutPcs
<1>8. ASSUME NEW x \in Cells', x.sec = s PROVE x.idx >= NextCell'
  <2>1. \A y \in Cells : y.sec = s => y.idx >= local.gc.idx /\ y.idx \in Nat
    <3> TAKE y \in Cells
    <3>1. y.sec = s => y.idx >= local.gc.idx
      BY <1>7 DEF Known, RoomOK, CollectOK
    <3>2. y.sec = s => y.idx \in Nat
      <4>1. flash[s] \in SectorImage
        BY <1>1, TInvParts
      <4> QED BY <4>1, CellIs DEF SectorImage
    <3> QED BY <3>1, <3>2
  <2>2. CASE del.ret = "MvReturn"
    <3>1. Cells' = Cells \ {c}
      BY <1>1, <1>3, <1>5, <2>2, CellsDelStatus
    <3>2. x \in Cells /\ x # c
      BY <3>1
    <3>3. x.idx # local.gc.idx
      BY <1>6, <1>8, <3>2, CellAt
    <3>4. x.idx >= local.gc.idx /\ x.idx \in Nat
      BY <1>8, <2>1, <3>2
    <3> QED BY <1>1, <1>7, <2>2, <3>3, <3>4
  <2>3. CASE del.ret # "MvReturn"
    <3>1. PICK d : /\ Cells' = (Cells \ {c}) \cup {d} /\ d.sec = c.sec /\ d.idx = c.idx
      BY <1>1, <1>3, <1>5, <2>3, CellsDelStatus
    <3>2. x.idx >= local.gc.idx
      BY <1>1, <1>6, <1>8, <2>1, <3>1
    <3> QED BY <1>7, <2>3, <3>2
  <2> QED BY <2>2, <2>3
<1>9. \A t \in Sector : SameShape(flash[t], flash'[t]) /\ flash'[t] \in SectorImage
  <2> DEFINE status == IF del.complete THEN "Deleted" ELSE "PreDelete"
             image == WithNode(del.ptr.sec, del.ptr.idx,
                               [flash[del.ptr.sec].kvs[del.ptr.idx] EXCEPT !.status = status])
  <2>1. Program(del.ptr.sec, image, TRUE) /\ status \in KvStatus
    BY DEF DelStatus, KvStatus
  <2>2. FlashGood /\ FlashOK'
    BY <1>1, LInvFlash DEF TInv, TypeOK, NamesOK, FlashOK, MediumOK, Flash
  <2> HIDE DEF status
  <2>3. SameShape(flash[del.ptr.sec], image)
    <3>1. PICK t \in Sector, j \in Nat : t = del.ptr.sec /\ j = del.ptr.idx
      BY <1>1
    <3> DEFINE im == WithNode(t, j, [flash[t].kvs[j] EXCEPT !.status = status])
    <3>2. SameShape(flash[t], im)
      BY <1>1, <2>1, <2>2, StatusGood
    <3> QED BY <3>1, <3>2
  <2> HIDE DEF image
  <2>4. PICK t \in Sector : t = del.ptr.sec
    BY <1>1
  <2> QED BY <1>1, <2>1, <2>2, <2>3, <2>4, ShapeProgram
<1>10. ASSUME NEW e \in Sector, Takes(e, s), NEW i \in DOMAIN flash'[s].kvs, i >= NextNode'
       PROVE  EndOf(e)' <= flash'[s].kvs[i].addr
  <2>1. i \in DOMAIN flash[s].kvs /\ flash'[s].kvs[i].addr = flash[s].kvs[i].addr
    BY <1>1, <1>9, <1>10 DEF SameShape
  <2>2. empty_kv(flash'[e]) = empty_kv(flash[e])
    BY <1>1, <1>9, TInvParts, ShapeLast
  <2> QED BY <1>7, <1>10, <2>1, <2>2 DEF Takes
<1> QED BY <1>8, <1>10, CollectOn

LEMMA CollectDirty ==
  ASSUME Known, Clean, Collected(pc, local), DelDirty(TRUE)
  PROVE  CollectOK'
<1> DEFINE s == local.gc.sec
           del == local.del
<1>1. TInv /\ pc = "DelDirty" /\ s \in Sector
  BY TInvParts, FrameTypes DEF Known, GcFrame, DelDirty
<1>2. del.ret \in {"MvAlloc", "MvReturn"} /\ Copying(pc, local)
  BY <1>1 DEF Collected, Copying, PutFor, DelFor, PutPcs, DelPcs
<1>3. del.ptr = local.mv.ptr /\ local.mv.ptr.sec = s /\ local.mv.ret = "GcNode"
  <2>1. DelFor(pc, local, {"MvAlloc", "MvReturn"})
    BY <1>1, <1>2 DEF DelFor, DelPcs
  <2> QED BY <1>2, <2>1 DEF Known, ControlOK
<1>4. flash' = flash
  <2>1. flash[s].dirty = "Gc"
    BY DEF Known, RoomOK, CollectOK
  <2> QED BY <1>3, <2>1 DEF DelDirty, Unmarked, NoCall
<1>5. /\ local'.gc = local.gc
      /\ del.ret = "MvAlloc" => pc' = "MvAlloc"
      /\ del.ret = "MvReturn" => pc' = "GcNode"
  BY <1>1, <1>2, <1>3, DelDirtyIs
<1>6. NextCell' = NextCell /\ NextNode' = NextNode /\ \A t : EndOf(t)' = EndOf(t)
  <2>1. CASE del.ret = "MvAlloc"
    BY <1>1, <1>4, <1>5, <2>1 DEF NextCell, NextNode, EndOf, DelFor, DelPcs, PutPcs
  <2>2. CASE del.ret = "MvReturn"
    BY <1>1, <1>4, <1>5, <2>2 DEF NextCell, NextNode, EndOf, DelFor, DelPcs, PutPcs
  <2> QED BY <1>2, <2>1, <2>2
<1>7. ASSUME NEW x \in Cells', x.sec = s PROVE x.idx >= NextCell'
  BY <1>4, <1>6, <1>7 DEF Cells, Known, RoomOK, CollectOK
<1>8. ASSUME NEW e \in Sector, Takes(e, s), NEW i \in DOMAIN flash'[s].kvs, i >= NextNode'
      PROVE  EndOf(e)' <= flash'[s].kvs[i].addr
  BY <1>4, <1>6, <1>8 DEF Takes
<1> QED BY <1>7, <1>8, CollectOn

LEMMA RoomNext == ASSUME Known, Clean PROVE RoomOK'
<1>1. SectorsOK' /\ MarksOK'
  BY SectorsNext, MarksNext
<1>2. ASSUME Collected(pc', local') PROVE CollectOK'
  <2>1. CASE GcSector(TRUE)
    BY <2>1, CollectBegin
  <2>2. CASE Collected(pc, local)
    <3>1. CASE pc = "GcNode"
      <4>1. CASE GcNode
        BY <4>1, CollectNode
      <4>2. CASE GcErase
        <5>1. pc' = "FmtErase"
          BY <4>2 DEF GcErase, FmtCall, Goto
        <5> QED BY <1>2, <5>1 DEF Collected, Copying, PutFor, DelFor, DelPcs, PutPcs
      <4> QED BY <3>1, <4>1, <4>2, CleanPc
    <3>2. CASE pc = "MvAlloc"
      BY <3>2, CleanPc, CollectAlloc
    <3>3. CASE pc \in PutPcs
      BY <2>2, <3>3, CleanPc, CollectWrite, CollectCommit
    <3>4. CASE pc \in DelPcs
      BY <2>2, <3>4, CleanPc, CollectStatus, CollectDirty
    <3> QED BY <2>2, <3>1, <3>2, <3>3, <3>4 DEF Collected, Copying, PutFor, DelFor
  <2> QED BY <1>2, <2>1, <2>2, Arrives
<1> QED BY <1>1, <1>2, RoomRest DEF RoomOK

----------------------------------------------------------------------------
(* The invariant *)

AllInv == TInv /\ LInv /\ WInv /\ SpareOK /\ HeadersOK /\ QuietOK /\ MapInv

LEMMA KnownNow == ASSUME AllInv, Quiet, PlainKeys PROVE Known
BY DEF AllInv, MapInv, Known

\* A step that changes nothing keeps it.
LEMMA CellsStutter == ASSUME UNCHANGED vars PROVE Cells' = Cells
BY DEF vars, Cells

LEMMA MapStutter ==
  ASSUME ControlOK, NodesOK, FormatsOK, RoomOK, UNCHANGED vars
  PROVE  ControlOK' /\ NodesOK' /\ FormatsOK' /\ RoomOK'
<1>1. /\ flash' = flash /\ pc' = pc /\ local' = local /\ result' = result
      /\ gcRequest' = gcRequest /\ Cells' = Cells
  BY CellsStutter DEF vars
<1>2. ControlOK'
  BY <1>1 DEF ControlOK, NewCtx, GcCtx, SetCtx, EndCtx, DefCtx, IsDefault
<1>3. NodesOK'
  BY <1>1 DEF NodesOK, OneEach, LiveKey
<1>4. FormatsOK'
  BY <1>1 DEF FormatsOK
<1>5. RoomOK'
  BY <1>1 DEF RoomOK, SectorsOK, MarksOK, CollectOK, Takes, EndOf, NextCell, NextNode, PutLen
<1> QED BY <1>2, <1>3, <1>4, <1>5

LEMMA MapInit == Init => MapInv
<1> SUFFICES ASSUME Init PROVE MapInv
  OBVIOUS
<1>1. pc = "Off" /\ \A s \in Sector : flash[s] = Erased
  BY DEF Init
<1>2. Cells = {}
  <2>1. Erased.kvs = <<>>
    BY DEF Erased
  <2>2. \A s \in Sector : CellsOf(s, flash[s]) = {}
    BY <1>1, <2>1 DEF CellsOf
  <2> QED BY <2>2 DEF Cells
<1>3. ControlOK
  BY <1>1 DEF ControlOK, InGc, Updating, Loading, Wiping, Copying, DelFor, PutFor, FmtFor, DelPcs, PutPcs
<1>4. NodesOK
  BY <1>1, <1>2 DEF NodesOK, OneEach, LiveKey, Doomed, Half, DelPcs, PutPcs, PutFor
<1>5. FormatsOK
  BY <1>1, <1>2 DEF FormatsOK, FmtFor, Wiping, HeaderWalk
<1>6. RoomOK
  BY <1>1 DEF RoomOK, SectorsOK, MarksOK, Erasing, Collected, Copying, PutFor, DelFor, DelPcs, PutPcs, Erased
<1> QED BY <1>3, <1>4, <1>5, <1>6 DEF MapInv

LEMMA MapNext == AllInv /\ [Next]_vars => MapInv'
<1> SUFFICES ASSUME AllInv, [Next]_vars, Quiet', PlainKeys
             PROVE  ControlOK' /\ NodesOK' /\ FormatsOK' /\ RoomOK'
  BY DEF MapInv, PlainKeys
<1>1. Quiet
  BY FaultsNext DEF AllInv
<1>2. Known
  BY <1>1, KnownNow
<1>3. CASE Clean
  BY <1>2, <1>3, ControlNext, NodesNext, FormatsNext, RoomNext
<1>4. CASE UNCHANGED vars
  BY <1>2, <1>4, MapStutter DEF Known
<1> QED BY <1>3, <1>4, CleanNext DEF AllInv

LEMMA AllInit == Init => AllInv
BY MapInit, TInit, LInit, WInit, SpareInit
   DEF AllInv, Init, HeadersOK, MayBeBad, Bad, QuietOK, InUse, Erased

LEMMA AllNext == AllInv /\ [Next]_vars => AllInv'
<1> SUFFICES ASSUME AllInv, [Next]_vars PROVE AllInv'
  OBVIOUS
<1>1. TInv' /\ LInv' /\ WInv' /\ SpareOK' /\ HeadersOK' /\ QuietOK'
  BY TNext, LNext, WNext, SpareNext, HeadersNext, QuietNext DEF AllInv
<1> QED BY <1>1, MapNext DEF AllInv

LEMMA AllAlways == Spec => []AllInv
BY AllInit, AllNext, PTL DEF Spec

\* Whatever fails, no node is lost before its copy is there, every write finds what the one
\* before left, an empty sector is left or ahead, and headers are missing only where open or a
\* format is about to write them.
THEOREM MediumKept == Spec => []MInv
<1>1. AllInv => MInv
  BY DEF AllInv, MInv, WInv
<1> QED BY <1>1, AllAlways, PTL

\* As long as nothing fails the nodes of a key, the sector that is collected and the one that
\* is formatted are as MapInv says.
THEOREM MapAlways == Spec => []MapInv
<1>1. AllInv => MapInv
  BY DEF AllInv
<1> QED BY <1>1, AllAlways, PTL

----------------------------------------------------------------------------
(* What can be read *)

\* The nodes the first of which is read.
Found(p, k, status) == /\ Node(p).key = k /\ Node(p).status = status /\ Node(p).crc
                       /\ p[1] \in InUse(flash)
LEMMA FirstIs ==
  ASSUME NEW k, NEW status, NEW p \in Nodes, Found(p, k, status),
         \A q \in Nodes : Found(q, k, status) => q = p
  PROVE  FirstWith(k, status) = Node(p).val
<1> DEFINE H == {q \in Nodes : /\ Node(q).key = k /\ Node(q).status = status /\ Node(q).crc
                               /\ q[1] \in InUse(flash)}
           first == CHOOSE q \in H : \A r \in H \ {q} : Before(q, r)
<1>1. H = {p}
  BY DEF Found
<1>2. FirstWith(k, status) = IF H = {} THEN None ELSE Node(first).val
  BY DEF FirstWith
<1>3. first = p
  <2> HIDE DEF H
  <2>1. \A q \in H : \A r \in H \ {q} : Before(q, r)
    BY <1>1
  <2>2. first \in H
    BY <1>1, <2>1
  <2> QED BY <1>1, <2>2
<1> HIDE DEF H, first
<1> QED BY <1>1, <1>2, <1>3

LEMMA FirstNone ==
  ASSUME NEW k, NEW status, \A q \in Nodes : ~Found(q, k, status)
  PROVE  FirstWith(k, status) = None
<1>1. {q \in Nodes : /\ Node(q).key = k /\ Node(q).status = status /\ Node(q).crc
                     /\ q[1] \in InUse(flash)} = {}
  BY DEF Found
<1> QED BY <1>1 DEF FirstWith

\* They are the cells of the key.
LEMMA NodeIs ==
  /\ \A p \in Nodes : p[1] \in Sector /\ p[2] \in DOMAIN flash[p[1]].kvs /\ p = <<p[1], p[2]>>
                      /\ Node(p) = flash[p[1]].kvs[p[2]]
  /\ \A s \in Sector : \A j \in DOMAIN flash[s].kvs : <<s, j>> \in Nodes
BY DEF Nodes, Node

LEMMA FoundCell ==
  ASSUME NEW p \in Nodes, NEW k, NEW status \in {"Write", "PreDelete"}, Found(p, k, status)
  PROVE  \E c \in Cells : /\ c.sec = p[1] /\ c.idx = p[2] /\ c.key = k
                          /\ c.live <=> status = "Write"
<1> DEFINE s == p[1]
           j == p[2]
           n == flash[s].kvs[j]
<1>1. s \in Sector /\ j \in DOMAIN flash[s].kvs /\ Node(p) = n
  BY NodeIs
<1>2. ToMove(n) /\ n.key = k /\ n.status = status
  BY <1>1 DEF Found, ToMove
<1>3. Cell(s, j, n) \in Cells
  BY <1>1, <1>2, NodeCell
<1>4. PICK c \in Cells : c = Cell(s, j, n)
  BY <1>3
<1>5. c.sec = s /\ c.idx = j /\ c.live = (n.status = "Write") /\ c.key = n.key
  BY <1>4, CellFields
<1> QED BY <1>2, <1>5 DEF s, j

\* The cell of a node that get returns.
LEMMA LiveCell ==
  ASSUME NEW p \in Nodes, NEW k, Readable(Node(p), k)
  PROVE  \E c \in Cells : c.sec = p[1] /\ c.idx = p[2] /\ c.key = k /\ c.live
<1> DEFINE s == p[1]
           j == p[2]
           n == flash[s].kvs[j]
<1>1. s \in Sector /\ j \in DOMAIN flash[s].kvs /\ Node(p) = n
  BY NodeIs
<1>2. ToMove(n) /\ n.key = k /\ n.status = "Write"
  BY <1>1 DEF Readable, ToMove
<1>3. Cell(s, j, n) \in Cells
  BY <1>1, <1>2, NodeCell
<1>4. PICK c \in Cells : c = Cell(s, j, n)
  BY <1>3
<1>5. c.sec = s /\ c.idx = j /\ c.live = (n.status = "Write") /\ c.key = n.key
  BY <1>4, CellFields
<1> QED BY <1>2, <1>5 DEF s, j

LEMMA CellFound ==
  ASSUME Known, NEW c \in Cells
  PROVE  LET p == <<c.sec, c.idx>>
         IN  /\ p \in Nodes /\ Node(p).val = c.val /\ c.val # None
             /\ Found(p, c.key, IF c.live THEN "Write" ELSE "PreDelete")
<1> DEFINE p == <<c.sec, c.idx>>
           n == flash[c.sec].kvs[c.idx]
<1>1. /\ c.sec \in Sector /\ c.idx \in DOMAIN flash[c.sec].kvs /\ ToMove(n)
      /\ c.live <=> n.status = "Write"
      /\ c.key = n.key /\ c.val = n.val
  BY CellIs
<1>2. p \in Nodes /\ Node(p) = n
  BY <1>1, NodeIs DEF Node
<1>3. c.val # None
  <2>1. Stored(n.key, n.val)
    BY <1>1, TInvParts DEF Known, FlashOK, NodesNamed, ToMove
  <2> QED BY <1>1, <2>1, NoneAssumption DEF Stored
<1>4. c.sec \in InUse(flash)
  BY CellInUse
<1> QED BY <1>1, <1>2, <1>3, <1>4 DEF Found, ToMove

LEMMA OneHalf ==
  ASSUME Known, NEW c \in Cells, NEW d \in Cells, ~c.live, ~d.live
  PROVE  c = d
<1>1. PICK p \in Half(pc, local) : At(c, p)
  BY DEF Known, NodesOK
<1>2. PICK q \in Half(pc, local) : At(d, q)
  BY DEF Known, NodesOK
<1>3. p = q
  BY <1>1, <1>2 DEF Half
<1> QED BY <1>1, <1>2, <1>3, CellAt DEF At

\* What the medium holds for a key is its live node, or else the half deleted one.
Holds == \A k : /\ \A c \in Cells : c.key = k /\ (c.live \/ ~LiveKey(k)) => Recoverable(k) = c.val
                /\ (\A c \in Cells : c.key # k) => Recoverable(k) = None
LEMMA RecoverNow == Known => Holds
<1> SUFFICES ASSUME Known, NEW k
             PROVE  /\ \A c \in Cells : c.key = k /\ (c.live \/ ~LiveKey(k)) => Recoverable(k) = c.val
                    /\ (\A c \in Cells : c.key # k) => Recoverable(k) = None
  BY DEF Holds
<1>1. ASSUME NEW c \in Cells, c.key = k, c.live \/ ~LiveKey(k)
      PROVE  Recoverable(k) = c.val
  <2> DEFINE p == <<c.sec, c.idx>>
  <2>1. /\ p \in Nodes /\ Node(p).val = c.val /\ c.val # None
        /\ Found(p, k, IF c.live THEN "Write" ELSE "PreDelete")
    BY <1>1, CellFound
  <2>2. CASE c.live
    <3>1. ASSUME NEW q \in Nodes, Found(q, k, "Write") PROVE q = p
      <4>1. PICK d \in Cells : d.sec = q[1] /\ d.idx = q[2] /\ d.key = k /\ d.live
        BY <3>1, FoundCell
      <4>2. d = c
        BY <1>1, <2>2, <4>1 DEF Known, NodesOK, OneEach
      <4> QED BY <4>1, <4>2, NodeIs
    <3>2. FirstWith(k, "Write") = c.val
      BY <2>1, <2>2, <3>1, FirstIs
    <3> QED BY <2>1, <3>2 DEF Recoverable
  <2>3. CASE ~c.live
    <3>1. ASSUME NEW q \in Nodes, Found(q, k, "PreDelete") PROVE q = p
      <4>1. PICK d \in Cells : d.sec = q[1] /\ d.idx = q[2] /\ d.key = k /\ ~d.live
        BY <3>1, FoundCell
      <4>2. d = c
        BY <1>1, <2>3, <4>1, OneHalf
      <4> QED BY <4>1, <4>2, NodeIs
    <3>2. FirstWith(k, "PreDelete") = c.val
      BY <2>1, <2>3, <3>1, FirstIs
    <3>3. \A q \in Nodes : ~Found(q, k, "Write")
      BY <1>1, <2>3, FoundCell DEF LiveKey
    <3>4. FirstWith(k, "Write") = None
      BY <3>3, FirstNone
    <3> QED BY <2>1, <3>2, <3>4 DEF Recoverable
  <2> QED BY <2>2, <2>3
<1>2. ASSUME \A c \in Cells : c.key # k PROVE Recoverable(k) = None
  <2>1. \A q \in Nodes : ~Found(q, k, "Write") /\ ~Found(q, k, "PreDelete")
    BY <1>2, FoundCell
  <2>2. FirstWith(k, "Write") = None /\ FirstWith(k, "PreDelete") = None
    BY <2>1, FirstNone
  <2> QED BY <2>2 DEF Recoverable
<1> QED BY <1>1, <1>2

\* While nothing fails no key ever has two live nodes.
THEOREM OneNode == Spec => [](Quiet /\ PlainKeys => OneLiveNode)
<1>1. AllInv => (Quiet /\ PlainKeys => OneLiveNode)
  <2> SUFFICES ASSUME AllInv, Quiet, PlainKeys, NEW k \in Keys
               PROVE  Cardinality({p \in Nodes : Readable(Node(p), k)}) <= 1
    BY DEF OneLiveNode
  <2> DEFINE R == {p \in Nodes : Readable(Node(p), k)}
  <2>1. ASSUME NEW p \in R, NEW q \in R PROVE p = q
    <3>1. PICK c \in Cells : c.sec = p[1] /\ c.idx = p[2] /\ c.key = k /\ c.live
      BY LiveCell
    <3>2. PICK d \in Cells : d.sec = q[1] /\ d.idx = q[2] /\ d.key = k /\ d.live
      BY LiveCell
    <3>3. c = d
      BY <3>1, <3>2, KnownNow DEF Known, NodesOK, OneEach
    <3> QED BY <3>1, <3>2, <3>3, NodeIs
  <2>2. R = {} \/ \E p : R = {p}
    BY <2>1
  <2> HIDE DEF R
  <2>3. Cardinality(R) = 0 \/ Cardinality(R) = 1
    BY <2>2, FS_EmptySet, FS_Singleton
  <2> QED BY <2>3 DEF R
<1> QED BY <1>1, AllAlways, PTL

\* Between the calls get returns what the medium holds.
THEOREM ReadsKept == Spec => [](Quiet /\ PlainKeys => ReadsAgree)
<1>1. AllInv => (Quiet /\ PlainKeys => ReadsAgree)
  <2> SUFFICES ASSUME AllInv, Quiet, PlainKeys, pc = "Idle", NEW k \in Keys
               PROVE  Get(k) = Recoverable(k)
    BY DEF ReadsAgree
  <2>1. Known /\ Holds
    BY KnownNow, RecoverNow
  <2> DEFINE f == find_kv(flash, oldest, k)
  <2>2. CASE f.found
    <3>1. PICK c \in Cells : At(c, f) /\ c.live /\ c.key = k
      BY <2>1, <2>2, FindCell
    <3>2. Recoverable(k) = c.val
      BY <2>1, <3>1 DEF Holds
    <3>3. c.val = flash[f.sec].kvs[f.idx].val
      BY <3>1, CellIs DEF At
    <3> QED BY <2>2, <3>2, <3>3 DEF Get
  <2>3. CASE ~f.found
    <3>1. \A c \in Cells : c.key # k
      <4>1. \A c \in Cells : c.key = k => KeyLen[k] < KV_NAME_MAX
        BY <2>1 DEF Known, NodesOK
      <4>2. AllLive
        BY <2>1, LiveNow, RestHalf DEF NodePhase, DelPcs, PutPcs
      <4> QED BY <2>1, <2>3, <4>1, <4>2, FindNone DEF AllLive, LiveKey
    <3>2. Recoverable(k) = None
      BY <2>1, <3>1 DEF Holds
    <3> QED BY <2>3, <3>2 DEF Get
  <2> QED BY <2>2, <2>3
<1> QED BY <1>1, AllAlways, PTL

----------------------------------------------------------------------------
(* The map *)

LEMMA HoldsNow == AllInv /\ Quiet /\ PlainKeys => Known /\ Holds
BY KnownNow, RecoverNow
LEMMA HoldsThen == AllInv' /\ Quiet' /\ PlainKeys' => Known' /\ Holds'
BY HoldsNow, PTL

\* What holds in the state a step leads to.
LEMMA AfterStep ==
  ASSUME AllInv, [Next]_vars, Quiet', PlainKeys
  PROVE  Known' /\ Holds'
<1>1. AllInv'
  BY AllNext
<1>2. PlainKeys'
  BY DEF PlainKeys
<1> QED BY <1>1, <1>2, HoldsThen

\* The request in service.
Req(job) == [op |-> job.op, key |-> job.key, val |-> job.val, done |-> job.done]
LEMMA ReqIs ==
  ASSUME NEW job
  PROVE  [f \in {"op", "key", "val", "done"} |-> job[f]] = Req(job)
BY DEF Req

\* Every value that is held is a value.
ValuesOK == \A k : Recoverable(k) \in Values \cup {None}
LEMMA ValuesNow == AllInv /\ Quiet /\ PlainKeys => ValuesOK
<1> SUFFICES ASSUME Known, Holds, NEW k PROVE Recoverable(k) \in Values \cup {None}
  BY HoldsNow DEF ValuesOK
<1>1. CASE \A c \in Cells : c.key # k
  BY <1>1 DEF Holds
<1>2. CASE \E c \in Cells : c.key = k
  <2>1. \E c \in Cells : c.key = k /\ (c.live \/ ~LiveKey(k))
    BY <1>2 DEF LiveKey
  <2>2. PICK c \in Cells : c.key = k /\ (c.live \/ ~LiveKey(k))
    BY <2>1
  <2>3. Recoverable(k) = c.val
    BY <2>2 DEF Holds
  <2>4. PICK n : n = flash[c.sec].kvs[c.idx]
    OBVIOUS
  <2>5. c.sec \in Sector /\ c.idx \in DOMAIN flash[c.sec].kvs /\ c.val = n.val
    BY <2>4, CellIs
  <2>6. n \in KvNode
    BY <2>4, <2>5, TInvParts DEF Known, FlashOK, Flash, SectorImage
  <2> QED BY <2>3, <2>5, <2>6 DEF KvNode
<1> QED BY <1>1, <1>2
LEMMA ValuesThen == AllInv' /\ Quiet' /\ PlainKeys' => ValuesOK'
BY ValuesNow, PTL

\* The nodes of a key that hold a value decide what is held.
CellsFor(k) == {c \in Cells : c.key = k}
LEMMA SameEntry ==
  ASSUME Holds, Holds', NEW k, CellsFor(k)' = CellsFor(k)
  PROVE  Recoverable(k)' = Recoverable(k)
<1>1. \A c : c \in Cells' /\ c.key = k <=> c \in Cells /\ c.key = k
  BY DEF CellsFor
<1>2. LiveKey(k)' <=> LiveKey(k)
  BY <1>1 DEF LiveKey
<1>3. CASE \A c \in Cells : c.key # k
  BY <1>1, <1>3 DEF Holds
<1>4. CASE \E c \in Cells : c.key = k
  <2>1. \E c \in Cells : c.key = k /\ (c.live \/ ~LiveKey(k))
    BY <1>4 DEF LiveKey
  <2>2. PICK c \in Cells : c.key = k /\ (c.live \/ ~LiveKey(k))
    BY <2>1
  <2>3. c \in Cells' /\ (c.live \/ ~LiveKey(k)')
    BY <1>1, <1>2, <2>2
  <2> QED BY <2>2, <2>3 DEF Holds
<1> QED BY <1>3, <1>4

LEMMA SameEntries ==
  ASSUME Holds, Holds', Cells' = Cells, NEW k
  PROVE  Recoverable(k)' = Recoverable(k)
BY SameEntry DEF CellsFor

\* A deletion, of a node that was replaced or moved or of the entry.
LEMMA EntriesDel ==
  ASSUME Known, Holds, Holds', DelStatus(TRUE), NEW k
  PROVE  /\ k # local.job.key \/ local.del.ret # "Idle" => Recoverable(k)' = Recoverable(k)
         /\ k = local.job.key /\ local.del.ret = "Idle" => Recoverable(k) # None /\ Recoverable(k)' = None
<1>1. pc = "DelStatus" /\ local.del.ret \in {"PutSec", "SetEnd", "Idle", "MvAlloc", "MvReturn"}
  BY DEF Known, TInv, TypeOK, Local, DelFrame, DelStatus
<1>2. PICK c \in Cells : /\ At(c, local.del.ptr)
                         /\ IF Copying(pc, local) THEN c.key = local.mv.key /\ c.val = local.mv.val
                                                  ELSE c.key = local.job.key
  BY <1>1 DEF Known, NodesOK, Doomed
<1>3. local.del.complete <=> local.del.ret \in {"SetEnd", "Idle", "MvReturn"}
  BY <1>1 DEF Known, ControlOK, DelPcs
<1>4. CASE ~local.del.complete
  <2>1. AllLive
    BY <1>1, <1>3, <1>4, LiveNow DEF Half, PutFor, PutPcs
  <2>2. PICK d : /\ Cells' = (Cells \ {c}) \cup {d} /\ d.sec = c.sec /\ d.idx = c.idx
                 /\ ~d.live /\ d.key = c.key /\ d.val = c.val
    BY <1>2, <1>4, CellsDelStatus DEF Known
  <2>3. CASE k # c.key
    <3>1. CellsFor(k)' = CellsFor(k)
      BY <2>2, <2>3 DEF CellsFor
    <3> QED BY <1>3, <1>4, <3>1, SameEntry
  <2>4. CASE k = c.key
    <3>1. Recoverable(k) = c.val
      BY <2>1, <2>4 DEF Holds, AllLive
    <3>2. ~LiveKey(k)'
      BY <2>1, <2>2, <2>4 DEF LiveKey, Known, NodesOK, OneEach, AllLive
    <3>3. Recoverable(k)' = d.val
      BY <2>2, <2>4, <3>2 DEF Holds
    <3> QED BY <1>3, <1>4, <2>2, <3>1, <3>3
  <2> QED BY <2>3, <2>4
<1>5. CASE local.del.ret = "Idle"
  <2>1. AllLive
    BY <1>1, <1>5, LiveNow DEF Half, PutFor, PutPcs
  <2>2. Cells' = Cells \ {c}
    BY <1>2, <1>3, <1>5, CellsDelStatus DEF Known
  <2>3. c.key = local.job.key
    BY <1>1, <1>2, <1>5 DEF Copying, PutFor, DelFor, PutPcs
  <2>4. CASE k # c.key
    <3>1. CellsFor(k)' = CellsFor(k)
      BY <2>2, <2>4 DEF CellsFor
    <3> QED BY <2>3, <2>4, <3>1, SameEntry
  <2>5. CASE k = c.key
    <3>1. Recoverable(k) = c.val /\ c.val # None
      BY <2>1, <2>5, CellFound DEF Holds, AllLive
    <3>2. \A d \in Cells' : d.key # k
      BY <2>1, <2>2, <2>5 DEF Known, NodesOK, OneEach, AllLive
    <3>3. Recoverable(k)' = None
      BY <3>2 DEF Holds
    <3> QED BY <1>5, <2>3, <2>5, <3>1, <3>3
  <2> QED BY <2>4, <2>5
<1>6. CASE local.del.ret \in {"SetEnd", "MvReturn"}
  <2>1. Cells' = Cells \ {c}
    BY <1>2, <1>3, <1>6, CellsDelStatus DEF Known
  <2>2. ~c.live
    BY <1>1, <1>2, <1>6 DEF Known, NodesOK, Half
  <2>3. CASE k # c.key
    <3>1. CellsFor(k)' = CellsFor(k)
      BY <2>1, <2>3 DEF CellsFor
    <3> QED BY <1>6, <3>1, SameEntry
  <2>4. CASE k = c.key
    <3>1. LiveKey(k)
      BY <1>1, <1>2, <1>6, <2>4 DEF Known, NodesOK, Copying, PutFor, DelFor, PutPcs, DelPcs
    <3>2. PICK d \in Cells : d.live /\ d.key = k
      BY <3>1 DEF LiveKey
    <3>3. d \in Cells'
      BY <2>1, <2>2, <3>2
    <3> QED BY <1>6, <3>2, <3>3 DEF Holds
  <2> QED BY <2>3, <2>4
<1> QED BY <1>1, <1>3, <1>4, <1>5, <1>6

\* The node that is written is there: it takes effect, unless it is the copy of a collection.
LEMMA EntriesCommit ==
  ASSUME Known, Holds, Holds', PutCommit(TRUE), NEW k
  PROVE  /\ k # local.put.key => Recoverable(k)' = Recoverable(k)
         /\ k = local.put.key =>
               /\ Recoverable(k)' = local.put.val
               /\ local.put.ret = "MvReturn" => Recoverable(k) = local.put.val
               /\ local.put.ret = "DefKv" => Recoverable(k) = None
<1>1. pc = "PutCommit"
  BY DEF PutCommit
<1>2. PICK last : last = LastNode(flash[local.put.sec])
  OBVIOUS
<1>3. PICK d : /\ Cells' = Cells \cup {d} /\ d.live /\ d.key = last.key /\ d.val = last.val
  BY <1>2, CellsCommit DEF Known
<1>4. last.key = local.put.key /\ last.val = local.put.val
  BY <1>1, <1>2 DEF Known, NodesOK
<1>5. CASE k # local.put.key
  <2>1. CellsFor(k)' = CellsFor(k)
    BY <1>3, <1>4, <1>5 DEF CellsFor
  <2> QED BY <1>5, <2>1, SameEntry
<1>6. CASE k = local.put.key
  <2>1. d \in Cells' /\ d.key = k /\ d.live /\ d.val = local.put.val
    BY <1>3, <1>4, <1>6
  <2>2. Recoverable(k)' = local.put.val
    BY <2>1 DEF Holds
  <2>3. ~LiveKey(k)
    BY <1>1, <1>6 DEF Known, NodesOK, PutPcs
  <2>4. ASSUME local.put.ret = "MvReturn" PROVE Recoverable(k) = local.put.val
    <3>1. local.put.key = local.mv.key /\ local.put.val = local.mv.val
      BY <1>1, <2>4 DEF Known, ControlOK, PutFor, PutPcs
    <3>2. PICK c \in Cells : c.key = local.mv.key /\ c.val = local.mv.val
      BY <1>1, <2>4 DEF Known, NodesOK, Doomed, Half, Copying, PutFor, PutPcs
    <3> QED BY <1>6, <2>3, <3>1, <3>2 DEF Holds
  <2>5. ASSUME local.put.ret = "DefKv" PROVE Recoverable(k) = None
    <3>1. AllLive
      BY <1>1, <2>5, LiveNow DEF Half, PutFor, PutPcs
    <3> QED BY <2>3, <3>1 DEF Holds, AllLive, LiveKey
  <2> QED BY <1>6, <2>2, <2>4, <2>5
<1> QED BY <1>5, <1>6

\* A sector is erased: by set_default alone one with entries.
LEMMA EntriesErase ==
  ASSUME Known, Holds, Holds', FmtErase(TRUE), NEW k
  PROVE  /\ Recoverable(k)' \in {Recoverable(k), None}
         /\ local.fmt.ret # "DefFormat" \/ local.def.ret = "LoadGc" =>
               Recoverable(k)' = Recoverable(k)
<1>1. pc = "FmtErase" /\ local.fmt.ret \in {"GcFormatted", "LoadHdr", "DefFormat"}
  BY DEF FmtErase, Known, TInv, TypeOK, Local, FmtFrame
<1>2. Cells' = {c \in Cells : c.sec # local.fmt.sec}
  BY CellsErase DEF Known
<1>3. AllLive
  BY <1>1, LiveNow, RestHalf DEF NodePhase, DelPcs, PutPcs
<1>4. Recoverable(k)' \in {Recoverable(k), None}
  <2>1. CASE \A c \in Cells' : c.key # k
    BY <2>1 DEF Holds
  <2>2. CASE \E c \in Cells' : c.key = k
    <3>1. PICK c \in Cells' : c.key = k
      BY <2>2
    <3>2. c \in Cells /\ c.live
      BY <1>2, <1>3, <3>1 DEF AllLive
    <3> QED BY <3>1, <3>2 DEF Holds
  <2> QED BY <2>1, <2>2
<1>5. ASSUME local.fmt.ret # "DefFormat" \/ local.def.ret = "LoadGc"
      PROVE  Recoverable(k)' = Recoverable(k)
  <2>1. \A c \in Cells : c.sec # local.fmt.sec
    BY <1>1, <1>5 DEF Known, FormatsOK, FmtFor, Wiping
  <2>2. Cells' = Cells
    BY <1>2, <2>1
  <2> QED BY <2>2, SameEntries
<1> QED BY <1>4, <1>5

\* Nothing else changes what is held.
Writes == \/ DelStatus(TRUE) /\ local.del.ret = "Idle"
          \/ PutCommit(TRUE) /\ local.put.ret \in {"SetEnd", "DefKv"}
          \/ FmtErase(TRUE) /\ local.fmt.ret = "DefFormat"
LEMMA EntriesSame ==
  ASSUME Known, Holds, Holds', Clean, ~Writes, NEW k
  PROVE  Recoverable(k)' = Recoverable(k)
<1>1. CASE DelStatus(TRUE)
  BY <1>1, EntriesDel DEF Writes
<1>2. CASE PutCommit(TRUE)
  <2>1. local.put.ret = "MvReturn"
    BY <1>2 DEF Writes, Known, TInv, TypeOK, Local, PutFrame
  <2> QED BY <1>2, <2>1, EntriesCommit
<1>3. CASE FmtErase(TRUE)
  BY <1>3, EntriesErase DEF Writes
<1>4. CASE \/ DelDirty(TRUE) \/ PutSec(TRUE) \/ PutStatus(TRUE) \/ PutHdr(TRUE) \/ PutBody(TRUE)
           \/ FmtHdr(TRUE) \/ GcSector(TRUE) \/ LoadErrHdr(TRUE)
  BY <1>4, CellsSame, SameEntries DEF Known
<1>5. CASE NodesStay \/ NewKv \/ SetFind \/ (\E j \in Keys : Del(j)) \/ GcNode \/ MvAlloc
  BY <1>5, ReadsOnly, SameEntries DEF Known
<1> QED BY <1>1, <1>2, <1>3, <1>4, <1>5, NothingToMove DEF Clean, NodesStay

\* A call that goes on keeps its request, and notes when it has taken effect.
Acts == \/ DelStatus(TRUE) /\ local.del.ret = "Idle"
        \/ PutCommit(TRUE) /\ local.put.ret = "SetEnd"
Rest == {"Off", "Idle"}
LEMMA JobGcReturn ==
  ASSUME NEW l \in Local, GcReturn(l), l.job = local.job
  PROVE  pc' \notin Rest => local'.job = local.job
BY GcReturnIs DEF Rest
LEMMA JobCall ==
  ASSUME NEW l \in Local, l.job = local.job,
         \/ \E free, ret : GcCall(l, free, ret)
         \/ \E ptr, complete, ret : DelCall(l, ptr, complete, ret)
         \/ \E s, ret : FmtCall(l, s, ret)
  PROVE  local'.job = local.job
<1>1. ASSUME NEW free, NEW ret, GcCall(l, free, ret) PROVE local'.job = l.job
  <2>1. PICK x : x = [NoLocal.gc EXCEPT !.free = free, !.ret = ret]
    OBVIOUS
  <2>2. local' = [l EXCEPT !.gc = x]
    BY <1>1, <2>1 DEF GcCall, Goto
  <2> QED BY <2>2, FrameChange
<1>2. ASSUME NEW ptr, NEW complete, NEW ret, DelCall(l, ptr, complete, ret)
      PROVE  local'.job = l.job
  BY <1>2, FrameChange DEF DelCall, Goto
<1>3. ASSUME NEW s, NEW ret, FmtCall(l, s, ret) PROVE local'.job = l.job
  BY <1>3, FrameChange DEF FmtCall, Goto
<1> QED BY <1>1, <1>2, <1>3

LEMMA JobStays ==
  ASSUME Known, Clean, pc \notin Rest, pc' \notin Rest, ~Acts
  PROVE  SameJob(local'.job, local.job)
<1>1. TInv /\ local \in Local
  BY DEF Known, TInv, TypeOK
<1>2. ASSUME local'.job = local.job PROVE SameJob(local'.job, local.job)
  BY <1>2 DEF SameJob
<1>3. CASE DelStatus(TRUE)
  BY <1>1, <1>3, DelStatusIs DEF SameJob, Acts, Local, Job, DelFrame
<1>4. CASE DelDirty(TRUE)
  BY <1>1, <1>2, <1>4, DelDirtyIs DEF Rest
<1>5. CASE PutSec(TRUE) \/ PutStatus(TRUE) \/ PutHdr(TRUE) \/ PutBody(TRUE)
  BY <1>1, <1>2, <1>5, WriteIs
<1>6. CASE PutCommit(TRUE)
  BY <1>1, <1>6, PutCommitIs DEF SameJob, Acts, Local, Job
<1>7. CASE FmtErase(TRUE) \/ FmtHdr(TRUE)
  BY <1>1, <1>7, FmtIs DEF SameCtx, SameJob
<1>8. CASE GcSector(TRUE)
  BY <1>1, <1>8, GcSectorIs DEF SameCtx, SameJob
<1>9. CASE GcStart
  BY <1>1, <1>2, <1>9, GcStartIs, JobGcReturn DEF SameCtx, SameJob
<1>10. CASE GcNode
  BY <1>1, <1>10, GcNodeIs, MovedLive DEF SameCtx, SameJob
<1>11. CASE GcErase
  BY <1>1, <1>2, <1>11, JobCall DEF GcErase
<1>12. CASE GcFormatted
  BY <1>1, <1>2, <1>12, GcFormattedIs, JobGcReturn
<1>13. CASE GcEnd
  BY <1>1, <1>2, <1>13, JobGcReturn DEF GcEnd
<1>14. CASE MvAlloc
  <2>1. ~local.mv.pre /\ local.mv.ret = "GcNode"
    BY <1>14 DEF MvAlloc, Known, ControlOK, Copying
  <2>2. SameCtx
    BY <1>1, <1>14, <2>1, MvAllocIs
  <2> QED BY <2>2 DEF SameCtx, SameJob
<1>15. CASE NewKv
  BY <1>1, <1>2, <1>15, NewKvIs, JobCall DEF SameCtx, SameJob, Rest
<1>16. CASE SetFind
  BY <1>1, <1>16, SetFindIs
<1>17. CASE SetEnd
  BY <1>1, <1>2, <1>17, JobCall DEF SetEnd, Goto, Rest
<1>18. CASE DefFormat \/ DefKv \/ DefEnd
  BY <1>1, <1>2, <1>18, DefFormatIs, DefKvIs, DefEndIs DEF Rest, Known, TInv, TypeOK, Local, DefFrame
<1>19. CASE LoadHdr \/ LoadHdrEnd
  BY <1>1, <1>2, <1>19, LoadHdrIs, LoadHdrEndIs
<1>20. CASE LoadGc \/ LoadScan \/ LoadErrHdr(TRUE) \/ LoadPassEnd \/ LoadCollect
  BY <1>1, <1>2, <1>20, LoadIs DEF Rest
<1>21. CASE \/ \E u \in Updates : Set(u[1], u[2])
            \/ \E k \in Keys : Del(k)
            \/ \E strict \in BOOLEAN : Open(strict)
            \/ SetDefault \/ Close \/ LoadRefused
  BY <1>21 DEF Set, Idle, Del, Open, SetDefault, Close, LoadRefused, Reset, Goto, Rest
<1> QED BY <1>3, <1>4, <1>5, <1>6, <1>7, <1>8, <1>9, <1>10, <1>11, <1>12, <1>13, <1>14, <1>15,
           <1>16, <1>17, <1>18, <1>19, <1>20, <1>21, NothingToMove DEF Clean

\* set_default takes everything away, and writes defaults only.
LEMMA DefaultsLeft ==
  ASSUME Known, Holds, pc = "DefKv", NEW k \in Keys
  PROVE  Recoverable(k) \in {None} \cup DefaultVals[k]
<1>1. DefaultsOnly
  BY DEF Known, FormatsOK, DefaultsOnly, Defaulting
<1>2. CASE \A c \in Cells : c.key # k
  BY <1>2 DEF Holds
<1>3. CASE \E c \in Cells : c.key = k
  <2>1. PICK c \in Cells : c.key = k
    BY <1>3
  <2>2. c.live
    BY LiveNow, RestHalf DEF NodePhase, DelPcs, PutPcs, AllLive
  <2>3. Recoverable(k) = c.val
    BY <2>1, <2>2 DEF Holds
  <2>4. PICK i \in DOMAIN Defaults : Defaults[i].key = k /\ Defaults[i].val = c.val
    BY <1>1, <2>1 DEF DefaultsOnly
  <2> QED BY <2>3, <2>4 DEF DefaultVals
<1> QED BY <1>2, <1>3

\* What a call returns.
Replies(r) ==
    LET job == local.job
    IN  /\ job.op # "None" /\ r \in {"Ok", "SavedFull", "KvNameErr"}
        /\ r = "Ok" =>
              /\ job.op \in {"Set", "Del"} => job.done
              /\ job.op = "Default" =>
                    \A k \in Keys : Recoverable(k) \in {None} \cup DefaultVals[k]
        /\ r \in {"SavedFull", "KvNameErr"} => job.op = "Set" /\ ~job.done
LEMMA RepliesEnd == ASSUME EndCtx(local, result), result' = result PROVE Replies(result')
BY DEF EndCtx, Replies

LEMMA RepliesGc ==
  ASSUME Known, InGc(pc, local), NEW l \in Local, GcReturn(l), l.gc.ret = local.gc.ret,
         pc' = "Idle", result' = result
  PROVE  local' = NoLocal /\ Replies(result')
<1>1. l.gc.ret = "Idle" /\ local' = NoLocal
  BY GcReturnIs
<1>2. EndCtx(local, result)
  BY <1>1 DEF Known, ControlOK, GcCtx
<1> QED BY <1>1, <1>2, RepliesEnd

LEMMA Returns ==
  ASSUME Known, Holds, Clean, pc \notin Rest, pc' = "Idle"
  PROVE  local' = NoLocal /\ Replies(result')
<1>1. TInv /\ local \in Local /\ ControlOK
  BY DEF Known, TInv, TypeOK
<1>2. CASE DelDirty(TRUE)
  <2>1. pc = "DelDirty" /\ local.del.ret \in {"PutSec", "SetEnd", "Idle", "MvAlloc", "MvReturn"}
    BY <1>1, <1>2, DelDirtyIs DEF Local, DelFrame
  <2>2. CASE local.del.ret = "Idle"
    <3>1. local' = NoLocal /\ result' = "Ok"
      BY <1>1, <1>2, <2>2, DelDirtyIs
    <3>2. local.job.op = "Del" /\ local.job.done
      BY <1>1, <2>1, <2>2 DEF ControlOK, DelFor, DelPcs
    <3> QED BY <3>1, <3>2 DEF Replies
  <2>3. CASE local.del.ret # "Idle"
    <3>1. local.del.ret = "MvReturn" => local.mv.ret = "GcNode"
      BY <1>1, <2>1 DEF ControlOK, Copying, DelFor, DelPcs
    <3> QED BY <1>1, <1>2, <2>1, <2>3, <3>1, DelDirtyIs
  <2> QED BY <2>2, <2>3
<1>3. CASE GcStart
  BY <1>1, <1>3, GcStartIs, RepliesGc DEF InGc
<1>4. CASE GcFormatted
  BY <1>1, <1>4, GcFormattedIs, RepliesGc DEF InGc
<1>5. CASE GcEnd
  BY <1>1, <1>5, RepliesGc DEF GcEnd, InGc
<1>6. CASE NewKv
  <2>1. pc = "NewKv" /\ local.new.ret = "SetFind" /\ local' = NoLocal /\ result' = "SavedFull"
    BY <1>1, <1>6, NewKvIs DEF GcCall, Goto
  <2>2. local.job.op = "Set" /\ ~local.job.done
    BY <1>1, <2>1 DEF ControlOK, NewCtx, SetCtx
  <2> QED BY <2>1, <2>2 DEF Replies
<1>7. CASE SetEnd
  <2>1. pc = "SetEnd" /\ local' = NoLocal /\ result' = result
    BY <1>7 DEF SetEnd, GcCall, Goto
  <2>2. EndCtx(local, result)
    BY <1>1, <2>1 DEF ControlOK
  <2> QED BY <2>1, <2>2, RepliesEnd
<1>8. CASE DefEnd
  <2>1. pc = "DefKv" /\ local.def.ret = "Idle" /\ local' = NoLocal /\ result' = "Ok"
    BY <1>1, <1>8, DefEndIs DEF Local, DefFrame
  <2>2. local.job.op = "Default"
    BY <1>1, <2>1 DEF ControlOK, DefCtx
  <2>3. \A k \in Keys : Recoverable(k) \in {None} \cup DefaultVals[k]
    BY <2>1, DefaultsLeft
  <2> QED BY <2>1, <2>2, <2>3 DEF Replies
<1>9. CASE LoadGc \/ LoadScan \/ LoadErrHdr(TRUE) \/ LoadPassEnd \/ LoadCollect
  <2>1. local' = NoLocal /\ result' = "Ok"
    BY <1>1, <1>9, LoadIs DEF GcCall, Goto
  <2>2. pc \in {"LoadGc", "LoadScan", "LoadPass", "LoadCollect"}
    BY <1>1, <1>9, LoadIs
  <2>3. local.job.op = "Open"
    BY <1>1, <2>2 DEF ControlOK, Loading, FmtFor
  <2> QED BY <2>1, <2>3 DEF Replies
<1>10. CASE \/ DelStatus(TRUE) \/ PutCommit(TRUE) \/ FmtErase(TRUE) \/ FmtHdr(TRUE)
            \/ PutSec(TRUE) \/ PutStatus(TRUE) \/ PutHdr(TRUE) \/ PutBody(TRUE)
  <2>1. pc' # "Idle"
    BY <1>1, <1>10, DelStatusIs, PutCommitIs, FmtIs, WriteIs DEF Local, PutFrame
  <2> QED BY <2>1
<1>11. CASE GcSector(TRUE) \/ GcNode \/ GcErase \/ MvAlloc \/ SetFind \/ DefFormat \/ DefKv
  <2>1. CASE MvAlloc
    <3>1. ~local.mv.pre /\ local.mv.ret = "GcNode"
      BY <1>1, <2>1 DEF MvAlloc, ControlOK, Copying
    <3> QED BY <1>1, <2>1, <3>1, MvAllocIs
  <2>2. CASE GcErase
    BY <2>2 DEF GcErase, FmtCall, Goto
  <2>3. CASE GcSector(TRUE) \/ GcNode \/ SetFind \/ DefFormat \/ DefKv
    BY <1>1, <2>3, GcSectorIs, GcNodeIs, MovedLive, SetFindIs, DefFormatIs, DefKvIs
       DEF Local, DefFrame
  <2> QED BY <1>11, <2>1, <2>2, <2>3
<1>12. CASE LoadHdr \/ LoadHdrEnd \/ LoadRefused
  BY <1>1, <1>12, LoadHdrIs, LoadHdrEndIs DEF LoadRefused, Reset, Goto
<1>13. CASE \/ \E u \in Updates : Set(u[1], u[2])
            \/ \E k \in Keys : Del(k)
            \/ \E strict \in BOOLEAN : Open(strict)
            \/ SetDefault \/ Close
  BY <1>13 DEF Set, Idle, Del, Open, SetDefault, Close, Rest
<1> QED BY <1>2, <1>3, <1>4, <1>5, <1>6, <1>7, <1>8, <1>9, <1>10, <1>11, <1>12, <1>13,
           NothingToMove DEF Clean

----------------------------------------------------------------------------
(* The steps of the map *)

Contents == [k \in Keys |-> Recoverable(k)]
Answer == IF pc \in Rest THEN result ELSE "None"

\* Nothing of it is seen.
LEMMA StepSilent ==
  ASSUME \A k \in Keys : Recoverable(k)' = Recoverable(k),
         pc \notin Rest, pc' \notin Rest, SameJob(local'.job, local.job)
  PROVE  UNCHANGED Map!vars
<1>1. Contents' = Contents
  BY DEF Contents
<1>2. Req(local'.job) = Req(local.job)
  BY DEF Req, SameJob
<1> QED BY <1>1, <1>2, ReqIs DEF Map!vars, Contents, Rest

LEMMA OneReq ==
  ASSUME NEW o, NEW k, NEW v, NEW d, NEW x \in [op: {o}, key: {k}, val: {v}, done: {d}]
  PROVE  x = [op |-> o, key |-> k, val |-> v, done |-> d]
OBVIOUS
LEMMA DoneReq ==
  ASSUME NEW o, NEW k, NEW v, NEW d
  PROVE  [[op |-> o, key |-> k, val |-> v, done |-> d] EXCEPT !.done = TRUE]
            = [op |-> o, key |-> k, val |-> v, done |-> TRUE]
<1>1. [[op |-> o, key |-> k, val |-> v, done |-> d] EXCEPT !.done = TRUE]
         \in [op: {o}, key: {k}, val: {v}, done: {TRUE}]
  OBVIOUS
<1>2. PICK x \in [op: {o}, key: {k}, val: {v}, done: {TRUE}] :
         x = [[op |-> o, key |-> k, val |-> v, done |-> d] EXCEPT !.done = TRUE]
  BY <1>1
<1>3. x = [op |-> o, key |-> k, val |-> v, done |-> TRUE]
  BY OneReq
<1> QED BY <1>2, <1>3

\* A set or a deletion takes effect.
LEMMA StepEffect ==
  ASSUME local.job.op \in {"Set", "Del"}, ~local.job.done, local.job.key \in Keys,
         local.job.op = "Del" => Recoverable(local.job.key) # None,
         \A k \in Keys : Recoverable(k)' = IF k = local.job.key THEN local.job.val
                                                               ELSE Recoverable(k),
         pc \notin Rest, pc' \notin Rest,
         local'.job.op = local.job.op, local'.job.key = local.job.key,
         local'.job.val = local.job.val, local'.job.done = TRUE
  PROVE  Map!Next
<1>1. Contents' = [Contents EXCEPT ![local.job.key] = local.job.val]
  BY DEF Contents
<1>2. Req(local'.job) = [Req(local.job) EXCEPT !.done = TRUE]
  <2>1. Req(local'.job) = [op |-> local.job.op, key |-> local.job.key, val |-> local.job.val,
                           done |-> TRUE]
    BY DEF Req
  <2> QED BY <2>1, DoneReq DEF Req
<1>3. local.job.op = "Del" => Contents[local.job.key] # None
  BY DEF Contents
<1>4. Map!Effect
  BY <1>1, <1>2, <1>3, ReqIs DEF Map!Effect, Contents, Rest, Req
<1> QED BY <1>4 DEF Map!Next

\* set_default takes entries away or writes one; when open calls it there is nothing to take.
LEMMA StepWipe ==
  ASSUME local.job.op \in {"Default", "Open"}, ValuesOK',
         local.job.op = "Open" =>
            \A k \in Keys : Recoverable(k) # None => Recoverable(k)' = Recoverable(k),
         \A k \in Keys : Recoverable(k)' \in {Recoverable(k), None} \cup DefaultVals[k],
         pc \notin Rest, pc' \notin Rest, SameJob(local'.job, local.job)
  PROVE  Map!Next
<1>1. Contents' \in [Keys -> Values \cup {None}]
  BY DEF Contents, ValuesOK
<1>2. \A k \in Keys : Contents'[k] \in {Contents[k], None} \cup DefaultVals[k]
  BY DEF Contents
<1>3. local.job.op = "Open" => \A k \in Keys : Contents[k] # None => Contents'[k] = Contents[k]
  BY DEF Contents
<1>4. Req(local'.job) = Req(local.job)
  BY DEF Req, SameJob
<1>5. Req(local.job).op = local.job.op
  BY DEF Req
<1>6. Map!Wipe
  BY <1>1, <1>2, <1>3, <1>4, <1>5, ReqIs DEF Map!Wipe, Contents, Rest
<1> QED BY <1>6 DEF Map!Next

\* No request is in service.
LEMMA NoReqIs == Req(NoLocal.job) = Map!NoReq
BY DEF Req, NoLocal, Map!NoReq

\* A call returns.
LEMMA StepReply ==
  ASSUME \A k \in Keys : Recoverable(k)' = Recoverable(k),
         pc \notin Rest, pc' = "Idle", local' = NoLocal, Replies(result')
  PROVE  Map!Next
<1>1. Contents' = Contents
  BY DEF Contents
<1>2. Req(local'.job) = Map!NoReq
  BY NoReqIs
<1>3. Req(local.job) # Map!NoReq
  BY DEF Req, Map!NoReq, Replies
<1>4. Req(local.job).op = local.job.op /\ Req(local.job).done = local.job.done
  BY DEF Req
<1>5. \A k \in Keys : Contents[k] = Recoverable(k)
  BY DEF Contents
<1>6. PICK r \in {"Ok", "SavedFull", "KvNameErr"} : r = result'
  BY DEF Replies
<1>7. Map!Reply(r)
  BY <1>1, <1>2, <1>3, <1>4, <1>5, <1>6, ReqIs DEF Map!Reply, Contents, Rest, Replies
<1> QED BY <1>7 DEF Map!Next

\* A call begins.
LEMMA RequestsAre ==
  /\ \A k, v : [Map!NoReq EXCEPT !.op = "Set", !.key = k, !.val = v]
                  = [op |-> "Set", key |-> k, val |-> v, done |-> FALSE]
  /\ \A k : [Map!NoReq EXCEPT !.op = "Del", !.key = k]
               = [op |-> "Del", key |-> k, val |-> None, done |-> FALSE]
  /\ \A o : [Map!NoReq EXCEPT !.op = o] = [op |-> o, key |-> None, val |-> None, done |-> FALSE]
<1>1. ASSUME NEW k, NEW v
      PROVE  [Map!NoReq EXCEPT !.op = "Set", !.key = k, !.val = v]
                = [op |-> "Set", key |-> k, val |-> v, done |-> FALSE]
  <2>1. PICK x \in [op: {"Set"}, key: {k}, val: {v}, done: {FALSE}] :
           x = [Map!NoReq EXCEPT !.op = "Set", !.key = k, !.val = v]
    BY DEF Map!NoReq
  <2>2. x = [op |-> "Set", key |-> k, val |-> v, done |-> FALSE]
    BY OneReq
  <2> QED BY <2>1, <2>2
<1>2. ASSUME NEW k
      PROVE  [Map!NoReq EXCEPT !.op = "Del", !.key = k]
                = [op |-> "Del", key |-> k, val |-> None, done |-> FALSE]
  <2>1. PICK x \in [op: {"Del"}, key: {k}, val: {None}, done: {FALSE}] :
           x = [Map!NoReq EXCEPT !.op = "Del", !.key = k]
    BY DEF Map!NoReq
  <2>2. x = [op |-> "Del", key |-> k, val |-> None, done |-> FALSE]
    BY OneReq
  <2> QED BY <2>1, <2>2
<1>3. ASSUME NEW o
      PROVE  [Map!NoReq EXCEPT !.op = o] = [op |-> o, key |-> None, val |-> None, done |-> FALSE]
  <2>1. PICK x \in [op: {o}, key: {None}, val: {None}, done: {FALSE}] :
           x = [Map!NoReq EXCEPT !.op = o]
    BY DEF Map!NoReq
  <2>2. x = [op |-> o, key |-> None, val |-> None, done |-> FALSE]
    BY OneReq
  <2> QED BY <2>1, <2>2
<1> QED BY <1>1, <1>2, <1>3

LEMMA StepRequest ==
  ASSUME \A k \in Keys : Recoverable(k)' = Recoverable(k),
         pc = "Idle", local = NoLocal, pc' \notin Rest, local'.job.done = FALSE,
         \/ local'.job.op = "Set" /\ local'.job.key \in Keys /\ local'.job.val \in Values
         \/ local'.job.op = "Del" /\ local'.job.key \in Keys /\ local'.job.val = None
         \/ local'.job.op = "Default" /\ local'.job.key = None /\ local'.job.val = None
  PROVE  Map!Next
<1>1. Contents' = Contents
  BY DEF Contents
<1>2. Req(local.job) = Map!NoReq
  BY NoReqIs
<1>3. PICK k : k = local'.job.key
  OBVIOUS
<1>4. PICK v : v = local'.job.val
  OBVIOUS
<1>5. CASE local'.job.op = "Set"
  <2>1. k \in Keys /\ v \in Values
    BY <1>3, <1>4, <1>5
  <2>2. Req(local'.job) = [Map!NoReq EXCEPT !.op = "Set", !.key = k, !.val = v]
    <3>1. Req(local'.job) = [op |-> "Set", key |-> k, val |-> v, done |-> FALSE]
      BY <1>3, <1>4, <1>5 DEF Req
    <3>2. [Map!NoReq EXCEPT !.op = "Set", !.key = k, !.val = v]
             = [op |-> "Set", key |-> k, val |-> v, done |-> FALSE]
      BY RequestsAre
    <3> QED BY <3>1, <3>2
  <2>3. Map!Request
    <3>1. Map!Request <=>
             /\ pc # "Off" /\ Req(local.job) = Map!NoReq
             /\ (IF pc' \in Rest THEN result' ELSE "None") = "None"
             /\ \/ \E x \in Keys, y \in Values :
                      Req(local'.job) = [Map!NoReq EXCEPT !.op = "Set", !.key = x, !.val = y]
                \/ \E x \in Keys : Req(local'.job) = [Map!NoReq EXCEPT !.op = "Del", !.key = x]
                \/ Req(local'.job) = [Map!NoReq EXCEPT !.op = "Default"]
             /\ (pc' # "Off") = (pc # "Off") /\ Contents' = Contents
      BY ReqIs DEF Map!Request, Contents, Rest
    <3> QED BY <1>1, <1>2, <2>1, <2>2, <3>1 DEF Rest
  <2> QED BY <2>3 DEF Map!Next
<1>6. CASE local'.job.op = "Del"
  <2>1. k \in Keys
    BY <1>3, <1>6
  <2>2. Req(local'.job) = [Map!NoReq EXCEPT !.op = "Del", !.key = k]
    BY <1>3, <1>6, RequestsAre DEF Req
  <2>3. Map!Request
    BY <1>1, <1>2, <2>1, <2>2, ReqIs DEF Map!Request, Contents, Rest
  <2> QED BY <2>3 DEF Map!Next
<1>7. CASE local'.job.op = "Default"
  <2>1. Req(local'.job) = [Map!NoReq EXCEPT !.op = "Default"]
    BY <1>7, RequestsAre DEF Req
  <2>2. Map!Request
    BY <1>1, <1>2, <2>1, ReqIs DEF Map!Request, Contents, Rest
  <2> QED BY <2>2 DEF Map!Next
<1> QED BY <1>5, <1>6, <1>7

LEMMA StepOpen ==
  ASSUME \A k \in Keys : Recoverable(k)' = Recoverable(k),
         pc = "Off", pc' \notin Rest, local'.job.op = "Open", local'.job.key = None,
         local'.job.val = None, local'.job.done = FALSE
  PROVE  Map!Next
<1>1. Contents' = Contents
  BY DEF Contents
<1>2. Req(local'.job) = [Map!NoReq EXCEPT !.op = "Open"]
  BY RequestsAre DEF Req
<1>3. Map!Open
  BY <1>1, <1>2, ReqIs DEF Map!Open, Contents, Rest
<1> QED BY <1>3 DEF Map!Next

LEMMA StepStop ==
  ASSUME \A k \in Keys : Recoverable(k)' = Recoverable(k),
         pc # "Off", pc' = "Off", local' = NoLocal, result' \in {"None", "ReadErr"}
  PROVE  Map!Next
<1>1. Contents' = Contents
  BY DEF Contents
<1>2. Req(local'.job) = Map!NoReq
  BY NoReqIs
<1>3. Map!Stop
  BY <1>1, <1>2, ReqIs DEF Map!Stop, Contents
<1> QED BY <1>3 DEF Map!Next

\* A key that is not found.
LEMMA StepNotFound ==
  ASSUME \A k \in Keys : Recoverable(k)' = Recoverable(k), \E k \in Keys : Recoverable(k) = None,
         pc = "Idle", local = NoLocal, pc' = "Idle", local' = NoLocal, result' = "KvNameErr"
  PROVE  Map!Next
<1>1. Contents' = Contents /\ \E k \in Keys : Contents[k] = None
  BY DEF Contents
<1>2. Req(local.job) = Map!NoReq /\ Req(local'.job) = Map!NoReq
  BY NoReqIs
<1>3. Map!NotFound
  BY <1>1, <1>2, ReqIs DEF Map!NotFound, Contents
<1> QED BY <1>3 DEF Map!Next

LEMMA CellKey == ASSUME TInv, NEW c \in Cells PROVE c.key \in Keys
<1>1. c.sec \in Sector /\ c.idx \in DOMAIN flash[c.sec].kvs /\ ToMove(flash[c.sec].kvs[c.idx])
      /\ c.key = flash[c.sec].kvs[c.idx].key
  BY CellIs
<1>2. Stored(flash[c.sec].kvs[c.idx].key, flash[c.sec].kvs[c.idx].val)
  BY <1>1, TInvParts DEF FlashOK, NodesNamed, ToMove
<1> QED BY <1>1, <1>2 DEF Stored

\* The steps at which the entries change.
LEMMA StepActs ==
  ASSUME Known, Holds, Holds', Acts PROVE Map!Next
<1>1. TInv /\ local \in Local /\ ControlOK
  BY DEF Known, TInv, TypeOK
<1>2. CASE DelStatus(TRUE) /\ local.del.ret = "Idle"
  <2>1. pc = "DelStatus" /\ pc' = "DelDirty"
    BY <1>1, <1>2, DelStatusIs
  <2>2. local.job.op = "Del" /\ local.job.val = None /\ ~local.job.done
    BY <1>1, <1>2, <2>1 DEF ControlOK, DelFor, DelPcs, Local, Job
  <2>3. /\ local'.job.op = local.job.op /\ local'.job.key = local.job.key
        /\ local'.job.val = local.job.val /\ local'.job.done = TRUE
    BY <1>1, <1>2, <2>2, DelStatusIs
  <2>4. local.job.key \in Keys
    <3>1. PICK c \in Cells : c.key = local.job.key
      BY <1>2, <2>1 DEF Known, NodesOK, Doomed, Copying, PutFor, DelFor, PutPcs
    <3> QED BY <1>1, <3>1, CellKey
  <2>5. \A k \in Keys : Recoverable(k)' = IF k = local.job.key THEN local.job.val
                                                               ELSE Recoverable(k)
    BY <1>2, <2>2, EntriesDel
  <2>6. Recoverable(local.job.key) # None
    <3>1. PICK k : k = local.job.key
      OBVIOUS
    <3>2. Recoverable(k) # None
      BY <1>2, <3>1, EntriesDel
    <3> QED BY <3>1, <3>2
  <2> QED BY <2>1, <2>2, <2>3, <2>4, <2>5, <2>6, StepEffect DEF Rest
<1>3. CASE PutCommit(TRUE) /\ local.put.ret = "SetEnd"
  <2>1. pc = "PutCommit" /\ pc' \in {"DelStatus", "SetEnd"}
    BY <1>1, <1>3, PutCommitIs
  <2>2. /\ local.job.op = "Set" /\ ~local.job.done
        /\ local.put.key = local.job.key /\ local.put.val = local.job.val
    BY <1>1, <1>3, <2>1 DEF ControlOK, Updating, PutFor, PutPcs, SetCtx
  <2>3. /\ local'.job.op = local.job.op /\ local'.job.key = local.job.key
        /\ local'.job.val = local.job.val /\ local'.job.done = TRUE
    BY <1>1, <1>3, <2>2, PutCommitIs
  <2>4. local.job.key \in Keys
    BY <1>1, <2>2, TInvParts DEF FramesOK, Stored
  <2>5. \A k \in Keys : Recoverable(k)' = IF k = local.job.key THEN local.job.val
                                                               ELSE Recoverable(k)
    BY <1>3, <2>2, EntriesCommit
  <2> QED BY <2>1, <2>2, <2>3, <2>4, <2>5, StepEffect DEF Rest
<1> QED BY <1>2, <1>3 DEF Acts

LEMMA StepDefaults ==
  ASSUME Known, Holds, Holds', ValuesOK', Clean, Writes, ~Acts PROVE Map!Next
<1>1. TInv /\ local \in Local /\ ControlOK
  BY DEF Known, TInv, TypeOK
<1>2. CASE PutCommit(TRUE) /\ local.put.ret = "DefKv"
  <2>1. pc = "PutCommit" /\ pc' = "DefKv"
    BY <1>1, <1>2, PutCommitIs
  <2>2. local.job.op \in {"Default", "Open"} /\ IsDefault(local, local.put)
    BY <1>1, <1>2, <2>1 DEF ControlOK, PutFor, PutPcs, DefCtx
  <2>3. \A k \in Keys : k = local.put.key => local.put.val \in DefaultVals[k]
    BY <2>2 DEF IsDefault, DefaultVals
  <2>4. \A k \in Keys : /\ Recoverable(k) # None => Recoverable(k)' = Recoverable(k)
                        /\ Recoverable(k)' \in {Recoverable(k), None} \cup DefaultVals[k]
    BY <1>2, <2>3, EntriesCommit
  <2>5. SameJob(local'.job, local.job)
    BY <2>1, JobStays DEF Rest
  <2> QED BY <2>1, <2>2, <2>4, <2>5, StepWipe DEF Rest
<1>3. CASE FmtErase(TRUE) /\ local.fmt.ret = "DefFormat"
  <2>1. pc = "FmtErase" /\ pc' = "FmtHdr"
    BY <1>1, <1>3, FmtIs
  <2>2. local.job.op = IF local.def.ret = "Idle" THEN "Default" ELSE "Open"
    BY <1>1, <1>3, <2>1 DEF ControlOK, Wiping, FmtFor, DefCtx
  <2>3. local.def.ret # "Idle" => local.def.ret = "LoadGc"
    BY <1>1 DEF Local, DefFrame
  <2>4. \A k \in Keys : /\ local.def.ret = "LoadGc" => Recoverable(k)' = Recoverable(k)
                        /\ Recoverable(k)' \in {Recoverable(k), None} \cup DefaultVals[k]
    BY <1>3, EntriesErase
  <2>5. SameJob(local'.job, local.job)
    BY <2>1, JobStays DEF Rest
  <2> QED BY <2>1, <2>2, <2>3, <2>4, <2>5, StepWipe DEF Rest
<1> QED BY <1>2, <1>3 DEF Writes, Acts

\* Between the calls, and when a session ends.
LEMMA CallsOnly ==
  ASSUME Clean
  PROVE  /\ pc = "Idle" => \/ \E u \in Updates : Set(u[1], u[2])
                           \/ \E k \in Keys : Del(k)
                           \/ SetDefault \/ Close
         /\ pc = "Off" => \E strict \in BOOLEAN : Open(strict)
BY DEF Clean, Set, Del, Open, SetDefault, Close, Idle, NewKv, SetFind, SetEnd, DelStatus, DelDirty,
       PutSec, PutStatus, PutHdr, PutBody, PutCommit, FmtErase, FmtHdr, GcSector, LoadErrHdr,
       GcStart, GcNode, GcErase, GcFormatted, GcEnd, MvAlloc, DefFormat, DefKv, DefEnd,
       LoadHdr, LoadRefused, LoadHdrEnd, LoadGc, LoadScan, LoadMove, LoadPassEnd, LoadCollect

LEMMA StopsOnly ==
  ASSUME Known, Clean, pc # "Off", pc' = "Off" PROVE Close \/ LoadRefused
<1>1. TInv /\ local \in Local /\ ControlOK
  BY DEF Known, TInv, TypeOK
<1>2. ~(DelStatus(TRUE) \/ PutCommit(TRUE))
  BY <1>1, DelStatusIs, PutCommitIs DEF Local, PutFrame
<1>3. ~DelDirty(TRUE)
  <2> SUFFICES ASSUME DelDirty(TRUE) PROVE FALSE
    OBVIOUS
  <2>1. pc = "DelDirty" /\ local.del.ret \in {"PutSec", "SetEnd", "Idle", "MvAlloc", "MvReturn"}
    BY <1>1, DelDirtyIs DEF Local, DelFrame
  <2>2. local.del.ret = "MvReturn" => local.mv.ret = "GcNode"
    BY <1>1, <2>1 DEF ControlOK, Copying, DelFor, DelPcs
  <2> QED BY <1>1, <2>1, <2>2, DelDirtyIs
<1>4. ~(\/ PutSec(TRUE) \/ PutStatus(TRUE) \/ PutHdr(TRUE) \/ PutBody(TRUE) \/ FmtErase(TRUE)
        \/ FmtHdr(TRUE) \/ GcSector(TRUE))
  BY <1>1, WriteIs, FmtIs, GcSectorIs
<1>5. ~(GcStart \/ GcFormatted \/ GcEnd)
  BY <1>1, GcStartIs, GcFormattedIs, GcReturnIs DEF GcEnd
<1>6. ~(GcNode \/ GcErase)
  BY <1>1, GcNodeIs, MovedLive DEF GcErase, FmtCall, Goto
<1>7. ~MvAlloc
  <2> SUFFICES ASSUME MvAlloc PROVE FALSE
    OBVIOUS
  <2>1. ~local.mv.pre /\ local.mv.ret = "GcNode"
    BY <1>1 DEF MvAlloc, ControlOK, Copying
  <2> QED BY <1>1, <2>1, MvAllocIs
<1>8. ~(NewKv \/ SetFind \/ SetEnd)
  BY <1>1, NewKvIs, SetFindIs DEF SetEnd, GcCall, Goto
<1>9. ~(DefFormat \/ DefKv \/ DefEnd)
  BY <1>1, DefFormatIs, DefKvIs, DefEndIs DEF Local, DefFrame
<1>10. ~(LoadHdr \/ LoadHdrEnd)
  BY <1>1, LoadHdrIs, LoadHdrEndIs
<1>11. ~(LoadGc \/ LoadScan \/ LoadErrHdr(TRUE) \/ LoadPassEnd \/ LoadCollect)
  BY <1>1, LoadIs DEF GcCall, Goto
<1>12. ~(\/ \E u \in Updates : Set(u[1], u[2])
         \/ \E k \in Keys : Del(k)
         \/ \E strict \in BOOLEAN : Open(strict)
         \/ SetDefault)
  BY DEF Set, Del, Open, SetDefault, Idle, NewCall, DelCall, Return, Goto
<1> QED BY <1>2, <1>3, <1>4, <1>5, <1>6, <1>7, <1>8, <1>9, <1>10, <1>11, <1>12, NothingToMove
        DEF Clean

\* A key that find_kv does not find between the calls is not there.
LEMMA NotThere ==
  ASSUME Known, Holds, pc = "Idle", NEW k \in Keys, ~find_kv(flash, oldest, k).found
  PROVE  Recoverable(k) = None
<1>1. \A c \in Cells : c.key = k => KeyLen[k] < KV_NAME_MAX
  BY DEF Known, NodesOK
<1>2. AllLive
  BY LiveNow, RestHalf DEF NodePhase, DelPcs, PutPcs
<1>3. \A c \in Cells : c.key # k
  BY <1>1, <1>2, FindNone DEF AllLive, LiveKey
<1> QED BY <1>3 DEF Holds

\* Every step is a step of the map or none.
LEMMA MapStep ==
  ASSUME Known, Holds, TInv', Holds', ValuesOK', Clean PROVE [Map!Next]_(Map!vars)
<1>1. TInv /\ (pc \in Rest => local = NoLocal) /\ (pc' \in Rest => local' = NoLocal)
  BY DEF Known, TInv, ArgsOK, Rest
<1> local'.job.done \in BOOLEAN
  BY DEF TInv, TypeOK, Local, Job
<1>2. CASE Acts
  BY <1>2, StepActs
<1>3. CASE Writes /\ ~Acts
  BY <1>3, StepDefaults
<1>4. CASE ~Writes /\ ~Acts
  <2>1. \A k \in Keys : Recoverable(k)' = Recoverable(k)
    BY <1>4, EntriesSame
  <2>2. CASE pc \notin Rest /\ pc' \notin Rest
    BY <1>4, <2>1, <2>2, JobStays, StepSilent
  <2>3. CASE pc \notin Rest /\ pc' = "Idle"
    BY <2>1, <2>3, Returns, StepReply
  <2>4. CASE pc # "Off" /\ pc' = "Off"
    <3>1. result' \in {"None", "ReadErr"}
      BY <2>4, StopsOnly DEF Close, LoadRefused
    <3> QED BY <1>1, <2>1, <2>4, <3>1, StepStop DEF Rest
  <2>5. CASE pc = "Off"
    <3>1. PICK strict \in BOOLEAN : Open(strict)
      BY <2>5, CallsOnly
    <3> QED BY <1>1, <2>1, <2>5, <3>1, OpenIs, StepOpen DEF Rest
  <2>6. CASE pc = "Idle" /\ pc' # "Off"
    <3>1. local = NoLocal
      BY <1>1, <2>6 DEF Rest
    <3>2. ASSUME NEW u \in Updates, Set(u[1], u[2]) PROVE Map!Next
      <4>1. u[1] \in Keys /\ u[2] \in Values
        BY BoundsAssumption
      <4>2. /\ pc' = "NewKv" /\ local'.job.op = "Set" /\ local'.job.key = u[1]
            /\ local'.job.val = u[2] /\ ~local'.job.done
        BY <1>1, <3>2, <4>1, SetIs
      <4> QED BY <2>1, <2>6, <3>1, <4>1, <4>2, StepRequest DEF Rest
    <3>3. ASSUME NEW k \in Keys, Del(k) PROVE Map!Next
      <4>1. CASE find_kv(flash, oldest, k).found
        BY <1>1, <2>1, <2>6, <3>1, <3>3, <4>1, DelIs, StepRequest DEF Rest
      <4>2. CASE ~find_kv(flash, oldest, k).found
        BY <1>1, <2>1, <2>6, <3>1, <3>3, <4>2, DelIs, NotThere, StepNotFound
      <4> QED BY <4>1, <4>2
    <3>4. ASSUME SetDefault PROVE Map!Next
      BY <1>1, <2>1, <2>6, <3>1, <3>4, SetDefaultIs, StepRequest DEF Rest
    <3>5. ~Close
      BY <2>6 DEF Close, Reset, Goto
    <3> QED BY <2>6, <3>2, <3>3, <3>4, <3>5, CallsOnly
  <2> QED BY <2>2, <2>3, <2>4, <2>5, <2>6 DEF Rest
<1> QED BY <1>2, <1>3, <1>4

LEMMA PlainKeysStay == PlainKeys => PlainKeys'
BY DEF PlainKeys

LEMMA StepIsMap ==
  ASSUME AllInv, [Next]_vars, Quiet', PlainKeys
  PROVE  [Map!Next]_(Map!vars) \/ UNCHANGED vars
<1>1. Quiet
  BY FaultsNext DEF AllInv
<1>2. Known /\ Holds /\ Known' /\ Holds' /\ ValuesOK'
  BY <1>1, HoldsNow, AfterStep, AllNext, ValuesThen, PlainKeysStay
<1>3. Clean \/ UNCHANGED vars
  BY CleanNext DEF AllInv
<1> QED BY <1>2, <1>3, MapStep DEF Known
\* As long as nothing fails every step is a step of the map or none.
THEOREM MapSteps == Spec => [][Quiet' /\ PlainKeys => [Map!Next]_(Map!vars)]_vars
<1>1. AllInv /\ [Next]_vars => (Quiet' /\ PlainKeys => [Map!Next]_(Map!vars)) \/ UNCHANGED vars
  BY StepIsMap
<1> QED BY <1>1, AllAlways, PTL DEF Spec

\* Neither the power nor the medium ever fails.
NoFailure == PlainKeys /\ MaxPowerLoss = 0 /\ MaxFaults = 0
LEMMA NoFailureQuiet == ASSUME TInv, NoFailure PROVE Quiet
BY DEF TInv, TypeOK, NoFailure, Quiet

LEMMA ViewStutter == ASSUME Known, Holds, Holds', UNCHANGED vars PROVE UNCHANGED Map!vars
<1>1. Cells' = Cells
  BY CellsStutter
<1>2. \A k \in Keys : Recoverable(k)' = Recoverable(k)
  BY <1>1, SameEntries
<1>3. Contents' = Contents
  BY <1>2 DEF Contents
<1>4. local' = local /\ pc' = pc /\ result' = result
  BY DEF vars, ram, medium
<1> QED BY <1>3, <1>4, ReqIs DEF Map!vars, Contents

\* Where nothing fails the storage code implements the map: a set or a deletion takes effect
\* at one instant, and collections, recovery and reopening change nothing.
THEOREM MapImplemented == NoFailure => (Spec => ImplementsMap)
<1> SUFFICES ASSUME NoFailure PROVE Spec => ImplementsMap
  OBVIOUS
<1>1. Init => Map!Init
  <2> SUFFICES ASSUME Init PROVE Map!Init
    OBVIOUS
  <2>1. \A k \in Keys : Recoverable(k) = None
    <3>1. Nodes = {}
      BY DEF Nodes, Init, Erased
    <3> QED BY <3>1, FirstNone DEF Recoverable
  <2>2. Contents = Map!Empty
    BY <2>1 DEF Contents, Map!Empty
  <2>3. Req(local.job) = Map!NoReq /\ pc = "Off" /\ result = "None"
    BY NoReqIs DEF Init
  <2> QED BY <2>2, <2>3, ReqIs DEF Map!Init, Contents
<1>2. AllInv /\ [Next]_vars => [Map!Next]_(Map!vars)
  <2> SUFFICES ASSUME AllInv, [Next]_vars PROVE [Map!Next]_(Map!vars)
    OBVIOUS
  <2>1. Quiet /\ PlainKeys
    BY NoFailureQuiet DEF AllInv, NoFailure
  <2>2. AllInv'
    BY AllNext
  <2>3. Quiet'
    BY <2>2 DEF AllInv, TInv, TypeOK, NoFailure, Quiet
  <2>4. Known /\ Holds /\ Known' /\ Holds'
    BY <2>1, <2>3, HoldsNow, AfterStep
  <2> QED BY <2>1, <2>3, <2>4, StepIsMap, ViewStutter
<1> QED BY <1>1, <1>2, AllAlways, PTL DEF Spec, ImplementsMap, Map!Spec

----------------------------------------------------------------------------
(* The iterator                                                            *)
(*                                                                         *)
(* An entry is due as long as it is not behind the iterator.  That a call  *)
(* of iterate passes over no entry that is due rests on what the map       *)
(* needs: the place of a key is that of its only live node.                *)

\* A node at addr in the i-th sector of the walk is not behind the iterator.
Beyond(i, addr) == i > iter.step \/ (i = iter.step /\ addr >= iter.resume)

IterType ==
    /\ iter \in [base: Sector, step: 0 .. N-1, resume: Nat, more: BOOLEAN]
    /\ entry \in [Keys -> {"Changed", "Due", "Reported"}]

\* The entries that stayed are there, and those are due that are not behind the iterator.
TrackOK ==
    \A k \in Keys : entry[k] # "Changed" =>
        /\ Place(k) # <<>>
        /\ \A i \in 0 .. N-1 : Nth(iter.base, i) = Place(k)[1] =>
              (entry[k] = "Due" <=> Beyond(i, Place(k)[2]))

IterInv == AllInv /\ IterType /\ TrackOK

\* What is known of a state in which nothing has failed.
LEMMA NowKnown == ASSUME AllInv, NoFailure PROVE Known
BY KnownNow, NoFailureQuiet DEF AllInv, NoFailure

----------------------------------------------------------------------------
(* Places *)

LEMMA NthOnce ==
  ASSUME NEW b \in Sector, NEW i \in 0 .. N-1, NEW j \in 0 .. N-1, Nth(b, i) = Nth(b, j)
  PROVE  i = j
<1>1. b \in 0 .. N-1 /\ N \in Nat /\ N > 0
  BY GeometryAssumption DEF Sector
<1>2. ASSUME NEW m \in 0 .. N-1 PROVE Nth(b, m) = IF b + m < N THEN b + m ELSE b + m - N
  <2>1. CASE b + m < N
    <3>1. (b + m) % N = b + m
      BY <1>1, <2>1
    <3> QED BY <2>1, <3>1 DEF Nth
  <2>2. CASE ~ (b + m < N)
    <3>1. (b + m) % N = b + m - N
      BY <1>1, <2>2
    <3> QED BY <2>2, <3>1 DEF Nth
  <2> QED BY <2>1, <2>2
<1> QED BY <1>1, <1>2

\* The node at the place of a key.
LEMMA PlaceIs ==
  ASSUME TInv, NEW k, Place(k) # <<>>
  PROVE  \E s \in Sector : \E j \in DOMAIN flash[s].kvs :
            /\ Place(k) = <<s, flash[s].kvs[j].addr>>
            /\ s \in InUse(flash) /\ Readable(flash[s].kvs[j], k)
<1> DEFINE f == find_kv(flash, oldest, k)
<1>1. flash \in Flash /\ oldest \in Sector
  BY TInvParts DEF FlashOK, RamOK
<1>2. f.found /\ Place(k) = <<f.sec, flash[f.sec].kvs[f.idx].addr>>
  BY DEF Place
<1>3. /\ f.sec \in InUse(flash) /\ f.sec \in Sector /\ f.idx \in DOMAIN flash[f.sec].kvs
      /\ Readable(flash[f.sec].kvs[f.idx], k)
  BY <1>1, <1>2, FindLive
<1> HIDE DEF f
<1> QED BY <1>2, <1>3

\* A live node is at the place of its key.
LEMMA LivePlace ==
  ASSUME Known, NEW s \in Sector, NEW j \in DOMAIN flash[s].kvs, NEW k, Readable(flash[s].kvs[j], k)
  PROVE  Place(k) = <<s, flash[s].kvs[j].addr>>
<1> DEFINE f == find_kv(flash, oldest, k)
<1>1. <<s, j>> \in Nodes /\ Node(<<s, j>>) = flash[s].kvs[j]
  BY NodeIs DEF Node
<1>2. PICK p \in Nodes : p = <<s, j>>
  BY <1>1
<1>3. Readable(Node(p), k)
  BY <1>1, <1>2
<1>4. PICK c \in Cells : c.sec = s /\ c.idx = j /\ c.key = k /\ c.live
  BY <1>2, <1>3, LiveCell
<1>5. KeyLen[k] < KV_NAME_MAX /\ LiveKey(k)
  BY <1>4 DEF Known, NodesOK, LiveKey
<1>6. f.found
  BY <1>5, FindNone
<1>7. PICK d \in Cells : At(d, f) /\ d.live /\ d.key = k
  BY <1>6, FindCell
<1>8. d = c
  BY <1>4, <1>7 DEF Known, NodesOK, OneEach
<1>9. f.sec = s /\ f.idx = j
  BY <1>4, <1>7, <1>8 DEF At
<1> QED BY <1>6, <1>9 DEF Place

----------------------------------------------------------------------------
(* One call of iterate *)

\* The j-th node of the i-th sector of the walk is still to be reported.
ToCome(i, j) ==
    LET s == Nth(iter.base, i)
    IN  /\ s \in InUse(flash) /\ j \in DOMAIN flash[s].kvs
        /\ Reports(flash[s].kvs[j]) /\ Beyond(i, flash[s].kvs[j].addr)

LEMMA AheadIs ==
  ASSUME IterType, NEW i \in iter.step .. N-1
  PROVE  \A j : j \in Ahead(flash, iter, i) <=> ToCome(i, j)
<1>1. iter.step \in Nat /\ i \in Nat /\ (i > iter.step \/ i = iter.step)
  BY DEF IterType
<1> QED BY <1>1 DEF Ahead, ToCome, Behind, Beyond

LEMMA NextIsThere ==
  ASSUME TInv, IterType, iterate(flash, iter).more, NEW it, it = iterate(flash, iter)
  PROVE  \E i \in 0 .. N-1 : \E j \in Nat :
            /\ ToCome(i, j) /\ current(flash, iter) = flash[Nth(iter.base, i)].kvs[j]
            /\ it = [iter EXCEPT !.step = i, !.resume = current(flash, iter).addr + current(flash, iter).len]
            /\ \A m \in 0 .. N-1, l \in Nat : ToCome(m, l) => i < m \/ (i = m /\ j <= l)
<1> DEFINE S == NextSteps(flash, iter)
           i == NextStep(flash, iter)
           A == Ahead(flash, iter, i)
           j == Least(A)
<1>1. iter \in [base: Sector, step: 0 .. N-1, resume: Nat, more: BOOLEAN] /\ N \in Nat
  BY GeometryAssumption DEF IterType
<1>2. S # {}
  BY <1>1 DEF iterate
<1>3. it = [iter EXCEPT !.step = i, !.resume = current(flash, iter).addr + current(flash, iter).len]
  BY <1>2 DEF iterate
<1>4. S \subseteq iter.step .. N-1 /\ S \subseteq Nat
  BY <1>1 DEF NextSteps
<1>5. i = Least(S)
  BY DEF NextStep
<1>6. i \in S /\ \A m \in S : i <= m
  <2> HIDE DEF S, i
  <2> QED BY <1>2, <1>4, <1>5, LeastExists
<1>7. i \in iter.step .. N-1 /\ i \in 0 .. N-1 /\ A # {}
  BY <1>1, <1>4, <1>6 DEF NextSteps
<1>8. \A m \in iter.step .. N-1 : \A l : l \in Ahead(flash, iter, m) <=> ToCome(m, l)
  BY AheadIs
<1>9. current(flash, iter) = flash[Nth(iter.base, i)].kvs[j]
  BY DEF current
<1>10. \A m \in iter.step .. N-1 : m \in S <=> \E l : ToCome(m, l)
  <2> TAKE m \in iter.step .. N-1
  <2>1. m \in S <=> Ahead(flash, iter, m) # {}
    BY DEF NextSteps
  <2> QED BY <1>8, <2>1
<1> HIDE DEF S, i
<1>11. \A l : l \in A <=> ToCome(i, l)
  BY <1>7, <1>8
<1>12. A \subseteq Nat
  <2>1. Nth(iter.base, i) \in Sector
    BY <1>1, <1>7, NthType
  <2>2. DOMAIN flash[Nth(iter.base, i)].kvs \subseteq Nat
    BY <2>1, TInvParts DEF SectorImage
  <2> QED BY <1>11, <2>2 DEF ToCome
<1> HIDE DEF A
<1>13. j \in A /\ j \in Nat /\ \A l \in A : j <= l
  BY <1>7, <1>12, LeastExists
<1> HIDE DEF j
<1>14. ASSUME NEW m \in 0 .. N-1, NEW l \in Nat, ToCome(m, l) PROVE i < m \/ (i = m /\ j <= l)
  <2>1. m >= iter.step
    BY <1>1, <1>14 DEF ToCome, Beyond
  <2>2. m \in iter.step .. N-1
    BY <1>1, <2>1
  <2>3. i <= m
    BY <1>6, <1>10, <1>14, <2>2
  <2>4. i = m => l \in A
    BY <1>11, <1>14
  <2> QED BY <1>7, <1>13, <2>3, <2>4
<1> QED BY <1>3, <1>7, <1>9, <1>11, <1>13, <1>14

\* Without a step there is no node to come.
LEMMA NothingToCome ==
  ASSUME IterType, ~iterate(flash, iter).more, iter.more
  PROVE  \A m \in 0 .. N-1 : \A l : ~ToCome(m, l)
<1>1. iter \in [base: Sector, step: 0 .. N-1, resume: Nat, more: BOOLEAN] /\ N \in Nat
  BY GeometryAssumption DEF IterType
<1>2. NextSteps(flash, iter) = {}
  BY <1>1 DEF iterate
<1> SUFFICES ASSUME NEW m \in 0 .. N-1, NEW l, ToCome(m, l) PROVE FALSE
  OBVIOUS
<1>3. m \in iter.step .. N-1
  BY <1>1 DEF ToCome, Beyond
<1>4. l \in Ahead(flash, iter, m)
  BY <1>3, AheadIs
<1> QED BY <1>2, <1>3, <1>4 DEF NextSteps

----------------------------------------------------------------------------
(* What is reported *)

\* Between the calls an entry that is due is still to be reported.
LEMMA DueToCome ==
  ASSUME Known, IterType, TrackOK, NEW k \in Keys, entry[k] = "Due"
  PROVE  \E i \in 0 .. N-1 : \E j \in Nat :
            /\ ToCome(i, j) /\ Place(k) = <<Nth(iter.base, i), flash[Nth(iter.base, i)].kvs[j].addr>>
            /\ Readable(flash[Nth(iter.base, i)].kvs[j], k)
<1>1. Place(k) # <<>> /\ iter.base \in Sector /\ N \in Nat
  BY GeometryAssumption DEF TrackOK, IterType
<1>2. PICK s \in Sector : \E j \in DOMAIN flash[s].kvs :
            /\ Place(k) = <<s, flash[s].kvs[j].addr>>
            /\ s \in InUse(flash) /\ Readable(flash[s].kvs[j], k)
  BY <1>1, PlaceIs DEF Known
<1>3. PICK j \in DOMAIN flash[s].kvs :
            /\ Place(k) = <<s, flash[s].kvs[j].addr>>
            /\ s \in InUse(flash) /\ Readable(flash[s].kvs[j], k)
  BY <1>2
<1>4. PICK i \in Sector : Nth(iter.base, i) = s
  BY <1>1, NthOnto
<1>5. i \in 0 .. N-1
  BY DEF Sector
<1>6. Beyond(i, flash[s].kvs[j].addr)
  BY <1>3, <1>4, <1>5 DEF TrackOK
<1>7. j \in Nat
  <2>1. flash[s] \in SectorImage
    BY TInvParts DEF Known
  <2> QED BY <2>1 DEF SectorImage
<1>8. ToCome(i, j)
  BY <1>3, <1>4, <1>6 DEF ToCome, Reports, Readable
<1> QED BY <1>3, <1>4, <1>5, <1>7, <1>8

\* What is reported is the live node of a key.
LEMMA ReportedNow ==
  ASSUME Known, IterType, NEW i \in 0 .. N-1, NEW j \in Nat, ToCome(i, j),
         NEW s, s = Nth(iter.base, i), NEW kv, kv = flash[s].kvs[j]
  PROVE  /\ s \in Sector /\ j \in DOMAIN flash[s].kvs /\ kv.key \in Keys
         /\ kv.addr \in Nat /\ kv.len \in Nat /\ kv.len > 0
         /\ Readable(kv, kv.key) /\ Place(kv.key) = <<s, kv.addr>>
<1>1. s \in Sector /\ j \in DOMAIN flash[s].kvs /\ Reports(kv)
  <2>1. iter.base \in Sector /\ i \in Nat
    BY GeometryAssumption DEF IterType
  <2> QED BY <2>1, NthType DEF ToCome
<1>2. flash[s] \in SectorImage
  BY <1>1, TInvParts DEF Known
<1>3. kv \in KvNode
  BY <1>1, <1>2, NodeType
<1>4. kv.addr \in Nat /\ kv.len \in Nat
  BY <1>3 DEF KvNode
<1>5. Stored(kv.key, kv.val)
  BY <1>1, TInvParts DEF Known, FlashOK, NodesNamed, Reports
<1>6. kv.len = kv_len(kv.key, kv.val)
  BY <1>1 DEF Known, LInv, LensOK, HasKvLen, Reports
<1>7. kv.len > 0
  BY <1>5, <1>6, LengthAssumption DEF Stored, kv_len, KV_HDR_DATA_SIZE
<1>8. Readable(kv, kv.key)
  BY <1>1 DEF Reports, Readable
<1>9. Place(kv.key) = <<s, kv.addr>>
  BY <1>1, <1>8, LivePlace
<1> QED BY <1>1, <1>4, <1>5, <1>7, <1>8, <1>9 DEF Stored

----------------------------------------------------------------------------
(* The invariant *)

LEMMA NewIteratorTracks ==
  ASSUME TInv, NewIterator
  PROVE  IterType' /\ TrackOK'
<1>1. oldest \in Sector /\ N \in Nat /\ 0 \in 0 .. N-1
  BY TInvParts, GeometryAssumption DEF RamOK
<1>2. iter' = [base |-> oldest, step |-> 0, resume |-> 0, more |-> TRUE]
  BY DEF NewIterator, iterator
<1>3. entry' = [k \in Keys |-> IF Place(k) # <<>> THEN "Due" ELSE "Changed"]
  BY DEF NewIterator
<1>4. IterType'
  BY <1>1, <1>2, <1>3 DEF IterType
<1>5. ASSUME NEW k \in Keys, entry'[k] # "Changed"
      PROVE  /\ Place(k)' # <<>>
             /\ \A i \in 0 .. N-1 : Nth(iter'.base, i) = Place(k)'[1] =>
                   (entry'[k] = "Due" <=> Beyond(i, Place(k)[2])')
  <2>1. Place(k) # <<>> /\ entry'[k] = "Due"
    BY <1>3, <1>5
  <2>2. Place(k)' = Place(k)
    BY DEF NewIterator, vars, ram, Place
  <2>3. PICK s \in Sector : \E j \in DOMAIN flash[s].kvs : Place(k) = <<s, flash[s].kvs[j].addr>>
    BY <2>1, PlaceIs
  <2>4. PICK j \in DOMAIN flash[s].kvs : Place(k) = <<s, flash[s].kvs[j].addr>>
    BY <2>3
  <2>5. flash[s].kvs[j].addr \in Nat
    <3>1. flash[s] \in SectorImage
      BY TInvParts
    <3> QED BY <3>1, NodeType DEF KvNode
  <2>6. \A i \in 0 .. N-1 : Beyond(i, Place(k)[2])'
    BY <1>2, <2>2, <2>4, <2>5 DEF Beyond
  <2> QED BY <2>1, <2>2, <2>6
<1> QED BY <1>4, <1>5 DEF TrackOK

LEMMA IterateTracks ==
  ASSUME Known, IterType, TrackOK, Iterate
  PROVE  /\ IterType' /\ TrackOK'
         /\ entry[current(flash, iter).key] # "Reported"
         /\ current(flash, iter).val = Get(current(flash, iter).key)
<1> DEFINE kv == current(flash, iter)
<1>1. /\ TInv /\ iterate(flash, iter).more /\ iter' = iterate(flash, iter)
      /\ entry' = [entry EXCEPT ![kv.key] = IF @ = "Due" THEN "Reported" ELSE @]
      /\ UNCHANGED vars
  BY DEF Known, Iterate
<1>2. PICK i \in 0 .. N-1 : \E j \in Nat :
            /\ ToCome(i, j) /\ kv = flash[Nth(iter.base, i)].kvs[j]
            /\ iter' = [iter EXCEPT !.step = i, !.resume = kv.addr + kv.len]
            /\ \A m \in 0 .. N-1, l \in Nat : ToCome(m, l) => i < m \/ (i = m /\ j <= l)
  BY <1>1, NextIsThere
<1>3. PICK j \in Nat :
            /\ ToCome(i, j) /\ kv = flash[Nth(iter.base, i)].kvs[j]
            /\ iter' = [iter EXCEPT !.step = i, !.resume = kv.addr + kv.len]
            /\ \A m \in 0 .. N-1, l \in Nat : ToCome(m, l) => i < m \/ (i = m /\ j <= l)
  BY <1>2
<1> HIDE DEF kv
<1>4. PICK s : s = Nth(iter.base, i)
  OBVIOUS
<1>5. /\ s \in Sector /\ j \in DOMAIN flash[s].kvs /\ kv.key \in Keys
      /\ kv.addr \in Nat /\ kv.len \in Nat /\ kv.len > 0
      /\ Readable(kv, kv.key) /\ Place(kv.key) = <<s, kv.addr>>
  BY <1>3, <1>4, ReportedNow
<1>6. /\ iter \in [base: Sector, step: 0 .. N-1, resume: Nat, more: BOOLEAN]
      /\ entry \in [Keys -> {"Changed", "Due", "Reported"}] /\ N \in Nat
  BY GeometryAssumption DEF IterType
<1>7. iter'.base = iter.base /\ iter'.step = i /\ iter'.resume = kv.addr + kv.len /\ iter'.more = iter.more
  BY <1>3, <1>6
<1>8. IterType'
  <2>1. iter' \in [base: Sector, step: 0 .. N-1, resume: Nat, more: BOOLEAN]
    <3>1. kv.addr + kv.len \in Nat
      BY <1>5
    <3>2. iter.base \in Sector /\ iter.more \in BOOLEAN
      BY <1>6
    <3>3. iter' = [base |-> iter.base, step |-> i, resume |-> kv.addr + kv.len, more |-> iter.more]
      BY <1>3, <1>6
    <3> QED BY <3>1, <3>2, <3>3
  <2>2. entry' \in [Keys -> {"Changed", "Due", "Reported"}]
    BY <1>1, <1>6
  <2> QED BY <2>1, <2>2 DEF IterType
<1>9. Beyond(i, kv.addr) /\ (i > iter.step \/ (i = iter.step /\ kv.addr >= iter.resume))
  BY <1>3 DEF ToCome, Beyond
<1>10. entry[kv.key] # "Reported"
  <2> SUFFICES ASSUME entry[kv.key] = "Reported" PROVE FALSE
    OBVIOUS
  <2>1. Nth(iter.base, i) = Place(kv.key)[1] /\ Place(kv.key)[2] = kv.addr
    BY <1>4, <1>5
  <2>2. ~Beyond(i, kv.addr)
    BY <1>5, <2>1 DEF TrackOK
  <2> QED BY <1>9, <2>2
<1>11. kv.val = Get(kv.key)
  <2> DEFINE f == find_kv(flash, oldest, kv.key)
  <2>1. f.found
    BY <1>5 DEF Place
  <2>2. PICK d \in Cells : At(d, f) /\ d.live /\ d.key = kv.key
    BY <2>1, FindCell
  <2>3. d.val = flash[f.sec].kvs[f.idx].val
    BY <2>2, CellIs DEF At
  <2>4. <<s, j>> \in Nodes /\ Node(<<s, j>>) = kv
    BY <1>3, <1>4, <1>5, NodeIs DEF Node
  <2>5. PICK p \in Nodes : p = <<s, j>> /\ Readable(Node(p), kv.key)
    BY <1>5, <2>4
  <2>6. PICK c \in Cells : c.sec = s /\ c.idx = j /\ c.key = kv.key /\ c.live
    BY <2>5, LiveCell
  <2>7. c = d
    BY <2>2, <2>6 DEF Known, NodesOK, OneEach
  <2>8. c.val = kv.val
    BY <1>3, <1>4, <2>6, CellIs
  <2> QED BY <2>1, <2>3, <2>7, <2>8 DEF Get
<1>12. ASSUME NEW k \in Keys, entry'[k] # "Changed"
       PROVE  /\ Place(k)' # <<>>
              /\ \A m \in 0 .. N-1 : Nth(iter'.base, m) = Place(k)'[1] =>
                    (entry'[k] = "Due" <=> Beyond(m, Place(k)[2])')
  <2>1. Place(k)' = Place(k)
    BY <1>1 DEF vars, ram, Place
  <2>2. /\ entry[k] # "Changed" /\ (k # kv.key => entry'[k] = entry[k])
        /\ k = kv.key => entry'[k] # "Due"
    BY <1>1, <1>5, <1>6, <1>12
  <2>3. Place(k) # <<>>
    BY <2>2 DEF TrackOK
  <2>4. PICK t \in Sector : \E l \in DOMAIN flash[t].kvs : Place(k) = <<t, flash[t].kvs[l].addr>>
    BY <1>1, <2>3, PlaceIs
  <2>5. PICK l \in DOMAIN flash[t].kvs : Place(k) = <<t, flash[t].kvs[l].addr>>
    BY <2>4
  <2>6. PICK a \in Nat : a = flash[t].kvs[l].addr
    <3>1. flash[t] \in SectorImage
      BY <1>1, TInvParts
    <3>2. flash[t].kvs[l].addr \in Nat
      BY <3>1, NodeType DEF KvNode
    <3> QED BY <3>2
  <2>7. ASSUME NEW m \in 0 .. N-1, Nth(iter.base, m) = t
        PROVE  entry'[k] = "Due" <=> m > i \/ (m = i /\ a >= kv.addr + kv.len)
    <3>1. entry[k] = "Due" <=> m > iter.step \/ (m = iter.step /\ a >= iter.resume)
      BY <2>2, <2>5, <2>6, <2>7 DEF TrackOK, Beyond
    <3>2. CASE k = kv.key
      <4>1. t = s /\ a = kv.addr
        BY <1>5, <2>5, <2>6, <3>2
      <4>2. m = i
        BY <1>4, <1>6, <2>7, <4>1, NthOnce
      <4> QED BY <1>5, <2>2, <3>2, <4>1, <4>2
    <3>3. CASE k # kv.key /\ entry[k] = "Due"
      <4>1. PICK e \in 0 .. N-1 : \E q \in Nat :
                /\ ToCome(e, q) /\ Place(k) = <<Nth(iter.base, e), flash[Nth(iter.base, e)].kvs[q].addr>>
                /\ Readable(flash[Nth(iter.base, e)].kvs[q], k)
        BY <3>3, DueToCome
      <4>2. PICK q \in Nat :
                /\ ToCome(e, q) /\ Place(k) = <<Nth(iter.base, e), flash[Nth(iter.base, e)].kvs[q].addr>>
                /\ Readable(flash[Nth(iter.base, e)].kvs[q], k)
        BY <4>1
      <4>3. e = m /\ flash[t].kvs[q].addr = a /\ q \in DOMAIN flash[t].kvs /\ flash[t].kvs[q].key = k
        BY <1>6, <2>5, <2>6, <2>7, <4>2, NthOnce DEF ToCome, Readable
      <4>4. i < m \/ (i = m /\ j <= q)
        BY <1>3, <4>2, <4>3
      <4>5. i = m => a >= kv.addr + kv.len
        <5> SUFFICES ASSUME i = m PROVE a >= kv.addr + kv.len
          OBVIOUS
        <5>1. t = s /\ kv = flash[s].kvs[j]
          BY <1>3, <1>4, <2>7
        <5>2. q # j
          BY <1>5, <3>3, <4>3, <5>1 DEF Readable
        <5>3. q > j
          BY <4>4, <5>2
        <5>4. flash[s] \in SectorImage /\ SectorLogOK(flash[s])
          BY <1>1, <1>5, TInvParts DEF Known, LInv, LogOK
        <5> QED BY <1>5, <4>3, <5>1, <5>3, <5>4, NodesApart
      <4> QED BY <2>2, <3>3, <4>4, <4>5
    <3>4. CASE k # kv.key /\ entry[k] # "Due"
      <4>1. entry'[k] # "Due" /\ ~ (m > iter.step \/ (m = iter.step /\ a >= iter.resume))
        BY <2>2, <3>1, <3>4
      <4> QED BY <1>5, <1>6, <1>9, <2>6, <4>1
    <3> QED BY <3>2, <3>3, <3>4
  <2> QED BY <1>7, <2>1, <2>3, <2>5, <2>6, <2>7 DEF Beyond
<1>13. TrackOK'
  BY <1>12 DEF TrackOK
<1> QED BY <1>8, <1>10, <1>11, <1>13 DEF kv

LEMMA UntrackedTracks ==
  ASSUME iter' = NoIter, entry' = Untracked
  PROVE  IterType' /\ TrackOK'
<1>1. iter' = [base |-> 0, step |-> 0, resume |-> 0, more |-> FALSE]
  BY DEF NoIter, iterator
<1>2. entry' = [k \in Keys |-> "Changed"]
  BY DEF Untracked
<1> QED BY <1>1, <1>2, GeometryAssumption DEF IterType, TrackOK, Sector

LEMMA OtherTracks ==
  ASSUME IterType, TrackOK, Other
  PROVE  IterType' /\ TrackOK'
<1>1. CASE entry' = Untracked
  <2>1. iter' = NoIter
    BY <1>1 DEF Other
  <2> QED BY <1>1, <2>1, UntrackedTracks
<1>2. CASE entry' # Untracked
  <2>1. iter' = iter
    BY <1>2 DEF Other
  <2>2. ASSUME NEW k \in Keys
        PROVE  entry'[k] = "Changed" \/ (entry'[k] = entry[k] /\ Place(k)' = Place(k))
    <3>1. CASE UNCHANGED <<flash, oldest>> \/ entry = Untracked
      <4>1. entry' = entry
        BY <1>2, <3>1 DEF Other
      <4>2. CASE UNCHANGED <<flash, oldest>>
        BY <4>1, <4>2 DEF Place
      <4>3. CASE entry = Untracked
        BY <4>1, <4>3 DEF Untracked
      <4> QED BY <3>1, <4>2, <4>3
    <3>2. CASE ~ (UNCHANGED <<flash, oldest>> \/ entry = Untracked)
      <4>1. entry' = [x \in Keys |-> IF Place(x)' = Place(x) THEN entry[x] ELSE "Changed"]
        BY <1>2, <3>2 DEF Other
      <4> QED BY <4>1
    <3> QED BY <3>1, <3>2
  <2>3. entry' \in [Keys -> {"Changed", "Due", "Reported"}]
    <3>1. entry' = entry \/ entry' = [x \in Keys |-> IF Place(x)' = Place(x) THEN entry[x] ELSE "Changed"]
      BY <1>2 DEF Other
    <3> QED BY <3>1 DEF IterType
  <2>4. ASSUME NEW k \in Keys, entry'[k] # "Changed"
        PROVE  /\ Place(k)' # <<>>
               /\ \A i \in 0 .. N-1 : Nth(iter'.base, i) = Place(k)'[1] =>
                     (entry'[k] = "Due" <=> Beyond(i, Place(k)[2])')
    <3>1. entry'[k] = entry[k] /\ Place(k)' = Place(k)
      BY <2>2, <2>4
    <3> QED BY <2>1, <2>4, <3>1 DEF TrackOK, Beyond
  <2> QED BY <2>1, <2>3, <2>4 DEF IterType, TrackOK
<1> QED BY <1>1, <1>2

LEMMA IterInvNext ==
  ASSUME NoFailure, IterInv, [IterNext]_ivars
  PROVE  IterInv'
<1>1. AllInv'
  <2>1. [Next]_vars
    BY DEF IterNext, NewIterator, Iterate, IterateEnd, Other, ivars
  <2> QED BY <2>1, AllNext DEF IterInv
<1>2. Known /\ TInv
  BY NowKnown DEF IterInv, AllInv
<1>3. CASE NewIterator
  BY <1>1, <1>2, <1>3, NewIteratorTracks DEF IterInv
<1>4. CASE Iterate
  BY <1>1, <1>2, <1>4, IterateTracks DEF IterInv
<1>5. CASE IterateEnd
  BY <1>1, <1>5, UntrackedTracks DEF IterInv, IterateEnd
<1>6. CASE Other
  BY <1>1, <1>6, OtherTracks DEF IterInv
<1>7. CASE UNCHANGED ivars
  <2>1. \A k : Place(k)' = Place(k)
    BY <1>7 DEF ivars, vars, ram, Place
  <2> QED BY <1>1, <1>7, <2>1 DEF IterInv, IterType, TrackOK, Beyond, ivars
<1> QED BY <1>3, <1>4, <1>5, <1>6, <1>7 DEF IterNext

LEMMA IterInvInit ==
  ASSUME IterInit, AllInv
  PROVE  IterInv
<1>1. iter = [base |-> 0, step |-> 0, resume |-> 0, more |-> FALSE]
  BY DEF IterInit, NoIter, iterator
<1>2. entry = [k \in Keys |-> "Changed"]
  BY DEF IterInit, Untracked
<1> QED BY <1>1, <1>2, GeometryAssumption DEF IterInv, IterType, TrackOK, Sector

LEMMA IterAlways == NoFailure => (IterSpec => []IterInv)
<1> SUFFICES ASSUME NoFailure PROVE IterSpec => []IterInv
  OBVIOUS
<1>1. IterInit => IterInv
  BY IterInvInit, AllInit DEF IterInit
<1>2. IterInv /\ [IterNext]_ivars => IterInv'
  BY IterInvNext
<1> QED BY <1>1, <1>2, PTL DEF IterSpec

\* Where nothing fails an iterator reports every entry that is neither set, nor deleted, nor
\* moved while it is in use exactly once, whatever the calls between two calls of iterate do
\* to the other entries and to the node it reported last.
THEOREM EntriesOnce == NoFailure => (IterSpec => EveryEntryOnce)
<1> SUFFICES ASSUME NoFailure PROVE IterSpec => EveryEntryOnce
  OBVIOUS
<1>1. IterInv => /\ Iterate => entry[current(flash, iter).key] # "Reported"
                 /\ IterateEnd => \A k \in Keys : entry[k] # "Due"
  <2> SUFFICES ASSUME IterInv
               PROVE  /\ Iterate => entry[current(flash, iter).key] # "Reported"
                      /\ IterateEnd => \A k \in Keys : entry[k] # "Due"
    OBVIOUS
  <2>1. Known /\ IterType /\ TrackOK
    BY NowKnown DEF IterInv
  <2>2. Iterate => entry[current(flash, iter).key] # "Reported"
    BY <2>1, IterateTracks
  <2>3. ASSUME IterateEnd, NEW k \in Keys, entry[k] = "Due" PROVE FALSE
    <3>1. iter.more /\ ~iterate(flash, iter).more
      BY <2>3 DEF IterateEnd
    <3>2. \A m \in 0 .. N-1 : \A l : ~ToCome(m, l)
      BY <2>1, <3>1, NothingToCome
    <3> QED BY <2>1, <2>3, <3>2, DueToCome
  <2> QED BY <2>2, <2>3
<1> QED BY <1>1, IterAlways, PTL DEF EveryEntryOnce

\* Where nothing fails an iterator reports for every key what get returns at that time, never
\* an older value.
THEOREM NothingStale == NoFailure => (IterSpec => ReportsCurrent)
<1> SUFFICES ASSUME NoFailure PROVE IterSpec => ReportsCurrent
  OBVIOUS
<1>1. IterInv => (Iterate => current(flash, iter).val = Get(current(flash, iter).key))
  <2> SUFFICES ASSUME IterInv, Iterate
               PROVE  current(flash, iter).val = Get(current(flash, iter).key)
    OBVIOUS
  <2>1. Known /\ IterType /\ TrackOK
    BY NowKnown DEF IterInv
  <2> QED BY <2>1, IterateTracks
<1>2. (Iterate => current(flash, iter).val = Get(current(flash, iter).key)) =>
         (Iterate => LET kv == current(flash, iter) IN kv.val = Get(kv.key))
  OBVIOUS
<1> QED BY <1>1, <1>2, IterAlways, PTL DEF ReportsCurrent

----------------------------------------------------------------------------
(* The marks of a collection *)

\* A collection that kv_load begins again visits every dirty sector that is left.
FullWalk == local.gc.ret = "LoadGc" /\ local.gc.free = N * SecSize
RestOfWalk(j) == IF FullWalk THEN {Nth(local.gc.from, i) : i \in j .. N-1} ELSE {}

\* From the mark of a sector to the decision whether the next one is collected.
OneSector(label, l) == \/ Collecting(label, l) \/ label = "GcFormatted"
                       \/ FmtFor(label, l, "GcFormatted")

\* Where there are marks: without power and until kv_load has come to them, while the
\* sector is collected, and in front of set_default.
MarksAhead ==
    LET M == Marked(flash)
        gc == local.gc
    IN  /\ \/ pc \in {"Off", "GcStart", "GcSector", "LoadGc"} \/ HeaderWalk(pc, local)
           \/ OneSector(pc, local) \/ Wiping(pc, local)
        /\ pc = "GcStart" => FullWalk
        /\ pc = "GcSector" => M \subseteq RestOfWalk(gc.i)
        /\ OneSector(pc, local) => M \subseteq {gc.sec} \cup RestOfWalk(gc.i + 1)
        /\ FmtFor(pc, local, "GcFormatted") => local.fmt.sec = gc.sec
        /\ pc = "FmtHdr" => local.fmt.sec \notin M
        /\ pc = "GcFormatted" => gc.sec \notin M
        /\ pc = "LoadGc" => M \subseteq {Nth(local.load.from, i) : i \in local.load.i .. N-1}
        /\ pc = "DefFormat" => \A s \in M : s >= local.def.i
        /\ FmtFor(pc, local, "DefFormat") => /\ local.fmt.sec = local.def.i - 1
                                             /\ \A s \in M : s >= local.def.i - 1

\* No step but the mark of the next sector adds one, and formatting a sector removes it.
LEMMA MarksShrink ==
  ASSUME TInv, LInv, DirtyOf, Clean, ~GcSector(TRUE)
  PROVE  /\ Marked(flash') \subseteq Marked(flash)
         /\ FmtErase(TRUE) \/ FmtHdr(TRUE) => local.fmt.sec \notin Marked(flash')
<1>1. ~Erased.ok /\ Formatted.dirty = "False"
  BY DEF Erased, Formatted
<1>2. ASSUME NEW t \in Marked(flash') PROVE t \in Marked(flash)
  <2>1. t \in Sector /\ flash'[t].ok /\ flash'[t].dirty = "Gc"
    BY <1>2 DEF Marked
  <2>2. HeaderChange(t)
    BY <2>1, HeaderMoves
  <2> QED BY <1>1, <2>1, <2>2 DEF HeaderChange, SameHeader, MarkOnly, Marked
<1>3. ASSUME NEW image, Program(local.fmt.sec, image, TRUE), image \in {Erased, Formatted}
      PROVE  local.fmt.sec \notin Marked(flash')
  <2>1. FlashOK /\ local.fmt.sec \in Sector
    BY TInvParts, FrameTypes DEF FmtFrame
  <2>2. flash'[local.fmt.sec] = image
    BY <1>3, <2>1, ProgramFlash
  <2> QED BY <1>1, <1>3, <2>2 DEF Marked
<1>4. FmtErase(TRUE) \/ FmtHdr(TRUE) => local.fmt.sec \notin Marked(flash')
  BY <1>3 DEF FmtErase, FmtHdr
<1> QED BY <1>2, <1>4

\* The walk that collects one sector.
SameWalk == /\ local'.gc.sec = local.gc.sec /\ local'.gc.i = local.gc.i
            /\ local'.gc.from = local.gc.from /\ local'.gc.free = local.gc.free
            /\ local'.gc.ret = local.gc.ret

\* move_kv is called and returns within it ...
LEMMA MoveBegins ==
  ASSUME TInv, GcNode
  PROVE  SameWalk /\ Collecting(pc', local')
<1> DEFINE l(j) == [local EXCEPT !.gc.idx = j]
<1>1. PICK j : j = Least(GcNodes)
  OBVIOUS
<1>2. j \in Nat /\ local \in Local /\ local.gc \in GcFrame
  BY <1>1, GcNodesOK, TInvParts, FrameTypes DEF GcNode
<1>3. MvCall(l(j), local.gc.sec, j, "GcNode")
  BY <1>1 DEF GcNode
<1>4. /\ l(j) \in Local /\ l(j).gc.sec = local.gc.sec /\ l(j).gc.i = local.gc.i
      /\ l(j).gc.from = local.gc.from /\ l(j).gc.free = local.gc.free
      /\ l(j).gc.ret = local.gc.ret
  BY <1>2 DEF Local, GcFrame
<1> HIDE DEF l
<1>5. local'.gc = l(j).gc
  <2> DEFINE n == flash[local.gc.sec].kvs[j]
             p == [found |-> TRUE, sec |-> local.gc.sec, idx |-> j]
             x == [ptr |-> p, key |-> n.key, val |-> n.val, len |-> n.len,
                   pre |-> n.status = "PreDelete", ok |-> FALSE, ret |-> "GcNode"]
             m == [l(j) EXCEPT !.mv = x]
             d == [m EXCEPT !.del = [ptr |-> p, complete |-> FALSE, ret |-> "MvAlloc"]]
  <2>1. m.gc = l(j).gc /\ d.gc = l(j).gc
    BY <1>4 DEF Local
  <2>2. local' = d \/ local' = m
    BY <1>3 DEF MvCall, DelCall, Goto
  <2> HIDE DEF m, d
  <2> QED BY <2>1, <2>2
<1>6. /\ local'.mv.ret = "GcNode"
      /\ pc' = "MvAlloc" \/ (pc' = "DelStatus" /\ local'.del.ret = "MvAlloc")
  BY <1>3, <1>4, MvCallIs
<1> QED BY <1>4, <1>5, <1>6 DEF SameWalk, Collecting, Moving, DelPcs

LEMMA MoveFinds ==
  ASSUME TInv, MvAlloc, local.mv.ret = "GcNode"
  PROVE  SameWalk /\ Collecting(pc', local')
<1> DEFINE mv == local.mv
<1>1. PICK a : a = alloc_kv(flash, oldest, gcRequest, mv.len)
  OBVIOUS
<1> DEFINE put == [sec |-> a.sec, addr |-> empty_kv(flash[a.sec]), key |-> mv.key,
                   val |-> mv.val, full |-> FALSE, ret |-> "MvReturn"]
           x == [ptr |-> mv.ptr, complete |-> TRUE, ret |-> "MvReturn"]
           m == [[local EXCEPT !.mv.ok = TRUE] EXCEPT !.del = x]
           n == [local EXCEPT !.put = put]
           h == [local EXCEPT !.mv = NoLocal.mv]
<1>2. local \in Local /\ mv \in MvFrame
  BY TInvParts, FrameTypes
<1>3. \/ pc' = "GcNode" /\ local' = h
      \/ pc' = "DelStatus" /\ local' = m
      \/ pc' = "PutSec" /\ local' = n
  <2> HIDE DEF m, n, h
  <2> QED BY <1>1 DEF MvAlloc, MvReturn, DelCall, Goto, m, n, h
<1>4. /\ m.gc = local.gc /\ m.mv.ret = mv.ret /\ m.del.ret = "MvReturn"
      /\ n.gc = local.gc /\ n.mv = mv /\ n.put.ret = "MvReturn" /\ h.gc = local.gc
  BY <1>2 DEF Local, MvFrame
<1> HIDE DEF m, n, h
<1> QED BY <1>3, <1>4 DEF SameWalk, Collecting, Moving, DelPcs, PutPcs

\* ... and the sector is erased behind its last node.
LEMMA WalkStays ==
  ASSUME TInv, Clean, Collecting(pc, local)
  PROVE  /\ SameWalk
         /\ \/ Collecting(pc', local')
            \/ FmtFor(pc', local', "GcFormatted") /\ pc' = "FmtErase"
               /\ local'.fmt.sec = local.gc.sec
<1>1. local \in Local /\ (local'.gc = local.gc => SameWalk)
  BY TInvParts DEF SameWalk
<1>2. CASE pc = "GcNode"
  <2>1. CASE GcErase
    <3>1. FmtCall(local, local.gc.sec, "GcFormatted")
      BY <2>1 DEF GcErase
    <3>2. local'.gc = local.gc
      BY <1>1, <3>1, FrameChange DEF FmtCall, Goto
    <3> QED BY <1>1, <3>1, <3>2, FmtCallIs DEF FmtFor
  <2> QED BY <1>2, <2>1, CleanPc, MoveBegins
<1>3. CASE Moving(pc, local)
  <2>1. local.mv.ret = "GcNode"
    BY <1>3 DEF Moving
  <2>2. CASE pc = "MvAlloc"
    BY <2>1, <2>2, CleanPc, MoveFinds
  <2>3. CASE pc \in DelPcs /\ local.del.ret \in {"MvAlloc", "MvReturn"}
    <3>1. CASE DelStatus(TRUE)
      BY <1>1, <2>1, <2>3, <3>1, DelStatusIs DEF Collecting, Moving, DelPcs
    <3>2. CASE DelDirty(TRUE)
      BY <1>1, <2>1, <2>3, <3>2, DelDirtyIs DEF Collecting, Moving
    <3> QED BY <2>3, <3>1, <3>2, CleanPc
  <2>4. CASE pc \in PutPcs /\ local.put.ret = "MvReturn"
    <3>1. CASE PutSec(TRUE) \/ PutStatus(TRUE) \/ PutHdr(TRUE) \/ PutBody(TRUE)
      BY <1>1, <2>1, <2>4, <3>1, WriteIs DEF Collecting, Moving, PutPcs
    <3>2. CASE PutCommit(TRUE)
      <4>1. /\ pc' = "DelStatus" /\ local'.gc = local.gc
            /\ local'.del = [ptr |-> local.mv.ptr, complete |-> TRUE, ret |-> "MvReturn"]
            /\ local'.mv = [local.mv EXCEPT !.ok = TRUE]
        BY <2>4, <3>2, PutCommitIs
      <4>2. local'.del.ret = "MvReturn"
        BY <4>1
      <4>3. local'.mv.ret = "GcNode"
        BY <1>1, <2>1, <4>1, FrameTypes DEF MvFrame
      <4> QED BY <1>1, <4>1, <4>2, <4>3 DEF Collecting, Moving, DelPcs
    <3> QED BY <2>4, <3>1, <3>2, CleanPc
  <2> QED BY <1>3, <2>2, <2>3, <2>4 DEF Moving
<1> QED BY <1>2, <1>3 DEF Collecting

\* Nothing is claimed without power and while the headers are read.
LEMMA MarksFree ==
  ASSUME \/ pc' = "Off" \/ pc' = "LoadHdr"
         \/ pc' = "FmtErase" /\ local'.fmt.ret = "LoadHdr"
  PROVE  MarksAhead'
BY DEF MarksAhead, HeaderWalk, OneSector, Collecting, Moving, Wiping, FmtFor, DelPcs, PutPcs

\* Within a walk the marks stay where they are.
LEMMA MarksWalk ==
  ASSUME SameWalk, OneSector(pc', local'),
         Marked(flash') \subseteq {local.gc.sec} \cup RestOfWalk(local.gc.i + 1),
         FmtFor(pc', local', "GcFormatted") => local'.fmt.sec = local.gc.sec,
         pc' = "FmtHdr" \/ pc' = "GcFormatted" => local.gc.sec \notin Marked(flash'),
         pc' = "FmtHdr" => FmtFor(pc', local', "GcFormatted")
  PROVE  MarksAhead'
<1>1. RestOfWalk(local.gc.i + 1)' = RestOfWalk(local.gc.i + 1) /\ local'.gc.sec = local.gc.sec
  BY DEF SameWalk, RestOfWalk, FullWalk
<1>2. Marked(flash)' \subseteq {local'.gc.sec} \cup RestOfWalk(local.gc.i + 1)'
  BY <1>1 DEF Marked
<1>3. Marked(flash)' = Marked(flash')
  BY DEF Marked
<1>4. /\ pc' \notin {"GcStart", "GcSector", "LoadGc", "DefFormat"}
      /\ ~FmtFor(pc', local', "DefFormat")
  BY DEF OneSector, Collecting, Moving, FmtFor, DelPcs, PutPcs
<1> QED BY <1>1, <1>2, <1>3, <1>4 DEF MarksAhead

\* A sector is collected, ...
LEMMA MarksCollect ==
  ASSUME TInv, Clean, Collecting(pc, local), MarksAhead, Marked(flash') \subseteq Marked(flash)
  PROVE  MarksAhead'
<1>1. Marked(flash') \subseteq {local.gc.sec} \cup RestOfWalk(local.gc.i + 1)
  BY DEF MarksAhead, OneSector
<1>2. CASE Collecting(pc', local')
  <2>1. pc' \notin {"FmtErase", "FmtHdr", "GcFormatted"}
    BY <1>2 DEF Collecting, Moving, DelPcs, PutPcs
  <2> QED BY <1>1, <1>2, <2>1, WalkStays, MarksWalk DEF OneSector, FmtFor
<1>3. CASE /\ FmtFor(pc', local', "GcFormatted") /\ pc' = "FmtErase"
           /\ local'.fmt.sec = local.gc.sec
  BY <1>1, <1>3, WalkStays, MarksWalk DEF OneSector
<1> QED BY <1>2, <1>3, WalkStays

\* ... formatted, and the next one is chosen: with so much to be freed the walk goes on.
LEMMA MarksFmt ==
  ASSUME TInv, MarksAhead, FmtFor(pc, local, "GcFormatted"), FmtErase(TRUE) \/ FmtHdr(TRUE),
         Marked(flash') \subseteq Marked(flash), local.fmt.sec \notin Marked(flash')
  PROVE  MarksAhead'
<1>1. /\ Marked(flash') \subseteq {local.gc.sec} \cup RestOfWalk(local.gc.i + 1)
      /\ local.gc.sec \notin Marked(flash')
  BY DEF MarksAhead, OneSector
<1>2. SameWalk
  BY FmtIs DEF SameWalk
<1>3. \/ FmtFor(pc', local', "GcFormatted") /\ local'.fmt.sec = local.gc.sec
      \/ pc' = "GcFormatted"
  <2>1. local.fmt.ret = "GcFormatted" /\ local.fmt.sec = local.gc.sec
    BY DEF MarksAhead, FmtFor
  <2> QED BY <2>1, FmtIs DEF FmtFor
<1> QED BY <1>1, <1>2, <1>3, MarksWalk DEF OneSector, FmtFor

LEMMA RemainRoom == ASSUME NEW sec \in SectorImage PROVE remain(sec) <= SecSize
BY EmptyKvType, GeometryType DEF remain

LEMMA MarksNextSector ==
  ASSUME TInv, N = 2, MarksAhead, GcFormatted, Marked(flash') # {}
  PROVE  MarksAhead'
<1> DEFINE gc == local.gc
           l == [local EXCEPT !.gc.i = gc.i + 1, !.gc.last = gc.sec, !.gc.sec = 0, !.gc.idx = 0]
<1>1. local \in Local /\ gc \in GcFrame /\ flash[gc.last] \in SectorImage
  BY TInvParts, FrameTypes DEF GcFrame
<1>2. pc = "GcFormatted" /\ flash' = flash
  BY DEF GcFormatted, NoCall
<1>3. Marked(flash) \subseteq RestOfWalk(gc.i + 1) /\ FullWalk
  BY <1>2 DEF MarksAhead, OneSector, RestOfWalk
<1>4. ~(remain(flash[gc.last]) > gc.free)
  <2>1. remain(flash[gc.last]) \in Int /\ remain(flash[gc.last]) <= SecSize
    BY <1>1, RemainType, RemainRoom
  <2> QED BY <1>3, <2>1, GeometryType DEF FullWalk
<1>5. pc' = "GcSector" /\ local' = l
  BY <1>4 DEF GcFormatted, Goto
<1>6. /\ l.gc.i = gc.i + 1 /\ l.gc.from = gc.from /\ l.gc.ret = gc.ret
      /\ l.gc.free = gc.free
  BY <1>1 DEF Local, GcFrame
<1> HIDE DEF l
<1>7. Marked(flash)' \subseteq RestOfWalk(local.gc.i)'
  BY <1>2, <1>3, <1>5, <1>6 DEF Marked, RestOfWalk, FullWalk
<1> QED BY <1>5, <1>7
        DEF MarksAhead, OneSector, Collecting, Moving, FmtFor, DelPcs, PutPcs

\* The walk marks the next sector: those that were marked before it are still ahead.
LEMMA MarksSector ==
  ASSUME TInv, LInv, Clean, GcSector(TRUE), Marked(flash) # {} => MarksAhead
  PROVE  MarksAhead'
<1> DEFINE i == Least(GcAhead)
           s == Nth(local.gc.from, i)
           m == [local EXCEPT !.gc.i = i, !.gc.sec = s, !.gc.idx = 0]
<1>1. local \in Local /\ local.gc \in GcFrame /\ N \in Nat /\ FlashOK
  BY TInvParts, FrameTypes, GeometryType
<1>2. /\ pc = "GcSector" /\ pc' = "GcNode" /\ local' = m /\ s \in Sector
      /\ Program(s, [flash[s] EXCEPT !.dirty = "Gc"], TRUE)
  BY GcSectorIs DEF GcSector, Goto
<1>3. /\ GcAhead \subseteq Nat /\ i \in GcAhead /\ i \in Nat /\ \A j \in GcAhead : i <= j
  <2>1. GcAhead \subseteq Nat /\ GcAhead # {}
    BY <1>1 DEF GcSector, GcAhead, GcFrame
  <2> QED BY <2>1, LeastExists
<1>4. \A t \in Sector : t # s => flash'[t] = flash[t]
  BY <1>1, <1>2, ProgramFlash
<1> HIDE DEF i
<1>5. /\ m.gc.i = i /\ m.gc.from = local.gc.from /\ m.gc.ret = local.gc.ret
      /\ m.gc.free = local.gc.free /\ m.gc.sec = s
  BY <1>1 DEF Local, GcFrame
<1> HIDE DEF m, s
<1>6. ASSUME NEW t \in Marked(flash'), t # s PROVE t \in RestOfWalk(local.gc.i + 1)'
  <2>1. t \in Sector /\ t \in Marked(flash)
    BY <1>4, <1>6 DEF Marked
  <2>2. t \in RestOfWalk(local.gc.i)
    BY <1>2, <2>1 DEF MarksAhead
  <2>3. FullWalk /\ \E j \in local.gc.i .. N-1 : t = Nth(local.gc.from, j)
    BY <2>2 DEF RestOfWalk
  <2>4. PICK j \in local.gc.i .. N-1 : t = Nth(local.gc.from, j)
    BY <2>3
  <2>5. j \in GcAhead
    BY <2>1, <2>4 DEF GcAhead, Collectable, Marked
  <2>6. j \in Nat /\ j # i /\ i <= j
    BY <1>3, <1>6, <2>4, <2>5 DEF s
  <2>7. j \in i + 1 .. N-1
    BY <1>1, <1>3, <2>4, <2>6 DEF GcFrame
  <2> QED BY <1>2, <1>5, <2>3, <2>4, <2>7 DEF RestOfWalk, FullWalk
<1>7. Marked(flash)' = Marked(flash')
  BY DEF Marked
<1> QED BY <1>2, <1>5, <1>6, <1>7
        DEF MarksAhead, OneSector, Collecting, Moving, FmtFor, DelPcs, PutPcs

\* The walk begins; where it does not, with two sectors, both are empty and none is marked.
EmptyClean == \A s \in Sector : flash[s].store = "Empty" => flash[s].dirty = "False"
LEMMA MarksStart ==
  ASSUME TInv, SpareOK, EmptyClean, N = 2, MarksAhead, GcStart, Marked(flash) # {}
  PROVE  MarksAhead'
<1> DEFINE E == {i \in Sector : Nth(oldest, i) \in Empties(flash)}
           last == IF E = {} THEN 0 ELSE Nth(oldest, Greatest(E))
           m(a) == [local EXCEPT !.gc.from = oldest, !.gc.last = a]
<1>1. /\ local \in Local /\ local.gc \in GcFrame /\ oldest \in Sector /\ flash' = flash
      /\ pc = "GcStart" /\ FullWalk /\ local.gc.i = 0
  BY TInvParts, FrameTypes DEF GcStart, NoCall, RamOK, MarksAhead, SpareOK, RequestOK
<1>2. Cardinality(E) <= GC_EMPTY_SEC_THRESHOLD
  <2>1. PICK s \in Sector : flash[s].dirty = "Gc"
    BY DEF Marked
  <2>2. s \notin Empties(flash)
    BY <2>1 DEF Empties, EmptyClean
  <2>3. PICK j \in Sector : Nth(oldest, j) = s
    BY <1>1, NthOnto
  <2>4. E \subseteq {1 - j}
    BY <2>2, <2>3 DEF Sector
  <2>5. Cardinality({1 - j}) = 1 /\ IsFiniteSet({1 - j})
    BY FS_Singleton
  <2>6. Cardinality(E) <= 1
    BY <2>4, <2>5, FS_Subset
  <2> QED BY <2>6 DEF GC_EMPTY_SEC_THRESHOLD
<1>3. pc' = "GcSector" /\ local' = m(last)
  <2> HIDE DEF E, m
  <2> QED BY <1>2 DEF GcStart, Goto, E, m
<1> HIDE DEF E, last
<1>4. ASSUME NEW a
      PROVE  /\ m(a).gc.i = 0 /\ m(a).gc.from = oldest /\ m(a).gc.ret = local.gc.ret
             /\ m(a).gc.free = local.gc.free
  BY <1>1 DEF Local, GcFrame
<1> HIDE DEF m
<1>5. ASSUME NEW s \in Marked(flash) PROVE s \in RestOfWalk(local.gc.i)'
  <2>1. PICK j \in Sector : Nth(oldest, j) = s
    BY <1>1, <1>5, NthOnto DEF Marked
  <2> QED BY <1>1, <1>3, <1>4, <2>1 DEF RestOfWalk, FullWalk, Sector
<1>6. Marked(flash)' = Marked(flash)
  BY <1>1 DEF Marked
<1> QED BY <1>3, <1>5, <1>6
        DEF MarksAhead, OneSector, Collecting, Moving, FmtFor, DelPcs, PutPcs, HeaderWalk

\* At its end no marked sector is left.
LEMMA MarksEnd == ASSUME TInv, MarksAhead, GcEnd PROVE Marked(flash) = {}
<1> SUFFICES ASSUME NEW t \in Marked(flash) PROVE FALSE
  OBVIOUS
<1>1. pc = "GcSector" /\ GcAhead = {}
  BY DEF GcEnd
<1>2. t \in RestOfWalk(local.gc.i)
  BY <1>1 DEF MarksAhead
<1>3. PICK j \in local.gc.i .. N-1 : t = Nth(local.gc.from, j)
  BY <1>2 DEF RestOfWalk
<1>4. j \in GcAhead
  BY <1>3 DEF GcAhead, Collectable, Marked
<1> QED BY <1>1, <1>4

\* kv_load comes to the marked sectors behind the last header ...
LEMMA MarksHeaders ==
  ASSUME TInv, SpareOK, LoadHdrEnd
  PROVE  MarksAhead'
<1> DEFINE g == [local EXCEPT !.load = [NoLocal.load EXCEPT !.from = oldest],
                              !.def = NoLocal.def]
<1>1. /\ local \in Local /\ oldest \in Sector /\ flash' = flash /\ local.def.i = 0
  BY TInvParts DEF LoadHdrEnd, NoCall, RamOK, SpareOK, RequestOK, HeaderWalk
<1>2. g.load.i = 0 /\ g.load.from = oldest
  BY <1>1 DEF Local, NoLocal
<1>3. ASSUME NEW s \in Marked(flash)
      PROVE  /\ s >= 0
             /\ s \in {Nth(oldest, i) : i \in 0 .. N-1}
  <2>1. PICK j \in Sector : Nth(oldest, j) = s
    BY <1>1, <1>3, NthOnto DEF Marked
  <2> QED BY <1>3, <2>1 DEF Sector, Marked
<1>4. Marked(flash)' = Marked(flash)
  BY <1>1 DEF Marked
<1>5. CASE pc' = "DefFormat"
  <2>1. local'.def.i = 0
    BY <1>1, <1>5, LoadHdrEndIs
  <2> QED BY <1>3, <1>4, <1>5, <2>1
          DEF MarksAhead, OneSector, Collecting, Moving, FmtFor, DelPcs, PutPcs, Wiping
<1>6. CASE pc' # "DefFormat"
  <2>1. pc' = "LoadGc" /\ local' = g
    <3> HIDE DEF g
    <3> QED BY <1>6 DEF LoadHdrEnd, LoadGcCall, Goto, g
  <2> HIDE DEF g
  <2>2. Marked(flash)' \subseteq {Nth(local'.load.from, i) : i \in local'.load.i .. N-1}
    BY <1>2, <1>3, <1>4, <2>1
  <2> QED BY <2>1, <2>2
          DEF MarksAhead, OneSector, Collecting, Moving, FmtFor, DelPcs, PutPcs, Wiping
<1> QED BY <1>5, <1>6

\* ... and begins the collection again.
LEMMA MarksLoad ==
  ASSUME TInv, MarksAhead, LoadGc, Marked(flash) # {}
  PROVE  MarksAhead'
<1>1. local \in Local /\ local.load \in LoadFrame /\ pc = "LoadGc"
  BY TInvParts, FrameTypes DEF LoadGc
<1>2. GcMarkedAhead # {}
  <2>1. PICK t \in Marked(flash) : TRUE
    OBVIOUS
  <2>2. PICK i \in local.load.i .. N-1 : t = Nth(local.load.from, i)
    BY <1>1, <2>1 DEF MarksAhead
  <2> QED BY <2>1, <2>2 DEF GcMarkedAhead, GcMarked, Marked
<1>3. PICK i : i = Least(GcMarkedAhead) + 1
  OBVIOUS
<1> DEFINE l == [local EXCEPT !.load.i = i]
           x == [NoLocal.gc EXCEPT !.free = N * SecSize, !.ret = "LoadGc"]
           m == [l EXCEPT !.gc = x]
<1>4. x.free = N * SecSize /\ x.ret = "LoadGc"
  BY DEF NoLocal
<1> HIDE DEF x
<1>5. m.gc = x
  BY <1>1 DEF Local
<1>6. pc' = "GcStart" /\ local' = m
  BY <1>2, <1>3 DEF LoadGc, GcCall, Goto, x
<1> HIDE DEF m
<1>7. FullWalk'
  BY <1>4, <1>5, <1>6 DEF FullWalk
<1> QED BY <1>6, <1>7
        DEF MarksAhead, OneSector, Collecting, Moving, FmtFor, DelPcs, PutPcs, HeaderWalk

\* set_default formats one sector after the other, the marked ones, too.
LEMMA MarksDefault ==
  ASSUME TInv, MarksAhead, DefFormat, Marked(flash) # {}
  PROVE  MarksAhead'
<1>1. /\ pc = "DefFormat" /\ flash' = flash
      /\ local.def.i < N => /\ pc' = "FmtErase" /\ local'.def.i = local.def.i + 1
                            /\ local'.fmt.sec = local.def.i /\ local'.fmt.ret = "DefFormat"
  BY DefFormatIs
<1>2. local.def.i \in Nat
  BY TInvParts, FrameTypes DEF DefFrame
<1>3. \A s \in Marked(flash) : s \in Sector /\ s >= local.def.i
  BY <1>1 DEF MarksAhead, Marked
<1>4. local.def.i < N
  BY <1>2, <1>3, GeometryType DEF Sector
<1>5. Marked(flash)' = Marked(flash)
  BY <1>1 DEF Marked
<1>6. local'.def.i - 1 = local.def.i
  BY <1>1, <1>2, <1>4
<1> QED BY <1>1, <1>3, <1>4, <1>5, <1>6
        DEF MarksAhead, OneSector, Collecting, Moving, FmtFor, DelPcs, PutPcs, Wiping

LEMMA MarksWipe ==
  ASSUME TInv, MarksAhead, FmtFor(pc, local, "DefFormat"), FmtErase(TRUE) \/ FmtHdr(TRUE),
         Marked(flash') \subseteq Marked(flash), local.fmt.sec \notin Marked(flash')
  PROVE  MarksAhead'
<1>1. /\ local.fmt.sec = local.def.i - 1 /\ local.def.i \in Nat
      /\ \A s \in Marked(flash') : s \in Sector /\ s >= local.def.i - 1
  BY TInvParts, FrameTypes DEF MarksAhead, DefFrame, Marked
<1>2. Marked(flash)' = Marked(flash') /\ local'.def = local.def
  BY FmtIs DEF Marked, SameCtx
<1>3. CASE FmtErase(TRUE)
  <2>1. pc' = "FmtHdr" /\ local' = local /\ local.fmt.ret = "DefFormat"
    BY <1>3, FmtIs DEF FmtFor
  <2> QED BY <1>1, <1>2, <2>1
          DEF MarksAhead, OneSector, Collecting, Moving, FmtFor, DelPcs, PutPcs, Wiping
<1>4. CASE FmtHdr(TRUE)
  <2>1. pc' = "DefFormat"
    BY <1>4, FmtIs DEF FmtFor
  <2>2. \A s \in Marked(flash') : s >= local.def.i
    BY <1>1 DEF Sector
  <2> QED BY <1>2, <2>1, <2>2
          DEF MarksAhead, OneSector, Collecting, Moving, FmtFor, DelPcs, PutPcs, Wiping
<1> QED BY <1>3, <1>4

\* What is executed where there may be marks.
LEMMA MarksPc ==
  ASSUME Clean
  PROVE  /\ pc = "Off" => \E strict \in BOOLEAN : Open(strict)
         /\ pc = "LoadHdr" => LoadHdr \/ LoadRefused \/ LoadHdrEnd
         /\ pc = "FmtHdr" => FmtHdr(TRUE)
         /\ pc = "LoadGc" => LoadGc
         /\ pc = "DefFormat" => DefFormat
         /\ pc = "GcStart" => GcStart
         /\ pc = "GcSector" => GcSector(TRUE) \/ GcEnd
         /\ pc = "GcFormatted" => GcFormatted
<1>1. CASE NodesStay
  BY <1>1 DEF NodesStay, Set, Idle, Open, SetDefault, Close, SetEnd, GcStart, GcErase,
              GcFormatted, GcEnd, DefFormat, DefKv, DefEnd, LoadHdr, LoadRefused, LoadHdrEnd,
              LoadGc, LoadScan, LoadPassEnd, LoadCollect
<1>2. CASE GcNode \/ NewKv \/ SetFind \/ (\E k \in Keys : Del(k)) \/ MvAlloc \/ LoadMove
  BY <1>2 DEF GcNode, NewKv, SetFind, Del, MvAlloc, LoadMove
<1>3. CASE FmtErase(TRUE) \/ FmtHdr(TRUE) \/ GcSector(TRUE) \/ LoadErrHdr(TRUE)
  BY <1>3 DEF FmtErase, FmtHdr, GcSector, LoadErrHdr
<1>4. CASE DelStatus(TRUE) \/ DelDirty(TRUE)
  BY <1>4 DEF DelStatus, DelDirty
<1>5. CASE PutSec(TRUE) \/ PutStatus(TRUE) \/ PutHdr(TRUE) \/ PutBody(TRUE) \/ PutCommit(TRUE)
  BY <1>5 DEF PutSec, PutStatus, PutHdr, PutBody, PutCommit
<1> QED BY <1>1, <1>2, <1>3, <1>4, <1>5 DEF Clean, NodesStay

\* So every step that succeeds leaves the marks where the code ahead comes to them.
LEMMA MarksStep ==
  ASSUME TInv, LInv, SpareOK, DirtyOf, EmptyClean, Clean, N = 2,
         Marked(flash) # {} => MarksAhead, Marked(flash') # {}
  PROVE  MarksAhead'
<1>1. CASE GcSector(TRUE)
  BY <1>1, MarksSector
<1>2. CASE ~GcSector(TRUE)
  <2>1. /\ Marked(flash') \subseteq Marked(flash) /\ Marked(flash) # {} /\ MarksAhead
        /\ FmtErase(TRUE) \/ FmtHdr(TRUE) => local.fmt.sec \notin Marked(flash')
    BY <1>2, MarksShrink
  <2>2. CASE pc = "Off"
    BY <2>2, MarksPc, MarksFree, OpenIs
  <2>3. CASE pc = "LoadHdr"
    <3>1. CASE LoadHdr
      BY <3>1, LoadHdrIs, MarksFree
    <3>2. CASE LoadRefused
      BY <3>2, MarksFree DEF LoadRefused, Reset, Goto
    <3> QED BY <2>3, <3>1, <3>2, MarksPc, MarksHeaders
  <2>4. CASE pc \in {"FmtErase", "FmtHdr"}
    <3>1. FmtErase(TRUE) \/ FmtHdr(TRUE)
      BY <2>4, CleanPc, MarksPc
    <3>2. CASE local.fmt.ret = "LoadHdr"
      <4>1. CASE pc' = "LoadHdr"
        BY <4>1, MarksFree
      <4>2. CASE FmtErase(TRUE)
        <5>1. pc' = "FmtHdr" /\ local'.fmt.ret = "LoadHdr" /\ local'.fmt.sec = local.fmt.sec
          BY <3>2, <4>2, FmtIs
        <5>2. Marked(flash)' = Marked(flash')
          BY DEF Marked
        <5> QED BY <2>1, <4>2, <5>1, <5>2
            DEF MarksAhead, HeaderWalk, OneSector, Collecting, Moving, Wiping, FmtFor, DelPcs, PutPcs
      <4> QED BY <3>1, <3>2, <4>1, <4>2, FmtIs
    <3>3. CASE local.fmt.ret = "GcFormatted"
      BY <2>1, <2>4, <3>1, <3>3, MarksFmt DEF FmtFor
    <3>4. CASE local.fmt.ret = "DefFormat"
      BY <2>1, <2>4, <3>1, <3>4, MarksWipe DEF FmtFor
    <3> QED BY <3>2, <3>3, <3>4, TInvParts, FrameTypes DEF FmtFrame
  <2>5. CASE Collecting(pc, local)
    BY <2>1, <2>5, MarksCollect
  <2>6. CASE pc = "GcSector"
    BY <1>2, <2>1, <2>6, MarksPc, MarksEnd
  <2> QED BY <2>1, <2>2, <2>3, <2>4, <2>5, <2>6, MarksPc, MarksStart, MarksNextSector, MarksLoad,
             MarksDefault DEF MarksAhead, HeaderWalk, OneSector, Wiping, FmtFor
<1> QED BY <1>1, <1>2


\* Every step that succeeds is one of a medium that works; every other one leaves the
\* image as it is, on a medium that has failed or without power.
LEMMA StepKinds ==
  ASSUME [Next]_vars
  PROVE  \/ Clean /\ ~failing /\ ~failing'
         \/ flash' = flash /\ (failing' \/ pc' = "Off")
         \/ UNCHANGED vars
<1>1. CASE \E ok \in BOOLEAN : \/ DelStatus(ok) \/ DelDirty(ok) \/ PutSec(ok) \/ PutStatus(ok)
                               \/ PutHdr(ok) \/ PutBody(ok) \/ PutCommit(ok)
                               \/ FmtErase(ok) \/ FmtHdr(ok) \/ GcSector(ok) \/ LoadErrHdr(ok)
  <2>1. PICK ok \in BOOLEAN : \/ DelStatus(ok) \/ DelDirty(ok) \/ PutSec(ok) \/ PutStatus(ok)
                               \/ PutHdr(ok) \/ PutBody(ok) \/ PutCommit(ok)
                               \/ FmtErase(ok) \/ FmtHdr(ok) \/ GcSector(ok) \/ LoadErrHdr(ok)
    BY <1>1
  <2>2. \/ Call(ok) /\ (ok \/ flash' = flash)
        \/ ok /\ NoCall
    BY <2>1 DEF DelStatus, DelDirty, PutSec, PutStatus, PutHdr, PutBody, PutCommit, PutNode,
                FmtErase, FmtHdr, GcSector, LoadErrHdr, Program
  <2>3. CASE ok
    <3>1. ok = TRUE
      BY <2>3
    <3>2. Clean
      BY <2>1, <3>1 DEF Clean
    <3> QED BY <2>2, <2>3, <3>2 DEF Call, NoCall, medium
  <2>4. CASE ~ok
    BY <2>2, <2>4 DEF Call
  <2> QED BY <2>3, <2>4
<1>2. CASE Close \/ PowerLoss
  BY <1>2 DEF Close, PowerLoss, Reset, Goto
<1>3. CASE \/ (\E u \in Updates : Set(u[1], u[2])) \/ (\E k \in Keys : Del(k)) \/ SetDefault
           \/ (\E strict \in BOOLEAN : Open(strict)) \/ NewKv \/ SetFind \/ SetEnd \/ GcStart
           \/ GcNode \/ GcErase \/ GcFormatted \/ GcEnd \/ MvAlloc
  <2>1. NoCall
    BY <1>3 DEF Set, Idle, Del, Open, SetDefault, NewKv, SetFind, SetEnd, GcStart,
                GcNode, GcErase, GcFormatted, GcEnd, MvAlloc
  <2>2. Clean
    BY <1>3 DEF Clean
  <2> QED BY <2>1, <2>2 DEF NoCall, medium
<1>4. CASE DefFormat \/ DefKv \/ DefEnd \/ LoadHdr \/ LoadRefused \/ LoadHdrEnd \/ LoadGc
           \/ LoadScan \/ LoadMove \/ LoadPassEnd \/ LoadCollect
  <2>1. NoCall
    BY <1>4 DEF DefFormat, DefKv, DefEnd, LoadHdr, LoadRefused, LoadHdrEnd, LoadGc, LoadScan,
                LoadMove, LoadPassEnd, LoadCollect
  <2>2. Clean
    BY <1>4 DEF Clean
  <2> QED BY <2>1, <2>2 DEF NoCall, medium
<1> QED BY <1>1, <1>2, <1>3, <1>4 DEF Next, Client, Step

\* Whatever fails, an empty sector is not dirty, and where nothing has failed since the last
\* open the code ahead still comes to every marked sector.
MarksInv == /\ EmptyClean
            /\ ~failing => DirtyOf /\ (N = 2 /\ Marked(flash) # {} => MarksAhead)

LEMMA EmptyCleanNext == ASSUME TInv, LInv, DirtyOf, EmptyClean, Clean PROVE EmptyClean'
<1>1. Erased.store = "Unused" /\ Formatted.dirty = "False"
  BY DEF Erased, Formatted
<1>2. ASSUME NEW t \in Sector, flash'[t].store = "Empty" PROVE flash'[t].dirty = "False"
  BY <1>1, <1>2, HeaderMoves DEF EmptyClean, HeaderChange, SameHeader, MarkOnly
<1> QED BY <1>2 DEF EmptyClean

LEMMA MarksInvNext ==
  ASSUME TInv, LInv, WInv, SpareOK, MarksInv, [Next]_vars
  PROVE  MarksInv'
<1>1. CASE Clean /\ ~failing /\ ~failing'
  <2>1. DirtyOf' /\ EmptyClean'
    BY <1>1, DirtyNext, EmptyCleanNext DEF MarksInv
  <2>2. N = 2 /\ Marked(flash') # {} => MarksAhead'
    BY <1>1, MarksStep DEF MarksInv
  <2>3. Marked(flash)' = Marked(flash')
    BY DEF Marked
  <2> QED BY <2>1, <2>2, <2>3 DEF MarksInv
<1>2. CASE flash' = flash /\ (failing' \/ pc' = "Off")
  <2>1. EmptyClean'
    BY <1>2 DEF MarksInv, EmptyClean
  <2>2. pc' = "Off" => DirtyOf' /\ MarksAhead'
    BY MarksFree DEF DirtyOf
  <2> QED BY <1>2, <2>1, <2>2 DEF MarksInv
<1>3. CASE UNCHANGED vars
  <2>1. pc' = pc /\ local' = local /\ flash' = flash /\ failing' = failing
    BY <1>3 DEF vars
  <2>2. MarksAhead' = MarksAhead
    BY <2>1 DEF MarksAhead, RestOfWalk, FullWalk, Marked
  <2> QED BY <2>1, <2>2 DEF MarksInv, EmptyClean, DirtyOf, Marked
<1> QED BY <1>1, <1>2, <1>3, StepKinds

LEMMA MarksInvInit == Init => MarksInv
<1> SUFFICES ASSUME Init PROVE MarksInv
  OBVIOUS
<1>1. pc = "Off" /\ \A s \in Sector : flash[s] = Erased
  BY DEF Init
<1>2. Erased.store = "Unused" /\ Erased.dirty # "Gc"
  BY DEF Erased
<1>3. Marked(flash) = {}
  BY <1>1, <1>2 DEF Marked
<1> QED BY <1>1, <1>2, <1>3 DEF MarksInv, EmptyClean, DirtyOf

LEMMA MarksAlways == Spec => [](AllInv /\ MarksInv)
<1>1. Init => AllInv /\ MarksInv
  BY AllInit, MarksInvInit
<1>2. AllInv /\ MarksInv /\ [Next]_vars => (AllInv /\ MarksInv)'
  BY AllNext, MarksInvNext DEF AllInv
<1> QED BY <1>1, <1>2, PTL DEF Spec

\* In a database of two sectors no sector is marked for collection between two calls while
\* the medium works: a collection that power or the medium broke off is finished by the next
\* open, however often it is broken off again.
THEOREM CollectionsFinish == Spec => []NothingHalfCollected
<1>1. AllInv /\ MarksInv => NothingHalfCollected
  <2> SUFFICES ASSUME AllInv, MarksInv, pc = "Idle", ~failing, N = 2, NEW s \in Sector,
                      flash[s].dirty = "Gc"
               PROVE  FALSE
    BY DEF NothingHalfCollected
  <2>1. flash[s].ok
    BY DEF AllInv, HeadersOK, MayBeBad, HeaderWalk, Bad
  <2>2. MarksAhead
    BY <2>1 DEF MarksInv, Marked
  <2> QED BY <2>2 DEF MarksAhead, HeaderWalk, OneSector, Collecting, Moving, Wiping, FmtFor,
                      DelPcs, PutPcs
<1> QED BY <1>1, MarksAlways, PTL
==========================================================================
