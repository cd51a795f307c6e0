------------------------------ MODULE KvQuery ------------------------------
(***************************************************************************)
(* The reads of the whole key-value database (kvdb.rs): the iterator and   *)
(* the integrity check.  They change nothing on the medium, so they are    *)
(* functions of the image, like find_kv.                                   *)
(***************************************************************************)
EXTENDS KvFlash

(***************************************************************************)
(* KvIterator: a walk from sector base, now in its step-th sector          *)
(* (traversed_len).  Of curr_kv, the copy of the node reported last, the   *)
(* next call uses its end, "resume"; 0 is in front of the first node of a  *)
(* sector.  "more" is what the last call of iterate returned.              *)
(***************************************************************************)
iterator(oldest) == [base |-> oldest, step |-> 0, resume |-> 0, more |-> TRUE]

\* The nodes it reports.
\* Mutant: replaced and deleted ones as well.
M_Reports(n) == n.crc
Reports(n) == n.status = "Write" /\ n.crc

\* The search in the sector the iterator is in goes on behind the node reported last,
\* whether or not that node is still there.
\* Mutant: a node that follows at once is stepped over.
M_Behind(n, it) == n.addr > it.resume
Behind(n, it) == n.addr >= it.resume

\* The nodes of the i-th sector of the walk that are still to be reported.
Ahead(img, it, i) ==
    LET s == Nth(it.base, i)
    IN  {j \in DOMAIN img[s].kvs : /\ s \in InUse(img) /\ Reports(img[s].kvs[j])
                                   /\ i > it.step \/ Behind(img[s].kvs[j], it)}

\* The step of the walk in which the next node is reported, if there is one.
NextSteps(img, it) == {i \in it.step .. N-1 : Ahead(img, it, i) # {}}
NextStep(img, it) == Least(NextSteps(img, it))
current(img, it) == LET i == NextStep(img, it)
                    IN  img[Nth(it.base, i)].kvs[Least(Ahead(img, it, i))]

\* One call of iterate; once it has returned FALSE it must not be called again.
iterate(img, it) ==
    IF NextSteps(img, it) = {} THEN [it EXCEPT !.more = FALSE]
    ELSE LET kv == current(img, it)
         IN  [it EXCEPT !.step = NextStep(img, it), !.resume = kv.addr + kv.len]

----------------------------------------------------------------------------
(* check *)

\* Mutant: it looks for nodes in every formatted sector.
M_Checked(sec) == sec.ok
Checked(sec) == sec.ok /\ sec.store \in {"Using", "Full"}

\* read_kv fails: a node is damaged (a status byte alone, behind another node, is not seen),
\* or a sector in use has none and what is read for its first header is none.
Damaged(sec) == \/ sec.kvs = <<>>
                \/ \E j \in DOMAIN sec.kvs : /\ ~sec.kvs[j].crc
                                             /\ sec.kvs[j].len >= KV_HDR_DATA_SIZE

\* The first error of the walk.
check(img, base) ==
    LET Bad(i) == LET sec == img[Nth(base, i)]
                  IN  ~sec.ok \/ (Checked(sec) /\ Damaged(sec))
        bad == {i \in Sector : Bad(i)}
    IN  IF bad = {} THEN "Ok"
        ELSE IF img[Nth(base, Least(bad))].ok THEN "ReadErr" ELSE "InitFailed"
=============================================================================
