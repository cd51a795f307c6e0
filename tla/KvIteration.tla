---------------------------- MODULE KvIteration ----------------------------
(***************************************************************************)
(* A client that holds a KvIterator while it sets and deletes: iterate is  *)
(* called between any two other calls, and the calls in between may        *)
(* replace, move and erase nodes, the one the iterator holds included.     *)
(* The iterator remembers a sector, the node reported last and how many    *)
(* sectors it has seen; nothing tells it that the image has changed.       *)
(***************************************************************************)
EXTENDS KvdbProps

VARIABLES
    iter,    \* the iterator in use; iter.more is FALSE when there is none
    entry    \* history: which entries have stayed where they are since it was created

ivars == <<vars, iter, entry>>

NoIter == [iterator(0) EXCEPT !.more = FALSE]
Untracked == [k \in Keys |-> "Changed"]

IterInit == Init /\ iter = NoIter /\ entry = Untracked

\* Where the node of a key is.
Place(k) == LET f == find_kv(flash, oldest, k)
            IN  IF f.found THEN <<f.sec, flash[f.sec].kvs[f.idx].addr>> ELSE <<>>

\* iterator
NewIterator ==
    /\ pc = "Idle" /\ ~iter.more
    /\ iter' = iterator(oldest)
    /\ entry' = [k \in Keys |-> IF Place(k) # <<>> THEN "Due" ELSE "Changed"]
    /\ UNCHANGED vars

\* iterate returns TRUE, ...
Iterate ==
    /\ pc = "Idle" /\ iter.more
    /\ iter' = iterate(flash, iter) /\ iter'.more
    /\ entry' = [entry EXCEPT ![current(flash, iter).key] = IF @ = "Due" THEN "Reported" ELSE @]
    /\ UNCHANGED vars

\* ... or FALSE.
IterateEnd ==
    /\ pc = "Idle" /\ iter.more
    /\ ~iterate(flash, iter).more
    /\ iter' = NoIter /\ entry' = Untracked
    /\ UNCHANGED vars

\* A step of another call.  The iterator is given up when the database is closed; bound:
\* it is also given up when none of the entries it began with is where it was.
Other ==
    /\ Next
    /\ entry' = IF pc' = "Off" THEN Untracked
                ELSE IF entry = Untracked \/ UNCHANGED <<flash, oldest>> THEN entry
                ELSE [k \in Keys |-> IF Place(k)' = Place(k) THEN entry[k] ELSE "Changed"]
    /\ iter' = IF entry' = Untracked THEN NoIter ELSE iter

IterNext == NewIterator \/ Iterate \/ IterateEnd \/ Other

IterSpec == IterInit /\ [][IterNext]_ivars /\ WF_vars(Step)

----------------------------------------------------------------------------

\* An entry that is neither set, nor deleted, nor moved by a collection while the iterator
\* is in use is reported exactly once, whatever becomes of the other entries, of the oldest
\* sector and of the node the iterator holds.
EveryEntryOnce ==
    [][/\ Iterate => entry[current(flash, iter).key] # "Reported"
       /\ IterateEnd => \A k \in Keys : entry[k] # "Due"]_ivars

\* What is reported is what get returns, and never an older value.
ReportsCurrent ==
    [][Iterate => LET kv == current(flash, iter) IN kv.val = Get(kv.key)]_ivars
=============================================================================
