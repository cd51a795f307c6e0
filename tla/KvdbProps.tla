----------------------------- MODULE KvdbProps -----------------------------
(***************************************************************************)
(* The properties of the key-value database.                               *)
(***************************************************************************)
EXTENDS Kvdb, KvQuery

----------------------------------------------------------------------------
(* What the image holds *)

Nodes == UNION {{<<s, j>> : j \in DOMAIN flash[s].kvs} : s \in Sector}
Node(p) == flash[p[1]].kvs[p[2]]

\* The sector a walk starts at, in the session or in the next one.
Base == IF pc = "Off" THEN find_oldest_addr(flash) ELSE oldest

\* A walk meets node p before node q.
Before(p, q) == LET At(x) == ((x[1] - Base + N) % N) * SecSize + x[2]
                IN  At(p) < At(q)

\* The value of the first node of a walk with name k and the status.
FirstWith(k, status) ==
    LET H == {p \in Nodes : /\ Node(p).key = k /\ Node(p).status = status /\ Node(p).crc
                            /\ p[1] \in InUse(flash)}
    IN  IF H = {} THEN None
        ELSE Node(CHOOSE p \in H : \A q \in H \ {p} : Before(p, q)).val

\* The value the medium holds for a key: that of its node, or of the node that was
\* about to be replaced or moved.
Recoverable(k) == LET v == FirstWith(k, "Write")
                  IN  IF v # None THEN v ELSE FirstWith(k, "PreDelete")

\* The value a call of get returns.
Get(k) == LET f == find_kv(flash, oldest, k)
          IN  IF f.found THEN flash[f.sec].kvs[f.idx].val ELSE None

----------------------------------------------------------------------------
(* The database implements the map *)

DefaultVals ==
    [k \in Keys |-> {Defaults[i].val : i \in {j \in DOMAIN Defaults : Defaults[j].key = k}}]

Map == INSTANCE KvMap WITH
    on <- pc # "Off",
    map <- [k \in Keys |-> Recoverable(k)],
    req <- [f \in {"op", "key", "val", "done"} |-> local.job[f]],
    answer <- IF pc \in {"Off", "Idle"} THEN result ELSE "None"

\* Every step of the storage code is a step of the map or none: a set or a deletion
\* takes effect at one instant or, when it fails or power is lost, not at all.
ImplementsMap == Map!Spec

----------------------------------------------------------------------------
(* Between the calls *)

\* get returns what the medium holds: recovery, garbage collection and updates leave
\* no key behind whose only copy is marked PRE_DELETE and which get does not see.
ReadsAgree == pc = "Idle" /\ ~failing => \A k \in Keys : Get(k) = Recoverable(k)

\* While nothing fails check finds nothing to report after any call (tests/kvdb.rs and
\* tests/smoke.rs assert it): no call, a full database and a collection included,
\* leaves a node half written or a sector in use without one.
CheckPasses == pc = "Idle" /\ losses = MaxPowerLoss /\ faults = MaxFaults =>
                   check(flash, oldest) = "Ok"

\* There are no two live nodes of a key (find_kv would return the first one, which
\* garbage collection may have made the older one): at any time until something fails;
\* with two sectors whatever fails; with three when power is lost outside collections and
\* all values have one length.
OneLiveNode ==
    \A k \in Keys :
        Cardinality({p \in Nodes : Readable(Node(p), k)}) <= 1

\* After every call there is an empty sector left, which alloc_kv keeps for garbage
\* collection (GC_EMPTY_SEC_THRESHOLD): without it no move has a place to go to.
SpareSector == pc = "Idle" /\ ~failing => Empties(flash) # {}

\* A call returns with every sector formatted, whatever open found on the medium and
\* wherever a format was interrupted.
AllFormatted == pc = "Idle" /\ ~failing => \A s \in Sector : flash[s].ok

\* In a database of two sectors a call returns with no garbage collection half done: the
\* collection of a marked sector was resumed by open and ended.  (With three sectors and
\* power lost twice a mark may outlive an open: nothing is collected while two are empty.)
NothingHalfCollected ==
    pc = "Idle" /\ ~failing /\ N = 2 => \A s \in Sector : flash[s].dirty # "Gc"

\* In a database of two sectors, of which one is in use, only what is asked for is ever
\* read: whatever fails, no step brings a deleted entry or an older value back.  (With
\* three sectors an open may leave an update half done; when the key is set and deleted
\* then, the value from before the update is back after the next open.)
NothingComesBack ==
    [][N = 2 => \A k \in Keys :
          Recoverable(k)' \in {Recoverable(k), None}
                              \cup (IF local.job.key = k THEN {local.job.val} ELSE {})
                              \cup DefaultVals[k]]_vars

\* A step changes nothing but the entry its call is about (set_default is about all):
\* the untouched keys survive updates, garbage collection and power loss.
UntouchedSurvives ==
    [][\A k \in Keys : k # local.job.key /\ local.job.op # "Default" =>
          Recoverable(k)' = Recoverable(k) \/ Recoverable(k) = None]_vars

\* set_default has written every default there is room for when it returns.
DefaultsThere ==
    pc = "DefKv" /\ local.def.i >= Len(Defaults) /\ ~failing =>
        \A i \in DOMAIN Defaults : Recoverable(Defaults[i].key) = Defaults[i].val

----------------------------------------------------------------------------
(* The log of a sector *)

\* The first byte after the nodes of a sector.
LogEnd(sec) == IF sec.kvs = <<>> THEN SECTOR_HDR_DATA_SIZE
               ELSE LastNode(sec).addr + LastNode(sec).len

\* Nodes do not overlap, and what alloc_kv keeps free behind the last one stays free,
\* so that update_sec_status never marks a sector full.
SectorLogOK(sec) ==
    /\ \A j \in DOMAIN sec.kvs : sec.kvs[j].addr >= SECTOR_HDR_DATA_SIZE
    /\ \A j \in 1 .. Len(sec.kvs)-1 : sec.kvs[j+1].addr >= sec.kvs[j].addr + sec.kvs[j].len
    /\ sec.kvs # <<>> => LogEnd(sec) < SecSize - SEC_REMAIN_THRESHOLD
    /\ sec.store # "Full"

LogOK == \A s \in Sector : SectorLogOK(flash[s])

----------------------------------------------------------------------------
(* What a step may do to the medium *)

Rank(seq, x) == CHOOSE i \in DOMAIN seq : seq[i] = x
StoreRank(x) == Rank(<<"Unused", "Empty", "Using", "Full">>, x)
DirtyRank(x) == Rank(<<"Unused", "False", "True", "Gc">>, x)
StatusRank(x) == Rank(<<"PreWrite", "Write", "PreDelete", "Deleted", "ErrHdr">>, x)

OnlyCleared(old, new) ==
    /\ old.ok => new.ok
    /\ StoreRank(old.store) <= StoreRank(new.store)
    /\ DirtyRank(old.dirty) <= DirtyRank(new.dirty)
    /\ Len(old.kvs) <= Len(new.kvs)
    /\ \A j \in DOMAIN old.kvs :
          LET n == old.kvs[j]
              m == new.kvs[j]
          IN  \/ /\ StatusRank(n.status) <= StatusRank(m.status)
                 /\ [m EXCEPT !.status = n.status, !.crc = n.crc] = n
              \* the byte of a status becomes the header of a node
              \/ j = Len(old.kvs) /\ n.key = None /\ m.addr = n.addr

\* Programming clears bits and never sets one: a sector goes forward through its
\* states and its nodes through theirs, a node written is never written again,
\* unless the sector is erased as a whole (the contract of storage.rs).
ProgramOnlyClears ==
    [][\A s \in Sector : OnlyCleared(flash[s], flash'[s]) \/ flash'[s] = Erased]_flash

----------------------------------------------------------------------------
(* Progress *)

\* Every call returns unless power is lost.
CallsReturn == pc \notin {"Off", "Idle"} ~> pc \in {"Off", "Idle"}
=============================================================================
