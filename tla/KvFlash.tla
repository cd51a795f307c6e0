------------------------------ MODULE KvFlash ------------------------------
(***************************************************************************)
(* The storage image of the key-value database (src/src/kvdb.rs) and what  *)
(* the code reads from it: sector headers, the log of KV nodes of a        *)
(* sector, the search for a key, the choice of a sector for a new node.    *)
(* Everything here is a pure function of the image; Kvdb.tla has the state *)
(* machine that programs it.                                               *)
(*                                                                         *)
(* Addresses are byte offsets inside a sector and sizes are the sizes of   *)
(* the code; the bytes of keys and values are abstracted to members of     *)
(* Keys and Values of a given length.  Two facts about the bytes are       *)
(* assumed: no value holds the bytes "KV00" (the magic word the node scan  *)
(* looks for) and no value ends in 0xFF (the erased byte).                 *)
(***************************************************************************)
EXTENDS Integers, Sequences, FiniteSets

CONSTANTS
    N,          \* number of sectors: max_size / sec_size
    SecSize,    \* sec_size
    Keys, Values,
    KeyLen,     \* KeyLen[k] is key.len()
    ValueLen,   \* ValueLen[v] is value.len()
    None        \* no key, no value

SECTOR_HDR_DATA_SIZE == 16
KV_HDR_DATA_SIZE == 24
KV_NAME_MAX == 64
SEC_REMAIN_THRESHOLD == KV_HDR_DATA_SIZE + KV_NAME_MAX
GC_EMPTY_SEC_THRESHOLD == 1

\* validate_geometry: at least two sectors, the size of a sector is a power of two.
ASSUME GeometryAssumption == /\ N \in Nat /\ N >= 2
                             /\ SecSize \in Nat /\ \E i \in 0 .. 31 : SecSize = 2^i
ASSUME LengthAssumption == /\ KeyLen \in [Keys -> Nat]
                           /\ ValueLen \in [Values -> Nat]
ASSUME NoneAssumption == None \notin Keys \cup Values

Sector == 0 .. N-1

SectorStoreStatus == {"Unused", "Empty", "Using", "Full"}
SectorDirtyStatus == {"Unused", "False", "True", "Gc"}
KvStatus == {"PreWrite", "Write", "PreDelete", "Deleted", "ErrHdr"}

(***************************************************************************)
(* A KV node as read_kv reports it.  A node of which only the status byte  *)
(* was programmed has no valid length: read_kv reports it as ErrHdr and    *)
(* programs that status, so it is an ErrHdr node from the start here.      *)
(***************************************************************************)
KvNode == [addr: Nat, len: Nat, status: KvStatus, crc: BOOLEAN,
           key: Keys \cup {None}, val: Values \cup {None}]

\* "ok" is check_ok: the magic word of the sector header is there.
SectorImage == [ok: BOOLEAN, store: SectorStoreStatus, dirty: SectorDirtyStatus,
                kvs: Seq(KvNode)]

Erased == [ok |-> FALSE, store |-> "Unused", dirty |-> "Unused", kvs |-> <<>>]
Formatted == [ok |-> TRUE, store |-> "Empty", dirty |-> "False", kvs |-> <<>>]

kv_len(k, v) == KV_HDR_DATA_SIZE + KeyLen[k] + ValueLen[v]

----------------------------------------------------------------------------
(* Walks over the sectors *)

\* Mutant: no wrap around at the end.
M_no_wrap(s) == s + 1
get_next_sector_addr(s) == (s + 1) % N

\* The sector a walk that starts at sector base reads in its i-th step.
Nth(base, i) == (base + i) % N

Least(S) == CHOOSE x \in S : \A y \in S : x <= y
Greatest(S) == CHOOSE x \in S : \A y \in S : x >= y

\* The member of S that a walk from sector base meets first.
FirstMet(base, S) == Nth(base, Least({i \in Sector : Nth(base, i) \in S}))

\* The sectors of the image that are in use; their nodes are searched.
InUse(img) == {s \in Sector : img[s].ok /\ img[s].store \in {"Using", "Full"}}
Empties(img) == {s \in Sector : img[s].ok /\ img[s].store = "Empty"}

----------------------------------------------------------------------------
(* read_sector_info with traversal *)

LastNode(sec) == sec.kvs[Len(sec.kvs)]

\* The first byte after the nodes.  A sector in use without a node is read
\* as one damaged node: read_kv takes a header for read there.
empty_kv(sec) ==
    IF sec.kvs # <<>> THEN LastNode(sec).addr + LastNode(sec).len
    ELSE IF sec.store = "Using" THEN SECTOR_HDR_DATA_SIZE + KV_HDR_DATA_SIZE
    ELSE SECTOR_HDR_DATA_SIZE

remain(sec) ==
    IF sec.ok /\ sec.store \in {"Empty", "Using"} THEN SecSize - empty_kv(sec) ELSE 0

----------------------------------------------------------------------------
(* find_kv_no_cache *)

Readable(n, k) == n.crc /\ n.status = "Write" /\ n.key = k

\* The search for the name of another node.
find_name(img, oldest, k) ==
    LET Hits(s) == {j \in DOMAIN img[s].kvs : Readable(img[s].kvs[j], k)}
        S == {s \in InUse(img) : Hits(s) # {}}
        s1 == FirstMet(oldest, S)
    IN  IF S = {} THEN [found |-> FALSE, sec |-> 0, idx |-> 0]
        ELSE [found |-> TRUE, sec |-> s1, idx |-> Least(Hits(s1))]

\* The search for a key.  read_kv overwrites the last byte of a name of the full
\* length with a zero, so that it compares unequal to every key (without a zero byte).
find_kv(img, oldest, k) ==
    IF KeyLen[k] < KV_NAME_MAX THEN find_name(img, oldest, k)
    ELSE [found |-> FALSE, sec |-> 0, idx |-> 0]

----------------------------------------------------------------------------
(* alloc_scan and alloc_kv *)

\* Mutant: the margin is forgotten.
M_Fits(sec, len) == remain(sec) >= len
Fits(sec, len) == remain(sec) > len + SEC_REMAIN_THRESHOLD

HasRoom(sec, want, len, gcReq) ==
    /\ sec.ok /\ sec.store = want
    /\ Fits(sec, len)
    /\ sec.dirty = "False" \/ (sec.dirty = "True" /\ ~gcReq)

\* The last empty sector is kept for garbage collection.
\* Mutant: it is given away.
M_MayTakeEmpty(img, gcReq) == Cardinality(Empties(img)) >= GC_EMPTY_SEC_THRESHOLD \/ gcReq
MayTakeEmpty(img, gcReq) == Cardinality(Empties(img)) > GC_EMPTY_SEC_THRESHOLD \/ gcReq

(***************************************************************************)
(* The sector for a node of len bytes, if there is one, and the new value  *)
(* of gc_request: a sector in use with room, else an empty one.            *)
(***************************************************************************)
alloc_kv(img, oldest, gcReq, len) ==
    LET using == {s \in Sector : HasRoom(img[s], "Using", len, gcReq)}
        empty == {s \in Sector : HasRoom(img[s], "Empty", len, gcReq)}
        spare == MayTakeEmpty(img, gcReq)
        from  == IF using # {} THEN using
                 ELSE IF Empties(img) # {} /\ spare THEN empty ELSE {}
    IN  [found |-> from # {},
         sec   |-> IF from # {} THEN FirstMet(oldest, from) ELSE 0,
         gcReq |-> gcReq \/ (using = {} /\ Empties(img) # {} /\ ~spare)]

----------------------------------------------------------------------------
(* find_oldest_addr: the last used sector that follows an empty one *)

find_oldest_addr(img) ==
    LET S == {s \in Sector \ {0} : /\ img[s - 1].ok /\ img[s - 1].store = "Empty"
                                   /\ s \in InUse(img)}
    IN  IF S = {} THEN 0 ELSE Greatest(S)
=============================================================================
