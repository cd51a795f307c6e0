# FlashDB-rust: specifications, model checking and proofs

TLA+ specifications of the crate `flashdb` (`src/`), a Rust port of FlashDB: a
key-value database and a time-series log, both kept as logs in the sectors of a
flash device. The code is sequential; what makes it hard is that it may stop
between any two storage calls, that most errors of the storage are ignored, and
that the next open has to make a database out of whatever is on the medium.

Source paths are relative to the repository root; `kvdb.rs:747` is
`src/kvdb.rs`, line 747.

## 1. Inventory

| Part | State | Operations | What makes it correct |
|---|---|---|---|
| Key-value log, `kvdb.rs` | on the medium: sector headers (magic, store status, dirty status), nodes (status, length, CRC, name, value); in memory: `oldest_addr`, `gc_request`, `in_recovery_check`, `default_kvs` | `with_options`, `set`, `set_str`, `del`, `get*`, `set_default`, `into_storage`; inside: `new_kv`, `alloc_kv`, `create_kv_blob`, `del_kv`, `move_kv`, `gc_collect_by_free_size`, `kv_load` | it is a map; a set or a deletion is atomic, also when power fails; other keys are untouched; nodes never overlap; open ends and leaves nothing half done |
| Iterator, check, string reads, `kvdb.rs:1103-1306` | `KvIterator` | `iterate`, `check`, `get_obj`, `read_value`, `get_str`, `dump` | every live entry once; addresses kept by the client may be stale |
| Time-series log, `tsdb.rs` | sector headers with two copies of the end information, index records, data; `cur_sec`, `last_time`, `oldest_addr`, `rollover` | `append`, `append_with_ts`, `set_status`, `collect*`, `iter*`, `query_count`, `clean`, `init` | a bounded log with increasing times; a finished append survives; queries return what is in the interval |
| Status words, `status.rs`, `flash.rs:20-44` | one byte | `set_status`, `get_status`, `write_status`, `read_status` | states only go forward when bits are only cleared; encoding and decoding agree |
| Flash scans, `flash.rs:48-74`, `kvdb.rs:293-314` | none | `continue_ff_addr`, `find_next_kv_addr` | they find the end of the data and the next node |
| Storage, `storage.rs` | bytes; for files a handle per sector | `read`, `write`, `erase` | programming only clears bits; synced writes are durable |
| Geometry, defaults, `db.rs` | none | `validate_geometry` | only whole, at least two, power-of-two sectors |
| CRC32, errors, crate root | none | | |

The databases own their storage and call it; there are no threads and no
callbacks but the clock of the time-series log. `set_kv` calls the allocator,
which may run a collection, which moves nodes with the allocator again and
formats sectors; `kv_load` runs `format_sector`, `set_default`, the collection
and `move_kv`. So one call of the API is a long sequence of storage calls whose
intermediate states are all states a restart can find.

`PROJECT.json` lists the hazards of this code with their lines and the
properties that would catch them.

## 2. Modules

| Module | Models |
|---|---|
| `KvFlash` | the storage image and the pure functions the code computes from it: `find_kv`, `alloc_kv`, `remain`, `find_oldest_addr`, ... |
| `Kvdb` | the state machine of `kvdb.rs`, one step per storage call |
| `KvMap` | what the key-value database promises: a map with atomic requests |
| `KvdbProps` | the properties of `Kvdb` and the refinement mapping to `KvMap` |
| `KvdbInv` | the inductive invariants of `Kvdb` about the medium, whatever fails (`IInv`, `MInv`) |
| `KvdbMapInv` | the inductive invariant behind the map, until the first failure (`MapInv`) |
| `KvQuery` | the reads of the whole database as functions of the image: the iterator, `check` |
| `KvIteration` | `Kvdb` composed with a client that holds an iterator across other calls |
| `MCKvdb`, `MCKvIteration` | the instances for TLC |
| `KvdbProofs`, `KvdbSpareProofs`, `KvdbMapProofs` | the proofs about the key-value database: types and the operators of `KvFlash`; the log and what a step may do to the medium; the spare sector, headers, `check` and the defaults; the map and the iterator |
| `TsFlash` | the storage image of the time-series log and what `read_sector_info`, `read_tsl` and `init` compute from it |
| `Tsdb` | the state machine of `tsdb.rs`, one step per storage call |
| `TsQuery` | iterations, queries by time and counts as functions of the state |
| `TsLog` | what the time-series log promises: an append-only log that drops its oldest entries |
| `TsdbInv` | `DataApart`, `TsProgramOnlyClears` and `NoRoomWasted` with their inductive invariants |
| `TsdbRing` | the order of the ring, what the next session finds, the refinement mapping to `TsLog`, and the inductive invariants (`TsRInv`, `LogInv`) |
| `TsdbProps` | the properties of `Tsdb` about iterations, queries and room |
| `MCTsdb` | the instances for TLC |
| `TsdbProofs`, `TsdbRingProofs`, `TsdbLogProofs`, `TsdbQueryProofs` | the proofs about the time-series log: types and bytes; the ring; the refinement; headers, iterations and queries |
| `StatusTable` | the status words of `status.rs` bit by bit, with writes torn at any bit |
| `FlashScan` | the byte loops `continue_ff_addr` and `find_next_kv_addr`, piece by piece |
| `MCFlash`, `FlashProofs` | their instance for TLC, and the proofs |

`KvdbMapInv` extends `KvdbInv`; this one and `KvIteration` extend `KvdbProps`, which extends `Kvdb` and `KvQuery`, which
extend `KvFlash`; `KvMap` is instantiated by `KvdbProps` with the refinement mapping. `TsdbProps` extends `TsQuery` and `TsdbRing`, which extends `TsdbInv`;
these extend `Tsdb`, which extends `TsFlash`. `TsLog` is instantiated by `TsdbRing`. The two databases share no code but the helpers,
so the models share nothing but the storage contract: `StatusTable` and `FlashScan` show
that the helpers return what `KvFlash` and `TsFlash` take for their results.

### The key-value database

`flash[s]` is sector `s`: `ok` is `check_ok` of `read_sector_info` (the magic word
is there), `store` and `dirty` are its two status words, `kvs` is the list of nodes
the scan with `get_next_kv_addr` finds. A node has the address and length of the
code in bytes, its status, whether its CRC matches, and its key and value as
abstract values of given lengths (`KeyLen`, `ValueLen`). So every comparison of the
allocator is made with the numbers of the code.

`oldest`, `gcRequest` and `inRecovery` are the fields of `Kvdb`. `pc` names the
function that runs, `local` holds one record of locals per function; a function
called from several places has a field `ret`. The functions and labels:

| Code | Actions |
|---|---|
| `set`, `set_kv` | `Set`, `NewKv`, `SetFind`, `SetEnd` |
| `new_kv`, `alloc_kv`, `alloc_scan` | `NewKv` with `alloc_kv`, `HasRoom` |
| `create_kv_blob`, `update_sec_status`, `write_kv_hdr`, `move_kv_body` | `PutSec`, `PutStatus`, `PutHdr`, `PutBody`, `PutCommit` |
| `del`, `del_kv` | `Del`, `DelStatus`, `DelDirty` |
| `move_kv` | `MvCall`, `MvAlloc`, `MvReturn` |
| `gc_collect_by_free_size`, `do_gc_one` | `GcStart`, `GcSector`, `GcNode`, `GcErase`, `GcFormatted`, `GcEnd` |
| `format_sector` | `FmtErase`, `FmtHdr` |
| `set_default` | `SetDefault`, `DefFormat`, `DefKv`, `DefEnd` |
| `with_options`, `kv_load`, `recover_kvs_pass`, `recover_one_kv` | `Open`, `LoadHdr`, `LoadRefused`, `LoadHdrEnd`, `LoadGc`, `LoadScan`, `LoadMove`, `LoadErrHdr`, `LoadPassEnd`, `LoadCollect` |
| `into_storage`, the power switch | `Close`, `PowerLoss` |

A step makes at most one storage call. `create_kv_blob` and `move_kv_body` make the
same writes in the same order with the name and the value split differently;
`PutBody` stands for the writes of the body, of which only the last makes the CRC
match. An error of `update_sec_status` ends `move_kv_body` (the `?` of `kvdb.rs:714`) and
`create_kv_blob` alike (`PutSec`). Results that the code drops with `let _` are dropped in the model.

`KvQuery` and `KvIteration`: an iterator is the sector it began with, the number of
sectors it has seen, and the end of the node it reported last (the code searches on from
there, whatever is there by now). `Iterate` and `IterateEnd` are a call of `iterate` that
returns `true` or `false`; `Other` is any step of `Kvdb`. `iterate` must not be called
again after it returned `false`: the code would walk the last sector once more.

### The time-series log

`flash[s]` is sector `s`: `ok`, `store`, the start time, the two copies of the end
information, and the list of index records. A record has its status, time, length and the
place `top` where its data end; `data` says that the bytes of the blob were written. `cur`,
`oldest`, `lastTime`, `rollover` are the fields of `Tsdb`; addresses are sector and record
numbers, room and lengths are bytes as in the code. `call` holds the locals of the call in
execution. `Open` reads the image and writes nothing unless it must format.

| Code | Actions |
|---|---|
| `append`, `append_with_ts`, `tsl_append` | `AppendNow`, `AppendAgain` with `TslAppend`, `AppendNowhere`, `AppendPanics` |
| `update_sec_status` | `EndPre`, `EndData`, `EndWrite`, `SetFull` (with `TakeSector`), `SetUsing`, `SetStart` |
| `write_tsl` and the end of `tsl_append` | `TslPre`, `TslIdx`, `TslData`, `TslWrite` |
| `format_sector` | `FmtErase`, `FmtStatus`, `FmtMagic` |
| `clean`, `tsl_format_all` | `Clean`, the three above, `CleanEnd` |
| `with_options`, `init` | `Open`, `OpenPanics` |
| `set_status`, `set_rollover`, `into_storage` | `SetStatus`, `SetRollover`, `Close` |
| `iter`, `iter_reverse`, `iter_by_time`, `query_count` | operators of `TsQuery` |
| `max_blob_count` | operator of `Tsdb` |

`set_status` programs the state it is given (`tsdb.rs:577-586`), and `RamStorage` and
`FileStorage` take the byte as it is (`storage.rs:93`, `192`): a record that is given an earlier
state goes back to it. The states a client may give are `Marks`; `Unused` and `PreWrite`, with which
it would take back what `append` wrote, are not among them. An index record whose status is unused or
PRE_WRITE reads as time 0, as in `read_tsl`. When the program has no current sector the model has both builds: with checked
arithmetic the open or the append panics, without it the index record goes to address 0
(`AppendNowhere`) and the data out of the storage, where `RamStorage` returns an error.

### The helpers

In `StatusTable` a status byte is the set of its bits that are 1. A medium clears bits (NOR
flash) or takes the byte as it is written (the backends of `storage.rs`), and any part of the
bits may be written, which is power lost in the middle of the byte. On the first the states
may be written in any order; on the second, where a state written later than a higher one
would go back, only in one where none is earlier than what is read, as everything but
`set_status` of the time-series log does. `FlashScan` has
memories of bytes that are erased, the begin of a magic word, or something else; a step is
one piece that is read, and reads may fail: `continue_ff_addr` then takes the bytes of the
piece before once more, `find_next_kv_addr` gives up. The length of a piece (32), of the
word and its offset (4) are constants.

### What is abstracted

* A storage call is atomic (but in `StatusTable`) and calls reach the medium in the order they are made;
  reads succeed (as in `FaultStorage` of `tests/recovery.rs`; but in `FlashScan`).
* The medium fails the way `FaultStorage` does: from some call on every call fails
  until the power is cycled. A single failed call among successful ones is not
  modelled.
* No value contains the bytes `KV00` and no value ends in `0xFF`; otherwise the byte
  scans find other nodes or another end than the list of nodes says.
* A node of which only the status byte was written has no length. `read_kv` reports
  it as ERR_HDR and programs that status at the first read; the model has it as
  ERR_HDR from the start. Behind another node the scan does not see it at all and
  `continue_ff_addr` steps over its one byte. Behind such bytes an address of the
  model can differ from that of the code by a byte, for the code adds up the lengths
  of the nodes it sees before it looks for erased bytes.
* `SECTOR_COMBINED` sectors are never written by this code and are left out.
  `last_is_complete_del` is written and never read.
* The storage is erased, or never was a database, before the first open.
* Time-series log: the clock of the client shows the times in `Times`, a set of positive
  numbers, one after the other, also from one session to the next; an explicit time repeats that of the last attempt. Blobs have at least one byte. A
  failed append that the medium never saw leaves the clock as it was. `EndData` is the two
  writes of the end information that nothing reads before its status follows. The bytes of
  a blob, where the code reads them as an index record, are zeros.
* An append without a current sector (`AppendNowhere`) is one step for the writes of its index
  record, and the low byte of its time is not the byte of the magic word it replaces (48): with
  that time the header would stay whole and the record would hide in it.
* `max_len` is such that the longest blob fits in an empty sector (`MaxLenAssumption`). The
  code only asks for `max_len < sec_size` (`tsdb.rs:210`); with less than 48 bytes to spare
  an append writes its data over its index and the header.
* Records of a sector that is erased later are not marked through an old handle: `Tsl` and
  `Kv` objects the client kept are not followed.

## 3. Properties and runs

### Key-value database

Bounds: two or three sectors, two keys (and one that is too long), values of two
sizes. Sectors have 256 or 512 bytes, so that `alloc_kv` finds room for two small or
one big node, or for three small or one of each: sectors fill and collections run
after two or three updates, and big nodes fail to fit where small ones do. The
number of operations is not bounded: the runs explore every sequence of calls and
sessions. `MaxPowerLoss` and `MaxFaults` bound the failures, `Updates` the pairs that
are set, `LossInGc` says whether failures happen during collections.

| Run | Instance | Checks |
|---|---|---|
| `kv_sessions` | 3 x 256, no failure, an iterator in use at any time | `LogOK`, `CheckPasses`, `MapInv`, `ImplementsMap`, `CallsReturn`, `EveryEntryOnce`, `ReportsCurrent` |
| `kv_power_in_update` | 3 x 256, values of one length (two for one key, one for the other), one power loss outside collections | `ReadsAgree`, `OneLiveNode`, `ImplementsMap` |
| `kv_fail_anywhere` | 2 x 512, one power loss and one fault anywhere | `SpareSector`, `AllFormatted`, `MInv`, `NothingHalfCollected`, `OneLiveNode`, `NothingComesBack`, `ProgramOnlyClears` |
| `kv_failing_medium` | 2 x 256, defaults, a key of 65 bytes, one fault outside collections | `TypeOK`, `IInv`, `DefaultsThere`, `ImplementsMap`, `CallsReturn` |
| `kv_lost_update` | 3 x 256, one power loss outside collections | `ReadsAgree`: violated |
| `kv_lost_in_gc` | 2 x 512, one power loss | `UntouchedSurvives`: violated |
| `kv_open_hangs` | 2 x 512, one power loss outside collections | `CallsReturn`: violated |
| `kv_long_key` | 2 x 256, a key of 64 bytes | `ReadsAgree`: violated |

Why these bounds. Two sectors are the least `validate_geometry` admits and the
hardest case for the spare sector; with three the oldest sector moves, walks wrap
around, and a sector in use can be in front of or behind the spare one. Two keys are
enough for one that a call is about and one that must not change. The failures are
one of each kind; with two power losses and one fault `kv_fail_anywhere` holds as
well (5.5 million states, beyond what a routine run should take).

The two restrictions of the passing runs are exactly where the code does not do what
it says. Atomic updates (`ImplementsMap`) under power loss hold while all values have
one length and no power is lost during a collection; without the first restriction
the runs `kv_lost_update` and `kv_open_hangs` fail, without the second `kv_lost_in_gc`
does. What holds in spite of failures anywhere is checked in `kv_fail_anywhere`.
Without failures there is no restriction.

`NothingHalfCollected` is about databases of two sectors. With three a sector may keep the
mark of a collection in a session: after two power losses two sectors can be empty while a
third one is marked, and `gc_collect_by_free_size` collects nothing while more than one is
empty (`kvdb.rs:815`), although `kv_load` calls it for the marked sector (the comment is at
`kvdb.rs:943`: "resume any garbage collection interrupted by power loss"). No data are lost
by that; the nodes stay readable where they are.

`NothingComesBack` is about two sectors as well, of which one is in use between the calls, so
that a walk never meets a new node before the one it replaces. With three it does not hold:
an update can be left half done by an open and come back (disagreement 1).

`ImplementsMap` is the main property. `KvMap` is a map with requests that take effect
at one instant or not at all; the mapping takes for the contents what is
*recoverable*: the value of the committed node of a key, else of the one marked
PRE_DELETE. So every storage call of an update, a collection, a recovery or an open
must leave the recoverable contents alone but for the one call that commits the
update. `ReadsAgree` adds that between the calls `get` returns what is recoverable.

The oldest sector of a session need not be the one the next session computes (see the
last list of this section); `OneLiveNode` is why no read depends on it.

`EveryEntryOnce` is about a client that sets and deletes while it iterates. An entry that
is neither set nor deleted nor moved meanwhile is reported exactly once, although a
collection may move `oldest_addr`, erase the sector the iterator is in and write other
nodes there, so that the address it holds is in the middle of another node.
`ReportsCurrent` says that what is reported is never an older value. Of an entry that a
collection moves in between nothing is promised: it may move behind the iterator or in
front of it. The iterator is given up when the database is closed,
and (a bound) when none of the entries it began with is where it was.

### Time-series log

| Run | Instance | Checks |
|---|---|---|
| `ts_sessions` | 2 x 128, lengths 16, 20 and 21, one failure anywhere, two marks | `TsTypeOK`, `TsIInv`, `TsRInv`, `LogInv`, `DataApart`, `IterationsAgree`, `QueriesAgree`, `ReopenAgrees`, `TimesIncrease`, `NoRoomWasted`, `HeadsOK`, `ImplementsLog`, `TsProgramOnlyClears` |
| `ts_reopen_full` | 2 x 128, no failure | `OpenUsable`: violated |
| `ts_query_after_loss` | 2 x 128, one failure | `QueriesComplete`: violated |

`ts_sessions` has 803,955 distinct states. Two is the least number of sectors. Their 96 bytes
hold three records of 16 bytes, which fill them to the last byte, or two if one of them has 20;
21 is refused (`MaxLen` is 20). Two marks are enough for a record to go on to a state and
back. `Times` are 2, 4, ..., 10, so that there are five appends with new times in a behaviour:
enough for the ring to wrap around and overwrite a sector that was full, and queries can
ask for times that are absent. Closing, opening, cleaning and changing the rollover are not
bounded. The failure (`MaxFailures`) is a power loss during a call or the begin of a
failing medium, at any storage call; records are marked at most `MaxMarks` times and only
before it. The clock advances only with an append that began on a working medium, so that
attempts on a failing one do not use it up. With six times (1,715,400
states), with two failures (times up to 8, no marks, 688,829 states), and with three sectors of 64
bytes (lengths 13 and 16, no marks, 137,443 states) everything holds as well; together they are
more than a routine run should take. The second copy of the end information is written
in a session after a failure has left the first one half written.

`ImplementsLog` is the main property. The log is the set of the committed records; every
storage call is a step of `TsLog` or none. So an append takes effect with the one call that
commits it, whole and with a time that is larger than all others; room is made by dropping
the oldest entries only; the contents survive close, power loss and reopen; and without a
failure nothing but `clean` ever empties the log. After a failure an open may wipe it: the
code does so whenever a sector was erased and has no magic word yet. Once an open
found no current sector (`ruined`, disagreement 5 below) or no oldest one, no order of the
entries is promised. The latter needs three sectors and two power losses, the first when a
sector was closed and the next one was not yet taken into use, the second while `clean` goes
through the sectors in front: then a sector that is full lies between empty ones, the scan
of `init` (`tsdb.rs:926-951`) takes the sector behind the last empty one for the oldest,
and the ring is read from its middle (`BrokenRing`).

`IterationsAgree` and `QueriesAgree` are stated until the first failure (`Calm`): all
records, once and in order; and for every interval of `Intervals`, in both directions,
exactly the records in it, and a count over all times, upwards, is the number of records with the
state. A query downwards is compared only while no sector is full to the last byte
(`NoneExact`); the run reaches such sectors, in which the code fails (see "Reverse queries in a
sector that is exactly full"), and there compares iterations, counts and queries upwards.
`HeadsOK` is what they rest on: the start time and the end
information in the header of a sector are those of its first and its last record. `NoRoomWasted`, `ReopenAgrees` and `TimesIncrease` are stated after
failures as well: no sector is closed while it has room for its share of `max_blob_count`,
where what a failure left of a record counts, for its room is lost; what is in memory
between the calls is what the next open will compute; and times increase along the ring from
the oldest sector on.

### Helpers

`flash_bytes` (374,968 states) checks `EndFound`, `NodeFound`, `ReadsBetween` and
`ReadsForward`: memories of eight bytes read in pieces of three with words of two bytes, so
that runs of erased bytes and words lie across the ends of pieces; status words of six
states, on both kinds of media. The two machines share nothing and are not interleaved (`MCFlash`).
What `find_next_kv_addr` does not search at the end of a sector is part of `NodeFound`;
the theorem `AllNodesInReach` says that no node of the log begins there.

### Fairness

**Key-value database.** `WF_vars(Step)`: a call that has begun goes on. The code is sequential
and its caller waits for it, so nothing else can run in between; no fairness is
assumed of the client (who need not call), of the power or of the medium.
`CallsReturn` is about the code's own loops: it fails exactly if the loop of `kv_load`
or `new_kv` or a walk can go round for ever. `Tsdb` has the same fairness; its loops are
over the sectors, so that no liveness property is worth a run there. The helpers have none.

Deadlock is checked in every run.

### Disagreements with the documentation

1. *A lost update* (`kv_lost_update`). `recover_one_kv` (`kvdb.rs:1010-1018`) ends the
   recovery pass at the first half written node. If the walk meets the new node before
   the old one, the old one stays PRE_DELETE and `get` returns neither value in that
   session. `tests/recovery.rs:5-7` says that on the next open the key holds the old or
   the new value. The tests have the old node first in the walk. It does not end there: if
   the key is then set, a collection makes the old node live again besides the new one, and
   if the key is set and deleted the old value is back after the next open. `OneLiveNode`
   and `NothingComesBack` fail on the instance of this run as well.
2. *A key lost in a collection* (`kv_lost_in_gc`). `do_gc_one` (`kvdb.rs:770`) ignores
   that a node could not be moved and erases the sector. After a power loss during a
   copy the torn copy takes the room of the spare sector, and the resumed collection
   has none left. `tests/recovery.rs:100`: "The untouched key must always survive."
3. *Open does not end* (`kv_open_hangs`). Between the PRE_DELETE status and the dirty mark
   a power loss leaves a node to be moved and no sector to be collected; if the node
   fits nowhere, the loop `kvdb.rs:963-970` repeats for ever.
4. *A key of full length* (`kv_long_key`). `KV_NAME_MAX` is the "maximum length of a KV
   name" (`def.rs:21`), `create_kv_blob` accepts 64 bytes, and `read_kv`
   (`kvdb.rs:284-288`) cuts the last one off: the entry is never found.

5. *A full time-series database cannot be opened* (`ts_reopen_full`). Without rollover
   the last sector is marked FULL; the next session has rollover on again, `init`
   (`tsdb.rs:939-948`) finds no sector in use and none empty and goes on with the address
   0xFFFFFFFF: a panic where arithmetic is checked, else an open that succeeds, reads
   nothing, and destroys the header of sector 0 with the next append. The same happens after
   a power loss between the mark FULL and the format of the next sector in a ring.
   `tests/recovery.rs:132-133` says: "Opening a database over arbitrary garbage must never panic;
   it should reformat and come up empty and usable." (What is on the medium here is not
   garbage but a database that this program wrote.)
6. *Queries miss records after a power loss* (`ts_query_after_loss`). A half written record
   reads as time 0. The binary search (`tsdb.rs:717`) takes the index for sorted, and the
   query ends at the record because its time is out of the interval, so committed records
   behind or in front of it are not returned. `tsdb.rs:738-739` says that the query
   collects the records whose time falls in the interval.
Other behaviour a maintainer should know of, which no run is about:

* `oldest_addr` is not what `find_oldest_addr` computes from the same medium in three cases, of
  which each only changes the order of the walks: after a power loss during a collection;
  after `set_default`, which writes from the old `oldest_addr` on and then sets it to 0
  (`kvdb.rs:1160`); and, from four sectors on, after a value that `create_kv_blob` admits but
  `alloc_kv` never finds room for, because it asks for `SEC_REMAIN_THRESHOLD` bytes more than an
  empty sector has: every attempt runs a collection, which can leave a sector in use between two
  empty ones. On 4 x 512 TLC finds that in 71 steps.

* *Reverse queries in a sector that is exactly full.* When index and data of a sector meet
  without a byte between them, the search for the last record not newer than `from`, with `from`
  behind the last record, ends behind it (`tsdb.rs:723-730` steps back only from what it takes
  for a newer record). There the data of the last record begin, and `collect_by_time` reads them
  as an index record: a record nobody appended is reported, or the query ends before it has
  returned anything. With any room left, if too little for an index record, the status byte there
  is erased and the place is skipped. Without the condition `NoneExact` TLC finds `QueriesAgree`
  violated, on 2 x 128 with records of 16 bytes, `MaxLen = 16` and no failure after 27 states.

* *Bits that are programmed back.* `storage.rs:4-7` says that the engine only ever programs
  subsets of what is there, which is why `RamStorage` and `FileStorage` may overwrite. Two calls of
  the time-series log do not keep to it, and `TsProgramOnlyClears` names them: `set_status` with a
  state that is earlier than that of the record (the record goes back on these backends and stays
  as it is on NOR flash), and an append without a current sector, which programs its time over the
  magic word of sector 0 (disagreement 5).

* A smaller record can be appended to a sector whose end information was completed before
  a power loss prevented the mark FULL: the end index then leaves it out.
* After two losses that each leave a copy of the end information half written, the sector is
  closed without one.
* A sector taken into use without its first record (power lost in between) is iterated as
  if it had one, and the next session starts from `last_time` 0.
* In the middle of a format every open wipes the whole database.
* A full database stays full when rollover is switched on.
* `get_str` returns the first 128 bytes of a longer value; its comment (`kvdb.rs:1125-1126`)
  says that such a value is not returned.

## 4. Proofs

### The key-value database

All constants are arbitrary: any geometry `validate_geometry` admits, any keys and
values of any lengths, any defaults, any number of power losses and faults, failures
during collections included. The assumptions are those named in `KvFlash` and `Kvdb`.

| Theorem | States |
|---|---|
| `TypeCorrect` (`KvdbProofs`) | `Spec => []TypeOK` |
| `InductiveInvariant` (`KvdbProofs`) | `Spec => []IInv` |
| `LogCorrect` (`KvdbProofs`) | `Spec => []LogOK` |
| `AllNodesInReach` (`KvdbProofs`) | `Spec => []NodesInReach` |
| `NodesKept` (`KvdbProofs`) | `Spec => [](KeptOK /\ WrittenOK)` |
| `ClearsOnly` (`KvdbProofs`) | `Spec => ProgramOnlyClears` |
| `SpareKept` (`KvdbSpareProofs`) | `Spec => []SpareSector` |
| `HeadersKept` (`KvdbSpareProofs`) | `Spec => []AllFormatted` |
| `CheckKept` (`KvdbSpareProofs`) | `Spec => []CheckPasses` |
| `DefaultsWritten` (`KvdbSpareProofs`) | `Spec => [](DefaultsFit => DefaultsThere)` |
| `MediumKept` (`KvdbMapProofs`) | `Spec => []MInv` |
| `MapAlways` (`KvdbMapProofs`) | `Spec => []MapInv` |
| `OneNode` (`KvdbMapProofs`) | `Spec => [](Quiet /\ PlainKeys => OneLiveNode)` |
| `ReadsKept` (`KvdbMapProofs`) | `Spec => [](Quiet /\ PlainKeys => ReadsAgree)` |
| `MapSteps` (`KvdbMapProofs`) | until the first failure every step of `Kvdb` is a step of `KvMap` or changes nothing of it |
| `MapImplemented` (`KvdbMapProofs`) | `NoFailure => (Spec => ImplementsMap)` |
| `EntriesOnce` (`KvdbMapProofs`) | `NoFailure => (IterSpec => EveryEntryOnce)` |
| `NothingStale` (`KvdbMapProofs`) | `NoFailure => (IterSpec => ReportsCurrent)` |
| `CollectionsFinish` (`KvdbMapProofs`) | `Spec => []NothingHalfCollected` |

*Type correctness.* `TypeOK` is not inductive: the length of a node about to be written
is a number only if the frame that writes it has a key and a value, and a collection
works with the key and value it reads from a node. So `ArgsOK` says what the frames of
the functions in execution hold, and `NamesOK` that every node whose CRC matches, or
whose next write makes it match, has a key and a value. `TypeOK /\ ArgsOK /\ NamesOK` is
preserved, with one lemma per action. `KvdbProofs` begins with the lemmas about walks
(`Least`, `FirstMet`), `find_kv` and `alloc_kv` on which this rests: the sector they
return is one, the node they find is there and has a key.

*The log.* `LogOK` says that nodes do not overlap, that the margin of
`SEC_REMAIN_THRESHOLD` bytes behind the last node is never used, and that no sector is
marked FULL. It holds because `alloc_kv` finds the end of the log and asks for more room
than the node takes, **and** because nothing is written to that sector until the node
is: `set_kv` looks for the old node and marks it in between, which changes a status byte
and no length. That is `PlaceOK`, the heart of the invariant: from `NewKv` or `MvAlloc` to
the last write `put.addr` is the end of the log of `put.sec`, with room for the node and
the margin. A copy is as long as the original, so `move_kv` needs that the length of an
intact node is that of its key and value (`LensOK`); a sector in the state EMPTY starts its
log at its header, so it must have no nodes (`EmptyOK`). When the write of a node is cut
short the log ends in a damaged node that is no longer than the room found for it, and
the proof shows that each of the four forms it can have keeps the log in order.
The consequence that no sector becomes FULL means that the branch
`update_sec_status`, `kvdb.rs:462-474`, is never taken, and with it the collection that
`create_kv_blob` asks for at line 636.

`AllNodesInReach` follows from the margin: the magic word of every node of the log lies in
front of the last bytes of a sector, which `find_next_kv_addr` does not search; with
`NextNodeFound` no node of the list is out of reach of the scan.

*The medium.* `ProgramOnlyClears` is about one step, but whether a write only clears bits
depends on what was read long before. `set_kv` and `move_kv` hold the address of the old
node while a new one is allocated and written, and delete it at the end: `KeptOK` says that
each node that is still to be deleted (`ToDelete`, computed from the frames in execution) is
there, is live or half deleted, and is not the one that is being written; the collection
that could have erased its sector runs before the node is looked for, or is the one that
moves it. `WrittenOK` says that each write of a node finds what the write before it left. The
statuses of nodes and sectors then only go forward.

*The spare sector.* During a collection there may be no empty sector, and power may be lost
there. So the invariant has three parts. `AloneOK` is about the medium alone: there is an
empty sector, or one that carries the mark of a collection or has no header. `SpareAhead`
says that when none is empty, the part of the code that makes one is still ahead: the walk
of the collection has not come to the marked sector yet, or the walks of `kv_load` over the
headers and over the marked sectors come to it. `RequestOK` says why nobody else takes the
last empty sector: `gc_request` is set only inside a collection or by a move that found no
place, and without it `alloc_kv` refuses (`GC_EMPTY_SEC_THRESHOLD`). That the node of a
`set` is written to the sector `alloc_kv` found, and that this is not the last empty one, must
be carried through the marking of the old node.

*Headers and `check`.* `HeadersOK` says which sectors may be without a header: those `kv_load`
has not come to yet and the one that is being formatted. `CheckPasses` is stated until the first
failure (`Quiet`): then every node but the one that is being written is whole, and every
sector in use but the one that is written to has a node.

*The defaults.* `DefaultsFit` says that one sector has room for all defaults, with the margin of
`SEC_REMAIN_THRESHOLD` behind them, that no key is too long and that no two are the same (the
instance of `kv_failing_medium` satisfies it). It is a condition: `set_default` ignores the error of
a default that finds no place. `DefaultState` then gives the whole medium at every step of
`set_default`: the sectors behind the walk are formatted; after it there is one sector with
the first `i` defaults, at the addresses that their lengths add up to, and with the part of the next one
that is written so far, and all others are empty. `alloc_kv` finds that sector, or any of
the empty ones for the first default, although `oldest_addr` is still the one from before; so
`new_kv` never collects for a default, which is what must be known of all other frames
(`NewFirst`).

*The map.* That the contents are those of a map cannot be proved for every failure, because
it is not true (disagreements 1 to 3). It is proved until the first one (`Quiet`: no power was
lost and the medium works), for every geometry, keys, lengths and sequence of calls and
sessions. `PlainKeys` asks that no key has exactly `KV_NAME_MAX` bytes (disagreement 4) and
that no two defaults have the same key: `set_default` (`kvdb.rs:1154-1158`) writes both nodes.
Keys that are longer, and refused, are included. `MapInv` is what is needed, in four parts.

* `ControlOK` says for whom the functions on the stack work, since one allocator, one writer and
  one `del_kv` serve `set`, `del`, `set_default` and the collection: which key and value is
  written, and that the node to be deleted is the one that was looked up.
* `NodesOK`: a key has at most one live node, and a half deleted node exists only while the
  frames in execution hold its address (`Half`); the node that replaces it is there before
  it is deleted for good, and not before the old one is marked.
* `RoomOK`: a collection moves all nodes of its sector before it erases it. The code ignores a
  move that fails (`kvdb.rs:770`), so it must be that none does: some other sector that
  `alloc_kv` may take has room for all that is left, because the copies go there in order and
  each is as long as the original, so that they never reach further than the originals did
  (`Takes`). This needs that the mark of a collection is on one sector only (`MarksOK`) and that a
  collection begins with an empty sector.
* `FormatsOK`: a sector is formatted only when no node in it is needed. The walk of `kv_load`
  finds bad headers in new storage only, and what `set_default` has written since it wiped
  the medium are defaults.

From this follow `Recoverable` (the live node of the key if there is one, else the half deleted
one) and, for each action, what it does to the contents: `PutCommit` of a `set`, `DelStatus`
of a `del` and the steps of `set_default` take effect; a copy has the same key and value as
the node it replaces; nothing else changes a node that counts. `MapImplemented` is the
statement of `ImplementsMap` with the assumption that nothing fails.

*The iterator.* The theorems are about `IterSpec`: an iterator is created, called and given up
between any steps of `Kvdb`, where nothing fails (`NoFailure`). The invariant `TrackOK`
compares two places. That of an entry is the sector and address of its only live node
(`OneLiveNode`); it stays, or the entry is no longer followed. That of the iterator is the number
of sectors it has seen and the address it searches on from, and each call moves it forward. An
entry that is followed is due exactly as long as its place is not behind that of the iterator. A
call of `iterate` stops at the first live node that is not behind the iterator, so it passes over
no entry that is due and meets none that was reported; when there is none left, no entry is due.
The sectors of the walk are counted from the sector the iterator began with, not from
`oldest`, which a collection may move meanwhile.

*Interrupted collections.* `CollectionsFinish` holds with failures anywhere, for two sectors as the
property says. `MarksAhead` says where there may be marks and which code is still to come to
them: without power, `kv_load`, which walks over the headers and then begins a collection for the
first marked sector; in that collection, the sector in work and, as it was called with the size of
the whole medium and so does not end early, all sectors behind it; in `set_default`, the sectors
it has not wiped yet. The collection might refuse to begin, because it does nothing while
more than one sector is empty; with two sectors neither would be marked then, for an empty
sector is not dirty (`EmptyClean`). That in turn needs that `del_kv` marks only sectors that hold
a node (`DirtyOf`). What the medium or the power breaks off leaves the claim to the next open.

`IInv` is checked by TLC in `kv_failing_medium`, `MInv` in `kv_fail_anywhere`, `MapInv` in
`kv_sessions`; each is proved in three steps: the initial states, the step, and what it implies.

### The time-series log

All constants are arbitrary: any geometry, any lengths of blobs, any finite set of positive
times, any number of marks and failures. The assumptions are those named in `TsFlash` and `Tsdb`.

| Theorem | States |
|---|---|
| `TsInductive` (`TsdbProofs`) | `Spec => []TsIInv` |
| `TsTypeCorrect` (`TsdbProofs`) | `Spec => []TsTypeOK` |
| `TsDataApart` (`TsdbProofs`) | `Spec => []DataApart` |
| `TsOnlyClears` (`TsdbProofs`) | `Spec => TsProgramOnlyClears` |
| `RingAlways` (`TsdbRingProofs`) | `Spec => []TsRInv` |
| `TimesOrdered` (`TsdbRingProofs`) | `Spec => []TimesIncrease` |
| `ReopenFinds` (`TsdbRingProofs`) | `Spec => []ReopenAgrees` |
| `LogInvariant` (`TsdbLogProofs`) | `Spec => []LogInv` |
| `LogImplemented` (`TsdbLogProofs`) | `Spec => ImplementsLog` |
| `RoomUsed` (`TsdbLogProofs`) | `Spec => []NoRoomWasted` |
| `HeadersTrue` (`TsdbQueryProofs`) | `Spec => []HeadsOK` |
| `IterationsComplete` (`TsdbQueryProofs`) | `Spec => []IterationsAgree` |
| `QueriesCorrect` (`TsdbQueryProofs`) | until the first failure a query for any interval, upwards, or downwards if `NoneExact`, returns the records of the interval in order |
| `QueriesExact` (`TsdbQueryProofs`) | `Spec => []QueriesAgree` |

*Bytes.* `DataApart` (no two records share bytes, none reaches into the index, the data of a
committed record were written) is about the medium alone and must hold however often
sessions end in the middle of a call. So the inductive invariant has two parts. `MediumOK`
says what any session leaves behind: the status of a sector, of a copy of the end
information and of a record goes ahead of what it announces, and index and data are apart.
It is preserved by every step, also of a failing medium. `MemoryOK` says that what is in
memory agrees with the medium: between two appends `cur` describes its sector, the room it
claims is free, and during a call every write finds the place it programs as the write
before it left it. It is needed only while the medium works, for nothing is written after
that; it is established again by every open, from `MediumOK`. The heart of that is the
lemma about the walk in `read_sector_info`: with half written records counted as the longest
blob, what the next session takes for the free room is never more than what is free.
`TsOnlyClears` is then a consequence for each action: the place a write programs is erased,
or the write is a status that goes forward, or the call is one of the two that are named in
`Programs` and changes one status or the magic word of sector 0 alone.

*The ring.* `TimesIncrease` compares records of different sectors, in the order in which this
session or the next one walks them. Three invariants are proved one after the other.
`TimesOK` is about single records: in a sector times increase, none is newer than the clock of
the client, only the current sector is in use, and the append in execution has a time that is
newer than all. `RingOK` is about the sectors: those in front of the current one are full,
behind it come empty ones and then full ones, which are the oldest (`Ring`); while the next
sector is formatted all others are full (`FormatRing`); and whatever fails, what is left is such
a ring of which `clean` took some sectors in front (`Remains`). `Opened` maps `Remains` to
`Ring` again: this is where `init` must find the right oldest sector from the empty ones alone,
and where the ring that cannot be told any more (`BrokenRing`) comes from. `MemoryAgain`
says that the description of the current sector in memory is what a new read of the sector
gives, at every point of an append with what is known by then; `ReopenAgrees` follows from
it and from `RingOK`.

*The refinement.* The log of `TsLog` is the set of the committed records of all sectors that
have a header (`Entries`). Each storage call maps to one step: `TslWrite` to `Effect`, and it is
here that the time must be newer than all entries (`TimesOK`); `FmtErase` of an append to
`Reuse`, and it is here that the sector must hold the oldest entries (`FormatRing`); the same
steps of `clean` or of an open to `Wipe`; `SetStatus` to `Mark`, where no other entry may have
the same time (`OneTime`); `SetFull` without a next sector to the answer `SavedFull`, where the
log must not be empty; the rest to the answer of an error or to no step. What a failing
medium refuses is no step. `LogInv` has what this needs besides: the call in execution
(`CallOK`), and, until the first failure, that no record is half written, that no sector is
closed empty and that an open finds nothing to wipe (`CalmOK`).

*The room.* `NoRoomWasted` rests on `RoomKept`: every record was given at most the room of
the longest blob (`Packed`), so what `cur` claims is at least the room of the sector without
that of its records (`Roomy`), in memory and when a later session reads the sector, which
counts a half written record as the longest blob; a sector whose end is written has
no room for one more of that length (`Tight`).

*Headers.* `HeadsOK` is inductive with the invariants above: each step of an append is
shown to leave the header of its sector true to its records (`HeadsNow`, one lemma for each
kind of step), where the end information is written with `cur` in memory and must be
that of the records on the medium (`MemoryAgain`).

*Iterations.* `iter` walks from the oldest sector on, and what it returns is the pieces of the
sectors put together. Three facts give the result: the walk meets every sector once
(`ForwardIs`, `BackwardIs`), the records of a sector are in order, and the times of the sectors
increase along the walk (`TimesOrdered`), the empty ones last, where the walk stops
(`Along`).

*Queries.* For any walk with these facts and any times that increase along it (a query downwards
is one upwards with the times negated, `Direction`) `QueryAlong` shows what `collect_by_time`
returns: sectors whose headers exclude them are passed over, in the first sector the interval
reaches the binary search gives the place to begin with, and from there on everything is read
up to the first record behind the interval. The binary search (`search_start_tsl_addr`) is
shown for any function of the numbers of the records that increases: an interval is
halved until it is empty, with the answer between its ends (`NarrowedIs`, `SearchIs`). No
theorem of the library defines a recursive function without an operator as parameter, so the
proofs give the function explicitly, from the length of the sequence, or from the rank of
the arguments, and show that it satisfies the equation (`FlattenExists`, `SearchDefined`,
`SameWalk`).

`NoneExact` says that in no sector the data begin right behind the index. It is needed:
in such a sector the code goes wrong downwards (see "Reverse queries in a sector that is exactly
full"). Upwards `QueriesCorrect` and `QueriesAgree` hold without it.

### The helpers

| Theorem (`FlashProofs`) | States |
|---|---|
| `StatusReadsBetween` | `StatusSpec => []ReadsBetween` |
| `StatusReadsForward` | `StatusSpec => ReadsForward` |
| `EndOfDataFound` | `ScanSpec => []EndFound` |
| `NextNodeFound` | `ScanSpec => []NodeFound` |

For every number of states up to eight and both kinds of media, every memory, every range and every length of the
pieces. The scans have loop invariants: what is known of the part that was read, and that
`last_data` is the byte in front of the next piece.

### Only model-checked

* Liveness (`CallsReturn`) is out of the prover's reach.
* `OneLiveNode`, `ReadsAgree` and `ImplementsMap` are proved until the first failure, the two
  properties of the iterator where nothing fails. With failures the map and `NothingComesBack`
  hold only under the restrictions of their runs (see disagreements 1 to 3), and are
  model-checked there.
* What queries return after a failure (`ts_query_after_loss`): that one is violated.

## 5. Not modelled, and the plan

Not modelled:

* `FileStorage`: writes that are not synced may reach the disk late or in another order.
  Bodies are written without a sync of their own, so that the status that commits them
  can be on the disk first; the models have storage calls that reach the medium in order.
* A single failed call of the storage among successful ones.
* The bytes of values: a value that contains the magic word of a node, or ends in 0xFF.
* CRC32, `get_str`, `read_value`, `dump`, and the rejection of bad geometries.
* `Kv` and `Tsl` handles that are used after the node or record they name was erased.

What is left of the plan, in order:

1. The map after a failure, under the restrictions of `kv_power_in_update`.
2. `FileSync`, with a set of writes that are not synced yet; single failed calls.

## 6. Running

    tlc -workers 2 -config kv_sessions.cfg MCKvIteration
    tlc -workers 2 -config kv_power_in_update.cfg MCKvdb    # and the other kv_*.cfg
    tlc -workers 2 -config ts_sessions.cfg MCTsdb           # and the other ts_*.cfg
    tlc -workers 2 -config flash_bytes.cfg MCFlash
    tlapm KvdbProofs.tla
    tlapm KvdbSpareProofs.tla && tlapm KvdbMapProofs.tla
    tlapm TsdbProofs.tla && tlapm TsdbRingProofs.tla && tlapm TsdbLogProofs.tla && tlapm TsdbQueryProofs.tla
    tlapm FlashProofs.tla

Operators named `M_...` are mutations of the operator that follows them, kept to show
that a property fails when the code has that mistake; `PROJECT.json` names the run and
the property of each.
