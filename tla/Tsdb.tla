-------------------------------- MODULE Tsdb --------------------------------
(***************************************************************************)
(* The time-series database of src/src/tsdb.rs as the sequence of storage  *)
(* calls it makes.  As in Kvdb.tla a step is at most one call that changes *)
(* something, power may fail between any two of them, and the medium may   *)
(* begin to fail for good until power is cycled.  (Only the two writes of  *)
(* the end information that nothing reads before it is complete are one    *)
(* step.)  Queries change nothing: they are in TsQuery.tla.                *)
(*                                                                         *)
(* Time is what the client says it is: its clock shows the times in Times, *)
(* one after the other, also from one session to the next, and an explicit *)
(* time is that of the last attempt, so that a client may repeat an append *)
(* that failed.                                                            *)
(***************************************************************************)
EXTENDS TsFlash

CONSTANTS
    Lens,           \* the lengths of blobs
    Marks,          \* the states a client gives to records
    Times,          \* the times that the clock of the client shows
    MaxTime,        \* bound: the greatest time
    MaxMarks,       \* bound: how often a record is given a state, before the first failure
    MaxFailures     \* bound: how often power fails during a call or the medium begins to fail

\* A blob of no bytes makes no write of its own.  A time that is not positive is refused.
ASSUME LensAssumption == Lens \subseteq Nat \ {0}
ASSUME TimesAssumption == MaxTime \in Nat /\ Times \subseteq 1 .. MaxTime
\* A client does not take back what append wrote: the states before WRITE.
ASSUME MarksAssumption == Marks \subseteq {"Write", "UserStatus1", "Deleted", "UserStatus2"}
ASSUME TsBoundsAssumption == MaxMarks \in Nat /\ MaxFailures \in Nat

VARIABLES
    flash,       \* the storage image, sector by sector
    cur,         \* cur_sec
    oldest,      \* oldest_addr
    lastTime,    \* last_time
    rollover,    \* rollover
    pc,          \* the place in the code; "Idle" between calls, "Off" without power
    call,        \* the call in execution and its locals
    result,      \* what the last call returned
    clock,       \* the last time the client used
    marks,       \* what is left of MaxMarks
    failing,     \* every storage call fails until power is cycled
    failures,    \* what is left of MaxFailures
    ruined       \* history: an open found no current sector, or no beginning of the ring

ram == <<cur, oldest, lastTime, rollover>>
medium == <<failing, failures>>
client == <<clock, marks, ruined>>
vars == <<flash, cur, oldest, lastTime, rollover, pc, call, result, clock, marks,
          failing, failures, ruined>>

Labels == {"Off", "Idle", "EndPre", "EndData", "EndWrite", "SetFull", "SetUsing", "SetStart",
           "TslPre", "TslIdx", "TslData", "TslWrite", "FmtErase", "FmtStatus", "FmtMagic",
           "CleanEnd"}

\* slot is the copy of the end information that is written, sec the sector that is
\* formatted.
Call == [op: {"None", "Append", "Clean", "Open"}, time: Int, len: Nat,
         slot: 1 .. 2, sec: Sector]
NoCall == [op |-> "None", time |-> 0, len |-> 0, slot |-> 1, sec |-> 0]

Results == {"None", "Ok", "SavedFull", "WriteErr", "EraseErr", "ReadErr", "Panic"}

TsTypeOK ==
    /\ flash \in [Sector -> SectorImage]
    /\ cur \in SecInfo
    /\ oldest \in Sector \cup {NoAddr}
    /\ lastTime \in Int
    /\ rollover \in BOOLEAN
    /\ pc \in Labels
    /\ call \in Call
    /\ result \in Results
    /\ clock \in 0 .. MaxTime
    /\ marks \in 0 .. MaxMarks
    /\ failing \in BOOLEAN
    /\ failures \in 0 .. MaxFailures
    /\ ruined \in BOOLEAN

\* Nothing is open; the storage is erased or was never a database.
Closed == /\ cur = Blank(NoAddr) /\ oldest = NoAddr /\ lastTime = 0 /\ rollover = TRUE
          /\ pc = "Off" /\ call = NoCall

Init ==
    /\ flash = [s \in Sector |-> Erased]
    /\ Closed /\ result = "None"
    /\ clock = 0 /\ marks = MaxMarks
    /\ failing = FALSE /\ failures = MaxFailures
    /\ ruined = FALSE

----------------------------------------------------------------------------
(* Storage calls *)

\* The outcome of one storage call; without one the medium stays as it is.
Outcome(ok) ==
    /\ IF ok THEN ~failing ELSE failing \/ failures > 0
    /\ failing' = ~ok
    /\ failures' = IF ok \/ failing THEN failures ELSE failures - 1

Quiet == UNCHANGED <<flash, medium>>

Program(s, image, ok) ==
    /\ Outcome(ok)
    /\ flash' = IF ok THEN [flash EXCEPT ![s] = image] ELSE flash

Return(r) == pc' = "Idle" /\ call' = NoCall /\ result' = r

Goto(label) == pc' = label /\ UNCHANGED <<call, result>>

\* `?': the next write, or the error.
\* Mutant: the error is dropped.
M_Then(ok, label) == IF ok THEN Goto(label) ELSE Return("Ok")
Then(ok, label) == IF ok THEN Goto(label) ELSE Return("WriteErr")

----------------------------------------------------------------------------
(* tsl_append *)

Cost(len) == LOG_IDX_DATA_SIZE + len

\* The room of a sector, and how many of the longest blobs all sectors hold.
Room == SecSize - SECTOR_HDR_DATA_SIZE
max_blob_count == N * (Room \div Cost(MaxLen))

\* Mutants: the index record is forgotten; the sector header is counted once more.
M_NoRoom(len) == cur.remain < len
M_NoRoomHeader(len) == cur.remain < Cost(len) + SECTOR_HDR_DATA_SIZE
NoRoom(len) == cur.remain < Cost(len)

\* Mutant: a time that repeats the last one is taken.
M_Refused(len, t) == len > MaxLen \/ t < lastTime
Refused(len, t) == len > MaxLen \/ t <= lastTime

\* The copies of the end information that were never written; the first one is used.
\* Mutant: the first copy is used again.
M_EndSlots == {1}
EndSlots == {e \in 1 .. 2 : cur.stat[e] = "Unused"}

\* update_sec_status up to its first write.
Begin(len, t, label, slot) ==
    /\ pc' = label /\ result' = "None"
    /\ call' = [NoCall EXCEPT !.op = "Append", !.time = t, !.len = len, !.slot = slot]

TslAppend(len, t) ==
    /\ pc = "Idle" /\ Quiet
    /\ \/ Refused(len, t) /\ Return("WriteErr")
       \/ /\ ~Refused(len, t) /\ cur.ok
          /\ \/ /\ cur.status = "Using" /\ NoRoom(len)
                /\ IF EndSlots # {} THEN Begin(len, t, "EndPre", Least(EndSlots))
                   ELSE Begin(len, t, "SetFull", 1)
             \/ cur.status = "Using" /\ ~NoRoom(len) /\ Begin(len, t, "TslPre", 1)
             \/ cur.status = "Full" /\ Return("SavedFull")
             \/ cur.status = "Empty" /\ Begin(len, t, "SetUsing", 1)
    /\ UNCHANGED <<ram, marks, ruined>>

(***************************************************************************)
(* The current sector is none, or its header was not read: its fields are  *)
(* zero, and so are the addresses.  Where arithmetic is checked the        *)
(* program stops (empty_data - len).  Else the index record is written to  *)
(* address 0, over the header of sector 0: the low byte of the time over   *)
(* the last byte of the magic word.  The data are written outside of the   *)
(* storage, which is an error.  Nothing else is read of a sector without a *)
(* magic word, so it is left as it is here.                                *)
(*                                                                         *)
(* Bounds: the writes of the record are one step, and its time does not    *)
(* spell the magic word again.  (Where bytes are overwritten there would   *)
(* be a header of an empty sector then, and its records.)                  *)
(***************************************************************************)
MagicByte == 48
AppendNowhere(len, t, ok) ==
    /\ pc = "Idle" /\ ~Refused(len, t) /\ ~cur.ok /\ t % 256 # MagicByte
    /\ Program(0, [flash[0] EXCEPT !.ok = FALSE], ok)
    /\ Return("WriteErr")
    /\ UNCHANGED <<ram, marks, ruined>>

\* The end of the program: what it had in memory is gone.
Reset ==
    /\ cur' = Blank(NoAddr) /\ oldest' = NoAddr /\ lastTime' = 0 /\ rollover' = TRUE
    /\ pc' = "Off" /\ call' = NoCall

AppendPanics(len, t) ==
    /\ pc = "Idle" /\ ~Refused(len, t) /\ ~cur.ok
    /\ Reset /\ result' = "Panic" /\ failing' = FALSE
    /\ UNCHANGED <<flash, failures, marks, ruined>>

\* (A time that reached no storage is as good as a new one.)
AppendAt(len, t) ==
    /\ \/ TslAppend(len, t)
       \/ AppendPanics(len, t)
       \/ \E ok \in BOOLEAN : AppendNowhere(len, t, ok)
    /\ clock' = IF pc' \in {"Idle", "Off"} \/ failing THEN clock ELSE t

\* append: the next time that the clock shows.
NextTimes == {t \in Times : t > clock /\ \A u \in Times : u > clock => t <= u}
AppendNow(len) == \E t \in NextTimes : AppendAt(len, t)

\* append_with_ts: the time of the last attempt once more.
AppendAgain(len) == clock > 0 /\ AppendAt(len, clock)

----------------------------------------------------------------------------
(* update_sec_status: the end information *)

End == flash[cur.sec].ends[call.slot]
\* Mutant: always the second copy.
M_WithEnd(end) == [flash[cur.sec] EXCEPT !.ends[2] = end]
WithEnd(end) == [flash[cur.sec] EXCEPT !.ends[call.slot] = end]

EndPre(ok) ==
    /\ pc = "EndPre"
    /\ Program(cur.sec, WithEnd([End EXCEPT !.stat = "PreWrite"]), ok)
    /\ Then(ok, "EndData")
    /\ UNCHANGED <<ram, client>>

\* The time and the number of the last record.
EndData(ok) ==
    /\ pc = "EndData"
    /\ Program(cur.sec, WithEnd([End EXCEPT !.time = lastTime, !.idx = cur.idx]), ok)
    /\ Then(ok, "EndWrite")
    /\ UNCHANGED <<ram, client>>

EndWrite(ok) ==
    /\ pc = "EndWrite"
    /\ Program(cur.sec, WithEnd([End EXCEPT !.stat = "Write"]), ok)
    /\ Then(ok, "SetFull")
    /\ UNCHANGED <<ram, client>>

----------------------------------------------------------------------------
(* update_sec_status: the next sector *)

\* The next sector becomes the current one; if it is not empty, the oldest records go.
TakeSector(s) ==
    LET c == read_header(flash, s)
    IN  /\ cur' = c
        /\ IF c.status = "Empty"
           THEN oldest' = oldest /\ Goto("SetUsing")
           ELSE /\ oldest' = NextSector(s)
                /\ pc' = "FmtErase" /\ call' = [call EXCEPT !.sec = s] /\ UNCHANGED result

SetFull(ok) ==
    /\ pc = "SetFull"
    /\ Program(cur.sec, [flash[cur.sec] EXCEPT !.store = "Full"], ok)
    /\ \/ ~ok /\ Return("WriteErr") /\ UNCHANGED <<cur, oldest>>
       \/ ok /\ (cur.sec + 1 < N \/ rollover) /\ TakeSector(NextSector(cur.sec))
       \/ /\ ok /\ cur.sec + 1 = N /\ ~rollover
          /\ cur' = [cur EXCEPT !.status = "Full"]
          /\ Return("SavedFull") /\ UNCHANGED oldest
    /\ UNCHANGED <<lastTime, rollover, client>>

SetUsing(ok) ==
    /\ pc = "SetUsing"
    /\ Program(cur.sec, [flash[cur.sec] EXCEPT !.store = "Using"], ok)
    /\ cur' = [cur EXCEPT !.status = "Using", !.start = call.time]
    /\ Then(ok, "SetStart")
    /\ UNCHANGED <<oldest, lastTime, rollover, client>>

SetStart(ok) ==
    /\ pc = "SetStart"
    /\ Program(cur.sec, [flash[cur.sec] EXCEPT !.start = call.time], ok)
    /\ Then(ok, "TslPre")
    /\ UNCHANGED <<ram, client>>

----------------------------------------------------------------------------
(* write_tsl *)

\* A record of which only the status is written.
Reserved == [status |-> "PreWrite", time |-> ErasedTime, len |-> 0, top |-> cur.data,
             data |-> FALSE]

TslPre(ok) ==
    /\ pc = "TslPre"
    /\ Program(cur.sec, [flash[cur.sec] EXCEPT !.tsls = Append(@, Reserved)], ok)
    /\ Then(ok, "TslIdx")
    /\ UNCHANGED <<ram, client>>

\* The writes that follow, to the last record of the sector.
Record == LastRecord(flash[cur.sec])
WithLast(r) == [flash[cur.sec] EXCEPT !.tsls[Len(flash[cur.sec].tsls)] = r]

TslIdx(ok) ==
    /\ pc = "TslIdx"
    /\ Program(cur.sec, WithLast([Record EXCEPT !.time = call.time, !.len = call.len]), ok)
    /\ Then(ok, "TslData")
    /\ UNCHANGED <<ram, client>>

TslData(ok) ==
    /\ pc = "TslData"
    /\ Program(cur.sec, WithLast([Record EXCEPT !.data = TRUE]), ok)
    /\ Then(ok, "TslWrite")
    /\ UNCHANGED <<ram, client>>

\* The commit, and the rest of tsl_append.
\* Mutant: the end of the data is forgotten.
M_WithRecord(c) == [c EXCEPT !.endIdx = c.idx + 1, !.endTime = call.time, !.idx = @ + 1,
                             !.remain = @ - Cost(call.len)]
WithRecord(c) == [c EXCEPT !.endIdx = c.idx + 1, !.endTime = call.time, !.idx = @ + 1,
                           !.data = @ - call.len, !.remain = @ - Cost(call.len)]

TslWrite(ok) ==
    /\ pc = "TslWrite"
    /\ Program(cur.sec, WithLast([Record EXCEPT !.status = "Write"]), ok)
    /\ \/ ok /\ cur' = WithRecord(cur) /\ lastTime' = call.time /\ Return("Ok")
       \/ ~ok /\ Return("WriteErr") /\ UNCHANGED <<cur, lastTime>>
    /\ UNCHANGED <<oldest, rollover, client>>

----------------------------------------------------------------------------
(* set_status *)

\* Of a record a query returned, to any state a client gives: also to one that is earlier
\* than its own.  The backends of storage.rs overwrite the byte.
SetStatus(s, j, st, ok) ==
    /\ pc = "Idle" /\ marks > 0 /\ failures = MaxFailures
    /\ s \in Sector /\ flash[s].ok /\ j \in Committed(flash[s])
    /\ Program(s, [flash[s] EXCEPT !.tsls[j].status = st], ok)
    /\ Return(IF ok THEN "Ok" ELSE "WriteErr")
    /\ marks' = marks - 1
    /\ UNCHANGED <<ram, clock, ruined>>

SetRollover ==
    /\ pc = "Idle" /\ rollover' = ~rollover
    /\ Return("None") /\ Quiet
    /\ UNCHANGED <<cur, oldest, lastTime, client>>

----------------------------------------------------------------------------
(* format_sector, called by update_sec_status and by clean *)

\* clean goes on with the next sector whatever became of this one.
FmtReturn(ok, err) ==
    IF call.op = "Append"
    THEN IF ok THEN Goto("SetUsing") ELSE Return(err)
    ELSE /\ IF call.sec + 1 < N
            THEN pc' = "FmtErase" /\ call' = [call EXCEPT !.sec = @ + 1]
            ELSE pc' = "CleanEnd" /\ UNCHANGED call
         /\ UNCHANGED result

FmtErase(ok) ==
    /\ pc = "FmtErase"
    /\ Program(call.sec, Erased, ok)
    /\ IF ok THEN Goto("FmtStatus") ELSE FmtReturn(FALSE, "EraseErr")
    /\ UNCHANGED <<ram, client>>

FmtStatus(ok) ==
    /\ pc = "FmtStatus"
    /\ Program(call.sec, [flash[call.sec] EXCEPT !.store = "Empty"], ok)
    /\ IF ok THEN Goto("FmtMagic") ELSE FmtReturn(FALSE, "WriteErr")
    /\ UNCHANGED <<ram, client>>

\* update_sec_status reads the sector again.
FmtMagic(ok) ==
    /\ pc = "FmtMagic"
    /\ Program(call.sec, [flash[call.sec] EXCEPT !.ok = TRUE], ok)
    /\ cur' = IF ok /\ call.op = "Append" THEN read_header(flash', call.sec) ELSE cur
    /\ FmtReturn(ok, "WriteErr")
    /\ UNCHANGED <<oldest, lastTime, rollover, client>>

----------------------------------------------------------------------------
(* clean, and init *)

CleanCall(op) == /\ pc' = "FmtErase" /\ call' = [NoCall EXCEPT !.op = op]
                 /\ result' = "None"

Clean ==
    /\ pc = "Idle" /\ CleanCall("Clean")
    /\ Quiet /\ UNCHANGED <<ram, client>>

\* The rest of clean, or of the init that called it.
CleanLastTime == IF call.op = "Open" THEN FindLastTime(flash, read_sector_info(flash, 0), 0)
                 ELSE 0
CleanEnd ==
    /\ pc = "CleanEnd"
    /\ cur' = IF call.op = "Open" THEN read_sector_info(flash, 0) ELSE read_header(flash, 0)
    /\ oldest' = 0 /\ lastTime' = CleanLastTime
    /\ Return("Ok")
    /\ Quiet /\ UNCHANGED <<rollover, client>>

\* What init finds without a failed check.
Opened ==
    /\ cur' = read_sector_info(flash, FirstOpen(flash))
    /\ oldest' = FindOldest(flash)
    /\ lastTime' = FindLastTime(flash, cur', oldest')
    /\ ruined' = (ruined \/ FirstOpen(flash) = NoAddr \/ BrokenRing(flash))

\* new, with_options: "strict" is not_formatable.
Open(strict) ==
    /\ pc = "Off" /\ Quiet
    /\ \/ ~CheckFailed(flash) /\ Opened /\ Return("Ok")
       \/ /\ CheckFailed(flash) /\ strict /\ result' = "ReadErr"
          /\ UNCHANGED <<cur, oldest, lastTime, pc, call, ruined>>
       \/ /\ CheckFailed(flash) /\ ~strict /\ CleanCall("Open")
          /\ UNCHANGED <<cur, oldest, lastTime, ruined>>
    /\ UNCHANGED <<rollover, clock, marks>>

\* Without a current sector the address of the next one is 0xFFFFFFFF + sec_size: where
\* arithmetic is checked the program stops.
OpenPanics ==
    /\ pc = "Off" /\ ~CheckFailed(flash) /\ FirstOpen(flash) = NoAddr
    /\ result' = "Panic"
    /\ Quiet /\ UNCHANGED <<ram, pc, call, client>>

----------------------------------------------------------------------------
(* The end of a session *)

\* into_storage, or the database is dropped; power is cycled before it is opened again.
Close ==
    /\ pc = "Idle"
    /\ Reset /\ result' = "None" /\ failing' = FALSE
    /\ UNCHANGED <<flash, failures, client>>

PowerLoss ==
    /\ pc \notin {"Off", "Idle"} /\ failures > 0
    /\ failures' = failures - 1
    /\ Reset /\ result' = "None" /\ failing' = FALSE
    /\ UNCHANGED <<flash, client>>

----------------------------------------------------------------------------

Client ==
    \/ \E len \in Lens : AppendNow(len) \/ AppendAgain(len)
    \/ \E s \in Sector, st \in Marks, ok \in BOOLEAN :
          \E j \in Committed(flash[s]) : SetStatus(s, j, st, ok)
    \/ \E strict \in BOOLEAN : Open(strict)
    \/ OpenPanics \/ SetRollover \/ Clean \/ Close

Step ==
    \/ \E ok \in BOOLEAN : \/ EndPre(ok) \/ EndData(ok) \/ EndWrite(ok) \/ SetFull(ok)
                           \/ SetUsing(ok) \/ SetStart(ok)
                           \/ TslPre(ok) \/ TslIdx(ok) \/ TslData(ok) \/ TslWrite(ok)
                           \/ FmtErase(ok) \/ FmtStatus(ok) \/ FmtMagic(ok)
    \/ CleanEnd

Next == Client \/ Step \/ PowerLoss

\* A call runs to its end unless power is lost; nobody has to call.
Spec == Init /\ [][Next]_vars /\ WF_vars(Step)
=============================================================================
