------------------------------ MODULE TsdbRing ------------------------------
(***************************************************************************)
(* The ring of sectors of the time-series database: the order of its       *)
(* records, what the next session finds, the log the database implements,  *)
(* and the inductive invariants these rest on (TsdbRingProofs).            *)
(***************************************************************************)
EXTENDS TsdbInv

\* Neither the power nor the medium has failed so far.
Calm == failures = MaxFailures

\* The committed records, as <<sector, number>>.
Records == UNION {{<<s, j>> : j \in Committed(flash[s])} : s \in {s \in Sector : flash[s].ok}}
Rec(p) == flash[p[1]].tsls[p[2]]

----------------------------------------------------------------------------
(* The database implements the log *)

\* The entries a sector has in the log.  A sector whose header is lost has none.
Entry(r) == [time |-> r.time, len |-> r.len, status |-> r.status, data |-> r.data]
SectorLog(sec) == IF sec.ok THEN {Entry(sec.tsls[j]) : j \in Committed(sec)} ELSE {}

On == pc # "Off"
Entries == UNION {SectorLog(flash[s]) : s \in Sector}
Req == [op |-> call.op, time |-> call.time, len |-> call.len]
Answer == IF pc \in {"Off", "Idle"} THEN result ELSE "None"

Log == INSTANCE TsLog WITH on <- On, log <- Entries, req <- Req, answer <- Answer,
                           calm <- Calm, lost <- ruined

\* Every storage call is a step of the log or none: an append takes effect with the call
\* that commits it, whole, and nothing but the oldest entries ever makes room.
ImplementsLog == Log!Spec

----------------------------------------------------------------------------
(* Between the calls *)

Ready == pc = "Idle" /\ ~failing /\ ~ruined

\* The next session finds what this one has in memory: the current sector with its end
\* and its room, the oldest sector and the last time; also after failures.
ReopenAgrees ==
    Ready => LET c == read_sector_info(flash, FirstOpen(flash))
             IN  ~CheckFailed(flash) /\ FirstOpen(flash) # NoAddr =>
                    /\ cur = c
                    /\ oldest = FindOldest(flash)
                    /\ lastTime = FindLastTime(flash, c, oldest)

\* What an open would find: every header, at most one sector in use, a current sector and
\* the beginning of the ring.
Whole(img) == ~CheckFailed(img) /\ FirstOpen(img) # NoAddr /\ ~BrokenRing(img)

\* The sector the records begin in, in this session or in the next one; none if that
\* will not find it.
Base == IF pc # "Off" THEN oldest ELSE IF Whole(flash) THEN FindOldest(flash) ELSE NoAddr

\* Along the ring, from the oldest sector on, times increase, whatever fails: no append
\* is taken twice, and the ring is never read from its middle.
TimesIncrease ==
    pc \in {"Off", "Idle"} /\ ~failing /\ ~ruined /\ Base # NoAddr =>
        LET At(p) == ((p[1] - Base + N) % N) * SecSize + p[2]
        IN  \A p, q \in Records : At(p) < At(q) => Rec(p).time < Rec(q).time

----------------------------------------------------------------------------
(* Times and the clock of the client: for any storage, damaged or not *)

AppendLabels == EndLabels \cup FirstLabels \cup RecordLabels

\* A call of append is in execution.
Formatting == pc \in FormatLabels /\ call.op = "Append"
Appending == pc \in AppendLabels \/ Formatting

\* A header tells the state of its sector.
HeaderOK == \A s \in Sector : flash[s].ok => flash[s].store # "Unused"

\* No committed record is as new as the clock, unless it is in the sector in use.
ClockOK ==
    \A s \in Sector : \A j \in Committed(flash[s]) :
        /\ flash[s].tsls[j].time <= clock
        /\ flash[s].store # "Using" => flash[s].tsls[j].time < clock

\* In a sector times increase.
SectorOrdered(sec) == \A j, k \in Committed(sec) : j < k => sec.tsls[j].time < sec.tsls[k].time

\* The time of an append in execution is newer than that of every record.
NewTime == /\ call.time = clock
           /\ \A s \in Sector : \A j \in Committed(flash[s]) : flash[s].tsls[j].time < clock
           /\ pc \in {"TslData", "TslWrite"} => Record.time = call.time

\* No sector but the current one is in use.
OneInUse == \A s \in Sector : flash[s].store = "Using" => s = cur.sec /\ ~Formatting

\* Between two appends no record of the current sector is newer than the last time.
LastOK == \A s \in Sector : flash[s].store = "Using" =>
              \A j \in Committed(flash[s]) : flash[s].tsls[j].time <= lastTime

TimesOK == /\ HeaderOK /\ ClockOK
           /\ \A s \in Sector : SectorOrdered(flash[s])
           /\ ~failing => /\ Appending => NewTime
                          /\ Appending \/ pc = "Idle" => OneInUse
                          /\ pc = "Idle" => LastOK

----------------------------------------------------------------------------
(* The order of the sectors *)

\* From sector o on around the ring, s comes before t.  (o = N is as good as o = 0.)
Earlier(o, s, t) == IF (s >= o) = (t >= o) THEN s < t ELSE s >= o

\* From sector o on around the ring times increase.
Ordered(img, o) ==
    \A s, t \in Sector : Earlier(o, s, t) =>
        \A j \in Committed(img[s]), k \in Committed(img[t]) :
            img[s].tsls[j].time < img[t].tsls[k].time

\* The ring with the current sector c: those in front of it are full, behind it are empty
\* ones and then full ones, which are the oldest.
Ring(img, c) ==
    /\ \A s \in Sector : s # c => img[s].ok /\ img[s].store \in {"Empty", "Full"}
    /\ \A s \in Sector : s < c => img[s].store = "Full"
    /\ \A s, t \in Sector : c < s /\ s < t /\ img[s].store = "Full" => img[t].store = "Full"
    /\ Ordered(img, c + 1)

AllFull(img) == \A s \in Sector : img[s].ok /\ img[s].store = "Full"

\* A ring of which clean took some of the sectors in front of c; the last sector may be
\* full and current.
Cleaned(img, c) ==
    /\ Ordered(img, c + 1)
    /\ img[c].store = "Full" => c = N - 1
    /\ \A s \in Sector : s < c => img[s].store # "Using"
    /\ \A s, t \in Sector : s < t /\ t < c /\ img[s].store = "Full" => img[t].store = "Full"

\* The first sector of the ring whose current sector is c: old.
BeginsAt(img, c, old) ==
    /\ old \in Sector
    /\ old = 0 \/ c < old
    /\ \A s \in Sector : c < s => (img[s].store = "Full" <=> old # 0 /\ old <= s)

\* The ring in a session, outside of format_sector.
RingAgrees ==
    /\ cur.ok /\ cur.sec \in Sector /\ flash[cur.sec].ok
    /\ Ring(flash, cur.sec)
    /\ BeginsAt(flash, cur.sec, oldest)
    /\ pc = "Idle" => /\ cur.status = flash[cur.sec].store
                      /\ cur.status = "Full" => cur.sec = N - 1

\* The sector that comes next is formatted; the others are full.
FormatRing ==
    LET s == call.sec
    IN  /\ oldest = NextSector(s)
        /\ \A t \in Sector : t # s => flash[t].ok /\ flash[t].store = "Full"
        /\ Ordered(flash, s)

\* Whenever power fails: nothing was lost but the sectors clean took and the one that was
\* formatted.
Remains(img) == AllFull(img) \/ \E c \in Sector : Cleaned(img, c)

RingOK ==
    ~ruined =>
        /\ Remains(flash)
        /\ ~failing =>
              /\ pc \in AppendLabels \cup {"Idle"} => RingAgrees
              /\ Formatting => FormatRing
              /\ pc \in FormatLabels \cup {"CleanEnd"} /\ ~Formatting =>
                    \E c \in Sector : Cleaned(flash, c)

----------------------------------------------------------------------------
(* What is in memory is what is on the medium *)

\* The image with the first n records of sector s.
Without(img, s, n) == [img EXCEPT ![s].tsls = SubSeq(@, 1, n)]

\* The current sector reads as it is in memory; of a record that is not committed yet
\* memory does not know.
ReadAgain ==
    /\ pc = "Idle" /\ cur.status \in {"Empty", "Using"} =>
          /\ cur = read_sector_info(flash, cur.sec)
          /\ lastTime = FindLastTime(flash, cur, oldest)
    /\ pc \in {"SetUsing", "TslPre"} => cur = read_sector_info(flash, cur.sec)
    /\ pc = "SetStart" => /\ cur = [read_sector_info(flash, cur.sec) EXCEPT !.start = call.time]
                          /\ flash[cur.sec].tsls = <<>>
    /\ pc \in RecordLabels =>
          cur = read_sector_info(Without(flash, cur.sec, Len(flash[cur.sec].tsls) - 1), cur.sec)

MemoryAgain == ~failing /\ ~ruined => ReadAgain

TsRInv == TimesOK /\ RingOK /\ MemoryAgain

----------------------------------------------------------------------------
(* What the steps of the log need besides *)

\* The call in execution, also on a medium that fails.
CallOK == /\ pc \in {"Idle", "Off"} => call = NoCall
          /\ pc \in AppendLabels => call.op = "Append"
          /\ pc \in FormatLabels => call.op # "None"
          /\ pc = "CleanEnd" => call.op \in {"Clean", "Open"}

\* A description that is used is that of a sector that is there.
CurOK == ~failing /\ pc \in AppendLabels \cup {"Idle"} /\ cur.ok =>
            /\ cur.sec \in Sector /\ flash[cur.sec].ok
            /\ pc = "Idle" /\ cur.status = "Full" => flash[cur.sec].store = "Full"

\* A record has the state of its commit or one that the client gave it.
StatusOK == \A s \in Sector : \A e \in SectorLog(flash[s]) : e.status \in {"Write"} \cup Marks

\* No time is in two sectors.
OneTime == \A s, t \in Sector :
              \A e \in SectorLog(flash[s]), f \in SectorLog(flash[t]) : e.time = f.time => s = t

\* Without a failure only the record that is being written is not committed, and a sector
\* that was closed has one.
NoneTorn ==
    \A s \in Sector :
        /\ \A j \in DOMAIN flash[s].tsls :
               \/ j \in Committed(flash[s])
               \/ pc \in RecordLabels /\ s = cur.sec /\ j = Len(flash[s].tsls)
        /\ flash[s].store = "Full" => flash[s].tsls # <<>>

\* A sector that is empty has room for any blob, so that none is closed empty.
ClosedLate ==
    /\ pc \in EndLabels => flash[cur.sec].ok /\ flash[cur.sec].tsls # <<>>
    /\ pc = "Idle" /\ cur.ok /\ cur.status = "Using" /\ flash[cur.sec].tsls = <<>> =>
          cur.remain = SecSize - SECTOR_HDR_DATA_SIZE

\* A storage whose check fails has nothing in it yet.
NothingToWipe ==
    ~ruined => /\ pc = "Off" => Entries = {} \/ ~CheckFailed(flash)
               /\ call.op = "Open" => Entries = {}

CalmOK == Calm => ~failing /\ NoneTorn /\ ClosedLate /\ NothingToWipe

LogInv == CallOK /\ CurOK /\ StatusOK /\ OneTime /\ CalmOK
=============================================================================
