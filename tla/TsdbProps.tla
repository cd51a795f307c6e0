----------------------------- MODULE TsdbProps -----------------------------
(***************************************************************************)
(* The properties of the time-series database.                             *)
(***************************************************************************)
EXTENDS TsQuery, TsdbRing

----------------------------------------------------------------------------
(* Between the calls *)

\* q lists the records in P, each once, from the oldest to the newest, or the other way
\* round.
Listed(q, P) == q \in Seq(P) /\ ToSet(q) = P
Ascending(q) == \A k, m \in DOMAIN q : k < m => Rec(q[k]).time < Rec(q[m]).time
Descending(q) == \A k, m \in DOMAIN q : k < m => Rec(q[k]).time > Rec(q[m]).time

\* As long as nothing failed, iterating gives every record, once, from the oldest to the
\* newest, and in reverse the other way round.
IterationsAgree ==
    Ready /\ Calm =>
        /\ \E q \in {collect} : Listed(q, Records) /\ Ascending(q)
        /\ \E q \in {collect_reverse} : Listed(q, Records) /\ Descending(q)

\* Intervals that begin at, before, between and behind the times of records, and that are
\* long, short, or a single time, in both directions.
Intervals == {i \in (0 .. MaxTime + 1) \X (-3 .. MaxTime + 4) :
                 i[2] \in {0, i[1] - 3, i[1], i[1] + 3, MaxTime + 1}}

InInterval(from, to) == {p \in Records : InRange(Rec(p).time, from, to)}
QueryAgrees(from, to) ==
    \E q \in {collect_by_time(from, to)} :
        /\ Listed(q, InInterval(from, to))
        /\ IF from <= to THEN Ascending(q) ELSE Descending(q)

\* In no sector do the data of the last record begin right behind the index.  In such a
\* sector a query downwards takes the data for an index record (tsdb.rs:723-730).
NoneExact == \A s \in Sector : ~ExactlyFull(flash[s])

\* A query returns the records of its interval, in order, a query downwards as far as
\* no sector is exactly full; a count over all times, upwards, those with the state.
QueriesAgree ==
    Ready /\ Calm =>
        /\ \A i \in Intervals : i[1] <= i[2] \/ NoneExact => QueryAgrees(i[1], i[2])
        /\ \A st \in {"Write"} \cup Marks :
              query_count(0, MaxTime, st) = Cardinality({p \in Records : Rec(p).status = st})

\* Also after a failure a query returns every committed record of its interval.
QueriesComplete ==
    Ready => \A i \in Intervals :
                InInterval(i[1], i[2]) \subseteq ToSet(collect_by_time(i[1], i[2]))

----------------------------------------------------------------------------
(* What the queries rest on: the headers tell what is in their sectors *)

\* The header of a closed sector tells its first and its last record.
HeaderTrue(sec) ==
    /\ sec.start = sec.tsls[1].time
    /\ EndOf(sec).time = LastRecord(sec).time /\ EndOf(sec).idx = Len(sec.tsls)

\* So does that of the sector in use, whose end information is not there yet unless it is
\* being written (closing).  Times count from 0.
SectorTrue(sec, closing) ==
    /\ \A j \in Committed(sec) : sec.tsls[j].time >= 0
    /\ sec.store = "Full" => HeaderTrue(sec)
    /\ sec.store = "Using" => /\ Committed(sec) # {} => sec.start = sec.tsls[1].time
                              /\ closing \/ sec.ends[1] = NoEnd

\* The start time of a sector that gets its first record is that of the append.
StartTrue == pc \in {"TslPre"} \cup RecordLabels /\ Committed(flash[cur.sec]) = {} =>
                 flash[cur.sec].start = call.time

\* The end information that is written is that of the current sector, in the first copy.
EndTrue == LET sec == flash[cur.sec]
           IN  /\ call.slot = 1 /\ cur.idx = Len(sec.tsls) /\ lastTime = LastRecord(sec).time
               /\ pc \in {"EndWrite", "SetFull"} =>
                     End.time = LastRecord(sec).time /\ End.idx = Len(sec.tsls)
               /\ pc = "SetFull" => End.stat = "Write"

\* Between the calls a sector in use has a record, and there is one unless all are full or
\* none is.
Settled == /\ \A s \in Sector : flash[s].store = "Using" => flash[s].tsls # <<>>
          /\ \A s \in Sector : flash[s].store = "Full" =>
                AllFull(flash) \/ \E t \in Sector : flash[t].store = "Using"

HeadsOK == Calm /\ ~ruined =>
    /\ \A s \in Sector : SectorTrue(flash[s], pc \in EndLabels)
    /\ StartTrue
    /\ pc \in EndLabels => EndTrue
    /\ pc \in {"Idle", "Off"} => Settled

\* An open does not panic, and the database it gives can be appended to.
OpenUsable == result # "Panic" /\ (pc = "Idle" => cur.sec # NoAddr)
=============================================================================
