------------------------------- MODULE TsLog -------------------------------
(***************************************************************************)
(* What the time-series database promises: a log of entries with           *)
(* increasing times.  An append adds one entry at one instant or not at    *)
(* all, also when power fails; entries go only from the old end, when the  *)
(* ring is full, or all together when the log is cleaned.  The log         *)
(* survives the end of a session.                                          *)
(***************************************************************************)
EXTENDS Integers

CONSTANTS Lens, Marks

VARIABLES
    on,      \* the database is open, or is being opened
    log,     \* the contents: a set of entries, no two of one time
    req,     \* the request in service
    answer,  \* what the last request returned
    calm,    \* neither the power nor the medium has failed so far
    lost     \* an open found no place to go on, or no oldest entry

vars == <<on, log, req, answer, calm, lost>>

NoReq == [op |-> "None", time |-> 0, len |-> 0]
Entry(t, len, st) == [time |-> t, len |-> len, status |-> st, data |-> TRUE]

Init == on = FALSE /\ log = {} /\ req = NoReq /\ answer = "None" /\ calm = TRUE /\ lost = FALSE

Request ==
    /\ on /\ req = NoReq /\ answer' = "None"
    /\ \/ req'.op = "Append" /\ req'.len \in Lens
       \/ req' = [NoReq EXCEPT !.op = "Clean"]
    /\ UNCHANGED <<on, log, lost>>

\* The instant at which an append takes effect, and its answer: the time is a new one.
Effect ==
    /\ req.op = "Append" /\ \A e \in log : e.time < req.time
    /\ log' = log \cup {Entry(req.time, req.len, "Write")}
    /\ req' = NoReq /\ answer' = "Ok"
    /\ UNCHANGED <<on, lost>>

\* Room is made for an append: the oldest entries go.
Reuse ==
    /\ req.op = "Append"
    /\ log' \subseteq log
    /\ lost \/ \A e \in log \ log', f \in log' : e.time < f.time
    /\ UNCHANGED <<on, req, answer, lost>>

\* An entry is given a state.
Mark ==
    /\ on /\ req = NoReq /\ req' = NoReq /\ answer' = "Ok"
    /\ \E e \in log, st \in Marks : log' = (log \ {e}) \cup {Entry(e.time, e.len, st)}
    /\ UNCHANGED <<on, lost>>

\* clean takes the entries away sector by sector.  So does the open of a database that
\* takes its storage for damaged; without a failure there is nothing to take away then.
Wipe ==
    /\ req.op = "Clean" \/ (req.op = "Open" /\ (calm => log = {} \/ lost))
    /\ log' \subseteq log
    /\ UNCHANGED <<on, req, answer, lost>>

\* An append without a place to go to.
Ruin ==
    /\ lost /\ req = NoReq /\ req' = NoReq
    /\ log' \subseteq log /\ answer' = "WriteErr"
    /\ UNCHANGED <<on, lost>>

Reply(r) ==
    /\ on /\ req' = NoReq /\ answer' = r
    /\ r = "Ok" => req.op \in {"Clean", "Open"} /\ (calm => log = {})
    /\ r = "SavedFull" => req.op \in {"None", "Append"} /\ (calm => log # {})
    /\ r \in {"WriteErr", "EraseErr"} => req.op \in {"None", "Append"}
    /\ UNCHANGED <<on, log, lost>>

\* The log is as it was, or it has to be wiped first.
Open ==
    /\ ~on /\ on' = TRUE /\ lost' \in {lost, TRUE}
    /\ \/ req' = NoReq /\ answer' = "Ok"
       \/ req' = [NoReq EXCEPT !.op = "Open"] /\ answer' = "None"
    /\ UNCHANGED log

CannotOpen ==
    /\ ~on /\ req' = NoReq /\ answer' \in {"ReadErr", "Panic"}
    /\ UNCHANGED <<on, log, lost>>

\* The end of a session: the database is closed, power fails or the program panics.
Stop ==
    /\ on /\ on' = FALSE
    /\ req' = NoReq /\ answer' \in {"None", "Panic"}
    /\ UNCHANGED <<log, lost>>

Next ==
    /\ calm' \in {calm, FALSE}
    /\ \/ Request \/ Effect \/ Reuse \/ Mark \/ Wipe \/ Ruin \/ Open \/ CannotOpen \/ Stop
       \/ \E r \in {"None", "Ok", "SavedFull", "WriteErr", "EraseErr"} : Reply(r)
       \/ UNCHANGED <<on, log, req, answer, lost>>

Spec == Init /\ [][Next]_vars
=============================================================================
