------------------------------- MODULE KvMap -------------------------------
(***************************************************************************)
(* What the key-value database promises: a map from keys to values that is *)
(* changed by one request at a time and survives the end of a session.     *)
(* A request takes effect at one instant or not at all, also when power    *)
(* fails in the middle of it; nothing else changes the map.                *)
(***************************************************************************)
CONSTANTS Keys, Values, None,
          DefaultVals   \* DefaultVals[k] is the set of values default_kvs has for k

VARIABLES
    on,      \* the database is open, or is being opened
    map,     \* the contents
    req,     \* the request in service
    answer   \* what the last request returned

vars == <<on, map, req, answer>>

NoReq == [op |-> "None", key |-> None, val |-> None, done |-> FALSE]
Empty == [k \in Keys |-> None]

Init == on = FALSE /\ map = Empty /\ req = NoReq /\ answer = "None"

Request ==
    /\ on /\ req = NoReq /\ answer' = "None"
    /\ \/ \E k \in Keys, v \in Values : req' = [NoReq EXCEPT !.op = "Set", !.key = k, !.val = v]
       \/ \E k \in Keys : req' = [NoReq EXCEPT !.op = "Del", !.key = k]
       \/ req' = [NoReq EXCEPT !.op = "Default"]
    /\ UNCHANGED <<on, map>>

Open ==
    /\ ~on /\ on' = TRUE
    /\ req' = [NoReq EXCEPT !.op = "Open"] /\ answer' = "None"
    /\ UNCHANGED map

\* The instant at which a set or a deletion takes effect.
Effect ==
    /\ req.op \in {"Set", "Del"} /\ ~req.done
    /\ req.op = "Del" => map[req.key] # None
    /\ map' = [map EXCEPT ![req.key] = req.val]
    /\ req' = [req EXCEPT !.done = TRUE]
    /\ UNCHANGED <<on, answer>>

\* set_default takes the entries away little by little and writes the defaults.
\* Opening storage that never was a database writes them too, and takes nothing away.
Wipe ==
    /\ \/ req.op = "Default"
       \/ req.op = "Open" /\ \A k \in Keys : map[k] # None => map'[k] = map[k]
    /\ map' \in [Keys -> Values \cup {None}]
    /\ \A k \in Keys : map'[k] \in {map[k], None} \cup DefaultVals[k]
    /\ UNCHANGED <<on, req, answer>>

Reply(r) ==
    /\ req # NoReq /\ req' = NoReq /\ answer' = r
    /\ r = "Ok" => /\ req.op \in {"Set", "Del"} => req.done
                   /\ req.op = "Default" =>
                        \A k \in Keys : map[k] \in {None} \cup DefaultVals[k]
    /\ r \in {"SavedFull", "KvNameErr"} => req.op = "Set" /\ ~req.done
    /\ UNCHANGED <<on, map>>

\* A deletion of a key that is not there.
NotFound ==
    /\ on /\ req = NoReq /\ answer' = "KvNameErr"
    /\ \E k \in Keys : map[k] = None
    /\ UNCHANGED <<on, map, req>>

\* The end of a session: the database is closed or cannot be opened, or power fails.
Stop ==
    /\ on /\ on' = FALSE
    /\ req' = NoReq /\ answer' \in {"None", "ReadErr"}
    /\ UNCHANGED map

Next ==
    \/ Request \/ Open \/ Effect \/ Wipe \/ NotFound \/ Stop
    \/ \E r \in {"Ok", "SavedFull", "KvNameErr", "WriteErr", "EraseErr"} : Reply(r)

Spec == Init /\ [][Next]_vars
=============================================================================
