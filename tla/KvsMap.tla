--------------------------------- MODULE KvsMap ---------------------------------
(***************************************************************************)
(* What a key/value store promises its caller (kvs/kvs_wrapper.h): one     *)
(* request at a time, which changes the value of its own key and of no     *)
(* other, to the value asked for.  If the process ends meanwhile nothing   *)
(* is said of that key, nor of the requests that follow until it has been  *)
(* set again; what was stored under the other keys stays.                  *)
(***************************************************************************)
CONSTANTS
  Keys,
  Values,    \* typed values
  Absent,    \* the key has no value
  Unknown,   \* nothing is said of the value
  NoReq      \* no request is being served

VARIABLES
  map,       \* per key: its value
  req        \* the request being served

mvars == <<map, req>>

Requests == [key : Keys, val : Values \cup {Absent}]

Init == map = [k \in Keys |-> Absent] /\ req = NoReq

\* A kvs_set_* or, with no value, kvs_erase_key.
Call == req = NoReq /\ req' \in Requests /\ UNCHANGED map

Return ==
  /\ req # NoReq
  /\ \E v \in {req.val} \cup {Unknown : k \in {k \in Keys : map[k] = Unknown}} :
       map' = [map EXCEPT ![req.key] = v]
  /\ req' = NoReq

Crash ==
  /\ req # NoReq
  /\ map' = [map EXCEPT ![req.key] = Unknown]
  /\ req' = NoReq

Next == Call \/ Return \/ Crash

Spec == Init /\ [][Next]_mvars
================================================================================
