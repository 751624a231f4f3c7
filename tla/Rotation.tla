------------------------------ MODULE Rotation ------------------------------
(***************************************************************************)
(* What the round-robin strategy of a route promises to the requests of    *)
(* that route when they run one at a time: a cursor goes round the         *)
(* backends, every backend tried moves it by exactly one, a request is     *)
(* answered by the backend under the cursor, and it is given up (502) only *)
(* when every backend has been passed over during that request.            *)
(***************************************************************************)
EXTENDS Integers

CONSTANT N                 \* number of backends of the route

VARIABLES
  cursor,                  \* the backend tried next
  busy,                    \* a request is being handled
  passed                   \* backends passed over by that request

rotationVars == <<cursor, busy, passed>>

Ring == 0 .. (N - 1)

Init == cursor = 0 /\ busy = FALSE /\ passed = {}

Request == ~busy /\ busy' = TRUE /\ passed' = {} /\ UNCHANGED cursor

\* The backend under the cursor does not answer.
PassOver ==
  /\ busy
  /\ passed' = passed \union {cursor}
  /\ cursor' = (cursor + 1) % N
  /\ UNCHANGED busy

\* It answers: the request is over, and the next one starts one further.
Serve ==
  /\ busy
  /\ cursor' = (cursor + 1) % N
  /\ busy' = FALSE
  /\ passed' = {}

\* 502 Bad Gateway.
GiveUp ==
  /\ busy
  /\ passed = Ring
  /\ busy' = FALSE
  /\ passed' = {}
  /\ UNCHANGED cursor

Next == Request \/ PassOver \/ Serve \/ GiveUp

Safe == Init /\ [][Next]_rotationVars

\* A request does not pass over backends for ever.
Live == WF_rotationVars(Serve \/ GiveUp)

Spec == Safe /\ Live
=============================================================================
