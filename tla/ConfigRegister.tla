--------------------------- MODULE ConfigRegister ---------------------------
(***************************************************************************)
(* What the configuration manager of a worker promises to the requests of  *)
(* that worker: a register with one writer.  Configurations are numbered   *)
(* as they are offered; the register takes the latest one at some moment   *)
(* after that, or never.  Requests are reported in batches, and each one   *)
(* is served by a configuration no older than the register was when its    *)
(* batch was reported, and no newer than the register is.                  *)
(***************************************************************************)
EXTENDS Integers

CONSTANT Requests          \* requests that may be under way at a time

VARIABLES
  offered,                 \* the latest configuration offered
  current,                 \* the configuration in the register
  batch,                   \* what it was when the latest batch was reported
  request,                 \* "idle", "queued" or "using", for each request
  oldest,                  \* the oldest configuration each may be served by
  uses                     \* the configuration each was served by

registerVars == <<offered, current, batch, request, oldest, uses>>

Init ==
  /\ offered = 1 /\ current = 1 /\ batch = 1
  /\ request = [r \in Requests |-> "idle"]
  /\ oldest = [r \in Requests |-> 1] /\ uses = [r \in Requests |-> 1]

Offer ==
  /\ offered' = offered + 1
  /\ UNCHANGED <<current, batch, request, oldest, uses>>

Publish ==
  /\ current < offered
  /\ current' = offered
  /\ UNCHANGED <<offered, batch, request, oldest, uses>>

Report ==
  /\ batch' = current
  /\ UNCHANGED <<offered, current, request, oldest, uses>>

Receive(r) ==
  /\ request[r] = "idle"
  /\ request' = [request EXCEPT ![r] = "queued"]
  /\ oldest' = [oldest EXCEPT ![r] = batch]
  /\ UNCHANGED <<offered, current, batch, uses>>

Serve(r) ==
  /\ request[r] = "queued"
  /\ request' = [request EXCEPT ![r] = "using"]
  /\ \E v \in oldest[r] .. current : uses' = [uses EXCEPT ![r] = v]
  /\ UNCHANGED <<offered, current, batch, oldest>>

Complete(r) ==
  /\ request[r] = "using"
  /\ request' = [request EXCEPT ![r] = "idle"]
  /\ UNCHANGED <<offered, current, batch, oldest, uses>>

Next ==
  \/ Offer \/ Publish \/ Report
  \/ \E r \in Requests : Receive(r) \/ Serve(r) \/ Complete(r)

Spec == Init /\ [][Next]_registerVars
=============================================================================
