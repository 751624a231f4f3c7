------------------------------ MODULE Service ------------------------------
(***************************************************************************)
(* What a worker promises to its clients while it is calm: connections are *)
(* accepted in the order in which they are made; the request of each is    *)
(* read once, by one thread; that thread serves one connection at a time   *)
(* and closes the one it read from; nothing else closes a connection, but  *)
(* for those refused before they are served; and the worker stays up.      *)
(* Once it is not calm any more it promises nothing.                       *)
(***************************************************************************)
EXTENDS Integers

CONSTANTS Clients, Threads, Nobody

VARIABLES
  calm,                    \* the promise still stands
  up,                      \* the worker has not crashed
  phase,                   \* of the connection of each client
  input,                   \* its request
  server                   \* the client each thread serves, or Nobody

serviceVars == <<calm, up, phase, input, server>>

Init ==
  /\ calm = TRUE /\ up = TRUE
  /\ phase = [c \in Clients |-> "new"] /\ input = [c \in Clients |-> "nothing"]
  /\ server = [h \in Threads |-> Nobody]

Connect(c) ==
  /\ phase[c] = "new"
  /\ phase' = [phase EXCEPT ![c] = "backlog"]
  /\ UNCHANGED <<input, server>>

Send(c) ==
  /\ phase[c] \in {"backlog", "open"} /\ input[c] = "nothing"
  /\ input' = [input EXCEPT ![c] = "request"]
  /\ UNCHANGED <<phase, server>>

Accept(c) ==
  /\ phase[c] = "backlog" /\ \A d \in Clients : phase[d] = "backlog" => c <= d
  /\ phase' = [phase EXCEPT ![c] = "open"]
  /\ UNCHANGED <<input, server>>

\* A request that is not what the connection should begin with.
Refuse(c) ==
  /\ phase[c] = "open" /\ input[c] = "request"
  /\ phase' = [phase EXCEPT ![c] = "closed"]
  /\ UNCHANGED <<input, server>>

Serve(h, c) ==
  /\ server[h] = Nobody
  /\ phase[c] = "open" /\ input[c] = "request"
  /\ input' = [input EXCEPT ![c] = "read"]
  /\ server' = [server EXCEPT ![h] = c]
  /\ UNCHANGED phase

Complete(h) ==
  /\ server[h] # Nobody
  /\ phase[server[h]] = "open"
  /\ phase' = [phase EXCEPT ![server[h]] = "closed"]
  /\ server' = [server EXCEPT ![h] = Nobody]
  /\ UNCHANGED input

Step ==
  \/ \E c \in Clients : Connect(c) \/ Send(c) \/ Accept(c) \/ Refuse(c)
  \/ \E h \in Threads : Complete(h) \/ \E c \in Clients : Serve(h, c)

Next == ~calm' \/ (calm /\ calm' /\ UNCHANGED up /\ Step)

Spec == Init /\ [][Next]_serviceVars
=============================================================================
