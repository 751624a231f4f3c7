----------------------------- MODULE RoundRobin -----------------------------
(***************************************************************************)
(* The round-robin strategy of one route and version of the configuration  *)
(* (modules/load_balancer/round_robin.zig).  Every thread of every worker  *)
(* process that handles a request of the route runs `handle` on the same   *)
(* word of shared memory, `server_address`, with plain loads and stores.   *)
(*                                                                         *)
(* A step of a handler makes at most one access to that word.  The         *)
(* surroundings (backends that go down, connections that are cut, clients  *)
(* that are slow or gone) are the actions of the environment at the end.   *)
(***************************************************************************)
EXTENDS Integers

CONSTANTS
  Handlers,      \* threads handling a request of this route, in all workers
  N,             \* self.backends.len
  MaxFailure,    \* max_failure of each backend
  MaxOutages,    \* bound: how often a backend goes down
  Recovering,    \* bound: the backends that may come back up
  Unsteady       \* bound: the handlers whose clients may be slow or gone

Backends == 0 .. (N - 1)

ASSUME RouteAssumption ==
  /\ N \in Nat \ {0}                     \* EmptyBackendsArray is refused
  /\ MaxFailure \in [Backends -> Nat]
ASSUME BoundAssumption ==
  /\ MaxOutages \in Nat
  /\ Recovering \subseteq Backends /\ Unsteady \subseteq Handlers

VARIABLES
  server_address,  \* the word of the route's shared memory
  pc,              \* where each handler is in `handle`
  current,         \* current_server_index of each handler
  servers_down,    \* its count of backends that did not accept
  open,            \* its backend sockets opened and not yet closed
  cut,             \* its backend connection was broken by an outage
  client,          \* the connection to its client, as the kernel sees it
  tls,             \* conn.ssl # null: the listener has a TLS context
  health,          \* "up" or "down", for each backend
  outages,         \* budget used
  failed,          \* history: backends this request stored past, unserved
  disturbed        \* history: another handler stored during this request

wordVars == <<server_address>>
threadVars == <<pc, current, servers_down, open>>
envVars == <<cut, client, tls, health, outages>>
historyVars == <<failed, disturbed>>
vars == <<wordVars, threadVars, envVars, historyVars>>

\* In forwardResponseToClient: the first recv, a write of what it returned, and
\* the recv after that, which stands for all later ones.
Forwarding == {"recv", "write", "rest"}
Exchange == {"send"} \union Forwarding
InLoop == {"check", "load", "choose", "connect", "retry"} \union Exchange
Busy == InLoop \union {"return", "gateway"}

\* "full": it reads slower than it is written to, and the send buffer of its
\* non-blocking socket has no room left; "reset": it is gone, and the error is
\* still to be reported; "broken": it is gone, and the error was reported.
ClientStates == {"reading", "full", "reset", "broken"}

TypeOK ==
  /\ server_address \in Nat
  /\ pc \in [Handlers -> Busy \union {"idle"}]
  /\ current \in [Handlers -> Nat]
  /\ servers_down \in [Handlers -> Nat]
  /\ open \in [Handlers -> {0, 1}]
  /\ cut \in [Handlers -> BOOLEAN]
  /\ client \in [Handlers -> ClientStates] /\ tls \in BOOLEAN
  /\ health \in [Backends -> {"up", "down"}]
  /\ outages \in 0 .. MaxOutages
  /\ failed \in [Handlers -> SUBSET Nat]
  /\ disturbed \in [Handlers -> BOOLEAN]

Init ==
  /\ server_address = 0
  /\ pc = [h \in Handlers |-> "idle"]
  /\ current = [h \in Handlers |-> 0]
  /\ servers_down = [h \in Handlers |-> 0]
  /\ open = [h \in Handlers |-> 0]
  /\ cut = [h \in Handlers |-> FALSE]
  /\ client = [h \in Handlers |-> "reading"]
  /\ tls \in BOOLEAN
  /\ health \in [Backends -> {"up", "down"}]
  /\ outages = 0
  /\ failed = [h \in Handlers |-> {}]
  /\ disturbed = [h \in Handlers |-> FALSE]

-----------------------------------------------------------------------------
(* The code.                                                               *)

\* Faulty NextIndex: the modulus is dropped.
NextIndexUnwrapped(i) == i + 1
NextIndex(i) == (i + 1) % N

\* The failures the strategy knows of: `current_server.attempts += 1` counts
\* in a by-value copy that the next iteration overwrites, so the table that
\* is copied from keeps the zeros `init` gave it.
attempts == [b \in Backends |-> 0]

\* `while (servers_count > servers_down)`
LoopTest(down) == IF N > down THEN "check" ELSE "gateway"

Begin(h) ==
  /\ pc[h] = "idle"
  /\ pc' = [pc EXCEPT ![h] = LoopTest(0)]
  /\ servers_down' = [servers_down EXCEPT ![h] = 0]
  /\ UNCHANGED <<wordVars, current, open, envVars, historyVars>>

\* The first load of the word, compared with the number of backends.
CheckRange(h) ==
  /\ pc[h] = "check"
  /\ current' = [current EXCEPT ![h] = IF server_address >= N THEN 0 ELSE @]
  /\ pc' = [pc EXCEPT ![h] = IF server_address >= N THEN "choose" ELSE "load"]
  /\ UNCHANGED <<wordVars, servers_down, open, envVars, historyVars>>

\* The second load: the index is not the value that was compared.
LoadIndex(h) ==
  /\ pc[h] = "load"
  /\ current' = [current EXCEPT ![h] = server_address]
  /\ pc' = [pc EXCEPT ![h] = "choose"]
  /\ UNCHANGED <<wordVars, servers_down, open, envVars, historyVars>>

\* self.backends[current_server_index] panics outside Backends.
Choose(h) ==
  /\ pc[h] = "choose"
  /\ current[h] \in Backends
  /\ \/ /\ attempts[current[h]] >= MaxFailure[current[h]]
        /\ servers_down' = [servers_down EXCEPT ![h] = @ + 1]
        /\ pc' = [pc EXCEPT ![h] = "retry"]
     \/ /\ attempts[current[h]] < MaxFailure[current[h]]
        /\ pc' = [pc EXCEPT ![h] = "connect"]
        /\ UNCHANGED servers_down
  /\ UNCHANGED <<wordVars, current, open, envVars, historyVars>>

Connect(h) ==
  /\ pc[h] = "connect"
  /\ health[current[h]] = "up"
  /\ open' = [open EXCEPT ![h] = @ + 1]
  /\ pc' = [pc EXCEPT ![h] = "send"]
  /\ UNCHANGED <<wordVars, current, servers_down, envVars, historyVars>>

\* Faulty Refused: a refusal counts for two backends.
RefusedCountedTwice(h) ==
  /\ pc[h] = "connect"
  /\ health[current[h]] = "down"
  /\ servers_down' = [servers_down EXCEPT ![h] = @ + 2]
  /\ pc' = [pc EXCEPT ![h] = "retry"]
  /\ UNCHANGED <<wordVars, current, open, envVars, historyVars>>
Refused(h) ==
  /\ pc[h] = "connect"
  /\ health[current[h]] = "down"
  /\ servers_down' = [servers_down EXCEPT ![h] = @ + 1]
  /\ pc' = [pc EXCEPT ![h] = "retry"]
  /\ UNCHANGED <<wordVars, current, open, envVars, historyVars>>

\* posix.send succeeds as soon as the kernel has taken the bytes, even on a
\* connection the backend has already dropped.
SendRequest(h) ==
  /\ pc[h] = "send"
  /\ pc' = [pc EXCEPT ![h] = "recv"]
  /\ UNCHANGED <<wordVars, current, servers_down, open, envVars, historyVars>>

\* A failed exchange: the socket is closed, the backend is not counted down.
Abandon(h) ==
  /\ open' = [open EXCEPT ![h] = @ - 1]
  /\ cut' = [cut EXCEPT ![h] = FALSE]
  /\ pc' = [pc EXCEPT ![h] = "retry"]
  /\ UNCHANGED <<wordVars, current, servers_down, tls, health, outages,
                 historyVars>>

SendFails(h) == pc[h] = "send" /\ cut[h] /\ Abandon(h) /\ UNCHANGED client

\* What writing to the client does.  writeHttp: send fails with WouldBlock on a
\* full buffer, and once with the pending error of a reset; from then on it
\* fails with BrokenPipe, which writeHttp takes for a success.
\* Faulty writeHttp: BrokenPipe is an error like the others.
writeHttpBroken == [reading |-> "ok", full |-> "error", reset |-> "error",
                    broken |-> "error"]
writeHttp == [reading |-> "ok", full |-> "error", reset |-> "error",
              broken |-> "ok"]
\* writeSSL: a full buffer is WANT_WRITE, on which the loop tries again at once,
\* and a client that is gone is SSLWriteFailed every time.
writeSSL == [reading |-> "ok", full |-> "spins", reset |-> "error",
             broken |-> "error"]
write(h) == (IF tls THEN writeSSL ELSE writeHttp)[client[h]]

\* A piece of the response has come.
Receive(h) ==
  /\ pc[h] = "recv"
  /\ pc' = [pc EXCEPT ![h] = "write"]
  /\ UNCHANGED <<wordVars, current, servers_down, open, envVars, historyVars>>

WriteResponse(h) ==
  /\ pc[h] = "write"
  /\ write(h) = "ok"
  /\ pc' = [pc EXCEPT ![h] = "rest"]
  /\ UNCHANGED <<wordVars, current, servers_down, open, envVars, historyVars>>

\* Faulty ResponseFails: the backend socket is left open.
ResponseFailsUnclosed(h) ==
  /\ \/ /\ pc[h] \in {"recv", "rest"} /\ cut[h]
        /\ UNCHANGED client
     \/ /\ pc[h] = "write" /\ write(h) = "error"
        /\ client' = [client EXCEPT ![h] = IF @ = "reset" THEN "broken" ELSE @]
  /\ cut' = [cut EXCEPT ![h] = FALSE]
  /\ pc' = [pc EXCEPT ![h] = "retry"]
  /\ UNCHANGED <<wordVars, current, servers_down, open, tls, health, outages,
                 historyVars>>
\* recv reports the broken connection to the backend, or a write to the client
\* fails, which uses up the pending error of a reset.
ResponseFails(h) ==
  /\ \/ /\ pc[h] \in {"recv", "rest"} /\ cut[h]
        /\ UNCHANGED client
     \/ /\ pc[h] = "write" /\ write(h) = "error"
        /\ client' = [client EXCEPT ![h] = IF @ = "reset" THEN "broken" ELSE @]
  /\ Abandon(h)

\* End of file, with or without a piece before it, whether the client is there
\* or not: the socket is closed.  An orderly shutdown of a backend that goes
\* down is an end of file too.
ForwardResponse(h) ==
  /\ pc[h] \in {"recv", "rest"}
  /\ open' = [open EXCEPT ![h] = @ - 1]
  /\ cut' = [cut EXCEPT ![h] = FALSE]
  /\ pc' = [pc EXCEPT ![h] = "return"]
  /\ UNCHANGED <<wordVars, current, servers_down, client, tls, health, outages,
                 historyVars>>

\* `server_address.* = (current_server_index + 1) % servers_count`
Store(h) ==
  /\ server_address' = NextIndex(current[h])
  /\ disturbed' = [g \in Handlers |->
       IF g = h THEN pc[h] = "retry" /\ disturbed[h]
                ELSE pc[g] # "idle"]
  /\ UNCHANGED <<current, servers_down, open, cut, tls, health, outages>>

Retry(h) ==
  /\ pc[h] = "retry"
  /\ Store(h)
  /\ pc' = [pc EXCEPT ![h] = LoopTest(servers_down[h])]
  /\ failed' = [failed EXCEPT ![h] = @ \union {current[h]}]
  /\ UNCHANGED client

\* Faulty Return: the word is not moved on after a success.
ReturnWithoutStore(h) ==
  /\ pc[h] = "return"
  /\ pc' = [pc EXCEPT ![h] = "idle"]
  /\ failed' = [failed EXCEPT ![h] = {}]
  /\ client' = [client EXCEPT ![h] = "reading"]
  /\ disturbed' = [disturbed EXCEPT ![h] = FALSE]
  /\ UNCHANGED <<wordVars, current, servers_down, open, cut, tls, health,
                 outages>>
\* The last store and the return; the caller closes the client connection.
Return(h) ==
  /\ pc[h] = "return"
  /\ Store(h)
  /\ pc' = [pc EXCEPT ![h] = "idle"]
  /\ failed' = [failed EXCEPT ![h] = {}]
  /\ client' = [client EXCEPT ![h] = "reading"]

\* The 502 is written and its errors are ignored by the caller.
BadGateway(h) ==
  /\ pc[h] = "gateway"
  /\ write(h) # "spins"
  /\ pc' = [pc EXCEPT ![h] = "idle"]
  /\ failed' = [failed EXCEPT ![h] = {}]
  /\ client' = [client EXCEPT ![h] = "reading"]
  /\ disturbed' = [disturbed EXCEPT ![h] = FALSE]
  /\ UNCHANGED <<wordVars, current, servers_down, open, cut, tls, health,
                 outages>>

-----------------------------------------------------------------------------
(* The environment.                                                        *)

\* A backend goes down; the connections it had are broken.
Outage(b) ==
  /\ health[b] = "up"
  /\ outages < MaxOutages
  /\ outages' = outages + 1
  /\ health' = [health EXCEPT ![b] = "down"]
  /\ cut' = [h \in Handlers |->
       cut[h] \/ (pc[h] \in Exchange /\ current[h] = b)]
  /\ UNCHANGED <<wordVars, threadVars, client, tls, historyVars>>

Recovery(b) ==
  /\ health[b] = "down"
  /\ health' = [health EXCEPT ![b] = "up"]
  /\ UNCHANGED <<wordVars, threadVars, cut, client, tls, outages, historyVars>>

\* The client reads slower than it is written to; it reads again; it goes.  A
\* client that had already closed its end leaves no error but BrokenPipe.
ClientStalls(h) ==
  /\ pc[h] = "write"
  /\ client[h] = "reading"
  /\ client' = [client EXCEPT ![h] = "full"]
  /\ UNCHANGED <<wordVars, threadVars, cut, tls, health, outages, historyVars>>

ClientReads(h) ==
  /\ client[h] = "full"
  /\ client' = [client EXCEPT ![h] = "reading"]
  /\ UNCHANGED <<wordVars, threadVars, cut, tls, health, outages, historyVars>>

ClientReset(h) ==
  /\ pc[h] # "idle"
  /\ client[h] \in {"reading", "full"}
  /\ \E s \in {"reset", "broken"} : client' = [client EXCEPT ![h] = s]
  /\ UNCHANGED <<wordVars, threadVars, cut, tls, health, outages, historyVars>>

-----------------------------------------------------------------------------

Proceed(h) ==
  \/ CheckRange(h) \/ LoadIndex(h) \/ Choose(h)
  \/ Connect(h) \/ Refused(h)
  \/ SendRequest(h) \/ SendFails(h)
  \/ Receive(h) \/ WriteResponse(h)
  \/ ForwardResponse(h) \/ ResponseFails(h)
  \/ Retry(h) \/ Return(h) \/ BadGateway(h)

Environment ==
  \/ \E b \in Backends : Outage(b)
  \/ \E b \in Recovering : Recovery(b)
  \/ \E h \in Unsteady : ClientStalls(h) \/ ClientReads(h) \/ ClientReset(h)

Next == Environment \/ \E h \in Handlers : Begin(h) \/ Proceed(h)

\* The operating system runs every thread, and every call to a backend
\* returns.  Nothing makes requests arrive, backends recover or clients read.
Fairness == \A h \in Handlers : WF_vars(Proceed(h))

Spec == Init /\ [][Next]_vars /\ Fairness

-----------------------------------------------------------------------------
(* Properties.                                                             *)

\* The word is compared with the number of backends and then loaded again
\* (round_robin.zig:65), and any handler may store in between: the index
\* used for self.backends is in range all the same, in every interleaving.
IndexInRange ==
  \A h \in Handlers : pc[h] = "choose" => current[h] \in Backends

\* On every path through an exchange (success, a failed send, a failed
\* response) the backend socket is closed exactly once, by handle or by
\* forwardResponseToClient: none leaks over the retries of a request, and
\* none is closed twice, which would close a descriptor of another thread.
SocketsBalanced ==
  \A h \in Handlers :
    open[h] = IF pc[h] \in Exchange THEN 1 ELSE 0

\* A request during which no other handler moved the shared word is given
\* up with 502 only when every backend of the route failed it.
UndisturbedGatewayError ==
  \A h \in Handlers :
    pc[h] = "gateway" /\ ~disturbed[h] => failed[h] = Backends

\* As long as the client is like this, a write to it fails or does not return.
Stuck(h) == client[h] \in IF tls THEN {"full", "reset", "broken"} ELSE {"full"}

\* No handler loops for ever: a request that never ends, outages being finite,
\* is one whose client is stuck again and again: its buffer fills faster than
\* it reads, or it reset a connection with TLS.  Every other request ends in a
\* response or a 502, however the handlers race, also when the client resets a
\* connection without TLS (http_ops.zig:21).
RequestEnds ==
  \A h \in Handlers : []<>(pc[h] = "idle" \/ Stuck(h))

\* README.md:32, "ensuring scalability and responsiveness": a client that does
\* not stall the thread of the pool that serves it does not keep it either.
ThreadComesBack ==
  \A h \in Handlers : []<>(pc[h] = "idle" \/ client[h] = "full")

\* round_robin.zig:107, "No more valid servers": 502 is sent when no backend
\* is up that has not failed the request.
NoMoreValidServers ==
  \A h \in Handlers : pc[h] = "gateway" =>
    \A b \in Backends : b \in failed[h] \/ health[b] = "down"

\* For one handler at a time the code implements the rotation promised to
\* the requests of a route: each step is one of the rotation or a stutter, and
\* each request is served or given up unless its client is stuck for good.
Promise == INSTANCE Rotation WITH
  cursor <- server_address,
  busy   <- \E h \in Handlers : pc[h] # "idle",
  passed <- UNION {failed[h] : h \in Handlers}

ImplementsRotation ==
  /\ Promise!Safe
  /\ (\A h \in Handlers : <>[]~Stuck(h)) => Promise!Live
=============================================================================
