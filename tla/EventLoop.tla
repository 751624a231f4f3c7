----------------------------- MODULE EventLoop -----------------------------
(***************************************************************************)
(* The connections of one worker process (src/worker.zig, modules/core):   *)
(* the event loop accepts them, creates a record for each in a memory pool *)
(* and registers it edge-triggered; each event becomes a job of the thread *)
(* pool with the record's address, which ends by closing the descriptor    *)
(* and destroying the record.  The record pool is used by the event loop   *)
(* and the pool threads without a lock.  The watcher of the configuration  *)
(* is the pool's first job.  Whether connections begin with a TLS          *)
(* handshake is up to the configuration the loop has copied.               *)
(***************************************************************************)
EXTENDS Integers, Sequences, Functions

CONSTANTS
  NThreads,        \* threads of the pool, one per processor
  NFds,            \* descriptors left for connections
  Unruly,          \* bound: the clients that do more than send one short request
  MaxExtra,        \* bound: how often they do
  MaxClients       \* bound: connections made

ASSUME BoundAssumption ==
  /\ NThreads \in Nat \ {0} /\ NFds \in Nat \ {0}
  /\ MaxExtra \in Nat /\ MaxClients \in Nat

Clients == 1 .. MaxClients   \* in the order in which they connect
Fds == 1 .. NFds
Records == 1 .. MaxClients
Threads == 1 .. NThreads
Nil == 0           \* no client, no record, no descriptor
Watcher == -1      \* the job configChangeWatcher; other jobs are records

VARIABLES
  phase,           \* of each connection
  unread,          \* what each client has sent that recv has not returned
  owner,           \* the connection of each descriptor
  interest,        \* the record each descriptor is registered with in epoll
  ready,           \* descriptors with an edge that epoll.wait has not returned
  fd,              \* memory of each record: its fd, or Nil once undefined
  next,            \* the same memory as a node of the free list
  free_list,
  arena,           \* records taken from the arena
  loop,            \* where the event loop is
  events,          \* descriptor and record of the events still to dispatch
  listening,       \* one of the events is of the listening socket
  ssl,             \* config.conf.ssl is not null
  new_conn,        \* the connection's descriptor in acceptHttp or acceptSSL
  node, rest,      \* the loop's locals in pool.create
  jobs,            \* the pool's run_queue
  pc,              \* where each thread is
  conn,            \* the job it was given
  extra,           \* budget used
  raced            \* history: two uses of the free list overlapped

netVars == <<phase, unread>>
kernelVars == <<owner, interest, ready>>
poolVars == <<fd, next, free_list, arena>>
loopVars == <<loop, events, listening, ssl, new_conn, node, rest>>
threadVars == <<pc, conn>>
vars == <<netVars, kernelVars, poolVars, loopVars, jobs, threadVars, extra,
          raced>>

TypeOK ==
  /\ phase \in [Clients -> {"new", "backlog", "open", "closed"}]
  /\ unread \in [Clients -> {"nothing", "request", "more", "end", "read"}]
  /\ owner \in [Fds -> Clients \union {Nil}]
  /\ interest \in [Fds -> Records \union {Nil}] /\ ready \subseteq Fds
  /\ fd \in [Records -> Fds \union {Nil}]
  /\ next \in [Records -> Records \union {Nil}]
  /\ free_list \in Records \union {Nil} /\ arena \in 0 .. MaxClients
  /\ loop \in {"events", "accept", "handshake", "create", "pop", "register", "ended", "exited",
               "crashed"}
  /\ events \subseteq Fds \X Records /\ {listening, ssl} \subseteq BOOLEAN
  /\ new_conn \in Fds \union {Nil} /\ {node, rest} \subseteq Records \union {Nil}
  /\ jobs \in Seq(Records \union {Watcher})
  /\ pc \in [Threads ->
             {"idle", "watch", "read", "handle", "remove", "close", "destroy", "push"}]
  /\ conn \in [Threads -> Records \union {Watcher, Nil}]
  /\ extra \in 0 .. MaxExtra /\ raced \in BOOLEAN

Init ==
  /\ phase = [c \in Clients |-> "new"] /\ unread = [c \in Clients |-> "nothing"]
  /\ owner = [f \in Fds |-> Nil] /\ interest = [f \in Fds |-> Nil] /\ ready = {}
  /\ fd = [r \in Records |-> Nil] /\ next = [r \in Records |-> Nil]
  /\ free_list = Nil /\ arena = 0
  /\ loop = "events" /\ events = {} /\ listening = FALSE /\ ssl = FALSE
  /\ jobs = <<Watcher>>
  /\ new_conn = Nil /\ node = Nil /\ rest = Nil
  /\ pc = [h \in Threads |-> "idle"] /\ conn = [h \in Threads |-> Nil]
  /\ extra = 0 /\ raced = FALSE

Backlog == {c \in Clients : phase[c] = "backlog"}
IsFirst(c) == c \in Backlog /\ \A d \in Backlog : c <= d
FdsOf(c) == {f \in Fds : owner[f] = c}
Registered(f) == interest[f] # Nil

-----------------------------------------------------------------------------
(* The clients and the kernel.                                             *)

Connects(c) ==
  /\ phase[c] = "new" /\ \A d \in 1 .. (c - 1) : phase[d] # "new"
  /\ phase' = [phase EXCEPT ![c] = "backlog"]
  /\ UNCHANGED <<unread, kernelVars, poolVars, loopVars, jobs, threadVars, extra, raced>>

\* Input raises an edge on the descriptor if it is registered.
Input(c, what) ==
  /\ phase[c] \in {"backlog", "open"}
  /\ unread' = [unread EXCEPT ![c] = what]
  /\ ready' = ready \union {f \in FdsOf(c) : Registered(f)}
  /\ UNCHANGED <<phase, owner, interest, poolVars, loopVars, jobs, threadVars, raced>>

Sends(c) ==
  /\ unread[c] = "nothing"
  /\ Input(c, "request")
  /\ UNCHANGED extra

\* Further bytes, or the end of the stream; what follows an unread request is
\* another edge, but is read with the request.
Extra(c) ==
  /\ c \in Unruly /\ extra < MaxExtra
  /\ unread[c] # "end"
  /\ \E what \in IF unread[c] = "request" THEN {"request"} ELSE {"more", "end"} :
       Input(c, what)
  /\ extra' = extra + 1

-----------------------------------------------------------------------------
(* The event loop.                                                         *)

LoopOnly == UNCHANGED <<netVars, jobs, threadVars, extra>>

\* Faulty Wait: edges are returned again.
WaitKeepingEdges ==
  /\ loop = "events" /\ events = {} /\ ~listening
  /\ ready # {} \/ Backlog # {}
  /\ events' = {<<f, interest[f]>> : f \in ready}
  /\ listening' = (Backlog # {})
  /\ LoopOnly /\ UNCHANGED <<kernelVars, poolVars, loop, ssl, new_conn, node, rest, raced>>
\* epoll.wait: edges are returned once, the listening socket is level-triggered.
Wait ==
  /\ loop = "events" /\ events = {} /\ ~listening
  /\ ready # {} \/ Backlog # {}
  /\ events' = {<<f, interest[f]>> : f \in ready}
  /\ listening' = (Backlog # {})
  /\ ready' = {}
  /\ LoopOnly /\ UNCHANGED <<owner, interest, poolVars, loop, ssl, new_conn, node, rest, raced>>

\* thread_pool.spawnWg(handleRequest, conn): the job is put in front.
Dispatch ==
  /\ loop = "events"
  /\ \E e \in events :
       /\ events' = events \ {e}
       /\ jobs' = <<e[2]>> \o jobs
  /\ UNCHANGED <<netVars, kernelVars, poolVars, loop, listening, ssl, new_conn, node, rest,
                 threadVars, extra, raced>>

\* The configuration copied last has a TLS context or not.
Accepting ==
  /\ loop = "events" /\ listening
  /\ listening' = FALSE
  /\ ssl' \in BOOLEAN
  /\ loop' = "accept"
  /\ LoopOnly /\ UNCHANGED <<kernelVars, poolVars, events, new_conn, node, rest, raced>>

\* WouldBlock: acceptIncomingConnections returns.
Drained ==
  /\ loop = "accept" /\ Backlog = {}
  /\ loop' = "events" /\ ssl' = FALSE
  /\ LoopOnly
  /\ UNCHANGED <<kernelVars, poolVars, events, listening, new_conn, node, rest, raced>>

\* The kernel gives the lowest descriptor that is not open.
Accept(c) ==
  /\ loop = "accept" /\ IsFirst(c)
  /\ \E f \in Fds :
       /\ owner[f] = Nil /\ \A g \in 1 .. (f - 1) : owner[g] # Nil
       /\ owner' = [owner EXCEPT ![f] = c]
       /\ new_conn' = f
  /\ phase' = [phase EXCEPT ![c] = "open"]
  /\ loop' = IF ssl THEN "handshake" ELSE "create"
  /\ UNCHANGED <<unread, interest, ready, poolVars, events, listening, ssl, node, rest,
                 jobs, threadVars, extra, raced>>

\* SSL_accept on a descriptor that still blocks: it returns when the client has
\* done its part.
Handshake ==
  /\ loop = "handshake" /\ owner[new_conn] # Nil
  /\ unread[owner[new_conn]] = "nothing"
  /\ loop' = "create"
  /\ LoopOnly
  /\ UNCHANGED <<kernelVars, poolVars, events, listening, ssl, new_conn, node, rest, raced>>

\* The client has sent something else, a plain request or the end of the stream.
SpokePlainly ==
  /\ loop = "handshake" /\ owner[new_conn] # Nil
  /\ unread[owner[new_conn]] # "nothing"

\* 400 is sent without TLS and the descriptor closed; what else waits to be
\* accepted is left for the next turn.
HandshakeFails ==
  /\ SpokePlainly
  /\ phase' = [phase EXCEPT ![owner[new_conn]] = "closed"]
  /\ owner' = [owner EXCEPT ![new_conn] = Nil]
  /\ loop' = "events" /\ ssl' = FALSE /\ new_conn' = Nil
  /\ UNCHANGED <<unread, interest, ready, poolVars, events, listening, node, rest,
                 jobs, threadVars, extra, raced>>

\* The client has reset its connection, so that the answer fails too, and with
\* it the event loop.
AnswerFails ==
  /\ SpokePlainly
  /\ owner[new_conn] \in Unruly /\ extra < MaxExtra
  /\ extra' = extra + 1
  /\ loop' = "ended"
  /\ UNCHANGED <<netVars, kernelVars, poolVars, events, listening, ssl, new_conn, node, rest,
                 jobs, threadVars, raced>>

\* Any other error of accept ends the event loop: no descriptor is left, ...
NoDescriptorLeft ==
  /\ loop = "accept" /\ Backlog # {}
  /\ \A f \in Fds : owner[f] # Nil
  /\ loop' = "ended"
  /\ LoopOnly
  /\ UNCHANGED <<kernelVars, poolVars, events, listening, ssl, new_conn, node, rest, raced>>

\* ... or the client aborted its connection before it was accepted.
AcceptAborted(c) ==
  /\ loop = "accept" /\ IsFirst(c)
  /\ c \in Unruly /\ extra < MaxExtra
  /\ extra' = extra + 1
  /\ phase' = [phase EXCEPT ![c] = "closed"]
  /\ loop' = "ended"
  /\ UNCHANGED <<unread, kernelVars, poolVars, events, listening, ssl, new_conn, node, rest,
                 jobs, threadVars, raced>>

\* pool.create with an empty free list: a record of the arena.
Allocate ==
  /\ loop = "create" /\ free_list = Nil
  /\ arena' = arena + 1
  /\ node' = arena + 1
  /\ fd' = [fd EXCEPT ![arena + 1] = new_conn]
  /\ loop' = "register"
  /\ LoopOnly
  /\ UNCHANGED <<kernelVars, next, free_list, events, listening, ssl, new_conn, rest, raced>>

\* pool.create otherwise: the head and its link are loaded, ...
LoadHead ==
  /\ loop = "create" /\ free_list # Nil
  /\ node' = free_list /\ rest' = next[free_list]
  /\ raced' = (raced \/ \E h \in Threads : pc[h] = "push")
  /\ loop' = "pop"
  /\ LoopOnly
  /\ UNCHANGED <<kernelVars, poolVars, events, listening, ssl, new_conn>>

\* ... the head is stored and the record filled in; its null `ssl` lies where
\* the link was.
Pop ==
  /\ loop = "pop"
  /\ free_list' = rest
  /\ fd' = [fd EXCEPT ![node] = new_conn]
  /\ next' = [next EXCEPT ![node] = Nil]
  /\ loop' = "register"
  /\ LoopOnly
  /\ UNCHANGED <<kernelVars, arena, events, listening, ssl, new_conn, node, rest, raced>>

\* Faulty Register: input that is there already raises no edge.
RegisterUnready ==
  /\ loop = "register" /\ owner[new_conn] # Nil
  /\ interest' = [interest EXCEPT ![new_conn] = node]
  /\ loop' = "accept"
  /\ new_conn' = Nil /\ node' = Nil /\ rest' = Nil
  /\ LoopOnly
  /\ UNCHANGED <<owner, ready, poolVars, events, listening, ssl, raced>>
\* epoll.new; input that is there already is an edge.
Register ==
  /\ loop = "register" /\ owner[new_conn] # Nil
  /\ interest' = [interest EXCEPT ![new_conn] = node]
  /\ ready' = IF unread[owner[new_conn]] \in {"nothing", "read"} THEN ready
              ELSE ready \union {new_conn}
  /\ loop' = "accept"
  /\ new_conn' = Nil /\ node' = Nil /\ rest' = Nil
  /\ LoopOnly
  /\ UNCHANGED <<owner, poolVars, events, listening, ssl, raced>>

\* A handler that held a reused record has closed the descriptor: EBADF, of
\* fcntl in epoll.new or of the answer to a handshake that fails for it.
SetupPanics ==
  /\ loop \in {"handshake", "register"} /\ owner[new_conn] = Nil
  /\ loop' = "crashed"
  /\ LoopOnly
  /\ UNCHANGED <<kernelVars, poolVars, events, listening, ssl, new_conn, node, rest, raced>>

-----------------------------------------------------------------------------
(* The threads of the pool.                                                *)

Running == loop # "crashed"

\* Threads are alike: the first that is idle stands for any.
Idle(h) == pc[h] = "idle" /\ \A g \in 1 .. (h - 1) : pc[g] # "idle"

\* Faulty TakeJob: deinit drops the jobs that are left.
TakeJobUntilDeinit(h) ==
  /\ Running /\ loop # "ended" /\ Idle(h)
  /\ jobs # <<>>
  /\ jobs' = Tail(jobs)
  /\ conn' = [conn EXCEPT ![h] = Head(jobs)]
  /\ pc' = [pc EXCEPT ![h] = IF Head(jobs) = Watcher THEN "watch" ELSE "read"]
  /\ UNCHANGED <<netVars, kernelVars, poolVars, loopVars, extra, raced>>
\* The job that was put in last is taken first, also when deinit waits.
TakeJob(h) ==
  /\ Running /\ Idle(h)
  /\ jobs # <<>>
  /\ jobs' = Tail(jobs)
  /\ conn' = [conn EXCEPT ![h] = Head(jobs)]
  /\ pc' = [pc EXCEPT ![h] = IF Head(jobs) = Watcher THEN "watch" ELSE "read"]
  /\ UNCHANGED <<netVars, kernelVars, poolVars, loopVars, extra, raced>>

\* configChangeWatcher returns after an error only.
WatcherStops(h) ==
  /\ Running
  /\ pc[h] = "watch"
  /\ pc' = [pc EXCEPT ![h] = "idle"]
  /\ conn' = [conn EXCEPT ![h] = Nil]
  /\ UNCHANGED <<netVars, kernelVars, poolVars, loopVars, jobs, extra, raced>>

\* thread_pool.deinit joins the threads, which return when no job is left.
Join ==
  /\ loop = "ended"
  /\ jobs = <<>> /\ \A h \in Threads : pc[h] = "idle"
  /\ loop' = "exited"
  /\ LoopOnly
  /\ UNCHANGED <<kernelVars, poolVars, events, listening, ssl, new_conn, node, rest, raced>>

-----------------------------------------------------------------------------
(* handleRequest, on the record at conn[h].                                *)

\* The record holds a descriptor, and the descriptor is open.
Live(r) == fd[r] # Nil /\ owner[fd[r]] # Nil

Go(h, from, to) ==
  /\ Running
  /\ pc[h] = from
  /\ pc' = [pc EXCEPT ![h] = to]
  /\ conn' = IF to = "idle" THEN [conn EXCEPT ![h] = Nil] ELSE conn
  /\ UNCHANGED <<loopVars, jobs, extra>>

\* std.posix takes EBADF to be unreachable: the worker panics.
Panic(h) ==
  /\ Running
  /\ pc[h] \in {"read", "handle", "remove", "close"}
  /\ ~Live(conn[h])
  /\ loop' = "crashed"
  /\ UNCHANGED <<netVars, kernelVars, poolVars, events, listening, ssl, new_conn, node, rest,
                 jobs, threadVars, extra, raced>>

Read(h) ==
  /\ Go(h, "read", "handle")
  /\ Live(conn[h])
  /\ LET c == owner[fd[conn[h]]] IN
       /\ unread[c] \in {"request", "more"}
       /\ unread' = [unread EXCEPT ![c] = "read"]
  /\ UNCHANGED <<phase, kernelVars, poolVars, raced>>

\* WouldBlock or end of stream: 400 is sent and the connection left open.
ReadFails(h) ==
  /\ Go(h, "read", "idle")
  /\ Live(conn[h])
  /\ unread[owner[fd[conn[h]]]] \notin {"request", "more"}
  /\ UNCHANGED <<netVars, kernelVars, poolVars, raced>>

\* Faulty Respond: closeConnection is forgotten.
RespondWithoutClosing(h) ==
  /\ Go(h, "handle", "idle")
  /\ Live(conn[h])
  /\ UNCHANGED <<netVars, kernelVars, poolVars, raced>>
\* The strategy answers, or 502 is sent; closeConnection follows.
Respond(h) ==
  /\ Go(h, "handle", "remove")
  /\ Live(conn[h])
  /\ UNCHANGED <<netVars, kernelVars, poolVars, raced>>

\* A first path segment of more than 1020 bytes does not fit in buf_route:
\* handleRequest returns without an answer.
PathTooLong(h) ==
  /\ pc[h] = "handle" /\ Running
  /\ Live(conn[h]) /\ owner[fd[conn[h]]] \in Unruly /\ extra < MaxExtra
  /\ extra' = extra + 1
  /\ pc' = [pc EXCEPT ![h] = "idle"]
  /\ conn' = [conn EXCEPT ![h] = Nil]
  /\ UNCHANGED <<netVars, kernelVars, poolVars, loopVars, jobs, raced>>

\* Faulty Remove: close(conn.fd) is forgotten.
RemoveOnly(h) ==
  LET f == fd[conn[h]] IN
  /\ Go(h, "remove", "destroy")
  /\ Live(conn[h]) /\ Registered(f)
  /\ interest' = [interest EXCEPT ![f] = Nil]
  /\ ready' = ready \ {f}
  /\ UNCHANGED <<netVars, owner, poolVars, raced>>
\* closeConnection: epoll_ctl(CTL_DEL, conn.fd), ...
Remove(h) ==
  LET f == fd[conn[h]] IN
  /\ Go(h, "remove", "close")
  /\ Live(conn[h]) /\ Registered(f)
  /\ interest' = [interest EXCEPT ![f] = Nil]
  /\ ready' = ready \ {f}
  /\ UNCHANGED <<netVars, owner, poolVars, raced>>

\* ... which fails if another handler has done it, ...
RemoveFails(h) ==
  /\ Go(h, "remove", "idle")
  /\ Live(conn[h]) /\ ~Registered(fd[conn[h]])
  /\ UNCHANGED <<netVars, kernelVars, poolVars, raced>>

\* Faulty Close: the record is marked closed with -1.
CloseMarkingRecord(h) ==
  LET f == fd[conn[h]] IN
  /\ Go(h, "close", "destroy")
  /\ Live(conn[h])
  /\ phase' = [phase EXCEPT ![owner[f]] = "closed"]
  /\ owner' = [owner EXCEPT ![f] = Nil]
  /\ fd' = [fd EXCEPT ![conn[h]] = -1]
  /\ UNCHANGED <<unread, interest, ready, next, free_list, arena, raced>>
\* ... close(conn.fd), ...
Close(h) ==
  LET f == fd[conn[h]] IN
  /\ Go(h, "close", "destroy")
  /\ Live(conn[h])
  /\ phase' = [phase EXCEPT ![owner[f]] = "closed"]
  /\ owner' = [owner EXCEPT ![f] = Nil]
  /\ interest' = [interest EXCEPT ![f] = Nil]
  /\ ready' = ready \ {f}
  /\ UNCHANGED <<unread, poolVars, raced>>

\* ... pool.destroy: the record becomes a node linked to the head ...
Undefine(h) ==
  /\ Go(h, "destroy", "push")
  /\ fd' = [fd EXCEPT ![conn[h]] = Nil]
  /\ next' = [next EXCEPT ![conn[h]] = free_list]
  /\ raced' = (raced \/ loop = "pop" \/ \E g \in Threads : pc[g] = "push")
  /\ UNCHANGED <<netVars, kernelVars, free_list, arena>>

\* ... and becomes the head.
Push(h) ==
  /\ Go(h, "push", "idle")
  /\ free_list' = conn[h]
  /\ UNCHANGED <<netVars, kernelVars, fd, next, arena, raced>>

-----------------------------------------------------------------------------

LoopStep ==
  \/ Wait \/ Dispatch \/ Accepting \/ Drained
  \/ \E c \in Clients : Accept(c) \/ AcceptAborted(c)
  \/ HandshakeFails \/ AnswerFails
  \/ NoDescriptorLeft
  \/ Allocate \/ LoadHead \/ Pop \/ Register \/ SetupPanics
  \/ Join

ThreadStep(h) ==
  \/ TakeJob(h)
  \/ Panic(h)
  \/ Read(h) \/ ReadFails(h)
  \/ Respond(h) \/ PathTooLong(h)
  \/ Remove(h) \/ RemoveFails(h) \/ Close(h)
  \/ Undefine(h) \/ Push(h)

Next ==
  \/ \E c \in Clients : Connects(c) \/ Sends(c) \/ Extra(c)
  \/ LoopStep \/ Handshake
  \/ \E h \in Threads : WatcherStops(h)
  \/ \E h \in Threads : ThreadStep(h)

\* The threads of the worker are scheduled, and RoundRobin's handle returns.
\* Nothing makes a client do its part of a handshake or the watcher stop.
Fairness == WF_vars(LoopStep) /\ \A h \in Threads : WF_vars(ThreadStep(h))

Spec == Init /\ [][Next]_vars /\ Fairness

-----------------------------------------------------------------------------
(* Properties.                                                             *)

\* Clients have done nothing but send one request each, and no two uses of the
\* free list have overlapped.
Orderly == extra = 0 /\ ~raced

Queued(r) == r \in Range(jobs)

\* Then, although descriptors and records are reused as soon as they are
\* freed, a record that is registered, queued or handled belongs to one open
\* connection and one job, and is not in the free list.
RecordsAreExclusive ==
  Orderly =>
    /\ \A f \in Fds : Registered(f) => owner[f] # Nil /\ fd[interest[f]] = f
    /\ \A i, j \in 1 .. Len(jobs) : jobs[i] = jobs[j] => i = j
    /\ \A r \in Records : Queued(r) => Live(r) /\ free_list # r
    /\ \A h \in Threads :
         pc[h] \notin {"idle", "watch"} =>
           /\ pc[h] \in {"read", "handle", "remove", "close"} => Live(conn[h])
           /\ free_list # conn[h] /\ ~Queued(conn[h])
           /\ \A g \in Threads : conn[g] = conn[h] => g = h

\* Edges are not repeated, so none may be lost: input that waits on a
\* registered descriptor has an edge, an event, a job, or a thread about to
\* read.
InputIsNoticed ==
  Orderly =>
    \A f \in Fds :
      Registered(f) /\ unread[owner[f]] = "request" =>
        \/ f \in ready
        \/ <<f, interest[f]>> \in events
        \/ Queued(interest[f])
        \/ \E h \in Threads : pc[h] = "read" /\ conn[h] = interest[f]

\* A descriptor is open only for a connection that is being set up, waits for
\* its request, or is being closed: none leaks.
NoDescriptorLeaks ==
  Orderly =>
    \A f \in Fds :
      owner[f] # Nil =>
        \/ Registered(f)
        \/ loop \in {"handshake", "create", "pop", "register"} /\ new_conn = f
        \/ \E h \in Threads : pc[h] = "close" /\ fd[conn[h]] = f

\* All of it together is what clients see: as long as they and the free list are
\* orderly, the worker reads each request once, serves it with one thread, which
\* alone closes that connection, and does not panic, although only descriptors
\* and records that are reused say which connection is which.
Serving(h) == pc[h] \in {"handle", "remove", "close"} /\ Live(conn[h])
Client(h) == IF Serving(h) THEN owner[fd[conn[h]]] ELSE Nil

Promise == INSTANCE Service WITH
  Clients <- Clients,
  Threads <- Threads,
  Nobody  <- Nil,
  calm    <- Orderly,
  up      <- loop # "crashed",
  phase   <- phase,
  input   <- unread,
  server  <- [h \in Threads |-> Client(h)]

ImplementsService == Promise!Spec

\* connection.zig:63, `connections[i].fd == i` of connections created in a row:
\* as long as it is not destroyed, the record of a connection holds its fd.
RecordsHoldTheirFd ==
  \A f \in Fds : Registered(f) => fd[interest[f]] = f

Waits(c) == unread[c] \in {"request", "read"} /\ phase[c] # "closed"

\* In the end no client whose request has arrived waits for an answer and the
\* close of its connection, although the watcher keeps one of the threads for
\* ever; unless the event loop has ended or is stuck with a client that does not
\* finish its handshake.
RequestsAreHandled ==
  <>[](\/ \A c \in Clients : ~Waits(c)
       \/ loop \in {"handshake", "ended", "exited", "crashed"}
       \/ ~Orderly)

\* When the event loop ends, what it has queued is still handled, and the only
\* job the join of the pool's threads waits for without end is the watcher.
OnlyTheWatcherHolds ==
  <>[](loop = "ended" => jobs = <<>> /\ \A h \in Threads : pc[h] \in {"idle", "watch"})
=============================================================================
