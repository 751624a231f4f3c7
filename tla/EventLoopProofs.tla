-------------------------- MODULE EventLoopProofs --------------------------
(***************************************************************************)
(* Theorems about EventLoop for any number of clients, descriptors and     *)
(* threads.                                                                *)
(***************************************************************************)
EXTENDS EventLoop, TLAPS

Setup == loop \in {"handshake", "create", "pop", "register"}
Busy(h) == pc[h] \notin {"idle", "watch"}
Holds(h) == pc[h] \in {"read", "handle", "remove"}

(***************************************************************************)
(* What holds in every state.                                              *)
(***************************************************************************)
\* Clients are accepted in the order in which they connect, and each takes at
\* most one record from the arena.
Taking == loop \in {"handshake", "create"}
ArenaInv ==
  /\ Taking => arena < MaxClients
  /\ \A c \in Clients : phase[c] \in {"new", "backlog"} =>
       arena < c /\ (Taking => arena + 1 < c)
  /\ \A c, d \in Clients : phase[c] = "new" /\ c < d => phase[d] = "new"

ShapeInv ==
  /\ \A f \in ready : Registered(f)
  /\ \A f \in Fds : owner[f] # Nil => phase[owner[f]] \in {"open", "closed"}
  /\ Setup => new_conn # Nil
  /\ loop \in {"pop", "register"} => node # Nil
  /\ \A h \in Threads :
       /\ pc[h] = "idle" => conn[h] = Nil
       /\ pc[h] = "watch" => conn[h] = Watcher
       /\ Busy(h) => conn[h] \in Records

(***************************************************************************)
(* What holds as long as the clients and the free list are orderly.        *)
(***************************************************************************)
\* A connection has one descriptor.
OwnerInv ==
  /\ \A c \in Clients : unread[c] \in {"nothing", "request", "read"}
  /\ \A f \in Fds : owner[f] # Nil => phase[owner[f]] = "open"
  /\ \A f, g \in Fds : owner[f] # Nil /\ owner[f] = owner[g] => f = g

\* A registered descriptor is open and its record holds it.
RegisteredInv ==
  \A f \in Fds : Registered(f) => owner[f] # Nil /\ fd[interest[f]] = f

\* The connection being set up is nobody else's, and so is its record.
SetupInv ==
  /\ Setup => /\ owner[new_conn] # Nil /\ ~Registered(new_conn)
              /\ \A h \in Threads : pc[h] = "close" => fd[conn[h]] # new_conn
  /\ loop = "pop" => node = free_list /\ rest = next[node]
  /\ loop = "register" => /\ fd[node] = new_conn
                          /\ \A h \in Threads : conn[h] # node

\* A record is handled by one thread: registered until it is removed from
\* epoll, holding an open descriptor until that is closed, and then neither.
ThreadInv ==
  /\ \A g, h \in Threads : Busy(h) /\ conn[g] = conn[h] => g = h
  /\ \A h \in Threads :
       /\ Holds(h) => fd[conn[h]] # Nil /\ interest[fd[conn[h]]] = conn[h]
       /\ pc[h] = "close" => /\ fd[conn[h]] # Nil /\ owner[fd[conn[h]]] # Nil
                             /\ ~Registered(fd[conn[h]])
       /\ pc[h] = "destroy" => /\ fd[conn[h]] # Nil
                               /\ \A f \in Fds : interest[f] # conn[h]
       /\ pc[h] = "push" => /\ fd[conn[h]] = Nil /\ conn[h] <= arena
                            /\ next[conn[h]] = free_list /\ loop # "pop"
  /\ \A g, h \in Threads :
       /\ pc[g] = "close" /\ pc[h] = "close" /\ fd[conn[g]] = fd[conn[h]] => g = h
       /\ pc[g] = "push" /\ pc[h] = "push" => g = h

\* A request is at one place at a time: an edge, an event, a job or a thread.
RequestOf(f) == owner[f] # Nil /\ unread[owner[f]] = "request"
EdgeInv ==
  /\ \A f \in ready :
       /\ RequestOf(f) /\ \A e \in events : e[1] # f
       /\ ~Queued(interest[f]) /\ \A h \in Threads : conn[h] # interest[f]
  /\ \A e \in events :
       /\ interest[e[1]] = e[2] /\ RequestOf(e[1])
       /\ ~Queued(e[2]) /\ \A h \in Threads : conn[h] # e[2]
  /\ \A r \in Records : Queued(r) =>
       /\ fd[r] # Nil /\ interest[fd[r]] = r /\ RequestOf(fd[r])
       /\ \A h \in Threads : conn[h] # r
  /\ \A i, j \in 1 .. Len(jobs) : jobs[i] = jobs[j] => i = j
  /\ \A h \in Threads :
       /\ pc[h] = "read" => RequestOf(fd[conn[h]])
       /\ pc[h] \in {"handle", "remove"} => unread[owner[fd[conn[h]]]] = "read"

\* The free list, without following it: what is linked in it is free, and is
\* linked once.
Free(r) == r <= arena /\ fd[r] = Nil
             /\ \A h \in Threads : pc[h] = "push" => conn[h] # r
FreeInv ==
  /\ \A r \in Records : fd[r] # Nil => r <= arena
  /\ free_list # Nil => Free(free_list)
  /\ \A r \in Records : Free(r) /\ next[r] # Nil =>
       Free(next[r]) /\ next[r] # free_list
  /\ \A r, s \in Records :
       Free(r) /\ Free(s) /\ next[r] # Nil /\ next[r] = next[s] => r = s

Shape == TypeOK /\ ArenaInv /\ ShapeInv

\* An orderly state.
Tidy ==
  /\ Shape /\ Orderly
  /\ OwnerInv /\ RegisteredInv /\ SetupInv /\ ThreadInv /\ EdgeInv /\ FreeInv
  /\ InputIsNoticed /\ NoDescriptorLeaks

\* The inductive invariant.
IInv == Shape /\ (Orderly => Tidy)

-----------------------------------------------------------------------------
(* Types, and what holds in every state.                                   *)

LEMMA NilIsNone ==
  /\ Nil \notin Clients /\ Nil \notin Fds /\ Nil \notin Records
  /\ Watcher \notin Records /\ Watcher # Nil
  /\ Clients \subseteq Nat /\ Fds \subseteq Nat /\ Records \subseteq Nat
  /\ Clients = Records
BY BoundAssumption DEF Nil, Clients, Fds, Records, Watcher

LEMMA ArenaKeeps ==
  ASSUME ArenaInv, arena' = arena, Taking' => Taking,
         \A c \in Clients : phase'[c] \in {"new", "backlog"} => phase'[c] = phase[c],
         \A c \in Clients : phase[c] = "new" => phase'[c] = "new"
  PROVE  ArenaInv'
BY DEF ArenaInv

LEMMA ShapeInit == Init => Shape
<1> SUFFICES ASSUME Init PROVE Shape
  OBVIOUS
<1> USE BoundAssumption DEF Init, Clients, Fds, Records, Threads, Nil
<1>1. TypeOK
  <2>1. jobs \in Seq(Records \union {Watcher})
    BY DEF Watcher
  <2>2. /\ phase \in [Clients -> {"new", "backlog", "open", "closed"}]
        /\ unread \in [Clients -> {"nothing", "request", "more", "end", "read"}]
    OBVIOUS
  <2>3. /\ owner \in [Fds -> Clients \union {Nil}]
        /\ interest \in [Fds -> Records \union {Nil}] /\ ready \subseteq Fds
    OBVIOUS
  <2>4. /\ fd \in [Records -> Fds \union {Nil}]
        /\ next \in [Records -> Records \union {Nil}]
        /\ free_list \in Records \union {Nil} /\ arena \in 0 .. MaxClients
    OBVIOUS
  <2>5. /\ pc \in [Threads ->
                  {"idle", "watch", "read", "handle", "remove", "close", "destroy", "push"}]
        /\ conn \in [Threads -> Records \union {Watcher, Nil}]
    OBVIOUS
  <2>6. extra \in 0 .. MaxExtra
    OBVIOUS
  <2>8. raced \in BOOLEAN
    BY Zenon
  <2>7. /\ loop \in {"events", "accept", "handshake", "create", "pop", "register", "ended",
                     "exited", "crashed"}
        /\ events \subseteq Fds \X Records /\ {listening, ssl} \subseteq BOOLEAN
        /\ new_conn \in Fds \union {Nil} /\ {node, rest} \subseteq Records \union {Nil}
    OBVIOUS
  <2> QED BY <2>1, <2>2, <2>3, <2>4, <2>5, <2>6, <2>7, <2>8 DEF TypeOK
<1>2. ArenaInv BY DEF ArenaInv, Taking
<1>3. ShapeInv BY DEF ShapeInv, Setup, Busy
<1> QED BY <1>1, <1>2, <1>3 DEF Shape

LEMMA ShapeOfClients ==
  ASSUME Shape, NEW c \in Clients, Connects(c) \/ Sends(c) \/ Extra(c)
  PROVE  Shape'
<1> USE DEF Shape, TypeOK, ArenaInv, ShapeInv, Taking, Setup, Busy, Registered,
            kernelVars, poolVars, loopVars, threadVars
<1>1. CASE Connects(c)
  <2>1. \A d \in Clients : d < c => d \in 1 .. (c - 1)
    BY BoundAssumption DEF Clients
  <2> QED BY <1>1, <2>1 DEF Connects
<1>2. ASSUME NEW what \in {"request", "more", "end"}, Input(c, what),
             extra' \in 0 .. MaxExtra
      PROVE  Shape'
  <2>1. /\ unread' \in [Clients -> {"nothing", "request", "more", "end", "read"}]
        /\ ready' \subseteq Fds
    BY <1>2 DEF Input, FdsOf
  <2>1a. TypeOK' BY <1>2, <2>1 DEF Input
  <2>2. ArenaInv' BY <1>2 DEF Input
  <2>3. ShapeInv' BY <1>2 DEF Input
  <2> QED BY <2>1a, <2>2, <2>3
<1>3. CASE Sends(c) BY <1>2, <1>3 DEF Sends
<1>4. CASE Extra(c)
  <2>1. extra' \in 0 .. MaxExtra BY <1>4, BoundAssumption DEF Extra
  <2>2. PICK what \in {"request", "more", "end"} : Input(c, what)
    BY <1>4 DEF Extra
  <2> QED BY <1>2, <2>1, <2>2
<1> QED BY <1>1, <1>3, <1>4

LEMMA ShapeOfLoop ==
  ASSUME Shape, LoopStep \/ Handshake
  PROVE  Shape'
<1> USE BoundAssumption
    DEF Shape, TypeOK, ArenaInv, ShapeInv, Taking, Setup, Busy, Registered,
        netVars, kernelVars, poolVars, loopVars, threadVars, LoopOnly
<1>1. CASE Wait
  BY <1>1 DEF Wait
<1>2. CASE Dispatch
  BY <1>2 DEF Dispatch
<1>3. CASE Accepting
  BY <1>3 DEF Accepting
<1>4. CASE Drained
  BY <1>4 DEF Drained
<1>5. ASSUME NEW c \in Clients, Accept(c) PROVE Shape'
  <2>1. TypeOK' BY <1>5, NilIsNone DEF Accept, IsFirst, Backlog
  <2>2. ArenaInv'
    <3>1. \A d \in Clients : d # c /\ phase[d] \in {"new", "backlog"} => c < d
      BY <1>5 DEF Accept, IsFirst, Backlog, Clients
    <3>2. arena' = arena /\ phase[c] = "backlog" /\ arena < c
      BY <1>5 DEF Accept, IsFirst, Backlog
    <3>3. \A d \in Clients : phase'[d] = IF d = c THEN "open" ELSE phase[d]
      BY <1>5 DEF Accept
    <3>4. arena \in Nat /\ MaxClients \in Nat /\ Clients = 1 .. MaxClients
      BY DEF Clients
    <3> HIDE DEF Taking
    <3>5. arena < MaxClients
      BY <3>2, <3>4
    <3>6. \A d \in Clients : phase'[d] \in {"new", "backlog"} =>
            arena < d /\ arena + 1 < d
      BY <3>1, <3>2, <3>3, <3>4
    <3>7. ASSUME NEW d \in Clients, NEW e \in Clients, phase'[d] = "new", d < e
          PROVE  phase'[e] = "new"
      BY <3>2, <3>3, <3>7
    <3> QED BY <3>2, <3>5, <3>6, <3>7
  <2>3. ShapeInv' BY <1>5, NilIsNone DEF Accept, IsFirst, Backlog
  <2> QED BY <2>1, <2>2, <2>3
<1>6. ASSUME NEW c \in Clients, AcceptAborted(c) PROVE Shape'
  BY <1>6 DEF AcceptAborted, IsFirst, Backlog
<1>7. CASE HandshakeFails
  <2>1. TypeOK' BY <1>7 DEF HandshakeFails, SpokePlainly
  <2>2. ArenaInv'
    <3>1. arena' = arena /\ ~Taking'
      BY <1>7 DEF HandshakeFails, SpokePlainly
    <3>2. owner[new_conn] \in Clients /\ phase[owner[new_conn]] \in {"open", "closed"}
      BY <1>7 DEF HandshakeFails, SpokePlainly
    <3>3. phase' = [phase EXCEPT ![owner[new_conn]] = "closed"]
      BY <1>7 DEF HandshakeFails
    <3>4. /\ \A c \in Clients : phase'[c] \in {"new", "backlog"} => phase'[c] = phase[c]
          /\ \A c \in Clients : phase[c] = "new" => phase'[c] = "new"
      BY <3>2, <3>3
    <3> QED BY <3>1, <3>4, ArenaKeeps
  <2>3. ShapeInv' BY <1>7 DEF HandshakeFails, SpokePlainly
  <2> QED BY <2>1, <2>2, <2>3
<1>8. CASE AnswerFails
  <2>1. TypeOK' BY <1>8 DEF AnswerFails, SpokePlainly
  <2>2. ArenaInv'
    <3>1. arena' = arena /\ ~Taking'
      BY <1>8 DEF AnswerFails, SpokePlainly
    <3>2. \A c \in Clients : phase'[c] \in {"new", "backlog"} => phase'[c] = phase[c]
      BY <1>8 DEF AnswerFails, SpokePlainly
    <3>3. \A c \in Clients : phase[c] = "new" => phase'[c] = "new"
      BY <1>8 DEF AnswerFails, SpokePlainly
    <3> QED BY <3>1, <3>2, <3>3, ArenaKeeps
  <2>3. ShapeInv' BY <1>8 DEF AnswerFails, SpokePlainly
  <2> QED BY <2>1, <2>2, <2>3
<1>9. CASE NoDescriptorLeft
  BY <1>9 DEF NoDescriptorLeft
<1>10. CASE Allocate
  BY <1>10, NilIsNone DEF Allocate, Records
<1>11. CASE LoadHead
  <2>1. TypeOK' BY <1>11 DEF LoadHead
  <2>2. ArenaInv'
    <3>1. arena' = arena /\ ~Taking'
      BY <1>11 DEF LoadHead
    <3>2. \A c \in Clients : phase'[c] \in {"new", "backlog"} => phase'[c] = phase[c]
      BY <1>11 DEF LoadHead
    <3>3. \A c \in Clients : phase[c] = "new" => phase'[c] = "new"
      BY <1>11 DEF LoadHead
    <3> QED BY <3>1, <3>2, <3>3, ArenaKeeps
  <2>3. ShapeInv' BY <1>11 DEF LoadHead
  <2> QED BY <2>1, <2>2, <2>3
<1>12. CASE Pop
  BY <1>12, NilIsNone DEF Pop
<1>13. CASE Register
  BY <1>13 DEF Register
<1>14. CASE SetupPanics
  BY <1>14 DEF SetupPanics
<1>15. CASE Join
  BY <1>15 DEF Join
<1>16. CASE Handshake
  BY <1>16 DEF Handshake
<1> QED BY <1>1, <1>2, <1>3, <1>4, <1>5, <1>6, <1>7, <1>8, <1>9, <1>10, <1>11,
           <1>12, <1>13, <1>14, <1>15, <1>16 DEF LoopStep

LEMMA ShapeOfThreads ==
  ASSUME Shape, NEW h \in Threads, WatcherStops(h) \/ ThreadStep(h)
  PROVE  Shape'
<1> USE BoundAssumption
    DEF Shape, TypeOK, ArenaInv, ShapeInv, Taking, Setup, Busy, Registered,
        netVars, kernelVars, poolVars, loopVars, threadVars, Go
<1>1. CASE WatcherStops(h)
  BY <1>1 DEF WatcherStops
<1>2. CASE TakeJob(h)
  BY <1>2 DEF TakeJob
<1>3. CASE Panic(h)
  <2>1. TypeOK' BY <1>3 DEF Panic
  <2>2. ArenaInv'
    <3>1. arena' = arena /\ ~Taking'
      BY <1>3 DEF Panic
    <3>2. \A c \in Clients : phase'[c] \in {"new", "backlog"} => phase'[c] = phase[c]
      BY <1>3 DEF Panic
    <3>3. \A c \in Clients : phase[c] = "new" => phase'[c] = "new"
      BY <1>3 DEF Panic
    <3> QED BY <3>1, <3>2, <3>3, ArenaKeeps
  <2>3. ShapeInv' BY <1>3 DEF Panic
  <2> QED BY <2>1, <2>2, <2>3
<1>4. CASE Read(h)
  BY <1>4 DEF Read
<1>5. CASE ReadFails(h)
  BY <1>5 DEF ReadFails
<1>6. CASE Respond(h)
  BY <1>6 DEF Respond
<1>7. CASE PathTooLong(h)
  BY <1>7 DEF PathTooLong
<1>8. CASE Remove(h)
  <2>1. TypeOK' BY <1>8 DEF Remove
  <2>2. ArenaInv' BY <1>8 DEF Remove
  <2>3. ShapeInv' BY <1>8 DEF Remove
  <2> QED BY <2>1, <2>2, <2>3
<1>9. CASE RemoveFails(h)
  BY <1>9 DEF RemoveFails
<1>10. CASE Close(h)
  <2>1. TypeOK' BY <1>10 DEF Close
  <2>2. ArenaInv'
    <3>1. arena' = arena /\ (Taking' => Taking)
      BY <1>10 DEF Close
    <3>2. PICK c \in Clients : /\ phase[c] \in {"open", "closed"}
                               /\ phase' = [phase EXCEPT ![c] = "closed"]
      <4>1. conn[h] \in Records /\ Live(conn[h])
        BY <1>10 DEF Close
      <4>2. fd[conn[h]] \in Fds /\ owner[fd[conn[h]]] \in Clients
        BY <4>1 DEF Live
      <4>3. phase' = [phase EXCEPT ![owner[fd[conn[h]]]] = "closed"]
        BY <1>10 DEF Close
      <4>4. phase[owner[fd[conn[h]]]] \in {"open", "closed"}
        BY <4>1, <4>2 DEF Live
      <4> QED BY <4>2, <4>3, <4>4
    <3>3. /\ \A d \in Clients : phase'[d] \in {"new", "backlog"} => phase'[d] = phase[d]
          /\ \A d \in Clients : phase[d] = "new" => phase'[d] = "new"
      BY <3>2
    <3> QED BY <3>1, <3>3, ArenaKeeps
  <2>3. ShapeInv' BY <1>10 DEF Close
  <2> QED BY <2>1, <2>2, <2>3
<1>11. CASE Undefine(h)
  BY <1>11 DEF Undefine
<1>12. CASE Push(h)
  BY <1>12 DEF Push
<1> QED BY <1>1, <1>2, <1>3, <1>4, <1>5, <1>6, <1>7, <1>8, <1>9, <1>10, <1>11,
           <1>12 DEF ThreadStep

-----------------------------------------------------------------------------
(* Each action keeps what holds in orderly states.                         *)

\* Where the records of registered descriptors, events, jobs and threads are.
LEMMA Places ==
  ASSUME Tidy
  PROVE  /\ \A f \in Fds : Registered(f) =>
              interest[f] \in Records /\ fd[interest[f]] = f /\ owner[f] \in Clients
         /\ ready \subseteq Fds
         /\ \A e \in events : e[1] \in Fds /\ e[2] \in Records /\ e = <<e[1], e[2]>>
         /\ \A r \in Records : Queued(r) => fd[r] \in Fds
         /\ \A h \in Threads : Busy(h) => conn[h] \in Records
         /\ \A h \in Threads : Holds(h) =>
              /\ fd[conn[h]] \in Fds /\ owner[fd[conn[h]]] \in Clients
              /\ interest[fd[conn[h]]] = conn[h]
<1>0. TypeOK /\ ShapeInv /\ RegisteredInv /\ ThreadInv /\ EdgeInv
  BY DEF Tidy, Shape
<1>1. \A f \in Fds : Registered(f) =>
        interest[f] \in Records /\ fd[interest[f]] = f /\ owner[f] \in Clients
  BY <1>0 DEF RegisteredInv, Registered, TypeOK
<1>2. ready \subseteq Fds
  BY <1>0 DEF TypeOK
<1>3. \A e \in events : e[1] \in Fds /\ e[2] \in Records /\ e = <<e[1], e[2]>>
  BY <1>0 DEF TypeOK
<1>4. \A r \in Records : Queued(r) => fd[r] \in Fds
  BY <1>0 DEF TypeOK, EdgeInv
<1>5. \A h \in Threads : Busy(h) => conn[h] \in Records
  BY <1>0 DEF ShapeInv
<1>6. ASSUME NEW h \in Threads, Holds(h)
      PROVE  /\ fd[conn[h]] \in Fds /\ owner[fd[conn[h]]] \in Clients
             /\ interest[fd[conn[h]]] = conn[h]
  <2>1. conn[h] \in Records
    BY <1>5, <1>6 DEF Holds, Busy
  <2>2. fd[conn[h]] \in Fds /\ interest[fd[conn[h]]] = conn[h]
    BY <1>0, <1>6, <2>1 DEF ThreadInv, TypeOK
  <2> QED BY <1>1, <2>1, <2>2, NilIsNone DEF Registered
<1> QED BY <1>1, <1>2, <1>3, <1>4, <1>5, <1>6

\* The run queue.
LEMMA QueuedInFront ==
  ASSUME NEW S, NEW q \in Seq(S), NEW x \in S, x \notin Range(q),
         \A i, j \in 1 .. Len(q) : q[i] = q[j] => i = j
  PROVE  /\ \A r : r \in Range(<<x>> \o q) <=> r \in Range(q) \/ r = x
         /\ \A i, j \in 1 .. Len(<<x>> \o q) : (<<x>> \o q)[i] = (<<x>> \o q)[j] => i = j
<1> DEFINE p == <<x>> \o q
<1>1. /\ Len(p) = Len(q) + 1 /\ p[1] = x /\ DOMAIN p = 1 .. Len(p) /\ DOMAIN q = 1 .. Len(q)
      /\ \A i \in 1 .. Len(q) : p[i + 1] = q[i]
      /\ \A i \in 1 .. Len(p) : i = 1 \/ (i - 1 \in 1 .. Len(q) /\ p[i] = q[i - 1])
  OBVIOUS
<1>2. Len(q) \in Nat
  OBVIOUS
<1> HIDE DEF p
<1>3. \A r : r \in Range(p) <=> r \in Range(q) \/ r = x
  <2>1. ASSUME NEW i \in DOMAIN p PROVE p[i] \in Range(q) \/ p[i] = x
    BY <1>1 DEF Range
  <2>2. ASSUME NEW i \in DOMAIN q PROVE q[i] \in Range(p)
    <3>1. i + 1 \in DOMAIN p /\ p[i + 1] = q[i]
      BY <1>1, <1>2
    <3> QED BY <3>1 DEF Range
  <2>3. x \in Range(p)
    BY <1>1, <1>2 DEF Range
  <2> QED BY <2>1, <2>2, <2>3 DEF Range
<1>4. \A i \in 1 .. Len(q) : q[i] # x
  BY <1>1 DEF Range
<1>5. \A i, j \in 1 .. Len(p) : p[i] = p[j] => i = j
  BY <1>1, <1>2, <1>4
<1> QED BY <1>3, <1>5 DEF p

LEMMA FirstTaken ==
  ASSUME NEW S, NEW q \in Seq(S), q # <<>>,
         \A i, j \in 1 .. Len(q) : q[i] = q[j] => i = j
  PROVE  /\ Head(q) \in S /\ Head(q) \in Range(q)
         /\ \A r : r \in Range(Tail(q)) <=> r \in Range(q) /\ r # Head(q)
         /\ \A i, j \in 1 .. Len(Tail(q)) : Tail(q)[i] = Tail(q)[j] => i = j
<1> DEFINE p == Tail(q)
<1>1. /\ Len(q) \in Nat \ {0} /\ Len(p) = Len(q) - 1 /\ Head(q) = q[1]
      /\ DOMAIN p = 1 .. Len(p) /\ DOMAIN q = 1 .. Len(q)
      /\ \A i \in 1 .. Len(p) : p[i] = q[i + 1]
  OBVIOUS
<1>2. q[1] \in S
  BY <1>1
<1> HIDE DEF p
<1>3. \A i \in 2 .. Len(q) : i - 1 \in 1 .. Len(p) /\ q[i] = p[i - 1]
  BY <1>1
<1>4. \A r : r \in Range(p) <=> r \in Range(q) /\ r # Head(q)
  <2>1. ASSUME NEW i \in DOMAIN p PROVE p[i] \in Range(q) /\ p[i] # Head(q)
    <3>1. i + 1 \in 2 .. Len(q) /\ p[i] = q[i + 1]
      BY <1>1
    <3> QED BY <1>1, <3>1 DEF Range
  <2>2. ASSUME NEW i \in DOMAIN q, q[i] # Head(q) PROVE q[i] \in Range(p)
    <3>1. i \in 2 .. Len(q)
      BY <1>1, <2>2
    <3> QED BY <1>1, <1>3, <3>1 DEF Range
  <2> QED BY <2>1, <2>2 DEF Range
<1>5. \A i, j \in 1 .. Len(p) : p[i] = p[j] => i = j
  BY <1>1
<1>6. Head(q) \in Range(q)
  BY <1>1 DEF Range
<1> QED BY <1>1, <1>2, <1>4, <1>5, <1>6 DEF p

LEMMA ConnectsKeeps ==
  ASSUME Tidy, Shape', NEW c \in Clients, Connects(c), Orderly'
  PROVE  Tidy'
<1> USE NilIsNone DEF Tidy, Shape, TypeOK, ShapeInv, Orderly, Setup, Busy, Holds, Registered,
         RequestOf, Queued, Free, OwnerInv, RegisteredInv, SetupInv, ThreadInv, EdgeInv, FreeInv,
         netVars, kernelVars, poolVars, loopVars, threadVars, LoopOnly, Go
<1>1. OwnerInv' BY DEF Connects
<1>2. RegisteredInv' BY DEF Connects
<1>3. SetupInv' BY DEF Connects
<1>4. ThreadInv' BY DEF Connects
<1>5. EdgeInv' BY DEF Connects
<1>6. FreeInv' BY DEF Connects
<1>7. InputIsNoticed' BY DEF Connects, InputIsNoticed
<1>8. NoDescriptorLeaks' BY DEF Connects, NoDescriptorLeaks
<1> QED BY <1>1, <1>2, <1>3, <1>4, <1>5, <1>6, <1>7, <1>8 DEF Tidy

\* The descriptor of a client that has not sent anything has no edge, event or
\* job yet.
LEMMA SendsKeeps ==
  ASSUME Tidy, Shape', NEW c \in Clients, Sends(c), Orderly'
  PROVE  Tidy'
<1> USE NilIsNone DEF Tidy, Shape, TypeOK, ShapeInv, Orderly, Setup, Busy, Holds, Registered,
         RequestOf, Queued, Free, OwnerInv, RegisteredInv, SetupInv, ThreadInv, EdgeInv, FreeInv,
         netVars, kernelVars, poolVars, loopVars, threadVars, LoopOnly, Go
<1>1. OwnerInv' BY DEF Sends, Input, FdsOf
<1>2. RegisteredInv' BY DEF Sends, Input, FdsOf
<1>3. SetupInv' BY DEF Sends, Input, FdsOf
<1>4. ThreadInv' BY DEF Sends, Input, FdsOf
<1>5. FreeInv' BY DEF Sends, Input, FdsOf
<1>6. InputIsNoticed' BY DEF Sends, Input, FdsOf, InputIsNoticed
<1>7. NoDescriptorLeaks' BY DEF Sends, Input, FdsOf, NoDescriptorLeaks
<1> HIDE DEF Tidy, Shape, TypeOK, ShapeInv, OwnerInv, RegisteredInv, SetupInv, ThreadInv, EdgeInv,
         FreeInv, Queued, Free, RequestOf
<1>8. /\ TypeOK /\ ShapeInv /\ OwnerInv /\ RegisteredInv /\ SetupInv /\ ThreadInv /\ EdgeInv
      /\ FreeInv
  BY DEF Tidy, Shape
<1>9. EdgeInv'
  <2>1. ASSUME NEW f \in Fds, Registered(f), owner[f] = c
        PROVE  /\ \A e \in events : e[1] # f
               /\ ~Queued(interest[f]) /\ \A h \in Threads : conn[h] # interest[f]
    <3>1. /\ interest[f] \in Records /\ fd[interest[f]] = f /\ unread[owner[f]] = "nothing"
          /\ ~RequestOf(f)
      BY <1>8, <2>1 DEF Sends, TypeOK, RegisteredInv, RequestOf
    <3>2. (\A e \in events : e[1] # f) /\ ~Queued(interest[f])
      BY <1>8, <3>1 DEF EdgeInv
    <3>3. ASSUME NEW h \in Threads, conn[h] = interest[f] PROVE FALSE
      <4>1. Busy(h) /\ fd[conn[h]] = f
        BY <1>8, <3>1, <3>3 DEF TypeOK, ShapeInv
      <4>2. pc[h] \notin {"read", "handle", "remove"}
        BY <1>8, <3>1, <4>1 DEF EdgeInv
      <4>3. pc[h] \notin {"close", "destroy", "push"}
        BY <1>8, <2>1, <3>3, <4>1 DEF ThreadInv
      <4> QED BY <1>8, <4>1, <4>2, <4>3 DEF TypeOK
    <3> QED BY <3>2, <3>3
  <2>2. \A f \in Fds : /\ RequestOf(f) => RequestOf(f)'
                       /\ owner[f] = c => RequestOf(f)'
                       /\ owner[f] # Nil /\ unread[owner[f]] = "read"
                            => unread'[owner[f]] = "read"
    BY <1>8 DEF Sends, Input, TypeOK, RequestOf
  <2>3. /\ UNCHANGED <<owner, interest, fd, events, jobs, pc, conn>>
        /\ \A f \in ready' : f \in ready \/ (owner[f] = c /\ Registered(f) /\ f \in Fds)
    BY DEF Sends, Input, FdsOf
  <2>4. \A f \in ready' : /\ RequestOf(f)' /\ \A e \in events : e[1] # f
                          /\ ~Queued(interest[f]) /\ \A h \in Threads : conn[h] # interest[f]
    BY <1>8, <2>1, <2>2, <2>3 DEF EdgeInv, TypeOK
  <2>5. \A r \in Records : Queued(r) => RequestOf(fd[r])'
    BY <1>8, <2>2, <2>3, Places DEF EdgeInv
  <2>6. \A e \in events : RequestOf(e[1])'
    BY <1>8, <2>2, Places DEF EdgeInv
  <2>7. \A h \in Threads :
          /\ pc[h] = "read" => RequestOf(fd[conn[h]])'
          /\ pc[h] \in {"handle", "remove"} => unread'[owner[fd[conn[h]]]] = "read"
    BY <1>8, <2>2, <2>3, Places DEF EdgeInv
  <2>8. \A r : Queued(r)' <=> Queued(r)
    BY <2>3 DEF Queued
  <2> QED BY <1>8, <2>3, <2>4, <2>5, <2>6, <2>7, <2>8 DEF EdgeInv
<1> QED BY <1>1, <1>2, <1>3, <1>4, <1>5, <1>6, <1>7, <1>9 DEF Tidy

LEMMA WaitKeeps ==
  ASSUME Tidy, Shape', Wait, Orderly'
  PROVE  Tidy'
<1> USE NilIsNone DEF Tidy, Shape, TypeOK, ShapeInv, Orderly, Setup, Busy, Holds, Registered,
         RequestOf, Queued, Free, OwnerInv, RegisteredInv, SetupInv, ThreadInv, EdgeInv, FreeInv,
         netVars, kernelVars, poolVars, loopVars, threadVars, LoopOnly, Go
<1>1. RegisteredInv' BY DEF Wait
<1>2. SetupInv' BY DEF Wait
<1>3. ThreadInv' BY DEF Wait
<1>4. EdgeInv' BY DEF Wait
<1>5. InputIsNoticed' BY DEF Wait, InputIsNoticed
<1>6. NoDescriptorLeaks' BY DEF Wait, NoDescriptorLeaks
<1>7. OwnerInv'
  <2>1. UNCHANGED <<phase, unread, owner>> BY DEF Wait
  <2> QED BY <2>1
<1>8. FreeInv'
  <2>1. UNCHANGED <<fd, next, free_list, arena, pc, conn>> BY DEF Wait
  <2> QED BY <2>1
<1> QED BY <1>1, <1>2, <1>3, <1>4, <1>5, <1>6, <1>7, <1>8 DEF Tidy

\* The request of an event moves to the queue.
LEMMA DispatchKeeps ==
  ASSUME Tidy, Shape', Dispatch, Orderly'
  PROVE  Tidy'
<1> USE NilIsNone DEF Tidy, Shape, TypeOK, ShapeInv, Orderly, Setup, Busy, Holds, Registered,
         RequestOf, Queued, Free, OwnerInv, RegisteredInv, SetupInv, ThreadInv, EdgeInv, FreeInv,
         netVars, kernelVars, poolVars, loopVars, threadVars, LoopOnly, Go
<1>1. OwnerInv' BY DEF Dispatch
<1>2. RegisteredInv' BY DEF Dispatch
<1>3. SetupInv' BY DEF Dispatch
<1>4. ThreadInv' BY DEF Dispatch
<1>5. FreeInv' BY DEF Dispatch
<1>6. NoDescriptorLeaks' BY DEF Dispatch, NoDescriptorLeaks
<1> HIDE DEF Tidy, Shape, TypeOK, ShapeInv, OwnerInv, RegisteredInv, SetupInv, ThreadInv, EdgeInv,
         FreeInv, Queued, Free, RequestOf
<1>7. /\ TypeOK /\ ShapeInv /\ OwnerInv /\ RegisteredInv /\ SetupInv /\ ThreadInv /\ EdgeInv
      /\ FreeInv
  BY DEF Tidy, Shape
<1>8. PICK e \in events : events' = events \ {e} /\ jobs' = <<e[2]>> \o jobs
  BY DEF Dispatch
<1>9. e = <<e[1], e[2]>> /\ e[1] \in Fds /\ e[2] \in Records
  BY <1>7 DEF TypeOK
<1>10. e[2] \notin Range(jobs) /\ e[2] \in Records \union {Watcher}
      /\ jobs \in Seq(Records \union {Watcher})
  BY <1>7, <1>9 DEF EdgeInv, TypeOK, Queued
<1>11. /\ \A r : Queued(r)' <=> Queued(r) \/ r = e[2]
      /\ \A i, j \in 1 .. Len(jobs') : jobs'[i] = jobs'[j] => i = j
  <2>1. \A i, j \in 1 .. Len(jobs) : jobs[i] = jobs[j] => i = j
    BY <1>7 DEF EdgeInv
  <2>2. /\ \A r : r \in Range(jobs') <=> r \in Range(jobs) \/ r = e[2]
        /\ \A i, j \in 1 .. Len(jobs') : jobs'[i] = jobs'[j] => i = j
    <3>1. /\ \A r : r \in Range(<<e[2]>> \o jobs) <=> r \in Range(jobs) \/ r = e[2]
          /\ \A i, j \in 1 .. Len(<<e[2]>> \o jobs) :
               (<<e[2]>> \o jobs)[i] = (<<e[2]>> \o jobs)[j] => i = j
      BY <1>10, <2>1, QueuedInFront
    <3> QED BY <1>8, <3>1
  <2> QED BY <2>2 DEF Queued
<1>12. EdgeInv'
  <2>1. UNCHANGED <<owner, unread, interest, ready, fd, pc, conn>> BY DEF Dispatch
  <2>2. interest[e[1]] = e[2] /\ fd[e[2]] = e[1] /\ RequestOf(e[1])
    BY <1>7, <1>9 DEF EdgeInv, RegisteredInv
  <2>3. \A f \in ready : interest[f] # e[2]
    BY <1>7, <1>9, <2>2 DEF EdgeInv, RegisteredInv, ShapeInv, TypeOK
  <2>4. ASSUME NEW d \in events, d[2] = e[2] PROVE d = e
    <3>1. d = <<d[1], d[2]>> /\ d[1] \in Fds /\ d[2] \in Records
      BY <1>7 DEF TypeOK
    <3>2. interest[d[1]] = d[2] /\ fd[d[2]] = d[1]
      BY <1>7, <3>1 DEF EdgeInv, RegisteredInv
    <3> QED BY <1>9, <2>2, <2>4, <3>1, <3>2
  <2>5. \A h \in Threads : conn[h] # e[2]
    BY <1>7 DEF EdgeInv
  <2>6. \A f \in Fds : RequestOf(f)' <=> RequestOf(f)
    BY <2>1 DEF RequestOf
  <2>7. \A f \in ready : RequestOf(f)'
    BY <1>7, <2>6 DEF EdgeInv, TypeOK
  <2>8. \A d \in events : RequestOf(d[1])'
    BY <1>7, <2>6 DEF EdgeInv, TypeOK
  <2>9. \A r \in Records : RequestOf(fd[r]) => RequestOf(fd[r])'
    BY <2>1 DEF RequestOf
  <2>10. \A h \in Threads : pc[h] = "read" => RequestOf(fd[conn[h]])'
    BY <1>7, <2>1 DEF EdgeInv, RequestOf
  <2> QED BY <1>7, <1>8, <1>9, <1>11, <2>1, <2>2, <2>3, <2>4, <2>5, <2>7, <2>8, <2>9, <2>10
      DEF EdgeInv
<1>13. InputIsNoticed'
  <2>1. UNCHANGED <<owner, unread, interest, ready, pc, conn>> BY DEF Dispatch
  <2> QED BY <1>8, <1>9, <1>11, <2>1 DEF InputIsNoticed, Tidy
<1> QED BY <1>1, <1>2, <1>3, <1>4, <1>5, <1>6, <1>12, <1>13 DEF Tidy

\* The loop goes from one place to another and nothing else happens.
LEMMA MovesKeep ==
  ASSUME Tidy, Shape', Orderly',
         Accepting \/ Drained \/ NoDescriptorLeft \/ Handshake \/ Join
  PROVE  Tidy'
<1>1. /\ UNCHANGED <<phase, unread, owner, interest, ready, fd, next, free_list, arena>>
      /\ UNCHANGED <<events, new_conn, node, rest, jobs, pc, conn>>
      /\ Setup' <=> Setup
      /\ loop' \notin {"pop", "register"}
  BY DEF Accepting, Drained, NoDescriptorLeft, Handshake, Join, Setup, netVars, kernelVars,
     poolVars, threadVars, LoopOnly
<1> USE <1>1 DEF Tidy, Registered, Busy, Holds, RequestOf, Queued, Free, Orderly
<1>2. OwnerInv' BY DEF OwnerInv
<1>3. RegisteredInv' BY DEF RegisteredInv
<1>4. SetupInv' BY DEF SetupInv
<1>5. ThreadInv' BY DEF ThreadInv
<1>6. EdgeInv' BY DEF EdgeInv
<1>7. FreeInv' BY DEF FreeInv
<1>8. InputIsNoticed' BY DEF InputIsNoticed
<1>9. NoDescriptorLeaks' BY DEF NoDescriptorLeaks, Setup
<1> QED BY <1>2, <1>3, <1>4, <1>5, <1>6, <1>7, <1>8, <1>9

LEMMA AcceptKeeps ==
  ASSUME Tidy, Shape', NEW c \in Clients, Accept(c), Orderly'
  PROVE  Tidy'
<1> USE NilIsNone DEF Tidy, Shape, TypeOK, ShapeInv, Orderly, Setup, Busy, Holds, Registered,
         RequestOf, Queued, Free, OwnerInv, RegisteredInv, SetupInv, ThreadInv, EdgeInv, FreeInv,
         netVars, kernelVars, poolVars, loopVars, threadVars, LoopOnly, Go
<1>1. OwnerInv' BY DEF Accept, IsFirst, Backlog
<1>2. SetupInv' BY DEF Accept, IsFirst, Backlog
<1>3. ThreadInv' BY DEF Accept, IsFirst, Backlog
<1>4. EdgeInv' BY DEF Accept, IsFirst, Backlog
<1>5. FreeInv' BY DEF Accept, IsFirst, Backlog
<1>6. PICK f \in Fds : owner[f] = Nil /\ owner' = [owner EXCEPT ![f] = c] /\ new_conn' = f
  BY DEF Accept
<1>7. RegisteredInv'
  <2>1. UNCHANGED <<interest, fd>> BY DEF Accept
  <2> QED BY <1>6, <2>1
<1>8. InputIsNoticed'
  <2>1. UNCHANGED <<unread, interest, ready, events, jobs, pc, conn>> BY DEF Accept
  <2> QED BY <1>6, <2>1 DEF InputIsNoticed
<1>9. NoDescriptorLeaks'
  <2>1. UNCHANGED <<interest, fd, pc, conn>> /\ loop' \in {"handshake", "create"}
    BY DEF Accept
  <2>2. loop = "accept" BY DEF Accept
  <2> QED BY <1>6, <2>1, <2>2 DEF NoDescriptorLeaks
<1> QED BY <1>1, <1>2, <1>3, <1>4, <1>5, <1>7, <1>8, <1>9 DEF Tidy

LEMMA HandshakeFailsKeeps ==
  ASSUME Tidy, Shape', HandshakeFails, Orderly'
  PROVE  Tidy'
<1> USE NilIsNone DEF Tidy, Shape, TypeOK, ShapeInv, Orderly, Setup, Busy, Holds, Registered,
         RequestOf, Queued, Free, OwnerInv, RegisteredInv, SetupInv, ThreadInv, EdgeInv, FreeInv,
         netVars, kernelVars, poolVars, loopVars, threadVars, LoopOnly, Go
<1>1. OwnerInv' BY DEF HandshakeFails, SpokePlainly
<1>2. RegisteredInv' BY DEF HandshakeFails, SpokePlainly
<1>3. SetupInv' BY DEF HandshakeFails, SpokePlainly
<1>4. ThreadInv' BY DEF HandshakeFails, SpokePlainly
<1>5. EdgeInv' BY DEF HandshakeFails, SpokePlainly
<1>6. FreeInv' BY DEF HandshakeFails, SpokePlainly
<1>7. InputIsNoticed' BY DEF HandshakeFails, SpokePlainly, InputIsNoticed
<1>8. NoDescriptorLeaks' BY DEF HandshakeFails, SpokePlainly, NoDescriptorLeaks
<1> QED BY <1>1, <1>2, <1>3, <1>4, <1>5, <1>6, <1>7, <1>8 DEF Tidy

\* A record fresh from the arena is in nobody's hands.
LEMMA AllocateKeeps ==
  ASSUME Tidy, Shape', Allocate, Orderly'
  PROVE  Tidy'
<1> USE NilIsNone DEF Tidy, Shape, TypeOK, ShapeInv, Orderly, Setup, Busy, Holds, Registered,
         RequestOf, Queued, Free, OwnerInv, RegisteredInv, SetupInv, ThreadInv, EdgeInv, FreeInv,
         netVars, kernelVars, poolVars, loopVars, threadVars, LoopOnly, Go
<1>1. OwnerInv' BY DEF Allocate
<1>2. RegisteredInv' BY DEF Allocate
<1>3. SetupInv' BY DEF Allocate
<1>4. EdgeInv' BY DEF Allocate
<1>5. InputIsNoticed' BY DEF Allocate, InputIsNoticed
<1>6. NoDescriptorLeaks' BY DEF Allocate, NoDescriptorLeaks
<1> HIDE DEF Tidy, Shape, TypeOK, ShapeInv, OwnerInv, RegisteredInv, SetupInv, ThreadInv, EdgeInv,
         FreeInv, Queued, Free, RequestOf
<1>7. /\ TypeOK /\ ShapeInv /\ OwnerInv /\ RegisteredInv /\ SetupInv /\ ThreadInv /\ EdgeInv
      /\ FreeInv
  BY DEF Tidy, Shape
<1>8. \A r \in Records : fd[r] # Nil \/ r <= arena => r # arena + 1
  BY <1>7 DEF Records, FreeInv, TypeOK
<1>9. \A g \in Threads : Busy(g) => conn[g] # arena + 1
  BY <1>7, <1>8 DEF ThreadInv, ShapeInv, TypeOK
<1>10. arena + 1 \in Records /\ fd' = [fd EXCEPT ![arena + 1] = new_conn] /\ new_conn \in Fds
  BY <1>7 DEF Allocate, ArenaInv, Taking, Records, TypeOK, ShapeInv, Tidy, Shape
<1>11. UNCHANGED <<owner, interest, next, free_list, pc, conn>> /\ arena' = arena + 1
  BY DEF Allocate
<1>12. \A r \in Records : (r <= arena') <=> (r <= arena \/ r = arena + 1)
  BY <1>7, <1>11 DEF Records, TypeOK
<1>13. \A r \in Records : fd'[r] = IF r = arena + 1 THEN new_conn ELSE fd[r]
  BY <1>7, <1>10 DEF TypeOK
<1>14. ThreadInv'
  <2>1. loop' = "register" BY DEF Allocate
  <2>2. \A g \in Threads : Busy(g) => conn[g] \in Records /\ fd'[conn[g]] = fd[conn[g]]
    BY <1>7, <1>9, <1>13 DEF ShapeInv
  <2>3. \A g \in Threads : Busy(g) /\ conn[g] <= arena => conn[g] <= arena'
    BY <1>12, <2>2
  <2> QED BY <1>7, <1>11, <2>1, <2>2, <2>3 DEF ThreadInv
<1>15. FreeInv'
  <2>1. \A r \in Records : Free(r)' <=> Free(r)
    BY <1>8, <1>10, <1>11, <1>12, <1>13 DEF Free
  <2>2. \A r \in Records : fd'[r] # Nil => r <= arena'
    BY <1>7, <1>12, <1>13 DEF FreeInv
  <2>3. next \in [Records -> Records \union {Nil}] /\ free_list \in Records \union {Nil}
    BY <1>7 DEF TypeOK
  <2> QED BY <1>7, <1>11, <2>1, <2>2, <2>3 DEF FreeInv
<1> QED BY <1>1, <1>2, <1>3, <1>4, <1>5, <1>6, <1>14, <1>15 DEF Tidy

\* Nobody pushes while the head is loaded: that would be a race.
LEMMA LoadHeadKeeps ==
  ASSUME Tidy, Shape', LoadHead, Orderly'
  PROVE  Tidy'
<1> USE NilIsNone DEF Tidy, Shape, TypeOK, ShapeInv, Orderly, Setup, Busy, Holds, Registered,
         RequestOf, Queued, Free, OwnerInv, RegisteredInv, SetupInv, ThreadInv, EdgeInv, FreeInv,
         netVars, kernelVars, poolVars, loopVars, threadVars, LoopOnly, Go
<1>1. OwnerInv' BY DEF LoadHead
<1>2. RegisteredInv' BY DEF LoadHead
<1>3. SetupInv' BY DEF LoadHead
<1>4. EdgeInv' BY DEF LoadHead
<1>5. FreeInv' BY DEF LoadHead
<1>6. InputIsNoticed' BY DEF LoadHead, InputIsNoticed
<1>7. NoDescriptorLeaks' BY DEF LoadHead, NoDescriptorLeaks
<1>8. ThreadInv'
  <2>1. \A g \in Threads : pc[g] # "push"
    BY Zenon DEF LoadHead
  <2>2. UNCHANGED <<owner, interest, fd, pc, conn>> BY DEF LoadHead
  <2> QED BY <2>1, <2>2
<1> QED BY <1>1, <1>2, <1>3, <1>4, <1>5, <1>6, <1>7, <1>8 DEF Tidy

LEMMA PopKeeps ==
  ASSUME Tidy, Shape', Pop, Orderly'
  PROVE  Tidy'
<1> USE NilIsNone DEF Tidy, Shape, TypeOK, ShapeInv, Orderly, Setup, Busy, Holds, Registered,
         RequestOf, Queued, Free, OwnerInv, RegisteredInv, SetupInv, ThreadInv, EdgeInv, FreeInv,
         netVars, kernelVars, poolVars, loopVars, threadVars, LoopOnly, Go
<1>1. OwnerInv' BY DEF Pop
<1>2. RegisteredInv' BY DEF Pop
<1>3. SetupInv' BY DEF Pop
<1>4. ThreadInv' BY DEF Pop
<1>5. EdgeInv' BY DEF Pop
<1>6. FreeInv' BY DEF Pop
<1>7. InputIsNoticed' BY DEF Pop, InputIsNoticed
<1>8. NoDescriptorLeaks' BY DEF Pop, NoDescriptorLeaks
<1> QED BY <1>1, <1>2, <1>3, <1>4, <1>5, <1>6, <1>7, <1>8 DEF Tidy

\* Nothing refers to the record before it is registered.
LEMMA RegisterKeeps ==
  ASSUME Tidy, Shape', Register, Orderly'
  PROVE  Tidy'
<1> USE NilIsNone DEF Tidy, Shape, TypeOK, ShapeInv, Orderly, Setup, Busy, Holds, Registered,
         RequestOf, Queued, Free, OwnerInv, RegisteredInv, SetupInv, ThreadInv, EdgeInv, FreeInv,
         netVars, kernelVars, poolVars, loopVars, threadVars, LoopOnly, Go
<1>1. OwnerInv' BY DEF Register
<1>2. RegisteredInv' BY DEF Register
<1>3. SetupInv' BY DEF Register
<1>4. ThreadInv' BY DEF Register
<1>5. FreeInv' BY DEF Register
<1>6. InputIsNoticed' BY DEF Register, InputIsNoticed
<1>7. NoDescriptorLeaks' BY DEF Register, NoDescriptorLeaks
<1> HIDE DEF Tidy, Shape, TypeOK, ShapeInv, OwnerInv, RegisteredInv, SetupInv, ThreadInv, EdgeInv,
         FreeInv, Queued, Free, RequestOf
<1>8. /\ TypeOK /\ ShapeInv /\ OwnerInv /\ RegisteredInv /\ SetupInv /\ ThreadInv /\ EdgeInv
      /\ FreeInv
  BY DEF Tidy, Shape
<1>9. EdgeInv'
  <2>1. /\ UNCHANGED <<owner, unread, fd, events, jobs, pc, conn>>
        /\ interest' = [interest EXCEPT ![new_conn] = node]
        /\ new_conn \in Fds /\ node \in Records /\ loop = "register"
    BY <1>8 DEF Register, ShapeInv, TypeOK
  <2>2. \A f \in ready' : f \in ready \/ (f = new_conn /\ RequestOf(new_conn))
    <3>1. owner[new_conn] \in Clients
      BY <1>8, <2>1 DEF SetupInv, TypeOK
    <3>2. unread[owner[new_conn]] \in {"nothing", "request", "read"}
      BY <1>8, <3>1 DEF OwnerInv
    <3> QED BY <3>1, <3>2 DEF Register, RequestOf
  <2>3. ~Registered(new_conn) /\ fd[node] = new_conn /\ \A h \in Threads : conn[h] # node
    BY <1>8, <2>1 DEF SetupInv
  <2>4. /\ new_conn \notin ready /\ \A e \in events : e[1] # new_conn
        /\ \A r \in Records : Queued(r) => fd[r] # new_conn
    BY <1>8, <2>3 DEF EdgeInv, ShapeInv, TypeOK
  <2>5. ~Queued(node)
    BY <2>1, <2>3, <2>4
  <2>6. \A f \in Fds : interest'[f] = IF f = new_conn THEN node ELSE interest[f]
    BY <1>8, <2>1 DEF TypeOK
  <2>7. \A f \in ready' :
          /\ RequestOf(f) /\ \A e \in events : e[1] # f
          /\ ~Queued(interest'[f]) /\ \A h \in Threads : conn[h] # interest'[f]
    <3>1. ASSUME NEW f \in ready PROVE f \in Fds /\ interest'[f] = interest[f]
      BY <2>4, <2>6, Places
    <3>2. interest'[new_conn] = node
      BY <2>1, <2>6
    <3> QED BY <1>8, <2>2, <2>3, <2>4, <2>5, <3>1, <3>2 DEF EdgeInv
  <2>8. \A e \in events : interest'[e[1]] = interest[e[1]]
    BY <1>8, <2>4, <2>6 DEF TypeOK
  <2>9. \A r \in Records : Queued(r) => interest'[fd[r]] = interest[fd[r]]
    BY <2>4, <2>6, Places
  <2>10. (\A r : Queued(r)' <=> Queued(r)) /\ (\A f : RequestOf(f)' <=> RequestOf(f))
    BY <2>1 DEF Queued, RequestOf
  <2> QED BY <1>8, <2>1, <2>7, <2>8, <2>9, <2>10 DEF EdgeInv
<1> QED BY <1>1, <1>2, <1>3, <1>4, <1>5, <1>6, <1>7, <1>9 DEF Tidy

LEMMA WatcherStopsKeeps ==
  ASSUME Tidy, Shape', NEW h \in Threads, WatcherStops(h), Orderly'
  PROVE  Tidy'
<1> USE NilIsNone DEF Tidy, Shape, TypeOK, ShapeInv, Orderly, Setup, Busy, Holds, Registered,
         RequestOf, Queued, Free, OwnerInv, RegisteredInv, SetupInv, ThreadInv, EdgeInv, FreeInv,
         netVars, kernelVars, poolVars, loopVars, threadVars, LoopOnly, Go
<1>1. OwnerInv' BY DEF WatcherStops
<1>2. RegisteredInv' BY DEF WatcherStops
<1>3. SetupInv' BY DEF WatcherStops
<1>4. ThreadInv' BY DEF WatcherStops
<1>5. EdgeInv' BY DEF WatcherStops
<1>6. InputIsNoticed' BY DEF WatcherStops, InputIsNoticed
<1>7. NoDescriptorLeaks' BY DEF WatcherStops, NoDescriptorLeaks
<1> HIDE DEF Tidy, Shape, TypeOK, ShapeInv, OwnerInv, RegisteredInv, SetupInv, ThreadInv, EdgeInv,
         FreeInv, Queued, Free, RequestOf
<1>8. /\ TypeOK /\ ShapeInv /\ OwnerInv /\ RegisteredInv /\ SetupInv /\ ThreadInv /\ EdgeInv
      /\ FreeInv
  BY DEF Tidy, Shape
<1>9. FreeInv'
  <2>1. \A r \in Records : Free(r)' <=> Free(r)
    BY <1>8 DEF WatcherStops, TypeOK, Free
  <2>2. UNCHANGED <<fd, next, free_list, arena>> BY DEF WatcherStops
  <2>3. next \in [Records -> Records \union {Nil}] /\ free_list \in Records \union {Nil}
    BY <1>8 DEF TypeOK
  <2> QED BY <1>8, <2>1, <2>2, <2>3 DEF FreeInv
<1> QED BY <1>1, <1>2, <1>3, <1>4, <1>5, <1>6, <1>7, <1>9 DEF Tidy

\* The request of the first job moves to the thread.
LEMMA TakeJobKeeps ==
  ASSUME Tidy, Shape', NEW h \in Threads, TakeJob(h), Orderly'
  PROVE  Tidy'
<1> USE NilIsNone DEF Tidy, Shape, TypeOK, ShapeInv, Orderly, Setup, Busy, Holds, Registered,
         RequestOf, Queued, Free, OwnerInv, RegisteredInv, SetupInv, ThreadInv, EdgeInv, FreeInv,
         netVars, kernelVars, poolVars, loopVars, threadVars, LoopOnly, Go
<1>1. OwnerInv' BY DEF TakeJob, Idle
<1>2. RegisteredInv' BY DEF TakeJob, Idle
<1>3. NoDescriptorLeaks' BY DEF TakeJob, Idle, NoDescriptorLeaks
<1> HIDE DEF Tidy, Shape, TypeOK, ShapeInv, OwnerInv, RegisteredInv, SetupInv, ThreadInv, EdgeInv,
         FreeInv, Queued, Free, RequestOf
<1>4. /\ TypeOK /\ ShapeInv /\ OwnerInv /\ RegisteredInv /\ SetupInv /\ ThreadInv /\ EdgeInv
      /\ FreeInv
  BY DEF Tidy, Shape
<1>5. /\ pc[h] = "idle" /\ conn[h] = Nil
      /\ conn' = [conn EXCEPT ![h] = Head(jobs)]
      /\ pc' = [pc EXCEPT ![h] = IF Head(jobs) = Watcher THEN "watch" ELSE "read"]
  BY <1>4 DEF TakeJob, Idle, ShapeInv
<1>6. /\ Head(jobs) \in Records \union {Watcher} /\ Queued(Head(jobs))
      /\ \A r : Queued(r)' <=> Queued(r) /\ r # Head(jobs)
      /\ \A i, j \in 1 .. Len(jobs') : jobs'[i] = jobs'[j] => i = j
  <2>1. /\ jobs \in Seq(Records \union {Watcher}) /\ jobs # <<>> /\ jobs' = Tail(jobs)
        /\ \A i, j \in 1 .. Len(jobs) : jobs[i] = jobs[j] => i = j
    BY <1>4 DEF TakeJob, TypeOK, EdgeInv
  <2> QED BY <2>1, FirstTaken DEF Queued
<1>7. UNCHANGED <<phase, owner, unread, interest, ready, fd, next, free_list, arena, loop,
                  events, new_conn, node, rest>>
  BY DEF TakeJob
<1>8. \A g \in Threads :
        /\ conn'[g] = IF g = h THEN Head(jobs) ELSE conn[g]
        /\ pc'[g] = IF g # h THEN pc[g] ELSE IF Head(jobs) = Watcher THEN "watch" ELSE "read"
  BY <1>4, <1>5 DEF TypeOK
<1>9. SetupInv'
  <2>1. ASSUME loop = "register" PROVE Head(jobs) # node
    <3>1. node \in Records /\ fd[node] = new_conn /\ ~Registered(new_conn)
      BY <1>4, <2>1 DEF SetupInv, TypeOK, ShapeInv
    <3> QED BY <1>4, <1>6, <3>1 DEF EdgeInv
  <2> QED BY <1>4, <1>5, <1>7, <1>8, <2>1 DEF SetupInv
<1>10. ThreadInv'
  <2>1. Head(jobs) # Watcher =>
          /\ \A g \in Threads : conn[g] # Head(jobs)
          /\ fd[Head(jobs)] # Nil /\ interest[fd[Head(jobs)]] = Head(jobs)
    BY <1>4, <1>6 DEF EdgeInv
  <2>2. \A g \in Threads : Busy(g) => conn[g] # Watcher
    BY <1>4 DEF ShapeInv
  <2> QED BY <1>4, <1>5, <1>6, <1>7, <1>8, <2>1, <2>2 DEF ThreadInv
<1>11. EdgeInv'
  <2>1. Head(jobs) # Watcher => RequestOf(fd[Head(jobs)])
    BY <1>4, <1>6 DEF EdgeInv
  <2>2. /\ \A f \in ready : Head(jobs) # interest[f]
        /\ \A e \in events : Head(jobs) # e[2]
    BY <1>4, <1>6 DEF EdgeInv
  <2>3. \A f : RequestOf(f)' <=> RequestOf(f)
    BY <1>7 DEF RequestOf
  <2>4. \A g \in Threads :
          /\ pc'[g] = "read" => RequestOf(fd[conn'[g]])
          /\ pc'[g] \in {"handle", "remove"} => unread[owner[fd[conn'[g]]]] = "read"
    BY <1>4, <1>8, <2>1 DEF EdgeInv
  <2> QED BY <1>4, <1>6, <1>7, <1>8, <2>2, <2>3, <2>4 DEF EdgeInv
<1>12. FreeInv'
  <2>1. \A r \in Records : Free(r)' <=> Free(r)
    BY <1>5, <1>7, <1>8 DEF Free
  <2>2. next \in [Records -> Records \union {Nil}] /\ free_list \in Records \union {Nil}
    BY <1>4 DEF TypeOK
  <2> QED BY <1>4, <1>7, <2>1, <2>2 DEF FreeInv
<1>13. InputIsNoticed'
  <2>1. ASSUME NEW f \in Fds, Registered(f), unread[owner[f]] = "request"
        PROVE  \/ f \in ready \/ <<f, interest[f]>> \in events
               \/ Queued(interest[f])'
               \/ \E g \in Threads : pc'[g] = "read" /\ conn'[g] = interest[f]
    <3>1. interest[f] \in Records
      BY <2>1, Places
    <3>2. CASE Queued(interest[f])
      BY <1>6, <1>7, <1>8, <3>1, <3>2
    <3>3. ASSUME NEW g \in Threads, pc[g] = "read", conn[g] = interest[f]
          PROVE  pc'[g] = "read" /\ conn'[g] = interest[f]
      BY <1>5, <1>8, <3>3
    <3> QED BY <2>1, <3>2, <3>3 DEF Tidy, InputIsNoticed
  <2> QED BY <1>7, <2>1 DEF InputIsNoticed
<1> QED BY <1>1, <1>2, <1>3, <1>9, <1>10, <1>11, <1>12, <1>13 DEF Tidy

\* The request is at no other place, so reading it leaves none behind.
LEMMA ReadKeeps ==
  ASSUME Tidy, Shape', NEW h \in Threads, Read(h), Orderly'
  PROVE  Tidy'
<1> USE NilIsNone DEF Tidy, Shape, TypeOK, ShapeInv, Orderly, Setup, Busy, Holds, Registered,
         RequestOf, Queued, Free, OwnerInv, RegisteredInv, SetupInv, ThreadInv, EdgeInv, FreeInv,
         netVars, kernelVars, poolVars, loopVars, threadVars, LoopOnly, Go
<1>1. OwnerInv' BY DEF Read, Live
<1>2. RegisteredInv' BY DEF Read, Live
<1>3. SetupInv' BY DEF Read, Live
<1>4. ThreadInv' BY DEF Read, Live
<1>5. InputIsNoticed' BY DEF Read, Live, InputIsNoticed
<1>6. NoDescriptorLeaks' BY DEF Read, Live, NoDescriptorLeaks
<1> HIDE DEF Tidy, Shape, TypeOK, ShapeInv, OwnerInv, RegisteredInv, SetupInv, ThreadInv, EdgeInv,
         FreeInv, Queued, Free, RequestOf
<1>7. /\ TypeOK /\ ShapeInv /\ OwnerInv /\ RegisteredInv /\ SetupInv /\ ThreadInv /\ EdgeInv
      /\ FreeInv
  BY DEF Tidy, Shape
<1>8. EdgeInv'
  <2> DEFINE f == fd[conn[h]]
  <2>1. /\ conn[h] \in Records /\ f \in Fds /\ interest[f] = conn[h]
        /\ owner[f] \in Clients /\ pc[h] = "read"
    <3>1. pc[h] = "read"
      BY DEF Read
    <3> QED BY <3>1, Places
  <2>2. /\ UNCHANGED <<owner, interest, ready, fd, events, jobs, conn>>
        /\ pc' = [pc EXCEPT ![h] = "handle"]
        /\ unread' = [unread EXCEPT ![owner[f]] = "read"]
    BY DEF Read
  <2> HIDE DEF f
  <2>3. \A g \in Fds : /\ RequestOf(g) /\ g # f => RequestOf(g)'
                       /\ owner[g] # Nil /\ unread[owner[g]] = "read"
                            => unread'[owner[g]] = "read"
    BY <1>7, <2>1, <2>2 DEF RequestOf, OwnerInv, TypeOK
  <2>4. f \notin ready /\ \A e \in events : e[1] # f
    BY <1>7, <2>1 DEF EdgeInv
  <2>5. \A r \in Records : Queued(r) => fd[r] # f
    BY <1>7, <2>1 DEF EdgeInv
  <2>6. ASSUME NEW g \in Threads, Holds(g)
        PROVE  /\ conn[g] \in Records /\ fd[conn[g]] \in Fds /\ owner[fd[conn[g]]] # Nil
               /\ g # h => fd[conn[g]] # f
    <3>1. /\ conn[g] \in Records /\ fd[conn[g]] \in Fds /\ interest[fd[conn[g]]] = conn[g]
          /\ owner[fd[conn[g]]] # Nil
      BY <2>6, Places
    <3>2. conn[g] = conn[h] => g = h
      BY <1>7, <2>1 DEF ThreadInv
    <3> QED BY <2>1, <3>1, <3>2
  <2>7. unread'[owner[f]] = "read" /\ f = fd[conn[h]]
    BY <1>7, <2>1, <2>2 DEF TypeOK, f
  <2>8. \A g \in Threads : pc'[g] = IF g = h THEN "handle" ELSE pc[g]
    BY <1>7, <2>2 DEF TypeOK
  <2>9. /\ \A g \in ready : RequestOf(g)'
        /\ \A e \in events : RequestOf(e[1])'
        /\ \A r \in Records : Queued(r) => RequestOf(fd[r])'
    BY <1>7, <2>2, <2>3, <2>4, <2>5, Places DEF EdgeInv
  <2>10. ASSUME NEW g \in Threads
         PROVE  /\ pc'[g] = "read" => RequestOf(fd[conn[g]])'
                /\ pc'[g] \in {"handle", "remove"} => unread'[owner[fd[conn[g]]]] = "read"
    <3>1. CASE g = h
      BY <2>7, <2>8, <3>1
    <3>2. CASE g # h
      <4>1. /\ pc[g] = "read" => RequestOf(fd[conn[g]])
            /\ pc[g] \in {"handle", "remove"} => unread[owner[fd[conn[g]]]] = "read"
        BY <1>7 DEF EdgeInv
      <4> QED BY <2>2, <2>3, <2>6, <2>8, <3>2, <4>1
    <3> QED BY <3>1, <3>2
  <2>11. \A r : Queued(r)' <=> Queued(r)
    BY <2>2 DEF Queued
  <2> QED BY <1>7, <2>2, <2>9, <2>10, <2>11 DEF EdgeInv
<1>9. FreeInv'
  <2>1. \A r \in Records : Free(r)' <=> Free(r)
    BY <1>7 DEF Read, TypeOK, Free
  <2>2. UNCHANGED <<fd, next, free_list, arena>> BY DEF Read
  <2>3. next \in [Records -> Records \union {Nil}] /\ free_list \in Records \union {Nil}
    BY <1>7 DEF TypeOK
  <2> QED BY <1>7, <2>1, <2>2, <2>3 DEF FreeInv
<1> QED BY <1>1, <1>2, <1>3, <1>4, <1>5, <1>6, <1>8, <1>9 DEF Tidy

LEMMA RespondKeeps ==
  ASSUME Tidy, Shape', NEW h \in Threads, Respond(h), Orderly'
  PROVE  Tidy'
<1> USE NilIsNone DEF Tidy, Shape, TypeOK, ShapeInv, Orderly, Setup, Busy, Holds, Registered,
         RequestOf, Queued, Free, OwnerInv, RegisteredInv, SetupInv, ThreadInv, EdgeInv, FreeInv,
         netVars, kernelVars, poolVars, loopVars, threadVars, LoopOnly, Go
<1>1. OwnerInv' BY DEF Respond, Live
<1>2. RegisteredInv' BY DEF Respond, Live
<1>3. SetupInv' BY DEF Respond, Live
<1>4. ThreadInv' BY DEF Respond, Live
<1>5. EdgeInv' BY DEF Respond, Live
<1>6. FreeInv' BY DEF Respond, Live
<1>7. InputIsNoticed' BY DEF Respond, Live, InputIsNoticed
<1>8. NoDescriptorLeaks' BY DEF Respond, Live, NoDescriptorLeaks
<1> QED BY <1>1, <1>2, <1>3, <1>4, <1>5, <1>6, <1>7, <1>8 DEF Tidy

\* Nothing else refers to the record from here on.
LEMMA RemoveKeeps ==
  ASSUME Tidy, Shape', NEW h \in Threads, Remove(h), Orderly'
  PROVE  Tidy'
<1> USE NilIsNone DEF Tidy, Shape, TypeOK, ShapeInv, Orderly, Setup, Busy, Holds, Registered,
         RequestOf, Queued, Free, OwnerInv, RegisteredInv, SetupInv, ThreadInv, EdgeInv, FreeInv,
         netVars, kernelVars, poolVars, loopVars, threadVars, LoopOnly, Go
<1>1. OwnerInv' BY DEF Remove, Live
<1>2. RegisteredInv' BY DEF Remove, Live
<1>3. SetupInv' BY DEF Remove, Live
<1>4. ThreadInv' BY DEF Remove, Live
<1>5. EdgeInv' BY DEF Remove, Live
<1>6. InputIsNoticed' BY DEF Remove, Live, InputIsNoticed
<1>7. NoDescriptorLeaks' BY DEF Remove, Live, NoDescriptorLeaks
<1> HIDE DEF Tidy, Shape, TypeOK, ShapeInv, OwnerInv, RegisteredInv, SetupInv, ThreadInv, EdgeInv,
         FreeInv, Queued, Free, RequestOf
<1>8. /\ TypeOK /\ ShapeInv /\ OwnerInv /\ RegisteredInv /\ SetupInv /\ ThreadInv /\ EdgeInv
      /\ FreeInv
  BY DEF Tidy, Shape
<1>9. FreeInv'
  <2>1. \A r \in Records : Free(r)' <=> Free(r)
    BY <1>8 DEF Remove, TypeOK, Free
  <2>2. UNCHANGED <<fd, next, free_list, arena>> BY DEF Remove
  <2>3. next \in [Records -> Records \union {Nil}] /\ free_list \in Records \union {Nil}
    BY <1>8 DEF TypeOK
  <2> QED BY <1>8, <2>1, <2>2, <2>3 DEF FreeInv
<1> QED BY <1>1, <1>2, <1>3, <1>4, <1>5, <1>6, <1>7, <1>9 DEF Tidy

\* The descriptor was its connection's only one.
LEMMA CloseKeeps ==
  ASSUME Tidy, Shape', NEW h \in Threads, Close(h), Orderly'
  PROVE  Tidy'
<1> USE NilIsNone DEF Tidy, Shape, TypeOK, ShapeInv, Orderly, Setup, Busy, Holds, Registered,
         RequestOf, Queued, Free, OwnerInv, RegisteredInv, SetupInv, ThreadInv, EdgeInv, FreeInv,
         netVars, kernelVars, poolVars, loopVars, threadVars, LoopOnly, Go
<1>1. RegisteredInv' BY DEF Close, Live
<1>2. SetupInv' BY DEF Close, Live
<1>3. ThreadInv' BY DEF Close, Live
<1>4. EdgeInv' BY DEF Close, Live
<1>5. FreeInv' BY DEF Close, Live
<1>6. InputIsNoticed' BY DEF Close, Live, InputIsNoticed
<1>7. NoDescriptorLeaks' BY DEF Close, Live, NoDescriptorLeaks
<1>8. OwnerInv'
  <2> DEFINE f == fd[conn[h]]
  <2>1. /\ conn[h] \in Records /\ f \in Fds /\ owner[f] \in Clients
        /\ phase' = [phase EXCEPT ![owner[f]] = "closed"]
        /\ owner' = [owner EXCEPT ![f] = Nil] /\ unread' = unread
    BY DEF Close, Live
  <2>2. \A g \in Fds : owner'[g] # Nil => g # f /\ owner'[g] = owner[g]
    BY <2>1
  <2> HIDE DEF f
  <2>3. \A g \in Fds : owner'[g] # Nil => owner[g] # owner[f]
    BY <2>1, <2>2
  <2> QED BY <2>1, <2>2, <2>3
<1> QED BY <1>1, <1>2, <1>3, <1>4, <1>5, <1>6, <1>7, <1>8 DEF Tidy

\* The record is linked to a head that nobody takes in the meantime.
LEMMA UndefineKeeps ==
  ASSUME Tidy, Shape', NEW h \in Threads, Undefine(h), Orderly'
  PROVE  Tidy'
<1> USE NilIsNone DEF Tidy, Shape, TypeOK, ShapeInv, Orderly, Setup, Busy, Holds, Registered,
         RequestOf, Queued, Free, OwnerInv, RegisteredInv, SetupInv, ThreadInv, EdgeInv, FreeInv,
         netVars, kernelVars, poolVars, loopVars, threadVars, LoopOnly, Go
<1>1. OwnerInv' BY DEF Undefine
<1>2. RegisteredInv' BY DEF Undefine
<1>3. SetupInv' BY DEF Undefine
<1>4. EdgeInv' BY DEF Undefine
<1>5. FreeInv' BY DEF Undefine
<1>6. InputIsNoticed' BY DEF Undefine, InputIsNoticed
<1>7. loop # "pop" /\ \A g \in Threads : pc[g] # "push"
  BY Zenon DEF Undefine
<1>8. /\ UNCHANGED <<owner, interest, free_list, arena, loop, conn, new_conn>>
      /\ pc[h] = "destroy" /\ pc' = [pc EXCEPT ![h] = "push"]
      /\ fd' = [fd EXCEPT ![conn[h]] = Nil]
      /\ next' = [next EXCEPT ![conn[h]] = free_list]
  BY DEF Undefine
<1>9. conn[h] \in Records /\ conn[h] <= arena
  BY <1>8
<1>10. \A g \in Threads : Busy(g) /\ g # h => conn[g] # conn[h]
  BY <1>8
<1>11. ThreadInv'
  BY <1>7, <1>8, <1>9, <1>10
<1>12. NoDescriptorLeaks'
  BY <1>7, <1>8, <1>9, <1>10 DEF NoDescriptorLeaks
<1> QED BY <1>1, <1>2, <1>3, <1>4, <1>5, <1>6, <1>11, <1>12 DEF Tidy

LEMMA PushKeeps ==
  ASSUME Tidy, Shape', NEW h \in Threads, Push(h), Orderly'
  PROVE  Tidy'
<1> USE NilIsNone DEF Tidy, Shape, TypeOK, ShapeInv, Orderly, Setup, Busy, Holds, Registered,
         RequestOf, Queued, Free, OwnerInv, RegisteredInv, SetupInv, ThreadInv, EdgeInv, FreeInv,
         netVars, kernelVars, poolVars, loopVars, threadVars, LoopOnly, Go
<1>1. OwnerInv' BY DEF Push
<1>2. RegisteredInv' BY DEF Push
<1>3. SetupInv' BY DEF Push
<1>4. ThreadInv' BY DEF Push
<1>5. EdgeInv' BY DEF Push
<1>6. FreeInv' BY DEF Push
<1>7. InputIsNoticed' BY DEF Push, InputIsNoticed
<1>8. NoDescriptorLeaks' BY DEF Push, NoDescriptorLeaks
<1> QED BY <1>1, <1>2, <1>3, <1>4, <1>5, <1>6, <1>7, <1>8 DEF Tidy

-----------------------------------------------------------------------------
(* The invariant.                                                          *)

LEMMA TidyInit ==
  ASSUME Init
  PROVE  Tidy
<1> USE ShapeInit, NilIsNone DEF Init, Orderly, Registered, Setup, Busy, Holds, RequestOf, Free
<1>1. Shape /\ Orderly
  OBVIOUS
<1>2. OwnerInv /\ RegisteredInv /\ SetupInv
  BY DEF OwnerInv, RegisteredInv, SetupInv
<1>3. ThreadInv
  BY DEF ThreadInv
<1>4. EdgeInv
  <2>1. Len(jobs) = 1 /\ \A r \in Records : ~Queued(r)
    BY DEF Queued, Range
  <2> QED BY <2>1 DEF EdgeInv
<1>5. FreeInv
  <2>1. \A r \in Records : ~Free(r) /\ next[r] = Nil
    BY DEF Records
  <2> QED BY <2>1 DEF FreeInv
<1>6. InputIsNoticed /\ NoDescriptorLeaks
  BY DEF InputIsNoticed, NoDescriptorLeaks
<1> QED BY <1>1, <1>2, <1>3, <1>4, <1>5, <1>6 DEF Tidy

\* What disorder there was remains.
LEMMA OrderlyBefore ==
  ASSUME Shape, [Next]_vars, Orderly'
  PROVE  Orderly
<1> USE DEF netVars, kernelVars, poolVars, loopVars, threadVars, LoopOnly, Go
<1>1. extra \in Nat /\ raced \in BOOLEAN
  BY BoundAssumption DEF Shape, TypeOK
<1>2. extra' = extra \/ extra' = extra + 1
  <2>1. ASSUME NEW c \in Clients, Connects(c) \/ Sends(c) \/ Extra(c)
        PROVE  extra' = extra \/ extra' = extra + 1
    BY <2>1 DEF Connects, Sends, Extra
  <2>2. CASE LoopStep \/ Handshake
    BY <2>2 DEF LoopStep, Wait, Dispatch, Accepting, Drained, Accept, AcceptAborted, Handshake,
         HandshakeFails, AnswerFails, NoDescriptorLeft, Allocate, LoadHead, Pop, Register,
         SetupPanics, Join
  <2>3. ASSUME NEW h \in Threads, WatcherStops(h) \/ ThreadStep(h)
        PROVE  extra' = extra \/ extra' = extra + 1
    BY <2>3 DEF WatcherStops, ThreadStep, TakeJob, Panic, Read, ReadFails, Respond, PathTooLong,
         Remove, RemoveFails, Close, Undefine, Push
  <2>4. CASE UNCHANGED vars
    BY <2>4 DEF vars
  <2> QED BY <2>1, <2>2, <2>3, <2>4 DEF Next
<1>3. raced' = raced \/ (LoadHead \/ \E h \in Threads : Undefine(h))
  <2>1. ASSUME NEW c \in Clients, Connects(c) \/ Sends(c) \/ Extra(c)
        PROVE  raced' = raced
    BY <2>1 DEF Connects, Sends, Extra, Input
  <2>2. CASE (LoopStep /\ ~LoadHead) \/ Handshake
    BY <2>2 DEF LoopStep, Wait, Dispatch, Accepting, Drained, Accept, AcceptAborted, Handshake,
         HandshakeFails, AnswerFails, NoDescriptorLeft, Allocate, Pop, Register,
         SetupPanics, Join
  <2>3. ASSUME NEW h \in Threads, WatcherStops(h) \/ (ThreadStep(h) /\ ~Undefine(h))
        PROVE  raced' = raced
    BY <2>3 DEF WatcherStops, ThreadStep, TakeJob, Panic, Read, ReadFails, Respond, PathTooLong,
         Remove, RemoveFails, Close, Push
  <2>4. CASE UNCHANGED vars
    BY <2>4 DEF vars
  <2> QED BY <2>1, <2>2, <2>3, <2>4 DEF Next
<1>4. extra = 0
  BY <1>1, <1>2 DEF Orderly
<1>5. ~raced
  <2>1. ~raced'
    BY DEF Orderly
  <2>2. CASE LoadHead
    BY <2>1, <2>2, Zenon DEF LoadHead
  <2>3. ASSUME NEW h \in Threads, Undefine(h) PROVE ~raced
    BY <2>1, <2>3, Zenon DEF Undefine
  <2> QED BY <1>1, <1>3, <2>1, <2>2, <2>3, Zenon
<1> QED BY <1>4, <1>5 DEF Orderly

\* Nobody panics, gives up or leaves a connection open while all is orderly.
LEMMA OrderlySteps ==
  ASSUME Tidy, Orderly'
  PROVE  /\ ~AnswerFails /\ ~SetupPanics
         /\ \A c \in Clients : ~Extra(c) /\ ~AcceptAborted(c)
         /\ \A h \in Threads : ~Panic(h) /\ ~ReadFails(h) /\ ~PathTooLong(h) /\ ~RemoveFails(h)
<1>1. extra = 0 /\ extra' = 0
  BY DEF Tidy, Orderly
<1>2. /\ ~AnswerFails /\ \A c \in Clients : ~Extra(c) /\ ~AcceptAborted(c)
      /\ \A h \in Threads : ~PathTooLong(h)
  BY <1>1 DEF AnswerFails, Extra, AcceptAborted, PathTooLong
<1>3. ~SetupPanics
  BY DEF SetupPanics, Tidy, SetupInv, Setup
<1>4. ASSUME NEW h \in Threads PROVE ~Panic(h)
  <2>1. Holds(h) => Live(conn[h])
    BY Places, NilIsNone DEF Live
  <2>2. pc[h] = "close" => Live(conn[h])
    BY DEF Tidy, ThreadInv, Live
  <2> QED BY <2>1, <2>2 DEF Panic, Holds
<1>5. ASSUME NEW h \in Threads PROVE ~ReadFails(h)
  BY DEF ReadFails, Go, Tidy, EdgeInv, RequestOf
<1>6. ASSUME NEW h \in Threads PROVE ~RemoveFails(h)
  <2>1. Holds(h) => Registered(fd[conn[h]])
    BY Places, NilIsNone DEF Registered, Holds, Busy
  <2> QED BY <2>1 DEF RemoveFails, Go, Holds
<1> QED BY <1>2, <1>3, <1>4, <1>5, <1>6

LEMMA TidyKeeps ==
  ASSUME Tidy, Shape', [Next]_vars, Orderly'
  PROVE  Tidy'
<1>1. ASSUME NEW c \in Clients, Connects(c) \/ Sends(c) \/ Extra(c) PROVE Tidy'
  BY <1>1, ConnectsKeeps, SendsKeeps, OrderlySteps
<1>2. CASE LoopStep \/ Handshake
  BY <1>2, OrderlySteps, WaitKeeps, DispatchKeeps, MovesKeep, AcceptKeeps, HandshakeFailsKeeps,
     AllocateKeeps, LoadHeadKeeps, PopKeeps, RegisterKeeps
  DEF LoopStep
<1>3. ASSUME NEW h \in Threads, WatcherStops(h) \/ ThreadStep(h) PROVE Tidy'
  BY <1>3, OrderlySteps, WatcherStopsKeeps, TakeJobKeeps, ReadKeeps, RespondKeeps, RemoveKeeps,
     CloseKeeps, UndefineKeeps, PushKeeps
  DEF ThreadStep
<1>4. CASE UNCHANGED vars
  <2> USE <1>4 DEF vars, netVars, kernelVars, poolVars, loopVars, threadVars, Tidy, Registered,
              Setup, Busy, Holds, RequestOf, Queued, Free, Orderly
  <2>1. OwnerInv' BY DEF OwnerInv
  <2>2. RegisteredInv' BY DEF RegisteredInv
  <2>3. SetupInv' BY DEF SetupInv
  <2>4. ThreadInv' BY DEF ThreadInv
  <2>5. EdgeInv' BY DEF EdgeInv
  <2>6. FreeInv' BY DEF FreeInv
  <2>7. InputIsNoticed' BY DEF InputIsNoticed
  <2>8. NoDescriptorLeaks' BY DEF NoDescriptorLeaks
  <2> QED BY <2>1, <2>2, <2>3, <2>4, <2>5, <2>6, <2>7, <2>8
<1> QED BY <1>1, <1>2, <1>3, <1>4 DEF Next

LEMMA ShapeKeeps ==
  ASSUME Shape, [Next]_vars
  PROVE  Shape'
<1>1. CASE UNCHANGED vars
  BY <1>1 DEF vars, netVars, kernelVars, poolVars, loopVars, threadVars, Shape, TypeOK, ArenaInv,
       ShapeInv, Taking, Setup, Busy, Registered
<1> QED BY <1>1, ShapeOfClients, ShapeOfLoop, ShapeOfThreads DEF Next

LEMMA IInvInit == Init => IInv
BY TidyInit DEF IInv, Tidy

LEMMA IInvKeeps ==
  ASSUME IInv, [Next]_vars
  PROVE  IInv'
<1>1. Shape'
  BY ShapeKeeps DEF IInv
<1>2. CASE Orderly'
  <2>1. Orderly
    BY <1>2, OrderlyBefore DEF IInv
  <2>2. Tidy
    BY <2>1 DEF IInv
  <2> QED BY <1>1, <1>2, <2>2, TidyKeeps DEF IInv
<1> QED BY <1>1, <1>2 DEF IInv

\* What the parts of the invariant say together of records.
LEMMA TidyIsExclusive ==
  ASSUME Tidy
  PROVE  RecordsAreExclusive
<1>1. \A f \in Fds : Registered(f) => owner[f] # Nil /\ fd[interest[f]] = f
  BY DEF Tidy, RegisteredInv
<1>2. \A i, j \in 1 .. Len(jobs) : jobs[i] = jobs[j] => i = j
  BY DEF Tidy, EdgeInv
<1>3. \A r \in Records : Queued(r) => Live(r) /\ free_list # r
  <2>1. free_list # Nil => fd[free_list] = Nil
    BY DEF Tidy, FreeInv, Free
  <2> QED BY <2>1, NilIsNone DEF Tidy, EdgeInv, RequestOf, Live
<1>4. ASSUME NEW h \in Threads, Busy(h)
      PROVE  /\ pc[h] \in {"read", "handle", "remove", "close"} => Live(conn[h])
             /\ free_list # conn[h] /\ ~Queued(conn[h])
             /\ \A g \in Threads : conn[g] = conn[h] => g = h
  <2>1. conn[h] \in Records
    BY <1>4, Places
  <2>2. pc[h] \in {"read", "handle", "remove", "close"} => Live(conn[h])
    <3>1. Holds(h) => Live(conn[h])
      BY Places, NilIsNone DEF Live
    <3>2. pc[h] = "close" => Live(conn[h])
      BY DEF Tidy, ThreadInv, Live
    <3> QED BY <3>1, <3>2 DEF Holds
  <2>3. free_list # conn[h]
    <3>1. free_list # Nil => fd[free_list] = Nil /\ ~(pc[h] = "push" /\ conn[h] = free_list)
      BY DEF Tidy, FreeInv, Free
    <3>2. pc[h] = "push" \/ fd[conn[h]] # Nil
      BY <1>4 DEF Tidy, ThreadInv, Busy, Holds, Shape, TypeOK
    <3> QED BY <2>1, <3>1, <3>2, NilIsNone
  <2>4. ~Queued(conn[h])
    BY <2>1 DEF Tidy, EdgeInv
  <2>5. \A g \in Threads : conn[g] = conn[h] => g = h
    BY <1>4 DEF Tidy, ThreadInv
  <2> QED BY <2>2, <2>3, <2>4, <2>5
<1> QED BY <1>1, <1>2, <1>3, <1>4 DEF RecordsAreExclusive, Busy

LEMMA IInvHolds == Spec => []IInv
<1>1. IInv /\ [Next]_vars => IInv'
  BY IInvKeeps
<1> QED BY <1>1, IInvInit, PTL DEF Spec

-----------------------------------------------------------------------------
(* Theorems.                                                               *)

\* Types: of the descriptors and records the event loop and the handlers of
\* worker.zig pass to each other, in every state, orderly or not.
THEOREM EventLoopTypeCorrect == Spec => []TypeOK
<1>1. IInv => TypeOK
  BY DEF IInv, Shape
<1> QED BY <1>1, IInvHolds, PTL

\* However many connections there are, and although descriptors and records are
\* used again as soon as they are free, the record a handler of worker.zig
\* works on is of one open connection and is not in the pool's free list.
THEOREM RecordsNeverShared == Spec => []RecordsAreExclusive
<1>1. IInv => RecordsAreExclusive
  <2>1. ASSUME Orderly, IInv PROVE RecordsAreExclusive
    BY <2>1, TidyIsExclusive DEF IInv
  <2>2. ASSUME ~Orderly PROVE RecordsAreExclusive
    BY <2>2 DEF RecordsAreExclusive
  <2> QED BY <2>1, <2>2
<1> QED BY <1>1, IInvHolds, PTL

\* No request is lost between the edge-triggered epoll, the events of a batch,
\* the queue of the thread pool and the thread that reads it.
THEOREM InputNeverMissed == Spec => []InputIsNoticed
<1>1. IInv => InputIsNoticed
  BY DEF IInv, Tidy, InputIsNoticed
<1> QED BY <1>1, IInvHolds, PTL

\* A descriptor of the worker is open only for a connection that is being set
\* up, is registered, or is about to be closed by its handler.
THEOREM DescriptorsNeverLeak == Spec => []NoDescriptorLeaks
<1>1. IInv => NoDescriptorLeaks
  BY DEF IInv, Tidy, NoDescriptorLeaks
<1> QED BY <1>1, IInvHolds, PTL
=============================================================================
