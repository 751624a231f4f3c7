--------------------------- MODULE ServiceProofs ---------------------------
(***************************************************************************)
(* EventLoop implements Service, for any number of clients, descriptors    *)
(* and threads.                                                            *)
(***************************************************************************)
EXTENDS EventLoopProofs

\* A connection that is still to be served has not been read from.
UnservedInv ==
  /\ \A c \in Clients : phase[c] \in {"new", "backlog"} => unread[c] # "read"
  /\ Setup => unread[owner[new_conn]] # "read"

\* The inductive invariant.
ServiceInv == IInv /\ (Orderly => UnservedInv)

-----------------------------------------------------------------------------
(* Who serves whom.                                                        *)

AtWork(h) == pc[h] \in {"handle", "remove", "close"}

\* A thread at work serves one open connection that no other one serves and
\* that is not being set up.
LEMMA AtWorkFacts ==
  ASSUME Tidy, NEW h \in Threads, AtWork(h)
  PROVE  /\ conn[h] \in Records /\ fd[conn[h]] \in Fds
         /\ owner[fd[conn[h]]] \in Clients /\ phase[owner[fd[conn[h]]]] = "open"
         /\ Client(h) = owner[fd[conn[h]]]
         /\ Setup => fd[conn[h]] # new_conn
         /\ \A g \in Threads : AtWork(g) /\ fd[conn[g]] = fd[conn[h]] => g = h
<1>1. TypeOK /\ ShapeInv /\ OwnerInv /\ RegisteredInv /\ SetupInv /\ ThreadInv
  BY DEF Tidy, Shape
<1>2. Busy(h) /\ conn[h] \in Records
  BY <1>1 DEF AtWork, Busy, ShapeInv
<1>3. fd[conn[h]] \in Fds /\ owner[fd[conn[h]]] \in Clients
  <2>1. CASE Holds(h)
    BY <2>1, Places
  <2>2. CASE pc[h] = "close"
    <3>1. fd[conn[h]] # Nil /\ owner[fd[conn[h]]] # Nil
      BY <1>1, <2>2 DEF ThreadInv
    <3>2. fd \in [Records -> Fds \union {Nil}] /\ owner \in [Fds -> Clients \union {Nil}]
      BY <1>1 DEF TypeOK
    <3> QED BY <1>2, <3>1, <3>2
  <2> QED BY <2>1, <2>2 DEF AtWork, Holds
<1>4. phase[owner[fd[conn[h]]]] = "open"
  BY <1>1, <1>3, NilIsNone DEF OwnerInv
<1>5. Client(h) = owner[fd[conn[h]]]
  BY <1>3, NilIsNone DEF Client, Serving, Live, AtWork
<1>6. Registered(fd[conn[h]]) <=> pc[h] # "close"
  <2>1. CASE Holds(h)
    BY <1>2, <2>1, Places, NilIsNone DEF Registered, Holds
  <2>2. CASE pc[h] = "close"
    BY <1>1, <2>2 DEF ThreadInv
  <2> QED BY <2>1, <2>2 DEF AtWork, Holds
<1>7. Setup => fd[conn[h]] # new_conn
  BY <1>1, <1>6 DEF SetupInv
<1>8. ASSUME NEW g \in Threads, AtWork(g), fd[conn[g]] = fd[conn[h]]
      PROVE  g = h
  <2>1. CASE pc[g] = "close" /\ pc[h] = "close"
    BY <1>1, <1>8, <2>1 DEF ThreadInv
  <2>2. CASE pc[g] # "close" /\ pc[h] # "close"
    <3>1. Holds(g) /\ Holds(h)
      BY <1>8, <2>2 DEF AtWork, Holds
    <3>2. conn[g] = conn[h]
      BY <1>8, <3>1, Places
    <3> QED BY <1>1, <1>2, <3>2 DEF ThreadInv
  <2>3. CASE pc[g] = "close" /\ pc[h] # "close"
    BY <1>1, <1>6, <1>8, <2>3 DEF ThreadInv
  <2>4. CASE pc[g] # "close" /\ pc[h] = "close"
    <3>1. Holds(g)
      BY <1>8, <2>4 DEF AtWork, Holds
    <3>2. Registered(fd[conn[g]])
      BY <1>1, <3>1, Places, NilIsNone DEF Registered, Holds, Busy, ShapeInv
    <3> QED BY <1>6, <1>8, <2>4, <3>2
  <2> QED BY <2>1, <2>2, <2>3, <2>4
<1> QED BY <1>2, <1>3, <1>4, <1>5, <1>7, <1>8

LEMMA ClientOfIdle ==
  ASSUME NEW h \in Threads, ~AtWork(h)
  PROVE  Client(h) = Nil
BY DEF Client, Serving, AtWork

\* A thread goes on serving as long as its record and descriptor are left alone.
LEMMA ClientKept ==
  ASSUME Tidy, NEW h \in Threads, AtWork(h)' <=> AtWork(h),
         AtWork(h) => /\ conn'[h] = conn[h] /\ fd'[conn[h]] = fd[conn[h]]
                      /\ owner'[fd[conn[h]]] = owner[fd[conn[h]]]
  PROVE  Client(h)' = Client(h)
<1>1. CASE AtWork(h)
  BY <1>1, AtWorkFacts, NilIsNone DEF Client, Serving, Live, AtWork
<1>2. CASE ~AtWork(h)
  BY <1>2 DEF Client, Serving, AtWork
<1> QED BY <1>1, <1>2

\* Then a step that does not touch connections or requests is a stutter.
LEMMA Stutters ==
  ASSUME Orderly, Orderly', UNCHANGED <<phase, unread>>,
         loop' = "crashed" <=> loop = "crashed",
         \A h \in Threads : Client(h)' = Client(h)
  PROVE  UNCHANGED Promise!serviceVars
BY DEF Promise!serviceVars

-----------------------------------------------------------------------------
(* The strengthening is kept.                                              *)

\* All steps but four leave alone what it is about.
LEMMA UnservedAlone ==
  ASSUME UnservedInv, UNCHANGED <<phase, unread, owner>>,
         Setup' => Setup /\ new_conn' = new_conn
  PROVE  UnservedInv'
BY DEF UnservedInv

LEMMA UnservedKeeps ==
  ASSUME Tidy, Shape', [Next]_vars, Orderly', UnservedInv
  PROVE  UnservedInv'
<1> USE DEF netVars, kernelVars, poolVars, loopVars, threadVars, LoopOnly, Go, Setup
<1>0. TypeOK /\ ShapeInv /\ OwnerInv /\ SetupInv
  BY DEF Tidy, Shape
<1>1. ASSUME NEW c \in Clients, Connects(c) PROVE UnservedInv'
  BY <1>0, <1>1 DEF Connects, UnservedInv, TypeOK
<1>2. ASSUME NEW c \in Clients, Sends(c) PROVE UnservedInv'
  BY <1>0, <1>2 DEF Sends, Input, UnservedInv, TypeOK
<1>3. ASSUME NEW c \in Clients, Accept(c) PROVE UnservedInv'
  <2>1. PICK f \in Fds : owner' = [owner EXCEPT ![f] = c] /\ new_conn' = f
    BY <1>3 DEF Accept
  <2>2. /\ unread' = unread /\ phase' = [phase EXCEPT ![c] = "open"]
        /\ unread[c] # "read"
    BY <1>3 DEF Accept, IsFirst, Backlog, UnservedInv
  <2> QED BY <1>0, <2>1, <2>2 DEF UnservedInv, TypeOK
<1>4. CASE HandshakeFails
  BY <1>0, <1>4 DEF HandshakeFails, SpokePlainly, UnservedInv, TypeOK
<1>5. CASE LoopStep \/ Handshake
  <2>1. CASE \E c \in Clients : Accept(c)
    BY <1>3, <2>1
  <2>2. CASE ~(\E c \in Clients : Accept(c)) /\ ~HandshakeFails
    <3>1. /\ UNCHANGED <<phase, unread, owner>>
          /\ Setup' => Setup /\ new_conn' = new_conn
      BY <1>5, <2>2, OrderlySteps
         DEF LoopStep, Wait, Dispatch, Accepting, Drained, Handshake, NoDescriptorLeft,
             Allocate, LoadHead, Pop, Register, Join
    <3> QED BY <3>1, UnservedAlone
  <2> QED BY <1>4, <2>1, <2>2
<1>6. ASSUME NEW h \in Threads, Read(h) PROVE UnservedInv'
  <2>1. /\ unread' = [unread EXCEPT ![owner[fd[conn[h]]]] = "read"]
        /\ UNCHANGED <<phase, owner, loop, new_conn>>
    BY <1>6 DEF Read
  <2>2. fd[conn[h]] \in Fds /\ owner[fd[conn[h]]] \in Clients /\ interest[fd[conn[h]]] # Nil
    BY <1>0, <1>6, Places, NilIsNone DEF Read, Holds, Busy, ShapeInv
  <2>3. phase[owner[fd[conn[h]]]] = "open"
    BY <1>0, <2>2, NilIsNone DEF OwnerInv
  <2>4. Setup => owner[new_conn] # owner[fd[conn[h]]]
    BY <1>0, <2>2, NilIsNone DEF SetupInv, OwnerInv, Registered, TypeOK, ShapeInv
  <2> QED BY <1>0, <2>1, <2>2, <2>3, <2>4 DEF UnservedInv, TypeOK
<1>7. ASSUME NEW h \in Threads, Close(h) PROVE UnservedInv'
  <2>1. /\ owner' = [owner EXCEPT ![fd[conn[h]]] = Nil]
        /\ phase' = [phase EXCEPT ![owner[fd[conn[h]]]] = "closed"]
        /\ UNCHANGED <<unread, loop, new_conn>> /\ pc[h] = "close"
    BY <1>7 DEF Close
  <2>2. Setup => fd[conn[h]] # new_conn
    BY <1>0, <2>1 DEF SetupInv
  <2> QED BY <1>0, <2>1, <2>2 DEF UnservedInv, TypeOK
<1>8. ASSUME NEW h \in Threads, WatcherStops(h) \/ ThreadStep(h), ~Read(h), ~Close(h)
      PROVE  UnservedInv'
  <2>1. UNCHANGED <<phase, unread, owner, loop, new_conn>>
    BY <1>8, OrderlySteps DEF WatcherStops, ThreadStep, TakeJob, Respond, Remove, Undefine, Push
  <2> QED BY <2>1, UnservedAlone
<1>9. CASE UNCHANGED vars
  BY <1>9, UnservedAlone DEF vars
<1> QED
  BY <1>1, <1>2, <1>5, <1>6, <1>7, <1>8, <1>9, OrderlySteps DEF Next

-----------------------------------------------------------------------------
(* Every step is one of the service or a stutter.                          *)

LEMMA ClientSteps ==
  ASSUME Tidy, Orderly', NEW c \in Clients, Connects(c) \/ Sends(c)
  PROVE  [Promise!Next]_(Promise!serviceVars)
<1>1. UNCHANGED <<owner, fd, pc, conn, loop>>
  BY DEF Connects, Sends, Input, loopVars, poolVars, threadVars, kernelVars
<1>2. \A h \in Threads : Client(h)' = Client(h)
  BY <1>1, ClientKept DEF AtWork
<1>3. Connects(c) => Promise!Connect(c)
  BY <1>2 DEF Connects, Promise!Connect
<1>4. Sends(c) => Promise!Send(c)
  BY <1>2 DEF Sends, Input, Promise!Send
<1>5. Promise!Step
  BY <1>3, <1>4 DEF Promise!Step
<1> QED BY <1>1, <1>5 DEF Promise!Next, Tidy

LEMMA AcceptIsAccept ==
  ASSUME Tidy, Orderly', NEW c \in Clients, Accept(c)
  PROVE  [Promise!Next]_(Promise!serviceVars)
<1>0. TypeOK /\ OwnerInv
  BY DEF Tidy, Shape
<1>1. PICK f \in Fds : owner[f] = Nil /\ owner' = [owner EXCEPT ![f] = c]
  BY DEF Accept
<1>2. UNCHANGED <<fd, pc, conn, unread>> /\ loop = "accept" /\ loop' # "crashed"
  BY DEF Accept, poolVars, threadVars
<1>3. ASSUME NEW h \in Threads, AtWork(h) PROVE owner'[fd[conn[h]]] = owner[fd[conn[h]]]
  BY <1>0, <1>1, <1>3, AtWorkFacts, NilIsNone DEF TypeOK
<1>4. \A h \in Threads : Client(h)' = Client(h)
  BY <1>2, <1>3, ClientKept DEF AtWork
<1>5. Promise!Accept(c)
  BY <1>2, <1>4 DEF Accept, IsFirst, Backlog, Promise!Accept
<1> QED BY <1>2, <1>5 DEF Promise!Next, Promise!Step, Tidy

\* The client whose handshake failed has sent a request nobody has read.
LEMMA HandshakeFailsIsRefuse ==
  ASSUME Tidy, Orderly', UnservedInv, HandshakeFails
  PROVE  [Promise!Next]_(Promise!serviceVars)
<1>0. TypeOK /\ ShapeInv /\ OwnerInv /\ SetupInv
  BY DEF Tidy, Shape
<1>1. /\ owner' = [owner EXCEPT ![new_conn] = Nil]
      /\ phase' = [phase EXCEPT ![owner[new_conn]] = "closed"]
      /\ UNCHANGED <<fd, pc, conn, unread>> /\ loop = "handshake" /\ loop' = "events"
      /\ unread[owner[new_conn]] # "nothing"
  BY DEF HandshakeFails, SpokePlainly, poolVars, threadVars
<1>2. /\ Setup /\ owner[new_conn] \in Clients /\ phase[owner[new_conn]] = "open"
      /\ unread[owner[new_conn]] = "request"
  <2>1. Setup
    BY <1>1 DEF Setup
  <2>2. new_conn \in Fds /\ owner[new_conn] \in Clients
    BY <1>0, <2>1 DEF TypeOK, ShapeInv, SetupInv
  <2> QED BY <1>0, <1>1, <2>1, <2>2, NilIsNone DEF OwnerInv, UnservedInv
<1>3. ASSUME NEW h \in Threads, AtWork(h) PROVE owner'[fd[conn[h]]] = owner[fd[conn[h]]]
  BY <1>0, <1>1, <1>2, <1>3, AtWorkFacts DEF TypeOK
<1>4. \A h \in Threads : Client(h)' = Client(h)
  BY <1>1, <1>3, ClientKept DEF AtWork
<1>5. Promise!Refuse(owner[new_conn])
  BY <1>1, <1>2, <1>4 DEF Promise!Refuse
<1> QED BY <1>1, <1>2, <1>5 DEF Promise!Next, Promise!Step, Tidy

\* The event loop fills in records that no thread has.
LEMMA LoopStutters ==
  ASSUME Tidy, Orderly', LoopStep \/ Handshake,
         ~HandshakeFails, ~\E c \in Clients : Accept(c)
  PROVE  UNCHANGED Promise!serviceVars
<1>0. TypeOK /\ FreeInv /\ SetupInv /\ Orderly
  BY DEF Tidy, Shape
<1>1. /\ UNCHANGED <<phase, unread, owner, pc, conn>>
      /\ loop # "crashed" /\ loop' # "crashed"
  BY OrderlySteps
     DEF LoopStep, Wait, Dispatch, Accepting, Drained, Handshake, NoDescriptorLeft, Allocate,
         LoadHead, Pop, Register, Join, LoopOnly, netVars, kernelVars, threadVars
<1>2. ASSUME NEW h \in Threads, AtWork(h) PROVE fd'[conn[h]] = fd[conn[h]]
  <2>1. conn[h] \in Records /\ fd[conn[h]] # Nil
    BY <1>2, AtWorkFacts, NilIsNone
  <2>2. CASE Allocate
    <3>1. conn[h] # arena + 1
      BY <1>0, <2>1 DEF FreeInv, TypeOK, Records
    <3> QED BY <1>0, <2>1, <2>2, <3>1 DEF Allocate, TypeOK
  <2>3. CASE Pop
    <3>1. node = free_list /\ node # Nil /\ fd[node] = Nil
      BY <1>0, <2>3, NilIsNone DEF Pop, SetupInv, FreeInv, Free, Tidy, Shape, ShapeInv
    <3> QED BY <1>0, <2>1, <2>3, <3>1 DEF Pop, TypeOK
  <2>4. CASE ~Allocate /\ ~Pop
    <3>1. fd' = fd
      BY <2>4, OrderlySteps
         DEF LoopStep, Wait, Dispatch, Accepting, Drained, Handshake, NoDescriptorLeft,
             LoadHead, Register, Join, poolVars
    <3> QED BY <3>1
  <2> QED BY <2>2, <2>3, <2>4
<1>3. \A h \in Threads : Client(h)' = Client(h)
  BY <1>1, <1>2, ClientKept DEF AtWork
<1> QED BY <1>0, <1>1, <1>3, Stutters

LEMMA ReadIsServe ==
  ASSUME Tidy, Tidy', NEW h \in Threads, Read(h)
  PROVE  [Promise!Next]_(Promise!serviceVars)
<1>0. TypeOK /\ ShapeInv /\ OwnerInv /\ EdgeInv /\ Orderly
  BY DEF Tidy, Shape
<1>1. /\ pc[h] = "read" /\ pc' = [pc EXCEPT ![h] = "handle"]
      /\ UNCHANGED <<conn, phase, owner, fd, loop>>
      /\ unread' = [unread EXCEPT ![owner[fd[conn[h]]]] = "read"]
  BY DEF Read, Go, kernelVars, poolVars, loopVars
<1>2. /\ fd[conn[h]] \in Fds /\ owner[fd[conn[h]]] \in Clients
      /\ phase[owner[fd[conn[h]]]] = "open" /\ unread[owner[fd[conn[h]]]] = "request"
  <2>1. fd[conn[h]] \in Fds /\ owner[fd[conn[h]]] \in Clients
    BY <1>1, Places DEF Holds
  <2> QED BY <1>0, <1>1, <2>1, NilIsNone DEF OwnerInv, EdgeInv, RequestOf
<1>3. \A g \in Threads \ {h} : Client(g)' = Client(g)
  BY <1>0, <1>1, ClientKept DEF AtWork, TypeOK
<1>4. Client(h) = Nil
  BY <1>1, ClientOfIdle DEF AtWork
<1>5. Client(h)' = owner[fd[conn[h]]]
  BY <1>0, <1>1, <1>2, NilIsNone DEF Client, Serving, Live, TypeOK
<1>6. Promise!Serve(h, owner[fd[conn[h]]])
  BY <1>1, <1>2, <1>3, <1>4, <1>5 DEF Promise!Serve
<1> QED BY <1>0, <1>1, <1>2, <1>6 DEF Promise!Next, Promise!Step, Tidy

\* The thread closes the connection it read from, and no other thread's.
LEMMA CloseIsComplete ==
  ASSUME Tidy, Tidy', NEW h \in Threads, Close(h)
  PROVE  [Promise!Next]_(Promise!serviceVars)
<1>0. TypeOK /\ Orderly
  BY DEF Tidy, Shape
<1>1. /\ pc[h] = "close" /\ pc' = [pc EXCEPT ![h] = "destroy"]
      /\ UNCHANGED <<conn, unread, fd, loop>>
      /\ owner' = [owner EXCEPT ![fd[conn[h]]] = Nil]
      /\ phase' = [phase EXCEPT ![owner[fd[conn[h]]]] = "closed"]
  BY DEF Close, Go, poolVars, loopVars
<1>2. /\ AtWork(h) /\ Client(h) = owner[fd[conn[h]]] /\ Client(h) # Nil
      /\ phase[Client(h)] = "open"
  BY <1>1, AtWorkFacts, NilIsNone DEF AtWork
<1>3. ASSUME NEW g \in Threads \ {h}
      PROVE  Client(g)' = Client(g)
  <2>1. AtWork(g) => owner'[fd[conn[g]]] = owner[fd[conn[g]]]
    <3>1. AtWork(g) => fd[conn[g]] # fd[conn[h]] /\ fd[conn[g]] \in Fds
      BY <1>2, AtWorkFacts
    <3> QED BY <1>0, <1>1, <3>1 DEF TypeOK
  <2> QED BY <1>0, <1>1, <2>1, ClientKept DEF AtWork, TypeOK
<1>4. Client(h)' = Nil
  BY <1>0, <1>1 DEF Client, Serving, TypeOK
<1>5. [g \in Threads |-> Client(g)]' = [[g \in Threads |-> Client(g)] EXCEPT ![h] = Nil]
  BY <1>3, <1>4
<1>6. Promise!Complete(h)
  <2>1. [g \in Threads |-> Client(g)][h] = owner[fd[conn[h]]]
    BY <1>2
  <2> QED BY <1>1, <1>2, <1>5, <2>1 DEF Promise!Complete
<1> QED BY <1>0, <1>1, <1>6 DEF Promise!Next, Promise!Step, Tidy

LEMMA ThreadStutters ==
  ASSUME Tidy, Tidy', NEW h \in Threads, WatcherStops(h) \/ ThreadStep(h),
         ~Read(h), ~Close(h)
  PROVE  UNCHANGED Promise!serviceVars
<1>0. TypeOK /\ ShapeInv /\ ThreadInv /\ Orderly /\ Orderly'
  BY DEF Tidy, Shape
<1>1. WatcherStops(h) \/ TakeJob(h) \/ Respond(h) \/ Remove(h) \/ Undefine(h) \/ Push(h)
  BY <1>0, OrderlySteps DEF ThreadStep
<1> USE DEF netVars, kernelVars, poolVars, loopVars, Go
<1>2. UNCHANGED <<phase, unread, owner, loop>>
  BY <1>1 DEF WatcherStops, TakeJob, Respond, Remove, Undefine, Push
<1>3. /\ \A g \in Threads \ {h} : pc'[g] = pc[g] /\ conn'[g] = conn[g]
      /\ AtWork(h)' <=> AtWork(h)
      /\ AtWork(h) => conn'[h] = conn[h] /\ fd' = fd
  BY <1>0, <1>1
     DEF WatcherStops, TakeJob, Respond, Remove, Undefine, Push, AtWork, TypeOK, Idle
<1>4. ASSUME NEW g \in Threads \ {h}, AtWork(g)
      PROVE  fd'[conn[g]] = fd[conn[g]]
  <2>1. CASE Undefine(h)
    <3>1. Busy(h) /\ conn[g] # conn[h]
      BY <1>0, <1>4, <2>1 DEF Undefine, Busy, ThreadInv
    <3>2. conn[g] \in Records
      BY <1>4, AtWorkFacts
    <3> QED BY <1>0, <2>1, <3>1, <3>2 DEF Undefine, TypeOK
  <2>2. CASE ~Undefine(h)
    BY <1>1, <2>2 DEF WatcherStops, TakeJob, Respond, Remove, Push
  <2> QED BY <2>1, <2>2
<1>5. \A g \in Threads : Client(g)' = Client(g)
  <2>1. \A g \in Threads \ {h} : Client(g)' = Client(g)
    BY <1>2, <1>3, <1>4, ClientKept DEF AtWork
  <2>2. Client(h)' = Client(h)
    BY <1>2, <1>3, ClientKept
  <2> QED BY <2>1, <2>2
<1> QED BY <1>0, <1>2, <1>5, Stutters

LEMMA ServiceStep ==
  ASSUME ServiceInv, ServiceInv', [Next]_vars
  PROVE  [Promise!Next]_(Promise!serviceVars)
<1>1. CASE ~Orderly'
  BY <1>1 DEF Promise!Next
<1>2. CASE Orderly'
  <2>1. Tidy /\ Tidy' /\ UnservedInv /\ Orderly
    BY <1>2, OrderlyBefore DEF ServiceInv, IInv
  <2>2. ASSUME NEW c \in Clients, Connects(c) \/ Sends(c) \/ Extra(c)
        PROVE  [Promise!Next]_(Promise!serviceVars)
    BY <1>2, <2>1, <2>2, ClientSteps, OrderlySteps
  <2>3. CASE LoopStep \/ Handshake
    BY <1>2, <2>1, <2>3, AcceptIsAccept, HandshakeFailsIsRefuse, LoopStutters
  <2>4. ASSUME NEW h \in Threads, WatcherStops(h) \/ ThreadStep(h)
        PROVE  [Promise!Next]_(Promise!serviceVars)
    BY <2>1, <2>4, ReadIsServe, CloseIsComplete, ThreadStutters
  <2>5. CASE UNCHANGED vars
    BY <2>5 DEF vars, netVars, kernelVars, poolVars, loopVars, threadVars,
       Promise!serviceVars, Orderly, Client, Serving, Live
  <2> QED BY <2>2, <2>3, <2>4, <2>5 DEF Next
<1> QED BY <1>1, <1>2

-----------------------------------------------------------------------------

\* While the clients and the free list are orderly, the worker reads each
\* request once, with one thread, which serves that connection alone until it
\* closes it; it closes nothing else but what it refuses, accepts in order and
\* does not panic, for every number of clients, descriptors and threads.
THEOREM WorkerServes == Spec => ImplementsService
<1>1. Init => ServiceInv
  BY IInvInit DEF Init, ServiceInv, UnservedInv, Setup
<1>2. ServiceInv /\ [Next]_vars => ServiceInv'
  <2>1. ASSUME ServiceInv, [Next]_vars PROVE IInv'
    BY <2>1, IInvKeeps DEF ServiceInv
  <2>2. ASSUME ServiceInv, [Next]_vars, Orderly' PROVE UnservedInv'
    BY <2>2, OrderlyBefore, ShapeKeeps, UnservedKeeps DEF ServiceInv, IInv
  <2> QED BY <2>1, <2>2 DEF ServiceInv
<1>3. Init => Promise!Init
  BY NilIsNone DEF Init, Promise!Init, Orderly, Client, Serving
<1>4. ServiceInv /\ ServiceInv' /\ [Next]_vars => [Promise!Next]_(Promise!serviceVars)
  BY ServiceStep
<1> QED
  BY <1>1, <1>2, <1>3, <1>4, PTL DEF Spec, ImplementsService, Promise!Spec
=============================================================================
