-------------------------- MODULE RoundRobinProofs --------------------------
(***************************************************************************)
(* Theorems about RoundRobin for every number of handlers and backends.    *)
(***************************************************************************)
EXTENDS RoundRobin, TLAPS

\* The index a handler holds from its second load of the word on.
Holding == {"choose", "connect", "retry", "return"} \union Exchange

(***************************************************************************)
(* The inductive invariant.  IndexInRange alone is not inductive: it needs *)
(* that the shared word is always in range, hence that every index that is *)
(* about to be stored from is.  SocketsBalanced is needed for TypeOK.      *)
(***************************************************************************)
WordInRange == server_address \in Backends
HeldInRange == \A h \in Handlers : pc[h] \in Holding => current[h] \in Backends

IInv == TypeOK /\ WordInRange /\ HeldInRange /\ SocketsBalanced

\* Storing keeps the word in range: (i + 1) % N for an index in range.
LEMMA NextIndexInRange ==
  ASSUME NEW i \in Backends
  PROVE  NextIndex(i) \in Backends
BY RouteAssumption DEF NextIndex, Backends

LEMMA InitIInv == Init => IInv
BY RouteAssumption, BoundAssumption
   DEF Init, IInv, TypeOK, WordInRange, HeldInRange, SocketsBalanced,
       Holding, Backends, ClientStates, Exchange, Forwarding

\* One step of the code preserves the invariant.
LEMMA ProceedIInv ==
  ASSUME IInv, NEW h \in Handlers, Proceed(h)
  PROVE  IInv'
<1> USE RouteAssumption DEF IInv, TypeOK, WordInRange, HeldInRange,
        SocketsBalanced, Holding, Busy, InLoop, Exchange, Forwarding,
        ClientStates, wordVars, envVars, historyVars
<1>1. CASE CheckRange(h)
  BY <1>1 DEF CheckRange, Backends
<1>2. CASE LoadIndex(h)
  BY <1>2 DEF LoadIndex, Backends
<1>3. CASE Choose(h)
  <2>1. pc'[h] \in {"retry", "connect"} /\ pc' = [pc EXCEPT ![h] = pc'[h]]
    BY <1>3 DEF Choose
  <2>2. servers_down' \in [Handlers -> Nat]
    BY <1>3 DEF Choose
  <2>3. /\ pc[h] = "choose"
        /\ UNCHANGED <<wordVars, current, open, envVars, historyVars>>
    BY <1>3 DEF Choose
  <2>4. \A g \in Handlers : pc'[g] \in Exchange <=> pc[g] \in Exchange
    BY <2>1, <2>3
  <2>5. \A g \in Handlers : pc'[g] \in Holding => pc[g] \in Holding
    BY <2>1, <2>3
  <2>6. pc' \in [Handlers -> Busy \union {"idle"}]
    BY <2>1
  <2>7. TypeOK'
    BY <2>2, <2>3, <2>6
  <2> QED BY <2>3, <2>4, <2>5, <2>7
<1>4. CASE Connect(h)
  BY <1>4 DEF Connect
<1>5. CASE Refused(h)
  BY <1>5 DEF Refused
<1>6. CASE SendRequest(h)
  BY <1>6 DEF SendRequest
<1>7. CASE SendFails(h)
  BY <1>7 DEF SendFails, Abandon
<1>8. CASE ForwardResponse(h)
  BY <1>8 DEF ForwardResponse
<1>9. CASE ResponseFails(h)
  <2>1. client' \in [Handlers -> ClientStates]
    BY <1>9 DEF ResponseFails
  <2>2. pc[h] \in Forwarding /\ Abandon(h)
    BY <1>9 DEF ResponseFails
  <2> QED BY <2>1, <2>2 DEF Abandon
<1>10. CASE Retry(h)
  <2>1. NextIndex(current[h]) \in Backends
    BY <1>10, NextIndexInRange DEF Retry
  <2>2. LoopTest(servers_down[h]) \in {"check", "gateway"}
    BY DEF LoopTest
  <2>3. disturbed' \in [Handlers -> BOOLEAN]
    BY <1>10 DEF Retry, Store
  <2>4. failed' \in [Handlers -> SUBSET Nat]
    BY <1>10 DEF Retry
  <2> QED BY <1>10, <2>1, <2>2, <2>3, <2>4 DEF Retry, Store, Backends
<1>11. CASE Return(h)
  <2>1. NextIndex(current[h]) \in Backends
    BY <1>11, NextIndexInRange DEF Return
  <2>2. disturbed' \in [Handlers -> BOOLEAN]
    BY <1>11 DEF Return, Store
  <2>3. failed' \in [Handlers -> SUBSET Nat]
    BY <1>11 DEF Return
  <2> QED BY <1>11, <2>1, <2>2, <2>3 DEF Return, Store, Backends
<1>12. CASE BadGateway(h)
  BY <1>12 DEF BadGateway
<1>13. CASE Receive(h)
  BY <1>13 DEF Receive
<1>14. CASE WriteResponse(h)
  BY <1>14 DEF WriteResponse
<1> QED
  BY <1>1, <1>2, <1>3, <1>4, <1>5, <1>6, <1>7, <1>8, <1>9, <1>10, <1>11,
     <1>12, <1>13, <1>14 DEF Proceed

LEMMA NextIInv == IInv /\ [Next]_vars => IInv'
<1> SUFFICES ASSUME IInv, [Next]_vars PROVE IInv'
  OBVIOUS
<1> USE DEF IInv, TypeOK, WordInRange, HeldInRange, SocketsBalanced, Holding,
        Busy, InLoop, Exchange, Forwarding, ClientStates, wordVars, threadVars,
        envVars, historyVars
<1>1. ASSUME NEW h \in Handlers, Begin(h) PROVE IInv'
  <2>1. LoopTest(0) \in {"check", "gateway"}
    BY DEF LoopTest
  <2> QED BY <1>1, <2>1 DEF Begin
<1>2. ASSUME NEW h \in Handlers, Proceed(h) PROVE IInv'
  BY <1>2, ProceedIInv
<1>3. ASSUME NEW b \in Backends, Outage(b) PROVE IInv'
  BY <1>3, BoundAssumption DEF Outage
<1>4. ASSUME NEW b \in Backends, Recovery(b) PROVE IInv'
  BY <1>4 DEF Recovery
<1>5. ASSUME NEW h \in Handlers, ClientStalls(h) \/ ClientReads(h) \/ ClientReset(h)
      PROVE  IInv'
  BY <1>5 DEF ClientStalls, ClientReads, ClientReset
<1>6. CASE UNCHANGED vars
  BY <1>6 DEF vars
<1> QED
  BY <1>1, <1>2, <1>3, <1>4, <1>5, <1>6, BoundAssumption DEF Next, Environment

LEMMA Inductive == Spec => []IInv
BY InitIInv, NextIInv, PTL DEF Spec

\* Type correctness for every number of handlers, backends and outages.
THEOREM TypeCorrect == Spec => []TypeOK
BY Inductive, PTL DEF IInv

\* The index used for self.backends is in range in every interleaving of any
\* number of handlers, although it is not the value that was compared.
THEOREM IndexSafe == Spec => []IndexInRange
<1>1. IInv => IndexInRange
  BY DEF IInv, HeldInRange, Holding, IndexInRange
<1> QED BY <1>1, Inductive, PTL

\* Every backend socket is closed exactly once, on every path.
THEOREM SocketsSafe == Spec => []SocketsBalanced
BY Inductive, PTL DEF IInv
-----------------------------------------------------------------------------
(***************************************************************************)
(* UndisturbedGatewayError.  While nobody else stores, the backends a      *)
(* request has passed form an arc of the ring that ends just behind the    *)
(* shared word, and the arc is at least as long as servers_down: every     *)
(* counted failure moved the word by one.  502 needs servers_down = N, and *)
(* an arc of length N is the whole ring.                                   *)
(***************************************************************************)

\* How far behind position p of the ring backend b lies.
Distance(p, b) == IF b < p THEN p - 1 - b ELSE p - 1 - b + N

Behind(p, d) == {b \in Backends : Distance(p, b) < d}

\* A failure that is counted is counted before the word moves.
Counted(h) == IF pc[h] = "retry" THEN servers_down[h] - 1 ELSE servers_down[h]

Arc(h) ==
  pc[h] # "idle" /\ ~disturbed[h] =>
    /\ pc[h] \in Holding => current[h] = server_address
    /\ Behind(server_address, Counted(h)) \subseteq failed[h]

GaveUpAtN(h) == pc[h] = "gateway" => servers_down[h] >= N

ArcInv == \A h \in Handlers : Arc(h) /\ GaveUpAtN(h) /\ failed[h] \subseteq Backends

LEMMA NextIndexCases ==
  ASSUME NEW i \in Backends
  PROVE  NextIndex(i) = IF i = N - 1 THEN 0 ELSE i + 1
BY RouteAssumption DEF NextIndex, Backends

\* An arc of no length is empty, one of length N is the ring, and one that
\* is shorter lies within a longer one.
LEMMA BehindFacts ==
  ASSUME NEW p \in Backends, NEW d \in Int, NEW e \in Int
  PROVE  /\ d <= 0 => Behind(p, d) = {}
         /\ d >= N => Behind(p, d) = Backends
         /\ d <= e => Behind(p, d) \subseteq Behind(p, e)
BY RouteAssumption DEF Behind, Distance, Backends

\* Moving the word by one lengthens the arc by the backend it moved past.
LEMMA BehindAdvance ==
  ASSUME NEW p \in Backends, NEW d \in Int
  PROVE  Behind(NextIndex(p), d) \subseteq Behind(p, d - 1) \union {p}
<1> SUFFICES ASSUME NEW b \in Backends, Distance(NextIndex(p), b) < d, b # p
             PROVE  Distance(p, b) < d - 1
  BY DEF Behind
<1>1. CASE p = N - 1
  <2>1. NextIndex(p) = 0
    BY <1>1, NextIndexCases
  <2> QED BY <1>1, <2>1, RouteAssumption DEF Distance, Backends
<1>2. CASE p # N - 1
  <2>1. NextIndex(p) = p + 1
    BY <1>2, NextIndexCases
  <2> QED BY <1>2, <2>1, RouteAssumption DEF Distance, Backends
<1> QED BY <1>1, <1>2

LEMMA InitArc == Init => ArcInv
BY DEF Init, ArcInv, Arc, GaveUpAtN
\* The steps of handler h that do not store: the word stands still, and no
\* failure is counted except those that move it next.
LEMMA QuietStep ==
  ASSUME IInv, NEW h \in Handlers, Proceed(h), pc[h] \notin {"retry", "return"}
  PROVE  /\ server_address' = server_address
         /\ \A g \in Handlers \ {h} :
              /\ pc'[g] = pc[g] /\ current'[g] = current[g]
              /\ servers_down'[g] = servers_down[g] /\ failed'[g] = failed[g]
              /\ disturbed'[g] = disturbed[g]
         /\ \/ pc'[h] = "idle" /\ failed'[h] = {}
            \/ /\ pc[h] # "idle" /\ pc'[h] \notin {"idle", "gateway"}
               /\ Counted(h)' <= Counted(h)
               /\ failed'[h] = failed[h] /\ disturbed'[h] = disturbed[h]
               /\ pc'[h] \in Holding =>
                    \/ pc[h] \in Holding /\ current'[h] = current[h]
                    \/ current'[h] = server_address
<1> USE DEF IInv, TypeOK, WordInRange, Counted, Holding, Exchange, Forwarding,
        wordVars, envVars, historyVars
<1>1. CASE CheckRange(h)
  BY <1>1, RouteAssumption DEF CheckRange, Backends
<1>2. CASE LoadIndex(h)
  BY <1>2 DEF LoadIndex
<1>3. CASE Choose(h)
  <2>1. \/ pc' = [pc EXCEPT ![h] = "connect"] /\ servers_down' = servers_down
        \/ /\ pc' = [pc EXCEPT ![h] = "retry"]
           /\ servers_down' = [servers_down EXCEPT ![h] = @ + 1]
    BY <1>3 DEF Choose
  <2> QED BY <1>3, <2>1 DEF Choose
<1>4. CASE Connect(h)
  BY <1>4 DEF Connect
<1>5. CASE Refused(h)
  BY <1>5 DEF Refused
<1>6. CASE SendRequest(h)
  BY <1>6 DEF SendRequest
<1>7. CASE SendFails(h)
  BY <1>7 DEF SendFails, Abandon
<1>8. CASE ForwardResponse(h)
  BY <1>8 DEF ForwardResponse
<1>9. CASE ResponseFails(h)
  BY <1>9 DEF ResponseFails, Abandon
<1>10. CASE BadGateway(h)
  BY <1>10 DEF BadGateway
<1>11. CASE Receive(h)
  BY <1>11 DEF Receive
<1>12. CASE WriteResponse(h)
  BY <1>12 DEF WriteResponse
<1>13. ~Retry(h) /\ ~Return(h)
  BY DEF Retry, Return
<1> QED
  BY <1>1, <1>2, <1>3, <1>4, <1>5, <1>6, <1>7, <1>8, <1>9, <1>10, <1>11,
     <1>12, <1>13 DEF Proceed

LEMMA QuietArc ==
  ASSUME IInv, ArcInv, NEW h \in Handlers, Proceed(h), IInv',
         pc[h] \notin {"retry", "return"}
  PROVE  ArcInv'
<1> USE QuietStep
<1>1. ASSUME NEW g \in Handlers \ {h}
      PROVE  (Arc(g) /\ GaveUpAtN(g) /\ failed[g] \subseteq Backends)'
  BY <1>1 DEF ArcInv, Arc, GaveUpAtN, Counted, Behind
<1>2. (Arc(h) /\ GaveUpAtN(h) /\ failed[h] \subseteq Backends)'
  <2>1. CASE pc'[h] = "idle" /\ failed'[h] = {}
    BY <2>1 DEF Arc, GaveUpAtN
  <2>2. CASE pc'[h] # "idle"
    <3>1. Counted(h) \in Int /\ Counted(h)' \in Int /\ server_address \in Backends
      BY DEF IInv, TypeOK, WordInRange, Counted
    <3>2. Behind(server_address, Counted(h)') \subseteq Behind(server_address, Counted(h))
      BY <2>2, <3>1, BehindFacts
    <3>3. ~disturbed'[h] => Behind(server_address, Counted(h)') \subseteq failed[h]
      BY <2>2, <3>2 DEF ArcInv, Arc
    <3>4. ~disturbed'[h] => (pc'[h] \in Holding => current'[h] = server_address)
      BY <2>2 DEF ArcInv, Arc
    <3>5. Behind(server_address, Counted(h))' = Behind(server_address, Counted(h)')
      BY DEF Behind, Counted
    <3> QED BY <2>2, <3>3, <3>4, <3>5 DEF ArcInv, Arc, GaveUpAtN
  <2> QED BY <2>1, <2>2, QuietStep
<1> QED BY <1>1, <1>2 DEF ArcInv

\* A store of handler h: every other request under way is disturbed, and its
\* own arc grows by the backend it moved the word past.
LEMMA RetryArc ==
  ASSUME IInv, ArcInv, NEW h \in Handlers, Retry(h)
  PROVE  ArcInv'
<1> USE DEF IInv, TypeOK, WordInRange, HeldInRange
<1>1. current[h] \in Backends
  BY DEF Retry, Holding
<1>2. ASSUME NEW g \in Handlers \ {h}
      PROVE  (Arc(g) /\ GaveUpAtN(g) /\ failed[g] \subseteq Backends)'
  <2>1. /\ pc'[g] = pc[g] /\ servers_down'[g] = servers_down[g]
        /\ failed'[g] = failed[g]
    BY <1>2 DEF Retry, Store
  <2>2. pc[g] # "idle" => disturbed'[g]
    BY <1>2 DEF Retry, Store
  <2> QED BY <1>2, <2>1, <2>2 DEF ArcInv, Arc, GaveUpAtN
<1>3. /\ pc'[h] = LoopTest(servers_down[h]) /\ servers_down'[h] = servers_down[h]
      /\ failed'[h] = failed[h] \union {current[h]}
      /\ server_address' = NextIndex(current[h])
      /\ disturbed'[h] <=> disturbed[h]
  BY DEF Retry, Store
<1>4. GaveUpAtN(h)'
  BY <1>3, RouteAssumption DEF GaveUpAtN, LoopTest
<1>5. Arc(h)'
  <2> SUFFICES ASSUME ~disturbed[h]
               PROVE  Behind(NextIndex(current[h]), servers_down[h])
                        \subseteq failed[h] \union {current[h]}
    BY <1>3 DEF Arc, LoopTest, Holding, Exchange, Forwarding, Counted, Behind
  <2>1. Behind(current[h], servers_down[h] - 1) \subseteq failed[h]
    BY DEF ArcInv, Arc, Retry, Holding, Counted
  <2> QED BY <1>1, <2>1, BehindAdvance
<1>6. failed'[h] \subseteq Backends
  BY <1>1, <1>3 DEF ArcInv
<1> QED BY <1>2, <1>4, <1>5, <1>6 DEF ArcInv

LEMMA ReturnArc ==
  ASSUME IInv, ArcInv, NEW h \in Handlers, Return(h)
  PROVE  ArcInv'
<1> USE DEF IInv, TypeOK
<1>1. ASSUME NEW g \in Handlers \ {h}
      PROVE  (Arc(g) /\ GaveUpAtN(g) /\ failed[g] \subseteq Backends)'
  <2>1. /\ pc'[g] = pc[g] /\ servers_down'[g] = servers_down[g]
        /\ failed'[g] = failed[g] /\ (pc[g] # "idle" => disturbed'[g])
    BY <1>1 DEF Return, Store
  <2> QED BY <1>1, <2>1 DEF ArcInv, Arc, GaveUpAtN
<1>2. pc'[h] = "idle" /\ failed'[h] = {}
  BY DEF Return
<1> QED BY <1>1, <1>2 DEF ArcInv, Arc, GaveUpAtN

LEMMA BeginArc ==
  ASSUME IInv, ArcInv, NEW h \in Handlers, Begin(h)
  PROVE  ArcInv'
<1> USE DEF IInv, TypeOK, WordInRange, Begin, wordVars, envVars, historyVars
<1>1. /\ pc'[h] = "check" /\ servers_down'[h] = 0
      /\ server_address' = server_address /\ failed' = failed
      /\ disturbed' = disturbed /\ current' = current
      /\ \A g \in Handlers \ {h} :
           pc'[g] = pc[g] /\ servers_down'[g] = servers_down[g]
  BY RouteAssumption DEF LoopTest
<1>2. ASSUME NEW g \in Handlers \ {h}
      PROVE  (Arc(g) /\ GaveUpAtN(g) /\ failed[g] \subseteq Backends)'
  BY <1>1, <1>2 DEF ArcInv, Arc, GaveUpAtN, Counted, Behind
<1>3. Behind(server_address, 0) = {}
  BY BehindFacts
<1>4. (Arc(h) /\ GaveUpAtN(h) /\ failed[h] \subseteq Backends)'
  BY <1>1, <1>3 DEF ArcInv, Arc, GaveUpAtN, Counted, Holding, Exchange, Forwarding, Behind
<1> QED BY <1>2, <1>4 DEF ArcInv

LEMMA NextArc == IInv /\ IInv' /\ ArcInv /\ [Next]_vars => ArcInv'
<1> SUFFICES ASSUME IInv, IInv', ArcInv, [Next]_vars PROVE ArcInv'
  OBVIOUS
<1>1. ASSUME NEW h \in Handlers, Begin(h) PROVE ArcInv'
  BY <1>1, BeginArc
<1>2. ASSUME NEW h \in Handlers, Proceed(h) PROVE ArcInv'
  <2>1. CASE pc[h] \notin {"retry", "return"}
    BY <1>2, <2>1, QuietArc
  <2>2. CASE pc[h] = "retry"
    <3>1. Retry(h)
      BY <1>2, <2>2 DEF Proceed, CheckRange, LoadIndex, Choose, Connect,
         Refused, SendRequest, SendFails, Receive, WriteResponse,
         ForwardResponse, ResponseFails,
         Return, BadGateway
    <3> QED BY <3>1, RetryArc
  <2>3. CASE pc[h] = "return"
    <3>1. Return(h)
      BY <1>2, <2>3 DEF Proceed, CheckRange, LoadIndex, Choose, Connect,
         Refused, SendRequest, SendFails, Receive, WriteResponse,
         ForwardResponse, ResponseFails,
         Retry, BadGateway
    <3> QED BY <3>1, ReturnArc
  <2> QED BY <2>1, <2>2, <2>3
<1>3. CASE Environment \/ UNCHANGED vars
  <2>1. UNCHANGED <<server_address, pc, current, servers_down, failed, disturbed>>
    BY <1>3 DEF Environment, Outage, Recovery, ClientStalls, ClientReads, ClientReset,
       vars, wordVars,
       threadVars, historyVars
  <2> QED BY <2>1 DEF ArcInv, Arc, GaveUpAtN, Counted, Behind
<1> QED BY <1>1, <1>2, <1>3 DEF Next

LEMMA UndisturbedFacts == IInv /\ ArcInv => UndisturbedGatewayError
<1> SUFFICES ASSUME IInv, ArcInv, NEW h \in Handlers,
                    pc[h] = "gateway", ~disturbed[h]
             PROVE  failed[h] = Backends
  BY DEF UndisturbedGatewayError
<1>1. /\ Behind(server_address, servers_down[h]) \subseteq failed[h]
      /\ servers_down[h] >= N /\ failed[h] \subseteq Backends
  BY DEF ArcInv, Arc, GaveUpAtN, Counted
<1>2. Behind(server_address, servers_down[h]) = Backends
  BY <1>1, BehindFacts DEF IInv, TypeOK, WordInRange
<1> QED BY <1>1, <1>2

\* A request that no other handler disturbed is given up with 502 only when
\* every backend of the route failed it, for every number of backends.
THEOREM GatewayErrorSafe == Spec => []UndisturbedGatewayError
BY UndisturbedFacts, Inductive, InitArc, NextArc, PTL DEF Spec
-----------------------------------------------------------------------------
(***************************************************************************)
(* The safety part of ImplementsRotation.  With one handler nobody         *)
(* disturbs a request, so Arc says that it always stores past the backend  *)
(* under the word (PassOver, Serve), and UndisturbedGatewayError that a    *)
(* 502 has passed them all (GiveUp).  All other steps are stutters.        *)
(***************************************************************************)
Solo == \A h \in Handlers :
          ~disturbed[h] /\ (pc[h] = "idle" => failed[h] = {})

SoloInv == IInv /\ ArcInv /\ Solo

\* The refinement mapping, for the only handler.
LEMMA SoloMapping ==
  ASSUME NEW h, Handlers = {h}
  PROVE  /\ (\E g \in Handlers : pc[g] # "idle") <=> pc[h] # "idle"
         /\ UNION {failed[g] : g \in Handlers} = failed[h]
         /\ (\E g \in Handlers : pc'[g] # "idle") <=> pc'[h] # "idle"
         /\ UNION {failed'[g] : g \in Handlers} = failed'[h]
OBVIOUS

LEMMA NextSolo ==
  ASSUME NEW h, Handlers = {h}, SoloInv, [Next]_vars
  PROVE  SoloInv'
<1> USE DEF SoloInv
<1>1. IInv' /\ ArcInv'
  BY NextIInv, NextArc
<1>2. Solo'
  <2> USE DEF Solo, IInv, TypeOK
  <2>1. CASE Begin(h)
    BY <2>1 DEF Begin, historyVars, LoopTest
  <2>2. CASE Proceed(h)
    <3>1. CASE pc[h] \notin {"retry", "return"}
      <4>1. CASE BadGateway(h)
        BY <4>1 DEF BadGateway
      <4>2. CASE ~BadGateway(h)
        BY <2>2, <3>1, <4>2, <1>1
           DEF Proceed, CheckRange, LoadIndex, Choose, Connect, Refused,
               SendRequest, SendFails, Receive, WriteResponse, ForwardResponse,
       ResponseFails, Abandon,
               Retry, Return, historyVars
      <4> QED BY <4>1, <4>2
    <3>2. CASE Retry(h)
      BY <3>2 DEF Retry, Store, LoopTest
    <3>3. CASE Return(h)
      BY <3>3 DEF Return, Store
    <3> QED
      BY <2>2, <3>1, <3>2, <3>3
         DEF Proceed, CheckRange, LoadIndex, Choose, Connect, Refused,
             SendRequest, SendFails, Receive, WriteResponse, ForwardResponse,
               ResponseFails, BadGateway
  <2>3. CASE Environment \/ UNCHANGED vars
    BY <2>3 DEF Environment, Outage, Recovery, ClientStalls, ClientReads, ClientReset,
       vars, threadVars,
       historyVars
  <2> QED BY <2>1, <2>2, <2>3 DEF Next
<1> QED BY <1>1, <1>2

\* Every step is a step of the rotation or leaves what it sees alone.
LEMMA SoloStep ==
  ASSUME NEW h, Handlers = {h}, SoloInv, SoloInv', [Next]_vars
  PROVE  [Promise!Next]_(Promise!rotationVars)
<1> USE SoloMapping DEF Promise!rotationVars
<1>1. ~disturbed[h] /\ (pc[h] = "idle" => failed[h] = {})
  BY DEF SoloInv, Solo
<1>2. pc \in [Handlers -> Busy \union {"idle"}] /\ failed \in [Handlers -> SUBSET Nat]
  BY DEF SoloInv, IInv, TypeOK
<1>3. pc[h] \in Holding => current[h] = server_address
  BY <1>1 DEF SoloInv, ArcInv, Arc, Holding, Exchange, Forwarding
<1>4. CASE Begin(h)
  <2>1. Promise!Request
    BY <1>1, <1>2, <1>4 DEF Begin, Promise!Request, LoopTest, wordVars, historyVars
  <2> QED BY <2>1 DEF Promise!Next
<1>5. CASE Retry(h)
  <2>1. Promise!PassOver
    BY <1>2, <1>3, <1>5 DEF Retry, Store, Promise!PassOver, LoopTest, NextIndex,
       Holding
  <2> QED BY <2>1 DEF Promise!Next
<1>6. CASE Return(h)
  <2>1. Promise!Serve
    BY <1>2, <1>3, <1>6 DEF Return, Store, Promise!Serve, NextIndex, Holding
  <2> QED BY <2>1 DEF Promise!Next
<1>7. CASE BadGateway(h)
  <2>1. failed[h] = Backends
    BY <1>1, <1>7, UndisturbedFacts DEF SoloInv, BadGateway,
       UndisturbedGatewayError
  <2>2. Promise!GiveUp
    BY <1>2, <1>7, <2>1 DEF BadGateway, Promise!GiveUp, Promise!Ring, Backends,
       wordVars
  <2> QED BY <2>2 DEF Promise!Next
<1>8. CASE Proceed(h) /\ ~Retry(h) /\ ~Return(h) /\ ~BadGateway(h)
  <2>1. /\ server_address' = server_address /\ failed' = failed
        /\ pc[h] # "idle" /\ pc'[h] # "idle"
    BY <1>2, <1>8 DEF Proceed, CheckRange, LoadIndex, Choose, Connect, Refused,
       SendRequest, SendFails, Receive, WriteResponse, ForwardResponse,
       ResponseFails, Abandon,
       wordVars, historyVars
  <2> QED BY <2>1
<1>9. CASE Environment \/ UNCHANGED vars
  <2>1. UNCHANGED <<server_address, pc, failed>>
    BY <1>9 DEF Environment, Outage, Recovery, ClientStalls, ClientReads, ClientReset,
       vars, wordVars,
       threadVars, historyVars
  <2> QED BY <2>1
<1> QED BY <1>4, <1>5, <1>6, <1>7, <1>8, <1>9 DEF Next

\* A route served by one thread keeps the promise of Rotation: every backend
\* tried moves the cursor by exactly one, requests are answered by the backend
\* under it, and a 502 has passed over all of them, for every number of
\* backends, however they go down and come back, and whatever the clients do.
\* (ImplementsRotation without its liveness, which is left to TLC.)
THEOREM SoloRotates ==
  ASSUME NEW h, Handlers = {h}
  PROVE  Spec => Promise!Safe
<1>1. Init => Promise!Init
  BY SoloMapping DEF Init, Promise!Init
<1>2. Init => SoloInv
  BY InitIInv, InitArc DEF SoloInv, Solo, Init
<1>3. SoloInv /\ [Next]_vars => SoloInv'
  BY NextSolo
<1>4. SoloInv /\ SoloInv' /\ [Next]_vars => [Promise!Next]_(Promise!rotationVars)
  BY SoloStep
<1> QED BY <1>1, <1>2, <1>3, <1>4, PTL DEF Spec, Promise!Safe
=============================================================================
