------------------------ MODULE ConfigManagerProofs ------------------------
(***************************************************************************)
(* Theorems about ConfigManager for every number of handlers, pushes and   *)
(* spurious failures.                                                      *)
(***************************************************************************)
EXTENDS ConfigManager, TLAPS

(***************************************************************************)
(* The inductive invariant.                                                *)
(*                                                                         *)
(* FreshInv: the head only grows, and each copy of it down the line, from  *)
(* the load of the event loop to what a handler uses, is at least as new   *)
(* as the head was when the request was reported.                          *)
(***************************************************************************)
HeadInv == head <= pushed
LoopInv ==
  /\ config <= head /\ woken <= head
  /\ loop = "copy" => config <= loaded /\ woken <= loaded /\ loaded <= head
  /\ loop = "dispatch" => woken <= config
QueuedInv == \A h \in Handlers : handler[h] = "queued" => owed[h] <= config
FreshInv == HeadInv /\ LoopInv /\ QueuedInv /\ HandlersUseFreshConfig

(***************************************************************************)
(* PushInv: which nodes and contents are live at each step of a push, as   *)
(* long as no exchange failed spuriously.  Exchange leaves the loop only   *)
(* with the head moved to the new node, so what is freed is the other one. *)
(***************************************************************************)
Pushing == push \in {"exchange", "deinit", "destroy"}
LiveNodes == IF Pushing THEN {pushed, old_config} ELSE {pushed}
LiveContents ==
  IF push \in {"exchange", "deinit"} THEN {pushed, old_config}
  ELSE IF push = "returned" THEN {} ELSE {pushed}
Replacing ==
  /\ Pushing => old_config = pushed - 1
  /\ push = "exchange" => head \in {pushed, old_config}
  /\ push # "exchange" => head = pushed
LiveInv ==
  \A n \in Nodes : /\ node[n] = "live" <=> n \in LiveNodes
                   /\ content[n] = "live" <=> n \in LiveContents
PushInv == spurious = 0 => Replacing /\ LiveInv

IInv == TypeOK /\ FreshInv /\ PushInv

-----------------------------------------------------------------------------

LEMMA InitIInv == Init => IInv
<1> SUFFICES ASSUME Init PROVE IInv OBVIOUS
<1> USE BoundAssumption DEF Init, Nodes
<1>1. TypeOK BY DEF TypeOK, Memory
<1>2. FreshInv
  BY DEF FreshInv, HeadInv, LoopInv, QueuedInv, HandlersUseFreshConfig
<1>3. PushInv
  BY DEF PushInv, Replacing, LiveInv, Pushing, LiveNodes, LiveContents
<1> QED BY <1>1, <1>2, <1>3 DEF IInv

\* Each step keeps every variable in its type.
LEMMA NextTypeOK == TypeOK /\ HeadInv /\ Next => TypeOK'
<1> SUFFICES ASSUME TypeOK, HeadInv, Next PROVE TypeOK' OBVIOUS
<1> USE BoundAssumption DEF TypeOK, Nodes, Memory, pushVars, loopVars, handlerVars
<1>1. CASE PushBegin
  BY <1>1 DEF PushBegin
<1>2. CASE Exchange
  BY <1>2 DEF Exchange
<1>3. CASE SpuriousFailure
  BY <1>3 DEF SpuriousFailure
<1>4. CASE Deinit
  BY <1>4 DEF Deinit
<1>5. CASE Destroy
  BY <1>5 DEF Destroy
<1>6. CASE Wake \/ Load \/ Copy \/ EndBatch
  BY <1>6 DEF Wake, Load, Copy, EndBatch
<1>7. ASSUME NEW h \in Handlers, Dispatch(h) PROVE TypeOK'
  BY <1>7 DEF Dispatch
<1>8. ASSUME NEW h \in Handlers, TakeStrategy(h) PROVE TypeOK'
  BY <1>8 DEF TakeStrategy
<1>9. ASSUME NEW h \in Handlers, Finish(h) PROVE TypeOK'
  BY <1>9 DEF Finish
<1>10. CASE WatcherReturns
  BY <1>10 DEF WatcherReturns
<1> QED
  BY <1>1, <1>2, <1>3, <1>4, <1>5, <1>6, <1>7, <1>8, <1>9, <1>10 DEF Next, PushStep

\* No step of a push takes the head back, and none of the event loop or of a
\* handler touches it.
LEMMA HeadGrows ==
  ASSUME TypeOK, FreshInv, Next
  PROVE  head <= head' /\ head' <= pushed'
<1> USE DEF TypeOK, FreshInv, HeadInv, Nodes, pushVars, loopVars, handlerVars
<1>1. CASE PushBegin BY <1>1 DEF PushBegin
<1>2. CASE PushStep \/ WatcherReturns
  BY <1>2 DEF PushStep, Exchange, SpuriousFailure, Deinit, Destroy, WatcherReturns
<1>3. CASE Wake \/ Load \/ Copy \/ EndBatch
  BY <1>3 DEF Wake, Load, Copy, EndBatch
<1>4. CASE \E h \in Handlers : Dispatch(h) \/ TakeStrategy(h) \/ Finish(h)
  BY <1>4 DEF Dispatch, TakeStrategy, Finish
<1> QED BY <1>1, <1>2, <1>3, <1>4 DEF Next

\* What the event loop and the handlers hold stays fresh.
LEMMA NextFresh == TypeOK /\ FreshInv /\ Next => FreshInv'
<1> SUFFICES ASSUME TypeOK, FreshInv, Next PROVE FreshInv' OBVIOUS
<1>1. head <= head' /\ head' <= pushed' BY HeadGrows
<1>2. TypeOK' BY NextTypeOK DEF FreshInv
<1> USE <1>1, <1>2 DEF TypeOK, Nodes, FreshInv, HeadInv, LoopInv, QueuedInv,
        HandlersUseFreshConfig, pushVars, loopVars, handlerVars
<1>3. CASE UNCHANGED <<loopVars, handlerVars>>
  BY <1>3
<1>4. CASE Wake BY <1>4 DEF Wake
<1>5. CASE Load BY <1>5 DEF Load
<1>6. CASE Copy
  <2>1. config <= config' /\ config' <= head' /\ woken' <= config'
    BY <1>6 DEF Copy
  <2> QED BY <1>6, <2>1 DEF Copy
<1>7. CASE EndBatch BY <1>7 DEF EndBatch
<1>8. ASSUME NEW h \in Handlers, Dispatch(h) PROVE FreshInv'
  BY <1>8 DEF Dispatch
<1>9. ASSUME NEW h \in Handlers, TakeStrategy(h) PROVE FreshInv'
  BY <1>9 DEF TakeStrategy
<1>10. ASSUME NEW h \in Handlers, Finish(h) PROVE FreshInv'
  BY <1>10 DEF Finish
<1>11. PushBegin \/ PushStep \/ WatcherReturns => UNCHANGED <<loopVars, handlerVars>>
  BY DEF PushBegin, PushStep, Exchange, SpuriousFailure, Deinit, Destroy, WatcherReturns
<1> QED
  BY <1>3, <1>4, <1>5, <1>6, <1>7, <1>8, <1>9, <1>10, <1>11 DEF Next

\* A push retires what it replaced and nothing else.
LEMMA NextPush == TypeOK /\ HeadInv /\ PushInv /\ Next => PushInv'
<1> SUFFICES ASSUME TypeOK, HeadInv, PushInv, Next, spurious' = 0
             PROVE  (Replacing /\ LiveInv)'
  BY DEF PushInv
<1>1. spurious = 0 /\ ~SpuriousFailure
  BY DEF Next, PushBegin, PushStep, Exchange, SpuriousFailure, Deinit, Destroy,
         WatcherReturns, Wake, Load, Copy, EndBatch, Dispatch, TakeStrategy, Finish,
         TypeOK, pushVars, loopVars, handlerVars
<1> USE <1>1, BoundAssumption DEF TypeOK, Nodes, HeadInv, PushInv, Replacing,
        LiveInv, Pushing, LiveNodes, LiveContents
<1>2. CASE PushBegin
  <2>1. /\ pushed' = pushed + 1 /\ old_config' = pushed /\ head' = pushed
        /\ push' = "exchange" /\ pushed + 1 \in Nodes
        /\ node' = [node EXCEPT ![pushed + 1] = "live"]
        /\ content' = [content EXCEPT ![pushed + 1] = "live"]
    BY <1>2 DEF PushBegin
  <2>2. \A n \in Nodes : /\ node[n] = "live" <=> n = pushed
                         /\ content[n] = "live" <=> n = pushed
    BY <1>2 DEF PushBegin
  <2>3. LiveInv' BY <2>1, <2>2
  <2> QED BY <2>1, <2>3
<1>3. CASE Exchange
  <2>1. UNCHANGED <<node, content, pushed, old_config>> /\ push = "exchange"
    BY <1>3 DEF Exchange
  <2>2. push' \in {"exchange", "deinit"} BY <1>3 DEF Exchange
  <2>3. LiveInv' BY <2>1, <2>2
  <2>4. Replacing' BY <1>3 DEF Exchange
  <2> QED BY <2>3, <2>4
<1>4. CASE Deinit
  <2>1. LiveInv' BY <1>4 DEF Deinit
  <2> QED BY <1>4, <2>1 DEF Deinit
<1>5. CASE Destroy
  <2>1. LiveInv' BY <1>5 DEF Destroy
  <2> QED BY <1>5, <2>1 DEF Destroy
<1>6. CASE UNCHANGED pushVars
  BY <1>6 DEF pushVars
<1>7. Wake \/ Load \/ Copy \/ EndBatch
      \/ (\E h \in Handlers : Dispatch(h) \/ TakeStrategy(h) \/ Finish(h))
        => UNCHANGED pushVars
  BY DEF Wake, Load, Copy, EndBatch, Dispatch, TakeStrategy, Finish, pushVars
<1>8. CASE WatcherReturns
  <2>1. LiveInv' BY <1>8 DEF WatcherReturns
  <2> QED BY <1>8, <2>1 DEF WatcherReturns
<1> QED BY <1>1, <1>2, <1>3, <1>4, <1>5, <1>6, <1>7, <1>8 DEF Next, PushStep

LEMMA NextIInv == IInv /\ [Next]_vars => IInv'
<1>1. CASE Next
  BY <1>1, NextTypeOK, NextFresh, NextPush DEF IInv, FreshInv
<1>2. CASE UNCHANGED vars
  BY <1>2 DEF IInv, vars, pushVars, loopVars, handlerVars, TypeOK, Memory,
     FreshInv, HeadInv, LoopInv, QueuedInv, HandlersUseFreshConfig, PushInv,
     Replacing, LiveInv, Pushing, LiveNodes, LiveContents
<1> QED BY <1>1, <1>2

LEMMA Inductive == Spec => []IInv
BY InitIInv, NextIInv, PTL DEF Spec

-----------------------------------------------------------------------------

\* The variables keep their types: a state of ConfigManager is one the code
\* of pushNewConfig, mainEventLoop and handleRequest can describe.
THEOREM TypeCorrect == Spec => []TypeOK
<1>1. IInv => TypeOK BY DEF IInv
<1> QED BY <1>1, Inductive, PTL

\* pushNewConfig never leaves current_config on retired memory, whatever the
\* number of pushes and wherever one is, unless a weak exchange failed
\* spuriously.
THEOREM HeadSafe == Spec => []HeadStaysLive
<1>1. IInv => HeadStaysLive
  BY DEF IInv, TypeOK, PushInv, Replacing, LiveInv, Pushing, LiveNodes, LiveContents,
         HeadStaysLive
<1> QED BY <1>1, Inductive, PTL

\* pushNewConfig neither leaks a node nor retires one twice.
THEOREM NoLeakNoDoubleFree == Spec => []OneLiveNode
<1>1. IInv => OneLiveNode
  BY DEF IInv, TypeOK, PushInv, Replacing, LiveInv, Pushing, LiveNodes, LiveContents,
         OneLiveNode
<1> QED BY <1>1, Inductive, PTL

\* When pushNewConfig has returned, getCurrentConfig gives what it pushed.
THEOREM MostRecent == Spec => []CurrentIsMostRecent
<1>1. IInv => CurrentIsMostRecent
  BY DEF IInv, PushInv, Replacing, TypeOK, CurrentIsMostRecent
<1> QED BY <1>1, Inductive, PTL

\* handleRequest never uses a configuration older than the one that was
\* current when epoll reported its request, although it reads the event
\* loop's slot later, and spurious failures make no difference to that.
THEOREM FreshConfig == Spec => []HandlersUseFreshConfig
<1>1. IInv => HandlersUseFreshConfig BY DEF IInv, FreshInv
<1> QED BY <1>1, Inductive, PTL

-----------------------------------------------------------------------------
(***************************************************************************)
(* ImplementsRegister.  Of a push only the exchange is seen, of the event  *)
(* loop only the return of epoll.wait: all else it does to its copies is a *)
(* stutter.  FreshInv is what makes TakeStrategy a Serve.                  *)
(***************************************************************************)
LEMMA RegisterStep ==
  ASSUME TypeOK, FreshInv, [Next]_vars
  PROVE  [Register!Next]_(Register!registerVars)
<1> USE DEF TypeOK, Nodes, FreshInv, Register!registerVars, pushVars, loopVars,
        handlerVars
<1>1. CASE PushBegin
  BY <1>1 DEF PushBegin, Register!Next, Register!Offer
<1>2. CASE Exchange
  <2>1. Register!Publish \/ UNCHANGED Register!registerVars
    BY <1>2 DEF Exchange, HeadInv, Register!Publish
  <2> QED BY <2>1 DEF Register!Next
<1>3. CASE SpuriousFailure \/ Deinit \/ Destroy \/ WatcherReturns
  BY <1>3 DEF SpuriousFailure, Deinit, Destroy, WatcherReturns
<1>4. CASE Wake
  BY <1>4 DEF Wake, Register!Next, Register!Report
<1>5. CASE Load \/ Copy \/ EndBatch
  BY <1>5 DEF Load, Copy, EndBatch
<1>6. ASSUME NEW h \in Handlers, Dispatch(h)
      PROVE  Register!Receive(h)
  BY <1>6 DEF Dispatch, Register!Receive
<1>7. ASSUME NEW h \in Handlers, TakeStrategy(h)
      PROVE  Register!Serve(h)
  <2>1. config \in owed[h] .. head
    BY <1>7 DEF TakeStrategy, QueuedInv, LoopInv
  <2> QED BY <1>7, <2>1 DEF TakeStrategy, Register!Serve
<1>8. ASSUME NEW h \in Handlers, Finish(h)
      PROVE  Register!Complete(h)
  BY <1>8 DEF Finish, Register!Complete
<1>9. CASE UNCHANGED vars
  BY <1>9 DEF vars
<1> QED
  BY <1>1, <1>2, <1>3, <1>4, <1>5, <1>6, <1>7, <1>8, <1>9
     DEF Next, PushStep, Register!Next

\* ConfigManager implements the register of configurations: pushNewConfig,
\* getCurrentConfig and the copies of the event loop, for every number of
\* handlers, pushes and spurious failures.
THEOREM ManagerIsRegister == Spec => ImplementsRegister
<1>1. Init => Register!Init
  BY DEF Init, Register!Init
<1>2. IInv /\ [Next]_vars => [Register!Next]_(Register!registerVars)
  BY RegisterStep DEF IInv
<1> QED
  BY <1>1, <1>2, Inductive, PTL DEF Spec, ImplementsRegister, Register!Spec
=============================================================================
