--------------------------- MODULE ConfigManager ---------------------------
(***************************************************************************)
(* The configuration of one worker process, shared by its threads through  *)
(* ConfigManager (modules/config/config_managment.zig): the watcher pushes *)
(* new configurations, the event loop copies the current one after every   *)
(* epoll wait, and the pool threads that handle requests reach it through  *)
(* a pointer to the event loop's copy (src/worker.zig).                    *)
(*                                                                         *)
(* A node and the configuration it holds are named by the order in which   *)
(* they were pushed.  The copy of a Config is a copy of pointers: what     *)
(* they point to (routes, strategies, mappings) is freed by deinit.  The   *)
(* TLS context is left out here.                                           *)
(***************************************************************************)
EXTENDS Integers

CONSTANTS
  Handlers,        \* threads of the pool that handle requests
  MaxPushes,       \* bound: configurations pushed after the first
  MaxSpurious      \* bound: spurious failures of the weak exchange

ASSUME BoundAssumption == MaxPushes \in Nat /\ MaxSpurious \in Nat

Nodes == 1 .. (MaxPushes + 1)

VARIABLES
  head,            \* the node of the current configuration
  node,            \* state of each node's memory
  content,         \* state of what the configuration in it points to
  push,            \* where the watcher is in pushNewConfig, or "returned" for good
  pushed,          \* the node pushed last
  old_config,      \* the head that push read
  spurious,        \* budget used
  loop,            \* where the event loop is
  loaded,          \* the head getCurrentConfig read
  config,          \* the event loop's copy, to which handlers point
  handler,         \* where each handler is
  using,           \* the configuration each handler took from that copy
  woken,           \* history: the head when epoll.wait returned last
  owed             \* history: the value of woken when a handler was queued

pushVars == <<head, node, content, push, pushed, old_config, spurious>>
loopVars == <<loop, loaded, config, woken>>
handlerVars == <<handler, using, owed>>
vars == <<pushVars, loopVars, handlerVars>>

Memory == {"none", "live", "freed"}

TypeOK ==
  /\ head \in Nodes /\ pushed \in Nodes /\ old_config \in Nodes
  /\ node \in [Nodes -> Memory] /\ content \in [Nodes -> Memory]
  /\ push \in {"idle", "exchange", "deinit", "destroy", "returned"}
  /\ spurious \in 0 .. MaxSpurious
  /\ loop \in {"wait", "load", "copy", "dispatch"}
  /\ loaded \in Nodes /\ config \in Nodes /\ woken \in Nodes
  /\ handler \in [Handlers -> {"idle", "queued", "using"}]
  /\ using \in [Handlers -> Nodes] /\ owed \in [Handlers -> Nodes]

\* main.zig pushes the first configuration before any worker is forked.
Init ==
  /\ head = 1 /\ pushed = 1 /\ old_config = 1
  /\ node = [n \in Nodes |-> IF n = 1 THEN "live" ELSE "none"]
  /\ content = node
  /\ push = "idle" /\ spurious = 0
  /\ loop = "wait" /\ loaded = 1 /\ config = 1 /\ woken = 1
  /\ handler = [h \in Handlers |-> "idle"]
  /\ using = [h \in Handlers |-> 1] /\ owed = [h \in Handlers |-> 1]

-----------------------------------------------------------------------------
(* pushNewConfig, run by the watcher alone.                                *)

PushBegin ==
  /\ push = "idle"
  /\ pushed < MaxPushes + 1
  /\ pushed' = pushed + 1
  /\ node' = [node EXCEPT ![pushed + 1] = "live"]
  /\ content' = [content EXCEPT ![pushed + 1] = "live"]
  /\ old_config' = head
  /\ push' = "exchange"
  /\ UNCHANGED <<head, spurious, loopVars, handlerVars>>

\* Faulty Exchange: the exchange ends the loop before the head is replaced.
ExchangeAfterRetiring ==
  /\ push = "exchange"
  /\ push' = "deinit"
  /\ head' = IF head = old_config THEN head ELSE pushed
  /\ UNCHANGED <<node, content, pushed, old_config, spurious, loopVars, handlerVars>>
\* Faulty Exchange: the head is compared and not replaced.
ExchangeStoresNothing ==
  /\ push = "exchange"
  /\ push' = "deinit"
  /\ UNCHANGED <<head, node, content, pushed, old_config, spurious, loopVars, handlerVars>>
\* Faulty Exchange: the loop has no way out.
ExchangeNeverGivesUp ==
  /\ push = "exchange"
  /\ head' = pushed
  /\ UNCHANGED <<node, content, push, pushed, old_config, spurious, loopVars, handlerVars>>
\* One turn of the loop.  cmpxchgWeak returns null when it exchanged, and the
\* code goes round again; any other result, which the second turn gets
\* because the first one replaced the head, ends the loop.
Exchange ==
  /\ push = "exchange"
  /\ head' = IF head = old_config THEN pushed ELSE head
  /\ push' = IF head = old_config THEN "exchange" ELSE "deinit"
  /\ UNCHANGED <<node, content, pushed, old_config, spurious, loopVars, handlerVars>>

\* The weak exchange may fail although the head is the expected one.
SpuriousFailure ==
  /\ push = "exchange"
  /\ head = old_config
  /\ spurious < MaxSpurious
  /\ spurious' = spurious + 1
  /\ push' = "deinit"
  /\ UNCHANGED <<head, node, content, pushed, old_config, loopVars, handlerVars>>

\* old_config.data.deinit()
Deinit ==
  /\ push = "deinit"
  /\ content' = [content EXCEPT ![old_config] = "freed"]
  /\ push' = "destroy"
  /\ UNCHANGED <<head, node, pushed, old_config, spurious, loopVars, handlerVars>>

\* Faulty Destroy: the old node is not destroyed.
ReturnWithoutDestroy ==
  /\ push = "destroy"
  /\ push' = "idle"
  /\ UNCHANGED <<head, node, content, pushed, old_config, spurious, loopVars, handlerVars>>
\* Faulty Destroy: the head is cleared with the old node.
DestroyClearsHead ==
  /\ push = "destroy"
  /\ node' = [node EXCEPT ![old_config] = "freed"]
  /\ head' = IF head = old_config THEN 0 ELSE head
  /\ push' = "idle"
  /\ UNCHANGED <<content, pushed, old_config, spurious, loopVars, handlerVars>>
\* self.allocator.destroy(old_config)
Destroy ==
  /\ push = "destroy"
  /\ node' = [node EXCEPT ![old_config] = "freed"]
  /\ push' = "idle"
  /\ UNCHANGED <<head, content, pushed, old_config, spurious, loopVars, handlerVars>>

\* configChangeWatcher returns when a text cannot be read, parsed or loaded, and
\* `defer config.deinit()` frees what it loaded last, which is installed and
\* stays so.  With nothing loaded it frees undefined memory: that worker dies.
WatcherReturns ==
  /\ push = "idle"
  /\ pushed > 1
  /\ content' = [content EXCEPT ![pushed] = "freed"]
  /\ push' = "returned"
  /\ UNCHANGED <<head, node, pushed, old_config, spurious, loopVars, handlerVars>>

-----------------------------------------------------------------------------
(* mainEventLoop and handleRequest.                                        *)

Wake ==
  /\ loop = "wait"
  /\ loop' = "load"
  /\ woken' = head
  /\ UNCHANGED <<pushVars, loaded, config, handlerVars>>

\* Faulty Load: the event loop keeps the configuration it has.
LoadCached ==
  /\ loop = "load"
  /\ loaded' = config
  /\ loop' = "copy"
  /\ UNCHANGED <<pushVars, config, woken, handlerVars>>
\* getCurrentConfig: the head is loaded, then what it points to is copied.
Load ==
  /\ loop = "load"
  /\ loaded' = head
  /\ loop' = "copy"
  /\ UNCHANGED <<pushVars, config, woken, handlerVars>>

Copy ==
  /\ loop = "copy"
  /\ config' = loaded
  /\ loop' = "dispatch"
  /\ UNCHANGED <<pushVars, loaded, woken, handlerVars>>

\* thread_pool.spawnWg(handleRequest, &config): a pointer to the copy, which
\* the next turn of the loop overwrites.
Dispatch(h) ==
  /\ loop = "dispatch"
  /\ handler[h] = "idle"
  /\ handler' = [handler EXCEPT ![h] = "queued"]
  /\ owed' = [owed EXCEPT ![h] = woken]
  /\ UNCHANGED <<pushVars, loopVars, using>>

EndBatch ==
  /\ loop = "dispatch"
  /\ loop' = "wait"
  /\ UNCHANGED <<pushVars, loaded, config, woken, handlerVars>>

\* The request has been read; config.conf.strategy_hash.get(path).
TakeStrategy(h) ==
  /\ handler[h] = "queued"
  /\ handler' = [handler EXCEPT ![h] = "using"]
  /\ using' = [using EXCEPT ![h] = config]
  /\ UNCHANGED <<pushVars, loopVars, owed>>

Finish(h) ==
  /\ handler[h] = "using"
  /\ handler' = [handler EXCEPT ![h] = "idle"]
  /\ UNCHANGED <<pushVars, loopVars, using, owed>>

-----------------------------------------------------------------------------

PushStep == Exchange \/ SpuriousFailure \/ Deinit \/ Destroy

Next ==
  \/ PushBegin \/ PushStep \/ WatcherReturns
  \/ Wake \/ Load \/ Copy \/ EndBatch
  \/ \E h \in Handlers : Dispatch(h) \/ TakeStrategy(h) \/ Finish(h)

\* The watcher thread is scheduled; nothing else needs to be.
Spec == Init /\ [][Next]_vars /\ WF_vars(PushStep)

-----------------------------------------------------------------------------
(* Properties.                                                             *)

\* While no exchange has failed spuriously, the loop that tests the result of
\* cmpxchgWeak the wrong way round still keeps the head on live memory at
\* every step: the old node is retired only once it has been replaced.  Only
\* the return of the watcher takes the contents of the current configuration.
HeadStaysLive ==
  spurious = 0 =>
    node[head] = "live" /\ (push # "returned" => content[head] = "live")

\* Nor does it leak or retire twice: between two pushes, and once there are no
\* more, the head is the only live node, and what a push retires is live.
OneLiveNode ==
  spurious = 0 =>
    /\ push \in {"idle", "returned"} => {n \in Nodes : node[n] = "live"} = {head}
    /\ push = "deinit" => content[old_config] = "live"

\* config_managment.zig:113, "Verify the current config matches the most
\* recent one", once pushNewConfig has returned.
CurrentIsMostRecent ==
  spurious = 0 /\ push \in {"idle", "returned"} => head = pushed

\* A handler uses a configuration at least as new as the head when the epoll
\* wait that reported its request returned, although it reads a slot that
\* later turns of the loop overwrite.
HandlersUseFreshConfig ==
  \A h \in Handlers : handler[h] = "using" => using[h] >= owed[h]

\* The manager is the register promised to the requests: the head moves to the
\* latest push alone, and a request is served by nothing older than the head when
\* epoll reported it and nothing that has not been the head yet, although there
\* are two copies in between and the exchange may fail.
Register == INSTANCE ConfigRegister WITH
  Requests <- Handlers,
  offered  <- pushed,
  current  <- head,
  batch    <- woken,
  request  <- handler,
  oldest   <- owed,
  uses     <- using

ImplementsRegister == Register!Spec

\* The exchange loop ends, whatever the weak exchange does.
PushEnds == push \in {"exchange", "deinit", "destroy"} ~> push = "idle"

\* config_managment.zig:202, "Verify no errors occurred", of readers that run
\* during a push: what they read is not freed memory.
ReadersSeeLiveConfig ==
  /\ loop = "copy" => node[loaded] = "live"
  /\ loop = "dispatch" => content[config] = "live"
  /\ \A h \in Handlers : handler[h] = "using" => content[using[h]] = "live"

=============================================================================
