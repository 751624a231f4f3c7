------------------------------- MODULE Builder -------------------------------
(***************************************************************************)
(* Config.init of a configuration whose route memories are to be created   *)
(* (config_builder.zig, applyConfig in config.zig): the fields are         *)
(* validated in order, each route leaves an array of backends and a named  *)
(* memory behind, and an error half way has to take back what was made.    *)
(*                                                                         *)
(* The file is chosen as it is read: each step picks what it finds there.  *)
(***************************************************************************)
EXTENDS Routing, FiniteSets

CONSTANTS
  Keys,      \* keys of routes a file may have
  Targets    \* targets of requests, which begin with a slash

ASSUME KeysAssumption == General \in Keys /\ Keys \subseteq Seq(STRING)

VARIABLES
  build,       \* where Config.init is
  context,     \* the TLS context: "none", "live" or "freed"
  allocated,   \* the keys for which an array of backends was allocated
  frees,       \* how often each of these arrays was freed
  routes,      \* the keys put in Builder.routes
  memory,      \* the named memory of each key, for version 1
  strategies   \* the keys whose strategy has opened its memory

buildVars == <<build, context, allocated, frees, routes, memory, strategies>>

BuilderTypeOK ==
  /\ build \in {"fields", "tls", "routes", "strategies",
                "accepted", "refused", "undone", "panicked",
                "closed"}
  /\ context \in {"none", "live", "freed"}
  /\ allocated \subseteq Keys /\ frees \in [Keys -> 0 .. 2]
  /\ routes \subseteq allocated /\ strategies \subseteq routes
  /\ memory \in [Keys -> {"none", "stale", "fresh"}]

\* The memories of a run that was killed are still there.
BuilderInit ==
  /\ build = "fields" /\ context = "none"
  /\ allocated = {} /\ frees = [k \in Keys |-> 0]
  /\ routes = {} /\ strategies = {}
  /\ \E left \in {"none", "stale"} : memory = [k \in Keys |-> left]

\* Faulty FreeEach: arrays that are in the table of routes are freed again.
FreeEachAndRoutes(arrays) ==
  frees' = [k \in Keys |-> frees[k] + (IF k \in arrays THEN 1 ELSE 0)
                                    + (IF k \in routes THEN 1 ELSE 0)]
FreeEach(arrays) ==
  frees' = [k \in Keys |-> IF k \in arrays THEN frees[k] + 1 ELSE frees[k]]

-----------------------------------------------------------------------------
(* Builder.init.                                                           *)

\* The text does not parse, or "root" or "routes" is missing or of the wrong
\* type; what parses to something else than an object panics.
CheckFields ==
  /\ build = "fields"
  /\ build' \in {"tls", "refused", "panicked"}
  /\ UNCHANGED <<context, allocated, frees, routes, memory, strategies>>

\* validateSSL.  A context is freed when BoringSSL refuses a file, and kept
\* when realpath does not find it.
LoadTls ==
  /\ build = "tls"
  /\ \/ build' = "routes" /\ context' \in {"none", "live"}
     \/ build' = "refused" /\ context' \in {"none", "live", "freed"}
  /\ UNCHANGED <<allocated, frees, routes, memory, strategies>>

\* The catch in Builder.init frees all_backends, and only that.
Refuse(arrays) ==
  /\ build' = "refused"
  /\ FreeEach(arrays)
  /\ UNCHANGED <<context, routes, strategies>>

\* validateRoute fails on the value, its backends or one of them, and
\* validateBackends has freed its own array.
BackendsInvalid(k) ==
  /\ build = "routes" /\ k \notin routes
  /\ Refuse(allocated)
  /\ UNCHANGED <<allocated, memory>>

\* The count of failures of a backend does not fit: validateBackend casts it
\* unchecked, and the process panics.
CountPanics(k) ==
  /\ build = "routes" /\ k \notin routes
  /\ build' = "panicked"
  /\ UNCHANGED <<context, allocated, frees, routes, memory, strategies>>

\* Faulty CreateMemory: shm_open without O_TRUNC, and no index stored.
ReuseMemory(k) ==
  memory' = [memory EXCEPT ![k] = IF @ = "none" THEN "fresh" ELSE @]
CreateMemory(k) == memory' = [memory EXCEPT ![k] = "fresh"]

\* createRouteMemory fails, before or after the name exists.
CreateFails(k) ==
  /\ build = "routes" /\ k \notin routes
  /\ allocated' = allocated \union {k}
  /\ Refuse(allocated')
  /\ memory' \in {memory, [memory EXCEPT ![k] = "stale"]}

EndsWithSlash(k) == Len(k) > 1 /\ k[Len(k)] = "/"

\* An unsupported strategy, or a key that ends with a slash.
RouteInvalid(k) ==
  /\ build = "routes" /\ k \notin routes
  /\ allocated' = allocated \union {k}
  /\ CreateMemory(k)
  /\ Refuse(allocated')

\* Faulty AddRoute: the array is not appended to all_backends.
AddRouteUnlisted(k) ==
  /\ build = "routes" /\ k \notin routes
  /\ ~EndsWithSlash(k)
  /\ CreateMemory(k)
  /\ routes' = routes \union {k}
  /\ UNCHANGED <<build, context, allocated, frees, strategies>>
\* hash_map.put
AddRoute(k) ==
  /\ build = "routes" /\ k \notin routes
  /\ ~EndsWithSlash(k)
  /\ allocated' = allocated \union {k}
  /\ CreateMemory(k)
  /\ routes' = routes \union {k}
  /\ UNCHANGED <<build, context, frees, strategies>>

\* Faulty EndRoutes: any route at all will do.
EndRoutesNotEmpty ==
  /\ build = "routes"
  /\ IF routes # {}
       THEN build' = "strategies"
            /\ UNCHANGED <<context, frees, routes, strategies>>
       ELSE Refuse(allocated)
  /\ UNCHANGED <<allocated, memory>>
\* The end of the object: has_main_route.
EndRoutes ==
  /\ build = "routes"
  /\ IF General \in routes
       THEN build' = "strategies"
            /\ UNCHANGED <<context, frees, routes, strategies>>
       ELSE Refuse(allocated)
  /\ UNCHANGED <<allocated, memory>>

-----------------------------------------------------------------------------
(* applyConfig.                                                            *)

\* RoundRobin.init opens the memory of the route.
SetUpStrategy(k) ==
  /\ build = "strategies" /\ k \in routes \ strategies
  /\ strategies' = strategies \union {k}
  /\ UNCHANGED <<build, context, allocated, frees, routes, memory>>

\* The system has no descriptor or mapping left: Builder.deinit.  The
\* strategies that were set up are not closed.
SetUpFails(k) ==
  /\ build = "strategies" /\ k \in routes \ strategies
  /\ build' = "undone"
  /\ FreeEach(routes)
  /\ memory' = [r \in Keys |-> IF r \in routes THEN "none" ELSE memory[r]]
  /\ context' = IF context = "live" THEN "freed" ELSE context
  /\ UNCHANGED <<allocated, routes, strategies>>

\* Config.init returns the configuration.
Accept ==
  /\ build = "strategies" /\ strategies = routes
  /\ build' = "accepted"
  /\ UNCHANGED <<context, allocated, frees, routes, memory, strategies>>

\* main returns: ConfigManager.deinit and then Config.deinit close one and the
\* same configuration.
CloseTwice ==
  /\ build' = "closed"
  /\ frees' = [k \in Keys |-> IF k \in routes THEN frees[k] + 2 ELSE frees[k]]
  /\ memory' = [r \in Keys |-> IF r \in routes THEN "none" ELSE memory[r]]
  /\ context' = IF context = "live" THEN "freed" ELSE context
  /\ strategies' = {}
  /\ UNCHANGED <<allocated, routes>>

\* The configuration goes to the master and its workers, whose use of it is
\* the subject of HotReload and ConfigManager: forgotten here.
Forget ==
  /\ build' = "closed" /\ context' = "none"
  /\ allocated' = {} /\ routes' = {} /\ strategies' = {}
  /\ frees' = [k \in Keys |-> 0] /\ memory' = [k \in Keys |-> "none"]

BuildStep ==
  \/ CheckFields \/ LoadTls \/ EndRoutes \/ Accept
  \/ \E k \in Keys : BackendsInvalid(k) \/ CountPanics(k) \/ CreateFails(k)
                       \/ RouteInvalid(k) \/ AddRoute(k) \/ SetUpStrategy(k) \/ SetUpFails(k)

-----------------------------------------------------------------------------
(* Properties.                                                             *)

Accepted == build = "accepted"

\* Every request is served by a route that exists, so that the unreachable of
\* handleRequest is not reached whatever the target and the configuration.
EveryTargetIsServed ==
  Accepted => \A t \in Targets : RouteFor(strategies, t) \in strategies

\* A request for the very key of a route is served by it, also when a slash or
\* a query follows: the form of keys that the builder lets through is the form
\* that extractPath yields, but for keys with a query and the empty one.
ExactRoutesWin ==
  Accepted => \A k \in strategies :
    k # <<>> /\ Positions(k, "?") = {} =>
      \A tail \in {<<>>, <<"/">>, <<"?", "/">>, <<"/", "?">>} :
        RouteFor(strategies, k \o tail) = k

\* "/s/*" serves all that is below "/s" and has no route of its own.
WildcardsServeBelow ==
  Accepted => \A t \in Targets :
    LET path == ExtractPath(t)
        pattern == Wildcard(Segment(path, 1))
    IN  HasSubPath(path) /\ pattern \in strategies /\ path \notin strategies
          => RouteFor(strategies, t) = pattern

\* A configuration that is not accepted gives back each array of backends
\* exactly once, wherever the error was found; an error of a strategy also
\* gives back the context and the names.
RefusalReleases ==
  /\ build \in {"refused", "undone"} => \A k \in allocated : frees[k] = 1
  /\ build = "undone" =>
       /\ context # "live"
       /\ \A k \in routes : memory[k] = "none"

\* An accepted configuration holds all it needs, and each of its indexes
\* starts from zero, whatever a killed run left under the same names.
AcceptedIsComplete ==
  Accepted =>
    /\ strategies = routes /\ context # "freed"
    /\ \A k \in routes : k \in allocated /\ frees[k] = 0 /\ memory[k] = "fresh"
=============================================================================
