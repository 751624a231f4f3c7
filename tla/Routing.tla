------------------------------- MODULE Routing -------------------------------
(***************************************************************************)
(* The choice of a route for a request (extractPath and handleRequest in   *)
(* src/worker.zig).  The target of a request and the key of a route are    *)
(* sequences of tokens: "/", "?", "*" and pieces of names.                 *)
(***************************************************************************)
EXTENDS Integers, Sequences

General == <<"*">>
Wildcard(segment) == <<"/">> \o segment \o <<"/", "*">>

First(positions) == CHOOSE i \in positions : \A j \in positions : i <= j
Positions(path, token) == {i \in 1 .. Len(path) : path[i] = token}
Before(path, token) ==
  SubSeq(path, 1, First(Positions(path, token) \union {Len(path) + 1}) - 1)

\* Faulty ExtractPath: the query is cut after the slash was looked for.
ExtractPathSlashFirst(target) ==
  LET stripped == IF Len(target) > 1 /\ target[Len(target)] = "/"
                    THEN SubSeq(target, 1, Len(target) - 1) ELSE target
  IN  Before(stripped, "?")
\* The path without its query, and without one slash at its end.
ExtractPath(target) ==
  LET path == Before(target, "?") IN
  IF Len(path) > 1 /\ path[Len(path)] = "/"
    THEN SubSeq(path, 1, Len(path) - 1)
    ELSE path

HasSubPath(path) == \E i \in Positions(path, "/") : i > 1

\* Where the segments of path[1..] start: the first character is dropped.
Starts(path) == {1} \union Positions(path, "/")
Segment(path, i) == Before(SubSeq(path, i + 1, Len(path)), "/")

\* Faulty Matching: the slash between the segment and the star is forgotten.
MatchingPrefix(keys, path) ==
  {i \in Starts(path) : <<"/">> \o Segment(path, i) \o <<"*">> \in keys}
Matching(keys, path) ==
  IF HasSubPath(path)
    THEN {i \in Starts(path) : Wildcard(Segment(path, i)) \in keys}
    ELSE {}

\* The key looked up first, then a wildcard for each segment in turn, then the
\* general route, which handleRequest takes to exist.
RouteFor(keys, target) ==
  LET path == ExtractPath(target)
      matching == Matching(keys, path)
  IN  IF path \in keys THEN path
      ELSE IF matching # {} THEN Wildcard(Segment(path, First(matching)))
      ELSE General
=============================================================================
