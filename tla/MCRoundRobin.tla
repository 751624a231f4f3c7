---------------------------- MODULE MCRoundRobin ----------------------------
(* Instances of RoundRobin for TLC.                                        *)
EXTENDS RoundRobin

CONSTANTS h1, h2

OneHandler == {h1}
TwoHandlers == {h1, h2}

NoHandler == {}
NoBackend == {}
AnyBackend == Backends

\* The default of common.zig is 5; any value above 0 behaves the same.
DefaultMaxFailure == [b \in Backends |-> 5]
\* The last backend may never fail, and is therefore never tried.
LastNeverTried == [b \in Backends |-> IF b = N - 1 THEN 0 ELSE 5]
=============================================================================
