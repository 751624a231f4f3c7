---------------------------- MODULE MCCloudCup ----------------------------
(* Instances of CloudCup for TLC: every set of eight keys may be the       *)
(* routes of a file, and every target of at most five tokens is asked for. *)
EXTENDS CloudCup

MCKeys ==
  { General, <<"/">>, <<"/", "a">>, <<"/", "a", "/">>, <<"/", "a", "/", "*">>,
    <<"/", "a", "/", "b">>, <<"/", "b", "/", "*">>, <<"/", "a", "?">> }

MCTargets ==
  UNION {{<<"/">> \o rest : rest \in [1 .. n -> {"/", "a", "b", "?"}]} :
           n \in 0 .. 4}
=============================================================================
