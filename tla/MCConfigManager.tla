-------------------------- MODULE MCConfigManager --------------------------
(* Instances of ConfigManager for TLC.                                     *)
EXTENDS ConfigManager

CONSTANTS h1, h2

OneHandler == {h1}
TwoHandlers == {h1, h2}
=============================================================================
