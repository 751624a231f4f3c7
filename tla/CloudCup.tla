------------------------------ MODULE CloudCup ------------------------------
(***************************************************************************)
(* The program from its first line (src/main.zig): the configuration file  *)
(* is validated and applied, pushed to the manager and shared, and only    *)
(* then the master forks and supervises.                                   *)
(***************************************************************************)
EXTENDS Builder, Supervisor

cupVars == <<buildVars, vars>>

CupInit == BuilderInit /\ master = "config" /\ NothingForked

Build == master = "config" /\ BuildStep /\ UNCHANGED vars

\* Config.init failed: main logs the error and returns, or it has panicked.
Stop ==
  /\ master = "config"
  /\ build \in {"refused", "undone", "panicked"}
  /\ master' = "exited"
  /\ UNCHANGED <<buildVars, workers, processVars, cli, jobVars, budgetVars>>

\* Config.share finds no room for the text, or Server.run no address in "root",
\* which the builder only knows to be a string.
StopAccepted ==
  /\ master = "config"
  /\ build = "accepted"
  /\ CloseTwice
  /\ master' = "exited"
  /\ UNCHANGED <<workers, processVars, cli, jobVars, budgetVars>>

\* pushNewConfig, share and Server.run.
Run ==
  /\ master = "config"
  /\ build = "accepted"
  /\ Forget
  /\ master' = "workers"
  /\ UNCHANGED <<workers, processVars, cli, jobVars, budgetVars>>

CupNext == Build \/ Stop \/ StopAccepted \/ Run \/ (Next /\ UNCHANGED buildVars)

CupSpec == CupInit /\ [][CupNext]_cupVars /\ Fairness
=============================================================================
