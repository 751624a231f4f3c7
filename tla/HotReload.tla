----------------------------- MODULE HotReload -----------------------------
(***************************************************************************)
(* Hot reload of the configuration: the CLI process publishes a new        *)
(* version in a 4096-byte region shared by all processes, and the watcher  *)
(* thread of every worker polls that region.                               *)
(*                                                                         *)
(* The region is read and written without synchronisation between          *)
(* processes (the mutex of SharedMemory.zig is a copy per process), so it  *)
(* is modelled as cells that are copied one at a time: cell 0 holds the    *)
(* text "version|", cells 1 .. Chunks the configuration.  A cell holds the *)
(* number of the version it was written for, or Zero.  Stores and loads    *)
(* take effect in program order, as on x86, and copies ascend.             *)
(***************************************************************************)
EXTENDS Integers

CONSTANTS
  Workers,         \* worker processes
  Chunks,          \* cells of configuration text
  Barrable,        \* versions whose text may have a "|" in it
  FrameReused,     \* the build reuses the dead frame of parseConfigJSON early
  MaxVersion,      \* bound: versions published
  MaxCliCrashes,   \* bound: deaths of the CLI process between two steps
  MaxWorkerCrashes \* bound: deaths of a worker from outside

ASSUME CellAssumption == Chunks \in Nat \ {0}
ASSUME BuildAssumption == FrameReused \in BOOLEAN
ASSUME BoundAssumption ==
  MaxVersion \in Nat \ {0} /\ MaxCliCrashes \in Nat /\ MaxWorkerCrashes \in Nat

Cells == 0 .. Chunks
Zero == 0
Versions == Nat \ {0}

VARIABLES
  mem,             \* the shared region
  names,           \* versions whose route memories have their names
  cli,             \* where the CLI process is in applyNewConfig
  version,         \* its current_config_version
  filled,          \* cells its memset or copy has done
  barred,          \* versions whose text has a "|" in it
  watcher,         \* where the watcher of each worker is
  current,         \* its current_config, the version it installed last
  body,            \* versions of the text its installed configuration is made of
  seen,            \* its copy of the region
  copied,          \* cells of that copy it has made
  cliCrashes, workerCrashes,
  quiet            \* history: no write since this poll began on a whole region

cliVars == <<cli, version, filled, barred>>
workerVars == <<watcher, current, body, seen, copied>>
budgetVars == <<cliCrashes, workerCrashes>>
vars == <<mem, names, cliVars, workerVars, budgetVars, quiet>>

TypeOK ==
  /\ mem \in [Cells -> Nat]
  /\ names \subseteq Versions
  /\ cli \in {"idle", "build", "share", "wipe", "copy"}
  /\ version \in Nat
  /\ filled \in Cells
  /\ barred \subseteq Barrable
  /\ watcher \in [Workers -> {"poll", "read", "decide", "stopped", "down"}]
  /\ current \in [Workers -> Versions]
  /\ body \in [Workers -> SUBSET Nat]
  /\ seen \in [Workers -> [Cells -> Nat]]
  /\ copied \in [Workers -> 0 .. Chunks + 1]
  /\ cliCrashes \in 0 .. MaxCliCrashes
  /\ workerCrashes \in 0 .. MaxWorkerCrashes
  /\ quiet \in [Workers -> BOOLEAN]

Blank == [c \in Cells |-> Zero]

\* main.zig: version 1 is built, its route memories named, and shared before
\* the first fork.
Init ==
  /\ mem = [c \in Cells |-> 1]
  /\ names = {1}
  /\ cli = "idle" /\ version = 0 /\ filled = 0 /\ barred = {}
  /\ watcher = [w \in Workers |-> "poll"]
  /\ current = [w \in Workers |-> 1]
  /\ body = [w \in Workers |-> {1}]
  /\ seen = [w \in Workers |-> Blank]
  /\ copied = [w \in Workers |-> 0]
  /\ cliCrashes = 0 /\ workerCrashes = 0
  /\ quiet = [w \in Workers |-> FALSE]

\* A text with zeros in it never parses, and one that is cut at a "|" of its
\* own neither; one put together from two versions may or may not.
Parses(text) == Zero \notin text /\ \A v \in barred : text # {v}
FailsToParse(text) ==
  \E t \in text : t = Zero \/ t \in barred \/ \E u \in text : t # u

-----------------------------------------------------------------------------
(* The CLI process.                                                        *)

\* The command is over, or the process died: its locals go.
EndCommand == cli' = "idle" /\ version' = 0 /\ filled' = 0 /\ UNCHANGED barred

\* What the file of the command holds.
ChooseText(v) == barred' \in {barred \ {v}, barred \union ({v} \intersect Barrable)}

\* Faulty Apply: the version is counted in the process, not read back.
ApplyFromLostCounter ==
  /\ cli = "idle"
  /\ mem[0] < MaxVersion
  /\ mem[0] # Zero
  /\ version' = IF cliCrashes = 0 THEN mem[0] ELSE 0
  /\ cli' = "build"
  /\ ChooseText(version' + 1)
  /\ UNCHANGED <<mem, names, filled, workerVars, budgetVars, quiet>>
\* parseSharedConfigVersion; on zeros it fails, and the process exits and is
\* spawned again.
Apply ==
  /\ cli = "idle"
  /\ mem[0] < MaxVersion
  /\ mem[0] # Zero
  /\ version' = mem[0]
  /\ cli' = "build"
  /\ ChooseText(version' + 1)
  /\ UNCHANGED <<mem, names, filled, workerVars, budgetVars, quiet>>

\* Config.init(..., version + 1, create = true): a name for every route.
Build ==
  /\ cli = "build"
  /\ names' = names \union {version + 1}
  /\ cli' = "share"
  /\ UNCHANGED <<mem, version, filled, barred, workerVars, budgetVars, quiet>>

\* Config.init refuses the configuration, before or after it named route
\* memories, and unlinks them only when a strategy cannot be set up;
\* applyConfig returns and the client is told of success.
Reject ==
  /\ cli = "build"
  /\ names' \in {names, names \union {version + 1}, names \ {version + 1}}
  /\ EndCommand
  /\ UNCHANGED <<mem, workerVars, budgetVars, quiet>>

Share ==
  /\ cli = "share"
  /\ cli' = "wipe"
  /\ UNCHANGED <<mem, names, version, filled, barred, workerVars, budgetVars, quiet>>

\* Config.share does not fit "version|text" in its buffer: the error ends
\* the process and the new names stay.
ShareTooLong ==
  /\ cli = "share"
  /\ EndCommand
  /\ UNCHANGED <<mem, names, workerVars, budgetVars, quiet>>

\* A store of the CLI to one cell, ascending; it disturbs every poll.
Fill(v) ==
  /\ mem' = [mem EXCEPT ![filled] = v]
  /\ quiet' = [w \in Workers |-> FALSE]
  /\ UNCHANGED <<names, workerVars, budgetVars>>

\* Faulty Wipe: the position is not reset for the copy.
WipeKeepsFilled ==
  /\ cli = "wipe"
  /\ Fill(Zero)
  /\ filled' = filled + 1
  /\ cli' = IF filled = Chunks THEN "copy" ELSE cli
  /\ UNCHANGED <<version, barred>>
\* `@memset(self.shared_memory[0..], 0x00)`
Wipe ==
  /\ cli = "wipe"
  /\ Fill(Zero)
  /\ filled' = IF filled = Chunks THEN 0 ELSE filled + 1
  /\ cli' = IF filled = Chunks THEN "copy" ELSE cli
  /\ UNCHANGED <<version, barred>>

\* `copyForwards(u8, self.shared_memory[0..], buf)`
Copy ==
  /\ cli = "copy"
  /\ Fill(version + 1)
  /\ IF filled = Chunks THEN EndCommand
     ELSE filled' = filled + 1 /\ UNCHANGED <<cli, version, barred>>

\* The CLI process dies between two steps; the master spawns it again.
CliCrash ==
  /\ cli # "idle"
  /\ cliCrashes < MaxCliCrashes
  /\ cliCrashes' = cliCrashes + 1
  /\ EndCommand
  /\ UNCHANGED <<mem, names, workerVars, workerCrashes, quiet>>

Shared == {mem[c] : c \in Cells \ {0}}

\* Faulty CheckAll: the configuration is built as the version it is.
CheckAllOfCurrent ==
  /\ cli = "idle"
  /\ \/ FailsToParse(Shared) /\ UNCHANGED names
     \/ Parses(Shared) /\ names' = names \ {mem[0]}
  /\ UNCHANGED <<mem, cliVars, workerVars, budgetVars, quiet>>
\* check-all builds the shared configuration as version 1, without creating
\* names, and its deinit unlinks the names of version 1; so does the builder
\* when a strategy finds no name.  An error ends the process.
CheckAll ==
  /\ cli = "idle"
  /\ \/ FailsToParse(Shared) /\ UNCHANGED names
     \/ Parses(Shared) /\ names' = names \ {1}
  /\ UNCHANGED <<mem, cliVars, workerVars, budgetVars, quiet>>

-----------------------------------------------------------------------------
(* The watcher of a worker.                                                *)

\* readData returns a copy of the region.
StartRead(w) ==
  /\ watcher[w] = "poll"
  /\ watcher' = [watcher EXCEPT ![w] = "read"]
  /\ quiet' = [quiet EXCEPT ![w] = \A c \in Cells : mem[c] = mem[0] /\ mem[c] # Zero]
  /\ UNCHANGED <<mem, names, cliVars, current, body, seen, copied, budgetVars>>

\* The order in which the copy proceeds: ascending, like memcpy.
\* Faulty NextCell: the region is copied from its end.
DescendingCell(k) == Chunks - k
NextCell(k) == k

ReadCell(w) ==
  LET c == NextCell(copied[w]) IN
  /\ watcher[w] = "read"
  /\ seen' = [seen EXCEPT ![w][c] = mem[c]]
  /\ copied' = [copied EXCEPT ![w] = @ + 1]
  /\ watcher' = [watcher EXCEPT ![w] = IF copied[w] = Chunks THEN "decide" ELSE @]
  /\ UNCHANGED <<mem, names, cliVars, current, body, budgetVars, quiet>>

\* The text a watcher has read.
Text(w) == {seen[w][c] : c \in Cells \ {0}}

\* parseConfigJSON returns a slice of its own frame: in a build where the
\* calls that follow reuse it, no text is sure to parse.
MayParse(w) == Parses(Text(w))
MayNotParse(w) == FrameReused \/ FailsToParse(Text(w))

\* Config.init(create = false) opens the route memories by name.
MayLoad(w) == MayParse(w) /\ seen[w][0] \in names
MayNotLoad(w) == MayNotParse(w) \/ seen[w][0] \notin names

\* The end of an iteration, and of the life of its copy of the region.
Turn(w, next) ==
  /\ watcher' = [watcher EXCEPT ![w] = next]
  /\ seen' = [seen EXCEPT ![w] = Blank]
  /\ copied' = [copied EXCEPT ![w] = 0]
  /\ quiet' = [quiet EXCEPT ![w] = FALSE]
  /\ UNCHANGED <<mem, cliVars>>

NothingNew(w) ==
  /\ watcher[w] = "decide"
  /\ seen[w][0] = current[w]
  /\ Turn(w, "poll")
  /\ UNCHANGED <<names, current, body, budgetVars>>

IsNew(w) == watcher[w] = "decide" /\ seen[w][0] \notin {Zero, current[w]}

\* Faulty Install: current_config is not updated.
InstallForgetsVersion(w) ==
  /\ IsNew(w) /\ MayLoad(w)
  /\ names' = names \ {current[w]}
  /\ body' = [body EXCEPT ![w] = Text(w)]
  /\ Turn(w, "poll")
  /\ UNCHANGED <<current, budgetVars>>
\* pushNewConfig retires the installed configuration: its deinit unlinks the
\* names of its version, for every process.
Install(w) ==
  /\ IsNew(w) /\ MayLoad(w)
  /\ names' = names \ {current[w]}
  /\ current' = [current EXCEPT ![w] = seen[w][0]]
  /\ body' = [body EXCEPT ![w] = Text(w)]
  /\ Turn(w, "poll")
  /\ UNCHANGED budgetVars

\* The version does not parse, or Config.init fails (and if it was a strategy
\* that failed, the names of the version it tried to load go): the watcher
\* returns, and `defer config.deinit()` runs on the configuration it loaded
\* last, the installed one (its names go), or on undefined memory if it loaded
\* none (current is 1 exactly then), which crashes the worker.
Fail(w) ==
  /\ watcher[w] = "decide"
  /\ seen[w][0] = Zero \/ (IsNew(w) /\ MayNotLoad(w))
  /\ Turn(w, IF current[w] = 1 THEN "down" ELSE "stopped")
  /\ \E tried \in SUBSET {v \in {seen[w][0]} : MayParse(w)} :
       names' = names \ (tried \union (IF current[w] = 1 THEN {} ELSE {current[w]}))
  /\ UNCHANGED <<current, body, budgetVars>>

WorkerCrash(w) ==
  /\ watcher[w] # "down"
  /\ workerCrashes < MaxWorkerCrashes
  /\ workerCrashes' = workerCrashes + 1
  /\ Turn(w, "down")
  /\ UNCHANGED <<names, current, body, cliCrashes>>

\* The master forks a replacement from its own copy of version 1.
Respawn(w) ==
  /\ watcher[w] = "down"
  /\ watcher' = [watcher EXCEPT ![w] = "poll"]
  /\ current' = [current EXCEPT ![w] = 1]
  /\ body' = [body EXCEPT ![w] = {1}]
  /\ UNCHANGED <<mem, names, cliVars, seen, copied, budgetVars, quiet>>

-----------------------------------------------------------------------------

CliStep == Build \/ Reject \/ Share \/ ShareTooLong \/ Wipe \/ Copy

Watch(w) ==
  \/ StartRead(w) \/ ReadCell(w)
  \/ NothingNew(w) \/ Install(w) \/ Fail(w)
  \/ Respawn(w)

Next ==
  \/ Apply \/ CheckAll \/ CliStep \/ CliCrash
  \/ \E w \in Workers : Watch(w) \/ WorkerCrash(w)

\* The system schedules the CLI process and every watcher; the master's
\* monitor threads respawn workers.  Commands need not come.
Fairness == WF_vars(CliStep) /\ \A w \in Workers : WF_vars(Watch(w))

Spec == Init /\ [][Next]_vars /\ Fairness

-----------------------------------------------------------------------------
(* Properties.                                                             *)

\* However a poll interleaves with publications, the text of a configuration
\* a worker installs is never older than the version number it is installed
\* under: a torn read may mix in newer text, never text that was replaced.
NeverStaleBody ==
  \A w \in Workers : \A t \in body[w] : t >= current[w]

\* A poll that no publication overlapped reads something to load: one whole
\* version, the names of which still exist, whatever the other workers
\* installed, retired or lost meanwhile.
QuietPollIsLoadable ==
  \A w \in Workers :
    watcher[w] = "decide" /\ quiet[w] =>
      /\ seen[w][0] # Zero /\ Text(w) = {seen[w][0]}
      /\ seen[w][0] = current[w] \/ seen[w][0] \in names

\* As long as a worker process lives, the version it serves only grows.
VersionGrows ==
  [][\A w \in Workers :
       current'[w] >= current[w] \/ watcher[w] = "down"]_vars

Published(v) == cli = "idle" /\ \A c \in Cells : mem[c] = v

\* Once version v stays published, every worker ends up serving it, except
\* the workers whose watcher has stopped.  A text with a "|" is not covered:
\* workers that loaded nothing before crash on it again and again.
ConvergesOrStops ==
  \A v \in 1 .. MaxVersion, w \in Workers :
    <>[]Published(v) =>
      <>[](v \in barred \/ watcher[w] = "stopped" \/ current[w] = v)

\* README.md:33, "Dynamically receives and applies configuration updates from
\* the master process, maintaining consistency across all workers."
AllWorkersConverge ==
  \A v \in 1 .. MaxVersion, w \in Workers :
    <>[]Published(v) => <>[](watcher[w] # "stopped" /\ current[w] = v)
=============================================================================
