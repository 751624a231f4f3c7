--------------------------- MODULE HotReloadProofs ---------------------------
(***************************************************************************)
(* Theorems about HotReload for any number of workers, cells and versions. *)
(***************************************************************************)
EXTENDS HotReload, TLAPS

(***************************************************************************)
(* NeverStaleBody needs an invariant on the region (once the version cell  *)
(* is written, the text it replaces is gone), on the CLI process (it       *)
(* writes a larger version than any it reads) and on a read under way (a   *)
(* version that has been copied bounds from below every text that can      *)
(* still be copied under it).                                              *)
(***************************************************************************)

\* Cell 0 is wiped first and all cells before any is written.
RegionInv == mem[0] # Zero => \A c \in Cells : mem[c] \in {Zero, mem[0]}

CliInv ==
  /\ cli \in {"build", "share"} => version = mem[0]
  /\ cli = "wipe" => /\ filled = 0 => mem[0] = version
                     /\ \A c \in Cells : c < filled => mem[c] = Zero
  /\ cli = "copy" => \A c \in Cells :
       mem[c] = IF c < filled THEN version + 1 ELSE Zero
  /\ cli \notin {"wipe", "copy"} => filled = 0

\* The version a watcher has copied is one that was published before.
SeenBelow(w) ==
  /\ mem[0] # Zero => seen[w][0] <= mem[0]
  /\ cli # "idle" => seen[w][0] <= version + 1

ReadInv(w) ==
  /\ \A c \in Cells : c >= copied[w] => seen[w][c] = Zero
  /\ seen[w][0] # Zero => \A c \in Cells :
       /\ mem[c] = Zero \/ mem[c] >= seen[w][0]
       /\ seen[w][c] = Zero \/ seen[w][c] >= seen[w][0]
  /\ watcher[w] \in {"poll", "stopped", "down"} => seen[w] = Blank /\ copied[w] = 0
  /\ watcher[w] = "read" => copied[w] <= Chunks

IInv ==
  /\ TypeOK /\ RegionInv /\ CliInv /\ NeverStaleBody
  /\ \A w \in Workers : SeenBelow(w) /\ ReadInv(w)

LEMMA InitIInv == Init => IInv
BY CellAssumption, BoundAssumption
   DEF Init, IInv, TypeOK, RegionInv, CliInv, NeverStaleBody, SeenBelow,
       ReadInv, Cells, Zero, Versions, Blank

\* The steps of the CLI process: those of the workers' variables stay.
LEMMA CliIInv ==
  ASSUME IInv, Apply \/ CheckAll \/ CliStep \/ CliCrash
  PROVE  IInv'
<1> USE CellAssumption, BoundAssumption DEF IInv, TypeOK, RegionInv, CliInv,
        NeverStaleBody, SeenBelow, ReadInv, Cells, Zero, Versions, Blank,
        workerVars, budgetVars, EndCommand, ChooseText
<1>1. CASE Apply
  BY <1>1 DEF Apply
<1>2. CASE Build
  BY <1>2 DEF Build
<1>3. CASE Reject
  <2>1. version + 1 \in Versions
    OBVIOUS
  <2>2. names' \subseteq Versions
    BY <1>3, <2>1 DEF Reject
  <2> QED BY <1>3, <2>2 DEF Reject
<1>4. CASE Share
  BY <1>4 DEF Share
<1>5. CASE ShareTooLong
  BY <1>5 DEF ShareTooLong
<1>6. CASE Wipe
  <2>1. /\ mem' = [mem EXCEPT ![filled] = Zero] /\ mem'[0] = Zero
        /\ mem' \in [Cells -> Nat]
    BY <1>6 DEF Wipe, Fill
  <2>2. /\ \/ filled = Chunks /\ filled' = 0 /\ cli' = "copy"
           \/ filled < Chunks /\ filled' = filled + 1 /\ cli' = "wipe"
        /\ filled' \in Cells
    BY <1>6 DEF Wipe
  <2>3. TypeOK'
    BY <1>6, <2>1, <2>2 DEF Wipe, Fill
  <2>4. CliInv'
    BY <1>6, <2>1, <2>2 DEF Wipe
  <2>5. ASSUME NEW w \in Workers PROVE (SeenBelow(w) /\ ReadInv(w))'
    BY <1>6, <2>1, <2>2 DEF Wipe, Fill
  <2> QED BY <1>6, <2>1, <2>3, <2>4, <2>5 DEF Wipe, Fill
<1>7. CASE Copy
  BY <1>7 DEF Copy, Fill
<1>8. CASE CliCrash
  <2>1. TypeOK'
    BY <1>8 DEF CliCrash
  <2>2. RegionInv' /\ CliInv' /\ NeverStaleBody'
    BY <1>8 DEF CliCrash
  <2>3. ASSUME NEW w \in Workers PROVE (SeenBelow(w) /\ ReadInv(w))'
    BY <1>8 DEF CliCrash
  <2> HIDE DEF TypeOK, RegionInv, CliInv, NeverStaleBody, SeenBelow, ReadInv
  <2> QED BY <2>1, <2>2, <2>3
<1>9. CASE CheckAll
  BY <1>9 DEF CheckAll, cliVars
<1> QED
  BY <1>1, <1>2, <1>3, <1>4, <1>5, <1>6, <1>7, <1>8, <1>9 DEF CliStep

\* What a step leaves alone keeps its part of the invariant.
LEMMA Frame ==
  ASSUME IInv, mem' = mem, UNCHANGED cliVars
  PROVE  /\ RegionInv' /\ CliInv'
         /\ \A v \in Workers :
              /\ watcher'[v] = watcher[v] /\ seen'[v] = seen[v]
              /\ copied'[v] = copied[v]
              => (SeenBelow(v) /\ ReadInv(v))'
BY DEF IInv, RegionInv, CliInv, SeenBelow, ReadInv, cliVars

\* A step that ends an iteration leaves no copy behind.
LEMMA TurnIInv ==
  ASSUME IInv, NEW w \in Workers, NEW next \in {"poll", "stopped", "down"},
         Turn(w, next), TypeOK', NeverStaleBody'
  PROVE  IInv'
<1>1. /\ mem' = mem /\ UNCHANGED cliVars
      /\ seen'[w] = Blank /\ copied'[w] = 0
      /\ watcher'[w] = next
      /\ \A v \in Workers \ {w} : /\ watcher'[v] = watcher[v]
                                  /\ seen'[v] = seen[v] /\ copied'[v] = copied[v]
  BY DEF Turn, IInv, TypeOK
<1>2. 0 \in Cells /\ mem \in [Cells -> Nat] /\ version \in Nat
  <2>1. 0 \in Cells
    BY CellAssumption DEF Cells
  <2> QED BY <2>1 DEF IInv, TypeOK
<1>3. (SeenBelow(w) /\ ReadInv(w))'
  BY <1>1, <1>2 DEF SeenBelow, ReadInv, Blank, Zero, cliVars
<1> QED BY <1>1, <1>3, Frame DEF IInv

\* The steps of a worker.
LEMMA WorkerIInv ==
  ASSUME IInv, NEW w \in Workers, Watch(w) \/ WorkerCrash(w)
  PROVE  IInv'
<1>0. /\ seen[w] \in [Cells -> Nat] /\ copied[w] \in Nat /\ current[w] \in Versions
      /\ mem \in [Cells -> Nat] /\ 0 \in Cells /\ version \in Nat
      /\ Blank \in [Cells -> Nat]
  BY CellAssumption DEF IInv, TypeOK, Cells, Blank, Zero
<1>1. CASE StartRead(w)
  <2>1. TypeOK'
    BY <1>1 DEF StartRead, IInv, TypeOK, cliVars, budgetVars
  <2>2. \A v \in Workers : (SeenBelow(v) /\ ReadInv(v))'
    <3>1. ASSUME NEW v \in Workers \ {w} PROVE (SeenBelow(v) /\ ReadInv(v))'
      BY <1>1, Frame DEF StartRead, IInv, TypeOK
    <3>2. /\ mem' = mem /\ UNCHANGED <<cliVars, seen, copied>>
          /\ seen[w] = Blank /\ copied[w] = 0 /\ watcher'[w] = "read"
      BY <1>1 DEF StartRead, IInv, TypeOK, ReadInv
    <3>3. SeenBelow(w)'
      BY <3>2 DEF IInv, SeenBelow, cliVars
    <3>4. ReadInv(w)'
      BY <3>2, CellAssumption DEF IInv, ReadInv
    <3> QED BY <3>1, <3>3, <3>4
  <2>3. NeverStaleBody'
    BY <1>1 DEF StartRead, IInv, NeverStaleBody
  <2> QED BY <1>1, <2>1, <2>2, <2>3, Frame DEF IInv, StartRead
<1>2. CASE ReadCell(w)
  <2> DEFINE c == copied[w]
  <2>1. c \in Cells
    BY <1>2 DEF ReadCell, IInv, ReadInv, TypeOK, Cells
  <2>2. /\ seen'[w] = [seen[w] EXCEPT ![c] = mem[c]] /\ copied'[w] = c + 1
        /\ watcher'[w] = (IF c = Chunks THEN "decide" ELSE "read")
        /\ mem' = mem /\ UNCHANGED <<cliVars, current, body>>
        /\ \A v \in Workers \ {w} : /\ watcher'[v] = watcher[v]
                                    /\ seen'[v] = seen[v] /\ copied'[v] = copied[v]
    BY <1>2 DEF ReadCell, NextCell, IInv, TypeOK
  <2>3. TypeOK'
    <3>1. [seen[w] EXCEPT ![c] = mem[c]] \in [Cells -> Nat]
      BY <1>0, <2>1
    <3>2. seen' \in [Workers -> [Cells -> Nat]]
      BY <1>2, <3>1 DEF ReadCell, NextCell, IInv, TypeOK
    <3>3. copied' \in [Workers -> 0 .. Chunks + 1]
      BY <1>2, <2>1, CellAssumption DEF ReadCell, IInv, TypeOK, Cells
    <3> QED BY <1>2, <3>2, <3>3 DEF ReadCell, IInv, TypeOK, cliVars, budgetVars
  <2>4. \A v \in Workers \ {w} : (SeenBelow(v) /\ ReadInv(v))'
    BY <2>2, Frame
  <2>5. \A d \in Cells : seen'[w][d] = IF d = c THEN mem[d] ELSE seen[w][d]
    BY <1>0, <2>1, <2>2
  <2>6. (SeenBelow(w) /\ ReadInv(w))'
    <3>1. \A d \in Cells : d >= c + 1 => seen'[w][d] = Zero
      <4>1. \A d \in Cells : d >= c => seen[w][d] = Zero
        BY DEF IInv, ReadInv
      <4>2. \A d \in Cells : d >= c + 1 => d # c /\ d >= c
        BY <2>1, CellAssumption DEF Cells
      <4> QED BY <2>5, <4>1, <4>2
    <3>2. CASE c = 0
      <4>1. seen'[w][0] = mem[0] /\ \A d \in Cells : d # 0 => seen'[w][d] = Zero
        BY <1>0, <2>5, <3>1, <3>2, CellAssumption DEF Cells
      <4>2. \A d \in Cells : mem[d] = Zero \/ mem[d] = mem[0] \/ mem[0] = Zero
        BY <1>0 DEF IInv, RegionInv
      <4>3. mem[0] # Zero => \A d \in Cells :
              /\ mem[d] = Zero \/ mem[d] >= mem[0]
              /\ seen'[w][d] = Zero \/ seen'[w][d] >= mem[0]
        BY <1>0, <4>1, <4>2
      <4>4. cli # "idle" /\ mem[0] # Zero => mem[0] <= version + 1
        BY <1>0, CellAssumption DEF IInv, TypeOK, CliInv, Cells, Zero
      <4>5. SeenBelow(w)'
        BY <1>0, <2>2, <4>1, <4>4 DEF SeenBelow, Zero, cliVars
      <4>6. ReadInv(w)'
        BY <2>2, <3>1, <3>2, <4>1, <4>3, CellAssumption DEF ReadInv
      <4> QED BY <4>5, <4>6
    <3>3. CASE c # 0
      <4>1. seen'[w][0] = seen[w][0]
        BY <1>0, <2>5, <3>3
      <4>2. SeenBelow(w)'
        BY <2>2, <4>1 DEF IInv, SeenBelow, cliVars
      <4>3. seen'[w][0] # Zero => \A d \in Cells :
              /\ mem[d] = Zero \/ mem[d] >= seen'[w][0]
              /\ seen'[w][d] = Zero \/ seen'[w][d] >= seen'[w][0]
        BY <2>5, <4>1 DEF IInv, ReadInv
      <4>4. watcher'[w] = "read" => copied'[w] <= Chunks
        BY <2>1, <2>2, CellAssumption DEF Cells
      <4> QED BY <2>2, <3>1, <4>2, <4>3, <4>4 DEF ReadInv
    <3> QED BY <3>2, <3>3
  <2>7. NeverStaleBody'
    BY <2>2 DEF IInv, NeverStaleBody
  <2> QED BY <2>2, <2>3, <2>4, <2>6, <2>7, Frame DEF IInv
<1>3. CASE NothingNew(w)
  <2>1. TypeOK'
    BY <1>0, <1>3, CellAssumption
       DEF NothingNew, Turn, IInv, TypeOK, cliVars, budgetVars
  <2>2. NeverStaleBody'
    BY <1>3 DEF NothingNew, IInv, NeverStaleBody
  <2> QED BY <1>3, <2>1, <2>2, TurnIInv DEF NothingNew
<1>4. CASE Install(w)
  <2>1. \A t \in Text(w) : t \in Nat /\ t >= seen[w][0]
    BY <1>0, <1>4 DEF Install, IsNew, MayLoad, MayParse, Parses, Text, IInv, ReadInv, Zero
  <2>2. seen[w][0] \in Versions /\ Text(w) \in SUBSET Nat
    BY <1>0, <1>4, <2>1 DEF Install, IsNew, Versions, Zero
  <2>3. TypeOK'
    BY <1>0, <1>4, <2>2, CellAssumption
       DEF Install, Turn, IInv, TypeOK, cliVars, budgetVars
  <2>4. NeverStaleBody'
    BY <1>4, <2>1, <2>2 DEF Install, IInv, TypeOK, NeverStaleBody
  <2> QED BY <1>4, <2>3, <2>4, TurnIInv DEF Install
<1>5. CASE Fail(w)
  <2> DEFINE next == IF current[w] = 1 THEN "down" ELSE "stopped"
  <2>1. names' \subseteq Versions /\ next \in {"poll", "stopped", "down"}
    BY <1>5 DEF Fail, IInv, TypeOK
  <2>2. TypeOK'
    BY <1>0, <1>5, <2>1, CellAssumption
       DEF Fail, Turn, IInv, TypeOK, cliVars, budgetVars
  <2>3. NeverStaleBody'
    BY <1>5 DEF Fail, IInv, NeverStaleBody
  <2> QED BY <1>5, <2>1, <2>2, <2>3, TurnIInv DEF Fail
<1>6. CASE Respawn(w)
  <2>1. TypeOK'
    BY <1>6 DEF Respawn, IInv, TypeOK, Versions, cliVars, budgetVars
  <2>2. NeverStaleBody'
    BY <1>6 DEF Respawn, IInv, TypeOK, NeverStaleBody
  <2>3. \A v \in Workers : (SeenBelow(v) /\ ReadInv(v))'
    BY <1>6 DEF Respawn, IInv, TypeOK, SeenBelow, ReadInv, cliVars
  <2> QED BY <1>6, <2>1, <2>2, <2>3, Frame DEF Respawn, IInv
<1>7. CASE WorkerCrash(w)
  <2>1. TypeOK'
    BY <1>0, <1>7, CellAssumption, BoundAssumption
       DEF WorkerCrash, Turn, IInv, TypeOK, cliVars
  <2>2. NeverStaleBody'
    BY <1>7 DEF WorkerCrash, IInv, NeverStaleBody
  <2> QED BY <1>7, <2>1, <2>2, TurnIInv DEF WorkerCrash
<1> QED
  BY <1>1, <1>2, <1>3, <1>4, <1>5, <1>6, <1>7 DEF Watch

LEMMA Inductive == Spec => []IInv
<1>1. IInv /\ [Next]_vars => IInv'
  <2>1. CASE UNCHANGED vars
    BY <2>1 DEF vars, cliVars, workerVars, budgetVars, IInv, TypeOK, RegionInv,
       CliInv, NeverStaleBody, SeenBelow, ReadInv
  <2> QED BY <2>1, CliIInv, WorkerIInv DEF Next
<1> QED BY <1>1, InitIInv, PTL DEF Spec

\* Type correctness for every number of workers, cells and versions.
THEOREM TypeCorrect == Spec => []TypeOK
BY Inductive, PTL DEF IInv

\* A worker never serves, under a version number, text older than it.
THEOREM BodyNeverStale == Spec => []NeverStaleBody
BY Inductive, PTL DEF IInv

-----------------------------------------------------------------------------
(***************************************************************************)
(* VersionGrows needs an order between what the watchers have and what is  *)
(* published next: as long as the version cell of the region is not zero,  *)
(* no watcher has anything newer, and until the CLI process has stored the *)
(* first cell of a new version, nothing is as new.                         *)
(***************************************************************************)

WipeInv == cli \notin {"idle", "copy"} => \A c \in Cells : mem[c] <= version

BelowInv(w) ==
  /\ mem[0] # Zero => current[w] <= mem[0] /\ \A c \in Cells : seen[w][c] <= mem[0]
  /\ cli # "idle" =>
       /\ current[w] <= version
       /\ \A c \in Cells : (cli = "copy" => c >= filled) => seen[w][c] <= version
  /\ seen[w][0] # Zero => current[w] <= seen[w][0]
  /\ current[w] = mem[0] /\ copied[w] > 0 => seen[w][0] = mem[0]

GrowInv == WipeInv /\ \A w \in Workers : BelowInv(w)

LEMMA InitGrowInv == Init => GrowInv
BY CellAssumption DEF Init, GrowInv, WipeInv, BelowInv, Cells, Blank, Zero

\* What the proofs use of the types.
LEMMA Shapes ==
  ASSUME IInv
  PROVE  /\ mem \in [Cells -> Nat] /\ version \in Nat /\ filled \in Cells
         /\ 0 \in Cells /\ Cells \subseteq Nat /\ Chunks \in Cells
         /\ \A w \in Workers : /\ seen[w] \in [Cells -> Nat] /\ copied[w] \in Nat
                               /\ current[w] \in Nat \ {0} /\ copied[w] <= Chunks + 1
         /\ \A w \in Workers, c \in Cells : seen[w][c] \in Nat
         /\ \A c \in Cells : mem[c] \in Nat
         /\ Chunks \in Nat \ {0} /\ \A c \in Cells : c <= Chunks
BY CellAssumption DEF IInv, TypeOK, Cells, Versions

LEMMA CliGrowInv ==
  ASSUME IInv, GrowInv, Apply \/ CheckAll \/ CliStep \/ CliCrash
  PROVE  GrowInv'
<1> USE Shapes DEF GrowInv, WipeInv, BelowInv, workerVars, EndCommand, Zero
<1>1. CASE Apply
  <2>1. \A c \in Cells : mem[c] <= mem[0]
    BY <1>1 DEF Apply, IInv, RegionInv
  <2> QED BY <1>1, <2>1 DEF Apply
<1>2. CASE Build
  BY <1>2 DEF Build
<1>3. CASE Reject \/ ShareTooLong \/ CliCrash
  <2>1. cli' = "idle" /\ mem' = mem /\ UNCHANGED workerVars
    BY <1>3 DEF Reject, ShareTooLong, CliCrash
  <2> QED BY <2>1
<1>4. CASE Share
  BY <1>4 DEF Share
<1>5. CASE Wipe
  <2>1. /\ mem' = [mem EXCEPT ![filled] = Zero] /\ UNCHANGED <<workerVars, version>>
        /\ cli = "wipe" /\ cli' \in {"wipe", "copy"} /\ (cli' = "copy" => filled' = 0)
    BY <1>5 DEF Wipe, Fill
  <2>2. mem'[0] = Zero
    BY <1>5, <2>1 DEF Wipe, IInv, CliInv, Cells
  <2>3. WipeInv'
    BY <2>1
  <2>4. ASSUME NEW w \in Workers PROVE BelowInv(w)'
    BY <2>1, <2>2
  <2> QED BY <2>3, <2>4
<1>6. CASE Copy
  <2>1. /\ mem' = [mem EXCEPT ![filled] = version + 1] /\ UNCHANGED workerVars
        /\ cli = "copy" /\ cli' \in {"idle", "copy"}
        /\ cli' = "copy" => filled' = filled + 1 /\ version' = version
    BY <1>6 DEF Copy, Fill
  <2>2. mem'[0] = version + 1
    BY <2>1 DEF IInv, CliInv
  <2>3. ASSUME NEW w \in Workers PROVE BelowInv(w)'
    <3>1. current[w] <= version
      BY <2>1
    <3>2. \A c \in Cells : seen[w][c] <= version + 1
      <4>1. \A c \in Cells : c >= filled => seen[w][c] <= version
        BY <2>1
      <4>2. \A c \in Cells : c < filled => seen[w][c] <= mem[0] /\ mem[0] = version + 1
        BY <2>1 DEF IInv, CliInv
      <4> QED BY <4>1, <4>2
    <3>3. cli' # "idle" =>
            /\ current[w] <= version'
            /\ \A c \in Cells : c >= filled' => seen[w][c] <= version'
      BY <2>1, <3>1
    <3> QED BY <2>1, <2>2, <3>1, <3>2, <3>3
  <2> QED BY <2>1, <2>3
<1>7. CASE CheckAll
  BY <1>7 DEF CheckAll, cliVars
<1> QED BY <1>1, <1>2, <1>3, <1>4, <1>5, <1>6, <1>7 DEF CliStep

\* The other workers are as they were.
LEMMA OthersGrow ==
  ASSUME GrowInv, mem' = mem, UNCHANGED cliVars, NEW w \in Workers,
         \A v \in Workers \ {w} : /\ current'[v] = current[v] /\ seen'[v] = seen[v]
                                  /\ copied'[v] = copied[v],
         BelowInv(w)'
  PROVE  GrowInv'
BY DEF GrowInv, WipeInv, BelowInv, cliVars

LEMMA WorkerGrowInv ==
  ASSUME IInv, GrowInv, NEW w \in Workers, Watch(w) \/ WorkerCrash(w)
  PROVE  GrowInv'
<1> USE Shapes DEF Zero
<1>1. CASE StartRead(w)
  BY <1>1 DEF StartRead, GrowInv, WipeInv, BelowInv, cliVars
<1>2. CASE ReadCell(w)
  <2> DEFINE c == copied[w]
  <2>1. c \in Cells
    BY <1>2, CellAssumption DEF ReadCell, IInv, ReadInv, Cells
  <2>2. /\ mem' = mem /\ UNCHANGED cliVars /\ UNCHANGED current
        /\ copied'[w] = c + 1 /\ c \in Nat
        /\ \A d \in Cells : seen'[w][d] = IF d = c THEN mem[c] ELSE seen[w][d]
        /\ \A v \in Workers \ {w} : seen'[v] = seen[v] /\ copied'[v] = copied[v]
    BY <1>2, <2>1 DEF ReadCell, NextCell, IInv, TypeOK
  <2> HIDE DEF c
  <2>3. mem[0] # Zero => mem[c] <= mem[0]
    BY <2>1 DEF IInv, RegionInv
  <2>4. cli # "idle" /\ (cli = "copy" => c >= filled) => mem[c] <= version
    BY <2>1 DEF GrowInv, WipeInv, IInv, CliInv
  <2>5. seen'[w][0] # Zero => current[w] <= seen'[w][0]
    BY <2>2 DEF GrowInv, BelowInv
  <2>6. current[w] = mem[0] => seen'[w][0] = mem[0]
    <3>1. CASE c = 0
      BY <2>2, <3>1
    <3>2. CASE c # 0
      BY <2>2, <3>2 DEF GrowInv, BelowInv, c
    <3> QED BY <3>1, <3>2
  <2>7. mem[0] # Zero => current[w] <= mem[0] /\ \A d \in Cells : seen'[w][d] <= mem[0]
    BY <2>2, <2>3 DEF GrowInv, BelowInv
  <2>8. cli # "idle" =>
          /\ current[w] <= version
          /\ \A d \in Cells : (cli = "copy" => d >= filled) => seen'[w][d] <= version
    BY <2>1, <2>2, <2>4 DEF GrowInv, BelowInv
  <2>9. BelowInv(w)'
    BY <2>2, <2>5, <2>6, <2>7, <2>8 DEF BelowInv, cliVars
  <2> QED BY <2>2, <2>9, OthersGrow
<1>3. ASSUME NEW next, Turn(w, next),
             \A v \in Workers \ {w} : current'[v] = current[v],
             current'[w] \in {current[w], seen[w][0]} /\ current'[w] \in Nat \ {0},
             current'[w] = current[w] \/ cli # "copy" \/ seen[w][0] <= version
      PROVE  GrowInv'
  <2>1. /\ mem' = mem /\ UNCHANGED cliVars
        /\ \A c \in Cells : seen'[w][c] = Zero
        /\ copied'[w] = 0
        /\ \A v \in Workers \ {w} : seen'[v] = seen[v] /\ copied'[v] = copied[v]
    BY <1>3 DEF Turn, IInv, TypeOK, Blank
  <2>2. mem[0] # Zero => current'[w] <= mem[0]
    BY <1>3 DEF GrowInv, BelowInv
  <2>3. cli # "idle" => current'[w] <= version
    BY <1>3 DEF GrowInv, BelowInv
  <2>4. BelowInv(w)'
    BY <2>1, <2>2, <2>3 DEF BelowInv, cliVars
  <2> QED BY <1>3, <2>1, <2>4, OthersGrow
<1>4. CASE NothingNew(w)
  BY <1>3, <1>4 DEF NothingNew
<1>5. CASE Install(w)
  <2>1. /\ current'[w] = seen[w][0] /\ seen[w][0] # Zero
        /\ \A v \in Workers \ {w} : current'[v] = current[v]
    BY <1>5 DEF Install, IsNew, IInv, TypeOK
  <2>2. cli # "copy" \/ seen[w][0] <= version
    <3>1. SUFFICES ASSUME cli = "copy" PROVE seen[w][0] <= version
      OBVIOUS
    <3>2. seen[w][Chunks] <= version
      BY <3>1 DEF GrowInv, BelowInv
    <3>3. seen[w][Chunks] >= seen[w][0]
      <4>1. Chunks \in Cells \ {0}
        OBVIOUS
      <4>2. seen[w][Chunks] # Zero
        BY <1>5, <4>1 DEF Install, MayLoad, MayParse, Parses, Text
      <4> QED BY <2>1, <4>2 DEF IInv, ReadInv
    <3> QED BY <3>2, <3>3
  <2> QED BY <1>3, <1>5, <2>1, <2>2 DEF Install
<1>6. CASE Fail(w)
  BY <1>3, <1>6 DEF Fail
<1>7. CASE WorkerCrash(w)
  BY <1>3, <1>7 DEF WorkerCrash
<1>8. CASE Respawn(w)
  <2>1. /\ mem' = mem /\ UNCHANGED <<cliVars, seen, copied>>
        /\ current'[w] = 1 /\ \A v \in Workers \ {w} : current'[v] = current[v]
        /\ copied[w] = 0
    BY <1>8 DEF Respawn, IInv, TypeOK, ReadInv
  <2>2. current'[w] <= current[w]
    BY <2>1
  <2>3. BelowInv(w)'
    BY <2>1, <2>2 DEF GrowInv, BelowInv, cliVars
  <2> QED BY <2>1, <2>3, OthersGrow
<1> QED BY <1>1, <1>2, <1>4, <1>5, <1>6, <1>7, <1>8 DEF Watch

LEMMA GrowKeeps ==
  ASSUME IInv, GrowInv, [Next]_vars
  PROVE  GrowInv'
<1>1. CASE UNCHANGED vars
  BY <1>1 DEF vars, cliVars, workerVars, GrowInv, WipeInv, BelowInv
<1> QED BY <1>1, CliGrowInv, WorkerGrowInv DEF Next

LEMMA StepGrows ==
  ASSUME IInv, GrowInv, [Next]_vars, NEW w \in Workers
  PROVE  current'[w] >= current[w] \/ watcher[w] = "down"
<1>1. current[w] \in Nat
  BY Shapes
<1>2. CASE UNCHANGED vars \/ Apply \/ CheckAll \/ CliStep \/ CliCrash
  BY <1>1, <1>2 DEF vars, workerVars, Apply, CheckAll, CliStep, CliCrash, Build, Reject, Share,
       ShareTooLong, Wipe, Copy, Fill
<1>3. ASSUME NEW v \in Workers, Watch(v) \/ WorkerCrash(v)
      PROVE  current'[w] >= current[w] \/ watcher[w] = "down"
  <2>1. CASE Install(v)
    <3>1. v = w => current'[w] = seen[w][0] /\ seen[w][0] # Zero
      BY <2>1 DEF Install, IsNew, IInv, TypeOK
    <3>2. v # w => current'[w] = current[w]
      BY <2>1 DEF Install, IInv, TypeOK
    <3> QED BY <1>1, <3>1, <3>2, Shapes DEF GrowInv, BelowInv
  <2>2. CASE Respawn(v)
    BY <1>1, <2>2 DEF Respawn, IInv, TypeOK
  <2>3. CASE UNCHANGED current
    BY <1>1, <2>3
  <2> QED BY <1>3, <2>1, <2>2, <2>3
       DEF Watch, WorkerCrash, StartRead, ReadCell, NothingNew, Fail
<1> QED BY <1>2, <1>3 DEF Next

LEMMA Growing == Spec => [](IInv /\ GrowInv)
<1>1. GrowInv /\ IInv /\ [Next]_vars => GrowInv'
  BY GrowKeeps
<1> QED BY <1>1, InitGrowInv, Inductive, PTL DEF Spec

\* As long as a worker process lives, no interleaving of its watcher with the
\* CLI process takes it back to an older version.
THEOREM VersionsGrow == Spec => VersionGrows
<1>1. IInv /\ GrowInv /\ [Next]_vars =>
        [\A w \in Workers : current'[w] >= current[w] \/ watcher[w] = "down"]_vars
  BY StepGrows
<1> QED BY <1>1, Growing, PTL DEF Spec, VersionGrows

-----------------------------------------------------------------------------
(***************************************************************************)
(* QuietPollIsLoadable needs to know who still takes the names of the      *)
(* version that is published: with the order above, a worker retires, or   *)
(* loses, only versions older than it.  Where the dead frame of            *)
(* parseConfigJSON is reused, a text that is whole may still not parse,    *)
(* and the failed attempt takes the names: such builds are excluded.       *)
(***************************************************************************)

Whole == mem[0] # Zero /\ \A c \in Cells : mem[c] = mem[0]

NamesInv ==
  /\ cli \in {"share", "wipe", "copy"} => version + 1 \in names
  /\ Whole => mem[0] = 1 \/ mem[0] \in names

QuietInv(w) ==
  /\ watcher[w] = "decide" => copied[w] = Chunks + 1
  /\ quiet[w] => /\ Whole /\ watcher[w] \in {"read", "decide"}
                 /\ \A c \in Cells : c < copied[w] => seen[w][c] = mem[0]

LoadInv == NamesInv /\ \A w \in Workers : QuietInv(w)

LEMMA InitLoadInv == Init => LoadInv
BY CellAssumption DEF Init, LoadInv, NamesInv, QuietInv, Whole, Cells, Zero

LEMMA CliLoadInv ==
  ASSUME IInv, GrowInv, LoadInv, Apply \/ CheckAll \/ CliStep \/ CliCrash
  PROVE  LoadInv'
<1> USE Shapes DEF LoadInv, NamesInv, QuietInv, Whole, workerVars, EndCommand
<1>1. CASE Apply \/ Build \/ Share \/ ShareTooLong \/ CliCrash
  <2>1. /\ mem' = mem /\ UNCHANGED <<workerVars, quiet>>
        /\ names \subseteq names'
    BY <1>1 DEF Apply, Build, Share, ShareTooLong, CliCrash
  <2>2. cli' \in {"share", "wipe", "copy"} => version' + 1 \in names'
    BY <1>1 DEF Apply, Build, Share, ShareTooLong, CliCrash
  <2> QED BY <2>1, <2>2
<1>2. CASE Reject
  <2>1. /\ mem' = mem /\ UNCHANGED <<workerVars, quiet>> /\ cli' = "idle"
        /\ version = mem[0] /\ version + 1 # mem[0]
        /\ names \ {version + 1} \subseteq names'
    BY <1>2 DEF Reject, IInv, CliInv
  <2> QED BY <2>1
<1>3. CASE CheckAll
  <2>1. /\ UNCHANGED <<mem, cli, version, workerVars, quiet>> /\ cli = "idle"
        /\ names \ {1} \subseteq names'
    BY <1>3 DEF CheckAll, cliVars
  <2> QED BY <2>1
<1>4. CASE Wipe
  <2>1. /\ mem' = [mem EXCEPT ![filled] = Zero] /\ names' = names
        /\ cli = "wipe" /\ version' = version
        /\ \A w \in Workers : ~quiet'[w]
        /\ UNCHANGED workerVars
    BY <1>4 DEF Wipe, Fill
  <2>2. mem'[filled] = Zero /\ filled \in Cells
    BY <2>1
  <2>3. ~Whole'
    BY <2>2
  <2> QED BY <2>1, <2>3
<1>5. CASE Copy
  <2>1. /\ mem' = [mem EXCEPT ![filled] = version + 1] /\ names' = names
        /\ cli = "copy" /\ \A w \in Workers : ~quiet'[w]
        /\ UNCHANGED workerVars
        /\ cli' = "idle" \/ version' = version
    BY <1>5 DEF Copy, Fill
  <2>2. mem'[0] = version + 1
    BY <2>1 DEF IInv, CliInv
  <2> QED BY <2>1, <2>2
<1> QED BY <1>1, <1>2, <1>3, <1>4, <1>5 DEF CliStep

\* A worker that has the published version finds it again, and one that has
\* just read an older version does not take its names.
LEMMA NamesStay ==
  ASSUME ~FrameReused, IInv, GrowInv, LoadInv, NEW w \in Workers, Install(w) \/ Fail(w)
  PROVE  NamesInv'
<1> USE Shapes DEF Zero
<1>1. /\ watcher[w] = "decide" /\ mem' = mem /\ UNCHANGED <<cli, version>>
      /\ copied[w] = Chunks + 1 /\ copied[w] > 0
  BY DEF Install, IsNew, Fail, Turn, cliVars, LoadInv, QuietInv
<1>2. ASSUME NEW v \in names, v \notin names'
      PROVE  \/ v = current[w] /\ (IsNew(w) \/ (seen[w][0] = Zero /\ current[w] # 1))
             \/ /\ v = seen[w][0] /\ IsNew(w) /\ MayParse(w) /\ MayNotLoad(w)
  <2>1. CASE Install(w)
    BY <1>2, <2>1 DEF Install
  <2>2. CASE Fail(w)
    <3>1. PICK tried \in SUBSET {x \in {seen[w][0]} : MayParse(w)} :
            names' = names \ (tried \union (IF current[w] = 1 THEN {} ELSE {current[w]}))
      BY <2>2 DEF Fail
    <3>2. seen[w][0] = Zero \/ (IsNew(w) /\ MayNotLoad(w))
      BY <2>2 DEF Fail
    <3>3. v # Zero
      BY <1>2 DEF IInv, TypeOK, Versions
    <3>4. CASE v \in tried
      BY <3>1, <3>2, <3>3, <3>4
    <3>5. CASE v \notin tried
      BY <1>2, <3>1, <3>2, <3>5
    <3> QED BY <3>4, <3>5
  <2> QED BY <2>1, <2>2
<1>3. ASSUME cli \in {"share", "wipe", "copy"} PROVE version + 1 \in names'
  <2>1. version + 1 \in names /\ current[w] <= version
    BY <1>3 DEF LoadInv, NamesInv, GrowInv, BelowInv
  <2>2. MayParse(w) => seen[w][0] # version + 1
    <3>1. SUFFICES ASSUME MayParse(w), seen[w][0] = version + 1 PROVE FALSE
      OBVIOUS
    <3>2. seen[w][Chunks] # Zero
      <4>1. Chunks \in Cells \ {0}
        OBVIOUS
      <4> QED BY <3>1, <4>1 DEF MayParse, Parses, Text
    <3>3. seen[w][Chunks] >= version + 1
      BY <3>1, <3>2 DEF IInv, ReadInv
    <3>4. seen[w][Chunks] <= version
      BY <1>3 DEF GrowInv, BelowInv
    <3> QED BY <3>3, <3>4
  <2> QED BY <1>2, <2>1, <2>2
<1>4. ASSUME Whole, mem[0] # 1 PROVE mem[0] \in names'
  <2>1. mem[0] \in names
    BY <1>4 DEF LoadInv, NamesInv
  <2>2. current[w] = mem[0] => seen[w][0] = current[w]
    BY <1>1 DEF GrowInv, BelowInv
  <2>3. ~(seen[w][0] = mem[0] /\ MayParse(w) /\ MayNotLoad(w))
    <3>1. SUFFICES ASSUME seen[w][0] = mem[0], MayParse(w) PROVE ~MayNotLoad(w)
      OBVIOUS
    <3>2. \A t \in Text(w) : t = mem[0]
      <4>1. ASSUME NEW c \in Cells \ {0} PROVE seen[w][c] = mem[0]
        <5>1. seen[w][c] # Zero
          BY <3>1 DEF MayParse, Parses, Text
        <5>2. seen[w][c] >= mem[0]
          BY <1>4, <3>1, <5>1 DEF IInv, ReadInv, Whole
        <5>3. seen[w][c] <= mem[0]
          BY <1>4 DEF GrowInv, BelowInv, Whole
        <5> QED BY <5>2, <5>3
      <4> QED BY <4>1 DEF Text
    <3>3. mem[0] \in Text(w)
      <4>1. Chunks \in Cells \ {0}
        OBVIOUS
      <4>2. seen[w][Chunks] \in Text(w)
        BY <4>1 DEF Text
      <4> QED BY <3>2, <4>2
    <3>4. Text(w) = {mem[0]}
      BY <3>2, <3>3
    <3>5. mem[0] \notin barred
      BY <3>1, <3>4 DEF MayParse, Parses
    <3>6. ~FailsToParse(Text(w))
      BY <1>4, <3>4, <3>5 DEF FailsToParse, Whole
    <3> QED BY <2>1, <3>1, <3>6 DEF MayNotLoad, MayNotParse
  <2> QED BY <1>2, <1>4, <2>1, <2>2, <2>3 DEF IsNew, Whole
<1> QED BY <1>1, <1>3, <1>4 DEF NamesInv, Whole

LEMMA WorkerLoadInv ==
  ASSUME ~FrameReused, IInv, GrowInv, LoadInv, NEW w \in Workers, Watch(w) \/ WorkerCrash(w)
  PROVE  LoadInv'
<1> USE Shapes
<1>1. mem' = mem /\ UNCHANGED <<cli, version>>
  BY DEF Watch, WorkerCrash, StartRead, ReadCell, NothingNew, Install, Fail, Respawn, Turn, cliVars
<1>2. NamesInv'
  <2>1. CASE Install(w) \/ Fail(w)
    BY <2>1, NamesStay
  <2>2. CASE names' = names
    BY <1>1, <2>2 DEF LoadInv, NamesInv, Whole
  <2> QED BY <2>1, <2>2 DEF Watch, WorkerCrash, StartRead, ReadCell, NothingNew, Respawn
<1>3. ASSUME NEW v \in Workers \ {w} PROVE QuietInv(v)'
  <2>1. /\ watcher'[v] = watcher[v] /\ seen'[v] = seen[v] /\ copied'[v] = copied[v]
        /\ quiet'[v] = quiet[v]
    BY DEF Watch, WorkerCrash, StartRead, ReadCell, NothingNew, Install, Fail, Respawn, Turn,
       IInv, TypeOK
  <2> QED BY <1>1, <2>1 DEF LoadInv, QuietInv, Whole
<1>4. QuietInv(w)'
  <2>1. CASE StartRead(w)
    <3>1. /\ watcher'[w] = "read" /\ copied'[w] = 0 /\ UNCHANGED seen
          /\ quiet'[w] <=> (\A c \in Cells : mem[c] = mem[0] /\ mem[c] # Zero)
      BY <2>1 DEF StartRead, IInv, TypeOK, ReadInv
    <3> QED BY <1>1, <3>1 DEF QuietInv, Whole
  <2>2. CASE ReadCell(w)
    <3> DEFINE c == copied[w]
    <3>1. /\ c \in Nat /\ c <= Chunks
      BY <2>2 DEF ReadCell, IInv, ReadInv
    <3>2. c \in Cells
      BY <3>1 DEF Cells
    <3>3. /\ copied'[w] = c + 1 /\ quiet' = quiet
          /\ watcher'[w] = (IF c = Chunks THEN "decide" ELSE "read")
          /\ \A d \in Cells : seen'[w][d] = IF d = c THEN mem[c] ELSE seen[w][d]
      BY <2>2, <3>2 DEF ReadCell, NextCell, IInv, TypeOK
    <3> HIDE DEF c
    <3>4. \A d \in Cells : d < c + 1 => d = c \/ d < c
      BY <3>1
    <3>5. quiet[w] => Whole /\ \A d \in Cells : d < c => seen[w][d] = mem[0]
      BY DEF LoadInv, QuietInv, c
    <3>6. quiet[w] => Whole' /\ mem[c] = mem[0]
      BY <1>1, <3>2, <3>5 DEF Whole
    <3> QED BY <1>1, <3>3, <3>4, <3>5, <3>6 DEF QuietInv
  <2>3. ASSUME NEW next \in {"poll", "stopped", "down"}, Turn(w, next) PROVE QuietInv(w)'
    BY <2>3 DEF Turn, IInv, TypeOK, QuietInv
  <2>4. CASE Respawn(w)
    <3>1. watcher'[w] = "poll" /\ quiet' = quiet /\ ~quiet[w]
      BY <2>4 DEF Respawn, IInv, TypeOK, LoadInv, QuietInv
    <3> QED BY <3>1 DEF QuietInv
  <2>5. CASE NothingNew(w) \/ Install(w) \/ Fail(w) \/ WorkerCrash(w)
    BY <2>3, <2>5 DEF NothingNew, Install, Fail, WorkerCrash
  <2> QED BY <2>1, <2>2, <2>4, <2>5 DEF Watch
<1> QED BY <1>2, <1>3, <1>4 DEF LoadInv

LEMMA LoadKeeps ==
  ASSUME ~FrameReused, IInv, GrowInv, LoadInv, [Next]_vars
  PROVE  LoadInv'
<1>1. CASE UNCHANGED vars
  BY <1>1 DEF vars, cliVars, workerVars, LoadInv, NamesInv, QuietInv, Whole
<1> QED BY <1>1, CliLoadInv, WorkerLoadInv DEF Next

LEMMA LoadIsQuietPoll ==
  ASSUME IInv, GrowInv, LoadInv
  PROVE  QuietPollIsLoadable
<1> SUFFICES ASSUME NEW w \in Workers, watcher[w] = "decide", quiet[w]
             PROVE  /\ seen[w][0] # Zero /\ Text(w) = {seen[w][0]}
                    /\ seen[w][0] = current[w] \/ seen[w][0] \in names
  BY DEF QuietPollIsLoadable
<1> USE Shapes
<1>1. Whole /\ \A c \in Cells : seen[w][c] = mem[0]
  <2>1. \A c \in Cells : c < Chunks + 1
    OBVIOUS
  <2> QED BY <2>1 DEF LoadInv, QuietInv
<1>2. Text(w) = {mem[0]}
  <2>1. Chunks \in Cells \ {0}
    OBVIOUS
  <2> QED BY <1>1, <2>1 DEF Text
<1>3. mem[0] = 1 => current[w] = 1
  BY DEF GrowInv, BelowInv, Zero
<1> QED BY <1>1, <1>2, <1>3 DEF LoadInv, NamesInv, Whole

\* A poll that no publication overlapped reads a whole version whose names
\* still exist, whatever other workers, check-all and earlier commands did, in
\* every build that keeps the frame of parseConfigJSON.
THEOREM QuietPollsAreLoadable ==
  ASSUME ~FrameReused
  PROVE  Spec => []QuietPollIsLoadable
<1>1. IInv /\ GrowInv /\ LoadInv /\ [Next]_vars => LoadInv'
  BY LoadKeeps
<1>2. IInv /\ GrowInv /\ LoadInv => QuietPollIsLoadable
  BY LoadIsQuietPoll
<1> QED BY <1>1, <1>2, InitLoadInv, Growing, PTL DEF Spec
=============================================================================
