-------------------------- MODULE SupervisorProofs --------------------------
(***************************************************************************)
(* Theorems about Supervisor for any number of processors, of failures and *)
(* of failed forks.                                                        *)
(***************************************************************************)
EXTENDS Supervisor, FiniteSetTheorems, TLAPS

(***************************************************************************)
(* That the pids never run out is a matter of counting: a fork after the   *)
(* startup takes the place of a worker that is gone, and a worker of a     *)
(* later generation ends by a failure of its own.                          *)
(***************************************************************************)
Forked == {p \in Pids : status[p] # "none"}
Gone == {p \in Pids : status[p] = "gone"}
LateEnds == {p \in Pids : p > CpuCount /\ status[p] \in {"zombie", "gone"}}
Forking == {i \in Slots : job[i] = "fork"}

CountInv ==
  /\ Forked = 1 .. Cardinality(Forked)
  /\ Cardinality(Forked) + Cardinality(Forking) <= CpuCount + Cardinality(Gone)
  /\ Cardinality(LateEnds) <= failures

\* Before the monitoring jobs there are but the workers of the first generation.
StartupInv ==
  /\ master = "config" => Forked = {}
  /\ master = "workers" =>
       \A p \in Pids : p \in Forked <=> p \in Slots /\ workers[p] # 0
  /\ master \in {"cli", "monitor"} => \A i \in Slots : workers[i] # 0
  /\ master \notin {"monitor", "panicked"} =>
       /\ Gone = {} /\ Forked \subseteq Slots
       /\ \A j \in Jobs : job[j] = "none"

\* A process that has not been reaped is in the slot of the array it was
\* forked for, and what is in the array was forked for that slot.
SlotInv ==
  /\ \A p \in Pids : status[p] \in {"running", "hung", "zombie"} =>
       slot[p] \in Slots /\ workers[slot[p]] = p
  /\ \A i \in Slots : workers[i] # 0 =>
       status[workers[i]] # "none" /\ slot[workers[i]] = i

\* Each job waits for what is in the array, and forks when that is gone.
JobInv ==
  \A i \in Slots :
    /\ job[i] \in {"wait", "fork"} => pid[i] = workers[i] /\ workers[i] # 0
    /\ job[i] = "fork" => status[workers[i]] = "gone"
    /\ forkFailures = 0 /\ job[i] \in {"queued", "wait"} =>
         workers[i] # 0 /\ status[workers[i]] # "gone"

IInv ==
  /\ TypeOK /\ CountInv /\ StartupInv /\ SlotInv /\ JobInv
  /\ forkFailures = 0 => master # "panicked"
  /\ StartupLeavesNothing

-----------------------------------------------------------------------------
(* Counting.                                                               *)

LEMMA PidsAreNat ==
  /\ CpuCount \in Nat /\ CpuCount >= 1 /\ MaxFailures \in Nat
  /\ Pids \subseteq Nat /\ Slots \subseteq Nat /\ Slots \subseteq Pids
  /\ 0 \notin Pids /\ 0 \notin Slots /\ 1 \in Slots
BY CountAssumption DEF Pids, Slots

LEMMA Finite ==
  /\ IsFiniteSet(Pids) /\ IsFiniteSet(Slots)
  /\ Cardinality(Slots) = CpuCount
  /\ IsFiniteSet(Forked) /\ IsFiniteSet(Gone) /\ IsFiniteSet(LateEnds)
  /\ IsFiniteSet(Forking)
  /\ Cardinality(Forked) \in Nat /\ Cardinality(Gone) \in Nat
  /\ Cardinality(LateEnds) \in Nat /\ Cardinality(Forking) \in Nat
<1>1. IsFiniteSet(Pids)
  <2>1. 2 * CpuCount + MaxFailures \in Int BY PidsAreNat
  <2> QED BY <2>1, FS_Interval DEF Pids
<1>2. IsFiniteSet(Slots) /\ Cardinality(Slots) = CpuCount
  <2>1. IsFiniteSet(1 .. CpuCount)
        /\ Cardinality(1 .. CpuCount)
             = IF 1 > CpuCount THEN 0 ELSE CpuCount - 1 + 1
    BY PidsAreNat, FS_Interval
  <2> QED BY <2>1, PidsAreNat DEF Slots
<1>3. /\ Forked \in SUBSET Pids /\ Gone \in SUBSET Pids
      /\ LateEnds \in SUBSET Pids /\ Forking \in SUBSET Slots
  BY DEF Forked, Gone, LateEnds, Forking
<1>4. /\ IsFiniteSet(Forked) /\ IsFiniteSet(Gone) /\ IsFiniteSet(LateEnds)
      /\ IsFiniteSet(Forking)
  BY <1>1, <1>2, <1>3, FS_Subset
<1> QED BY <1>1, <1>2, <1>4, FS_CardinalityType

\* A job that is about to fork finds a pid that is left, and the next one.
LEMMA RoomForRespawn ==
  ASSUME TypeOK, CountInv, NEW i \in Slots, job[i] = "fork"
  PROVE  NewPid \in Pids \ Forked
<1>1. Gone \subseteq Slots \union LateEnds
  BY PidsAreNat DEF Gone, LateEnds, Slots, Pids
<1>2. Cardinality(Gone) <= CpuCount + MaxFailures
  <2>1. IsFiniteSet(Slots \union LateEnds) BY Finite, FS_Union
  <2>2. Cardinality(Slots \union LateEnds)
          = CpuCount + Cardinality(LateEnds) - Cardinality(Slots \cap LateEnds)
    BY Finite, FS_Union
  <2>3. Cardinality(Slots \cap LateEnds) \in Nat
    <3>1. IsFiniteSet(Slots \cap LateEnds) BY Finite, FS_Intersection
    <3> QED BY <3>1, FS_CardinalityType
  <2>4. Cardinality(Gone) <= Cardinality(Slots \union LateEnds)
    BY <1>1, <2>1, FS_Subset
  <2>5. Cardinality(LateEnds) <= MaxFailures
    BY PidsAreNat, Finite DEF CountInv, TypeOK
  <2> QED BY <2>2, <2>3, <2>4, <2>5, PidsAreNat, Finite
<1>3. Cardinality(Forking) >= 1
  <2>1. Forking # {} BY DEF Forking
  <2>2. Cardinality(Forking) # 0 BY <2>1, Finite, FS_EmptySet
  <2> QED BY <2>2, Finite
<1>4. NewPid = 1 + Cardinality(Forked) BY DEF NewPid, Forked
<1>5. NewPid \in Pids
  BY <1>2, <1>3, <1>4, PidsAreNat, Finite DEF CountInv, Pids
<1>6. NewPid \notin 1 .. Cardinality(Forked) BY <1>4, Finite
<1> QED BY <1>5, <1>6 DEF CountInv

\* The first worker that is missing gets the pid of its own number.
LEMMA RoomForWorker ==
  ASSUME TypeOK, CountInv, StartupInv, master = "workers",
         NEW i \in Slots, workers[i] = 0,
         \A k \in 1 .. (i - 1) : workers[k] # 0
  PROVE  NewPid = i /\ NewPid \in Pids \ Forked
<1>1. NewPid = 1 + Cardinality(Forked) BY DEF NewPid, Forked
<1>2. i \in Nat /\ i \in Pids /\ i \notin Forked BY PidsAreNat DEF StartupInv
<1>3. \A k \in 1 .. (i - 1) : k \in Forked
  BY <1>2, PidsAreNat DEF StartupInv, Slots
<1>4. Cardinality(Forked) = i - 1
  <2> DEFINE n == Cardinality(Forked)
  <2>1. n \in Nat /\ Forked = 1 .. n BY Finite DEF CountInv
  <2> HIDE DEF n
  <2>2. ~(i <= n) BY <1>2, <2>1, PidsAreNat DEF Slots
  <2>3. ~(n < i - 1)
    <3>1. SUFFICES ASSUME n < i - 1 PROVE FALSE OBVIOUS
    <3>2. n + 1 \in 1 .. (i - 1) BY <1>2, <2>1, <3>1
    <3> QED BY <1>3, <2>1, <3>2
  <2> QED BY <1>2, <2>1, <2>2, <2>3 DEF n
<1> QED BY <1>1, <1>2, <1>4

\* A fork takes the next pid.
LEMMA ForkCounts ==
  ASSUME TypeOK, CountInv, NewPid \in Pids \ Forked, NEW i \in Slots, Fork(i)
  PROVE  /\ Forked' = Forked \union {NewPid}
         /\ Forked' = 1 .. Cardinality(Forked')
         /\ Cardinality(Forked') = Cardinality(Forked) + 1
         /\ Gone' = Gone /\ LateEnds' = LateEnds
<1>1. status[NewPid] = "none" BY DEF Forked
<1>2. Forked' = Forked \union {NewPid} BY DEF Forked, Fork, TypeOK
<1>3. Cardinality(Forked') = Cardinality(Forked) + 1
  BY <1>2, Finite, FS_AddElement
<1>4. NewPid = 1 + Cardinality(Forked) BY DEF NewPid, Forked
<1>5. Forked' = 1 .. (Cardinality(Forked) + 1)
  BY <1>2, <1>4, Finite DEF CountInv
<1>6. Gone' = Gone /\ LateEnds' = LateEnds
  BY <1>1 DEF Gone, LateEnds, Fork, TypeOK
<1> QED BY <1>2, <1>3, <1>5, <1>6

-----------------------------------------------------------------------------
(* The invariant is inductive.                                             *)

\* Before the first fork, whether the master has its configuration or not.
LEMMA NothingForkedIInv ==
  NothingForked /\ master \in {"config", "workers"} => IInv
<1> SUFFICES ASSUME NothingForked, master \in {"config", "workers"} PROVE IInv
  OBVIOUS
<1>1. TypeOK
  BY CountAssumption, PidsAreNat
  DEF NothingForked, TypeOK, Status, Jobs, CliJob
<1>2. Forked = {} /\ Gone = {} /\ LateEnds = {} /\ Forking = {}
  BY PidsAreNat DEF NothingForked, Forked, Gone, LateEnds, Forking, Jobs
<1>3. CountInv
  <2>1. Cardinality({}) = 0 /\ 1 .. 0 = {} BY FS_EmptySet
  <2> QED BY <1>2, <2>1, PidsAreNat DEF CountInv, NothingForked
<1>4. StartupInv /\ SlotInv /\ JobInv
  BY <1>2, PidsAreNat DEF StartupInv, SlotInv, JobInv, NothingForked, Jobs
<1> QED BY <1>1, <1>3, <1>4 DEF IInv, StartupLeavesNothing

\* Processes that end or hang, one or several at once: nothing but their
\* status changes, and at most one of them is of a later generation.
Ends(p) ==
  /\ status' \in [Pids -> Status]
  /\ \A q \in Pids :
       \/ status'[q] = status[q]
       \/ Alive(q) /\ status'[q] \in {"zombie", "hung"}
  /\ \A q \in Pids \ {p} : q > CpuCount => status'[q] = status[q]
  /\ UNCHANGED <<workers, slot, jobVars>>

LEMMA EndsKeeps ==
  ASSUME IInv, NEW p, Ends(p), failures' = failures + 1
  PROVE  CountInv' /\ SlotInv'
<1>1. Forked' = Forked /\ Gone' = Gone /\ Forking' = Forking
  BY DEF Forked, Gone, Forking, Ends, Alive, jobVars
<1>2. Cardinality(LateEnds') <= Cardinality(LateEnds) + 1
  <2>1. LateEnds' \subseteq LateEnds \union {p}
    BY DEF LateEnds, Ends, Alive
  <2>2. /\ IsFiniteSet(LateEnds \union {p})
        /\ Cardinality(LateEnds \union {p}) <= Cardinality(LateEnds) + 1
    <3>1. IsFiniteSet(LateEnds) /\ Cardinality(LateEnds) \in Nat BY Finite
    <3>2. /\ IsFiniteSet(LateEnds \union {p})
          /\ Cardinality(LateEnds \union {p})
               = IF p \in LateEnds THEN Cardinality(LateEnds)
                                   ELSE Cardinality(LateEnds) + 1
      BY <3>1, FS_AddElement
    <3> QED BY <3>1, <3>2
  <2>3. Cardinality(LateEnds') <= Cardinality(LateEnds \union {p})
        /\ Cardinality(LateEnds \union {p}) \in Nat
        /\ Cardinality(LateEnds') \in Nat
    BY <2>1, <2>2, FS_Subset, FS_CardinalityType
  <2> QED BY <2>2, <2>3, Finite
<1>3. Cardinality(LateEnds') \in Nat
  <2>1. LateEnds' \in SUBSET Pids BY DEF LateEnds
  <2> QED BY <2>1, Finite, FS_Subset, FS_CardinalityType
<1>4. CountInv'
  BY <1>1, <1>2, <1>3, Finite DEF IInv, CountInv, TypeOK
<1>5. SlotInv'
  BY DEF IInv, SlotInv, TypeOK, Ends, Alive
<1> QED BY <1>4, <1>5

\* What ends is not reaped yet: the jobs are where they were.
LEMMA EndsKeepsJobs ==
  ASSUME IInv, NEW p, Ends(p)
  PROVE  /\ forkFailures' = forkFailures => JobInv'
         /\ master' = master => StartupInv'
<1>1. Forked' = Forked /\ Gone' = Gone
  BY DEF Forked, Gone, Ends, Alive
<1>2. \A i \in Slots : workers[i] # 0 =>
        (status'[workers[i]] = "gone" <=> status[workers[i]] = "gone")
  BY DEF IInv, TypeOK, Ends, Alive
<1>3. ASSUME forkFailures' = forkFailures PROVE JobInv'
  BY <1>2, <1>3 DEF IInv, JobInv, Ends, jobVars
<1>4. ASSUME master' = master PROVE StartupInv'
  BY <1>1, <1>4 DEF IInv, StartupInv, Ends, jobVars
<1> QED BY <1>3, <1>4

LEMMA StartupKeeps ==
  ASSUME IInv, Startup
  PROVE  IInv'
<1>1. CASE SpawnInitialWorker
  <2>1. PICK i \in Slots :
          /\ master = "workers"
          /\ workers[i] = 0 /\ \A k \in 1 .. (i - 1) : workers[k] # 0
          /\ Fork(i)
          /\ master' = IF i = CpuCount THEN "cli" ELSE master
          /\ UNCHANGED <<cli, jobVars, budgetVars>>
    BY <1>1 DEF SpawnInitialWorker
  <2>2. NewPid = i /\ NewPid \in Pids \ Forked
    BY <2>1, RoomForWorker DEF IInv
  <2>3. /\ status' = [status EXCEPT ![i] = "running"]
        /\ slot' = [slot EXCEPT ![i] = i]
        /\ workers' = [workers EXCEPT ![i] = i]
    BY <2>1, <2>2 DEF Fork
  <2>4. i \in Pids /\ status[i] = "none" /\ i # 0
    BY <2>2, PidsAreNat DEF Forked
  <2>5. TypeOK'
    BY <2>1, <2>3, <2>4 DEF IInv, TypeOK, Status, jobVars, budgetVars
  <2>6. /\ Forked' = Forked \union {i}
        /\ Forked' = 1 .. Cardinality(Forked')
        /\ Cardinality(Forked') = Cardinality(Forked) + 1
        /\ Gone' = Gone /\ LateEnds' = LateEnds /\ Forking' = Forking
    <3>1. Forking' = Forking BY <2>1 DEF Forking, jobVars
    <3> QED BY <2>1, <2>2, <3>1, ForkCounts DEF IInv
  <2>7. CountInv'
    <3>1. Gone = {} /\ Forking = {}
      BY <2>1 DEF IInv, StartupInv, Forking, Jobs
    <3>2. Cardinality(Forked') <= CpuCount
      <4>1. Forked' \in SUBSET Slots
        BY <2>1, <2>6 DEF IInv, StartupInv, Forked
      <4> QED BY <4>1, Finite, FS_Subset
    <3>3. Cardinality({}) = 0 BY FS_EmptySet
    <3>4. failures' = failures BY <2>1 DEF budgetVars
    <3>5. Cardinality(Gone') = 0 /\ Cardinality(Forking') = 0
      BY <2>6, <3>1, <3>3
    <3>6. Cardinality(LateEnds') <= failures'
      BY <2>6, <3>4 DEF IInv, CountInv
    <3>7. Cardinality(Forked') \in Nat BY <2>6, Finite
    <3> QED BY <2>6, <3>2, <3>5, <3>6, <3>7, PidsAreNat DEF CountInv
  <2>8. SlotInv'
    <3>1. /\ workers'[i] = i /\ slot'[i] = i /\ status'[i] = "running"
          /\ \A k \in Slots \ {i} : workers'[k] = workers[k]
          /\ \A p \in Pids \ {i} : status'[p] = status[p] /\ slot'[p] = slot[p]
      BY <2>3, <2>4 DEF IInv, TypeOK
    <3>2. ASSUME NEW p \in Pids, status'[p] \in {"running", "hung", "zombie"}
          PROVE  slot'[p] \in Slots /\ workers'[slot'[p]] = p
      <4>1. CASE p = i BY <3>1, <4>1
      <4>2. CASE p # i
        <5>1. slot[p] \in Slots /\ workers[slot[p]] = p
          BY <3>1, <3>2, <4>2 DEF IInv, SlotInv
        <5>2. slot[p] # i BY <2>1, <5>1, PidsAreNat
        <5> QED BY <3>1, <4>2, <5>1, <5>2
      <4> QED BY <4>1, <4>2
    <3>3. ASSUME NEW k \in Slots, workers'[k] # 0
          PROVE  status'[workers'[k]] # "none" /\ slot'[workers'[k]] = k
      <4>1. CASE k = i BY <3>1, <4>1
      <4>2. CASE k # i
        <5>1. /\ workers[k] \in Pids /\ status[workers[k]] # "none"
              /\ slot[workers[k]] = k
          BY <3>1, <3>3, <4>2 DEF IInv, TypeOK, SlotInv
        <5> QED BY <2>4, <3>1, <4>2, <5>1
      <4> QED BY <4>1, <4>2
    <3> QED BY <3>2, <3>3 DEF SlotInv
  <2>9. StartupInv'
    <3>1. \A p \in Pids : p \in Forked' <=> p \in Slots /\ workers'[p] # 0
      BY <2>1, <2>3, <2>4, <2>6, PidsAreNat DEF IInv, TypeOK, StartupInv
    <3>2. i = CpuCount => \A k \in Slots : workers'[k] # 0
      <4>1. \A k \in Slots : k = i \/ k \in 1 .. (i - 1) \/ i # CpuCount
        BY PidsAreNat DEF Slots
      <4> QED BY <2>1, <2>3, <2>4, <4>1 DEF IInv, TypeOK
    <3> QED BY <2>1, <2>6, <3>1, <3>2 DEF IInv, StartupInv, jobVars
  <2>10. JobInv'
    BY <2>1 DEF IInv, StartupInv, JobInv, jobVars, Jobs
  <2> QED BY <2>1, <2>5, <2>7, <2>8, <2>9, <2>10
      DEF IInv, StartupLeavesNothing
<1>2. CASE SpawnCli
  <2>1. TypeOK'
    BY <1>2 DEF SpawnCli, IInv, TypeOK, Status, processVars, budgetVars
  <2>2. /\ Forked' = Forked /\ Gone' = Gone /\ LateEnds' = LateEnds
        /\ Forking' = Forking
    BY <1>2 DEF SpawnCli, IInv, StartupInv, Forked, Gone, LateEnds, Forking,
                processVars, Jobs
  <2>3. CountInv' /\ SlotInv'
    BY <1>2, <2>2 DEF SpawnCli, IInv, CountInv, SlotInv, processVars, budgetVars
  <2>4. StartupInv'
    BY <1>2, <2>2 DEF SpawnCli, IInv, StartupInv
  <2>5. JobInv'
    <3>1. \A i \in Slots : workers[i] # 0 /\ workers[i] \in Pids
      BY <1>2 DEF SpawnCli, IInv, StartupInv, TypeOK
    <3>2. \A i \in Slots : status[workers[i]] # "gone"
      BY <1>2, <3>1 DEF SpawnCli, IInv, StartupInv, Gone
    <3>3. \A i \in Slots : job'[i] = "queued" BY <1>2 DEF SpawnCli, Jobs
    <3> QED BY <1>2, <3>1, <3>2, <3>3 DEF SpawnCli, JobInv, processVars
  <2> QED BY <1>2, <2>1, <2>3, <2>4, <2>5
      DEF SpawnCli, IInv, StartupLeavesNothing
<1>3. CASE GiveUp
  <2> DEFINE pids == {workers[i] : i \in Slots}
  <2>1. status' = [p \in Pids |-> IF p \in pids /\ Alive(p) THEN "zombie"
                                  ELSE status[p]]
    BY <1>3 DEF GiveUp, Terminated
  <2>2. \A p \in Pids : Alive(p) => p \in pids
    BY DEF IInv, SlotInv, Alive
  <2> HIDE DEF pids
  <2>3. \A p \in Pids : status'[p] = IF Alive(p) THEN "zombie" ELSE status[p]
    BY <2>1, <2>2
  <2>4. TypeOK'
    BY <1>3, <2>1, CountAssumption
    DEF GiveUp, ForkFails, IInv, TypeOK, Status, jobVars
  <2>5. /\ Forked' = Forked /\ Gone' = {} /\ Gone = {} /\ Forking' = Forking
        /\ LateEnds' = {}
    <3>1. Gone = {} /\ Forked \subseteq Slots
      BY <1>3 DEF GiveUp, IInv, StartupInv
    <3>2. \A p \in Pids : status[p] # "none" => ~(p > CpuCount)
      BY <3>1, PidsAreNat DEF Forked, Slots
    <3>3. LateEnds' = {} BY <2>3, <3>2 DEF LateEnds, Alive
    <3> QED BY <1>3, <2>3, <3>1, <3>3
        DEF GiveUp, Forked, Gone, Forking, Alive, jobVars
  <2>6. CountInv'
    <3>1. Cardinality({}) = 0 BY FS_EmptySet
    <3>2. failures' \in Nat BY <2>4 DEF TypeOK
    <3> QED BY <2>5, <3>1, <3>2, PidsAreNat DEF IInv, CountInv
  <2>7. StartupInv'
    BY <1>3, <2>5 DEF GiveUp, IInv, StartupInv, jobVars
  <2>8. SlotInv'
    BY <1>3, <2>3 DEF GiveUp, IInv, TypeOK, SlotInv, Alive
  <2>9. JobInv'
    BY <1>3 DEF GiveUp, IInv, StartupInv, JobInv, jobVars, Jobs
  <2>10. StartupLeavesNothing'
    BY <2>3 DEF StartupLeavesNothing, Alive
  <2> QED BY <1>3, <2>4, <2>6, <2>7, <2>8, <2>9, <2>10 DEF GiveUp, IInv
<1> QED BY <1>1, <1>2, <1>3 DEF Startup

\* Steps of the master while it monitors, that leave the processes alone.
LEMMA FrameKeeps ==
  ASSUME IInv, master = "monitor", master' = master,
         UNCHANGED <<workers, processVars, failures>>,
         Cardinality(Forking') <= Cardinality(Forking)
  PROVE  CountInv' /\ SlotInv' /\ StartupInv' /\ StartupLeavesNothing'
<1>1. Forked' = Forked /\ Gone' = Gone /\ LateEnds' = LateEnds
  BY DEF Forked, Gone, LateEnds, processVars
<1>2. Cardinality(Forking') \in Nat
  <2>1. Forking' \in SUBSET Slots BY DEF Forking
  <2> QED BY <2>1, Finite, FS_Subset, FS_CardinalityType
<1>3. CountInv' BY <1>1, <1>2, Finite, PidsAreNat DEF IInv, CountInv
<1> QED BY <1>1, <1>3
    DEF IInv, SlotInv, StartupInv, StartupLeavesNothing, processVars

LEMMA MonitorKeeps ==
  ASSUME IInv, NEW i \in Slots, Monitor(i)
  PROVE  IInv'
<1>0. i \in Jobs /\ CliJob \notin Slots BY PidsAreNat DEF Jobs, CliJob
<1>1. CASE Reap(i)
  <2> DEFINE p == pid[i]
  <2>1. p = workers[i] /\ p \in Pids /\ status[p] = "zombie" /\ slot[p] = i
    BY <1>1 DEF Reap, IInv, TypeOK, JobInv, SlotInv
  <2>2. /\ status'[p] = "gone"
        /\ \A q \in Pids \ {p} : status'[q] = status[q]
        /\ job'[i] = "fork" /\ \A k \in Jobs \ {i} : job'[k] = job[k]
    BY <1>0, <1>1, <2>1 DEF Reap, IInv, TypeOK
  <2> HIDE DEF p
  <2>3. TypeOK'
    BY <1>1 DEF Reap, IInv, TypeOK, Status, masterVars, budgetVars
  <2>4. CountInv'
    <3>1. /\ Forked' = Forked /\ LateEnds' = LateEnds
          /\ Gone' = Gone \union {p} /\ p \notin Gone
      BY <2>1, <2>2 DEF Forked, LateEnds, Gone
    <3>2. Forking' = Forking \union {i} /\ i \notin Forking
      BY <1>0, <1>1, <2>2, PidsAreNat DEF Forking, Jobs, Reap
    <3>3. /\ Cardinality(Gone') = Cardinality(Gone) + 1
          /\ Cardinality(Forking') = Cardinality(Forking) + 1
      BY <3>1, <3>2, Finite, FS_AddElement
    <3>4. failures' = failures BY <1>1 DEF Reap, budgetVars
    <3> QED BY <3>1, <3>3, <3>4, Finite, PidsAreNat DEF IInv, CountInv
  <2>5. SlotInv'
    <3>1. workers' = workers /\ slot' = slot
      BY <1>1 DEF Reap, masterVars
    <3>2. \A q \in Pids : /\ status'[q] = "none" <=> status[q] = "none"
                          /\ status'[q] # "gone" => status'[q] = status[q]
                          /\ status[q] \in Status /\ status'[q] \in Status
      BY <2>1, <2>2, <2>3 DEF IInv, TypeOK
    <3>3. \A k \in Slots : workers[k] \in Pids \union {0} BY DEF IInv, TypeOK
    <3> QED BY <3>1, <3>2, <3>3 DEF IInv, SlotInv
  <2>6. StartupInv'
    BY <1>1 DEF Reap, IInv, StartupInv, masterVars
  <2>7. JobInv'
    <3>1. \A k \in Slots \ {i} : workers[k] # p
      BY <2>1, PidsAreNat DEF IInv, SlotInv
    <3>2. \A k \in Slots : workers[k] \in Pids \union {0}
      BY DEF IInv, TypeOK
    <3>3. ASSUME NEW k \in Slots \ {i}
          PROVE  /\ job'[k] = job[k] /\ pid'[k] = pid[k]
                 /\ workers'[k] = workers[k]
                 /\ workers[k] # 0 => status'[workers[k]] = status[workers[k]]
      BY <1>1, <2>2, <3>1, <3>2 DEF Reap, masterVars, Jobs
    <3>4. ASSUME NEW k \in Slots \ {i}
          PROVE  /\ job'[k] \in {"wait", "fork"} =>
                      pid'[k] = workers'[k] /\ workers'[k] # 0
                 /\ job'[k] = "fork" => status'[workers'[k]] = "gone"
                 /\ forkFailures' = 0 /\ job'[k] \in {"queued", "wait"} =>
                      workers'[k] # 0 /\ status'[workers'[k]] # "gone"
      <4>1. forkFailures' = forkFailures BY <1>1 DEF Reap, budgetVars
      <4> QED BY <3>3, <4>1 DEF IInv, JobInv
    <3>5. workers'[i] = p /\ pid'[i] = p /\ p # 0
      BY <1>1, <2>1, PidsAreNat DEF Reap, masterVars, p
    <3> QED BY <2>2, <3>4, <3>5 DEF JobInv
  <2> QED BY <1>1, <2>3, <2>4, <2>5, <2>6, <2>7
      DEF Reap, IInv, StartupLeavesNothing, masterVars, budgetVars
<1>2. CASE Panic(i)
  <2>1. /\ Forked' = Forked /\ Gone' = Gone /\ LateEnds' = LateEnds
        /\ Forking' = Forking
    BY <1>2 DEF Panic, Forked, Gone, LateEnds, Forking, processVars, jobVars
  <2>2. forkFailures # 0
    BY <1>2 DEF Panic, IInv, JobInv
  <2>3. TypeOK'
    BY <1>2 DEF Panic, IInv, TypeOK, processVars, jobVars, budgetVars
  <2>4. CountInv' /\ SlotInv' /\ JobInv' /\ StartupInv'
    BY <1>2, <2>1 DEF Panic, IInv, CountInv, SlotInv, JobInv, StartupInv,
                      processVars, jobVars, budgetVars
  <2> QED BY <1>2, <2>2, <2>3, <2>4
      DEF Panic, IInv, StartupLeavesNothing, budgetVars
<1>3. CASE Respawn(i)
  <2> DEFINE new == NewPid
  <2>1. new \in Pids \ Forked
    BY <1>3, RoomForRespawn DEF Respawn, IInv
  <2>2. /\ status' = [status EXCEPT ![new] = "running"]
        /\ slot' = [slot EXCEPT ![new] = i]
        /\ workers' = [workers EXCEPT ![i] = new]
        /\ pid' = [pid EXCEPT ![i] = new]
        /\ job' = [job EXCEPT ![i] = "wait"]
    BY <1>3 DEF Respawn, Fork
  <2>3. /\ Forked' = 1 .. Cardinality(Forked')
        /\ Cardinality(Forked') = Cardinality(Forked) + 1
        /\ Gone' = Gone /\ LateEnds' = LateEnds
    BY <1>3, <2>1, ForkCounts DEF IInv, Respawn
  <2> HIDE DEF new
  <2>4. status[new] = "none" /\ new # 0 /\ new \in Pids
    BY <2>1, PidsAreNat DEF Forked
  <2>5. /\ status'[new] = "running" /\ slot'[new] = i
        /\ \A q \in Pids \ {new} : status'[q] = status[q] /\ slot'[q] = slot[q]
        /\ workers'[i] = new /\ pid'[i] = new /\ job'[i] = "wait"
        /\ \A k \in Slots \ {i} : workers'[k] = workers[k] /\ pid'[k] = pid[k]
        /\ \A k \in Jobs \ {i} : job'[k] = job[k]
    BY <1>0, <2>2, <2>4 DEF IInv, TypeOK
  <2>6. TypeOK'
    BY <1>3, <2>2, <2>4 DEF Respawn, IInv, TypeOK, Status, budgetVars
  <2>7. CountInv'
    <3>1. Forking' = Forking \ {i} /\ i \in Forking
      BY <1>0, <1>3, <2>5 DEF Forking, Jobs, Respawn
    <3>2. Cardinality(Forking') = Cardinality(Forking) - 1
      BY <3>1, Finite, FS_RemoveElement
    <3>3. failures' = failures BY <1>3 DEF Respawn, budgetVars
    <3> QED BY <2>3, <3>2, <3>3, Finite, PidsAreNat DEF IInv, CountInv
  <2>8. /\ job[i] = "fork" /\ workers[i] \in Pids
        /\ status[workers[i]] = "gone"
    BY <1>3 DEF Respawn, IInv, TypeOK, JobInv
  <2>9. \A k \in Slots \ {i} : workers[k] # 0 =>
          /\ workers[k] \in Pids \ {new} /\ status[workers[k]] # "none"
          /\ slot[workers[k]] = k
    BY <2>4 DEF IInv, TypeOK, SlotInv
  <2>10. SlotInv'
    <3>1. ASSUME NEW q \in Pids, status'[q] \in {"running", "hung", "zombie"}
          PROVE  slot'[q] \in Slots /\ workers'[slot'[q]] = q
      <4>1. CASE q = new BY <2>5, <4>1
      <4>2. CASE q # new
        <5>1. slot[q] \in Slots /\ workers[slot[q]] = q
          BY <2>5, <3>1, <4>2 DEF IInv, SlotInv
        <5>2. slot[q] # i BY <2>5, <2>8, <3>1, <4>2, <5>1
        <5> QED BY <2>5, <4>2, <5>1, <5>2
      <4> QED BY <4>1, <4>2
    <3>2. ASSUME NEW k \in Slots, workers'[k] # 0
          PROVE  status'[workers'[k]] # "none" /\ slot'[workers'[k]] = k
      BY <2>5, <2>9, <3>2
    <3> QED BY <3>1, <3>2 DEF SlotInv
  <2>11. StartupInv'
    <3>1. master = "monitor" /\ master' = master BY <1>3 DEF Respawn
    <3>2. \A k \in Slots : workers'[k] # 0
      BY <2>4, <2>5, <3>1 DEF IInv, StartupInv
    <3> QED BY <3>1, <3>2 DEF StartupInv
  <2>12. JobInv'
    <3>1. ASSUME NEW k \in Slots \ {i}
          PROVE  /\ job'[k] \in {"wait", "fork"} =>
                      pid'[k] = workers'[k] /\ workers'[k] # 0
                 /\ job'[k] = "fork" => status'[workers'[k]] = "gone"
                 /\ forkFailures' = 0 /\ job'[k] \in {"queued", "wait"} =>
                      workers'[k] # 0 /\ status'[workers'[k]] # "gone"
      <4>1. forkFailures' = forkFailures BY <1>3 DEF Respawn, budgetVars
      <4>2. job'[k] = job[k] /\ workers'[k] = workers[k] /\ pid'[k] = pid[k]
        BY <2>5 DEF Jobs
      <4>3. workers[k] # 0 => status'[workers[k]] = status[workers[k]]
        BY <2>5, <2>9
      <4> QED BY <4>1, <4>2, <4>3 DEF IInv, JobInv
    <3> QED BY <2>4, <2>5, <3>1 DEF JobInv
  <2> QED BY <1>3, <2>6, <2>7, <2>10, <2>11, <2>12
      DEF Respawn, IInv, StartupLeavesNothing, budgetVars
<1>4. CASE RespawnFails(i)
  <2>1. job' = [job EXCEPT ![i] = "wait"] /\ job[i] = "fork"
    BY <1>4 DEF RespawnFails
  <2>2. TypeOK'
    <3>1. forkFailures' \in 0 .. MaxForkFailures
      BY <1>4, CountAssumption DEF RespawnFails, ForkFails, IInv, TypeOK
    <3>2. job' \in [Jobs -> {"none", "queued", "wait", "fork", "done"}]
      BY <2>1 DEF IInv, TypeOK
    <3> QED BY <1>4, <3>1, <3>2
        DEF RespawnFails, IInv, TypeOK, masterVars, processVars
  <2>3. forkFailures' # 0
    BY <1>4 DEF RespawnFails, ForkFails, IInv, TypeOK
  <2>4. Cardinality(Forking') <= Cardinality(Forking)
    <3>1. Forking' = Forking \ {i}
      BY <1>0, <2>1 DEF Forking, IInv, TypeOK, Jobs
    <3>2. IsFiniteSet(Forking) /\ Cardinality(Forking) \in Nat BY Finite
    <3>3. Cardinality(Forking \ {i})
            = IF i \in Forking THEN Cardinality(Forking) - 1
                               ELSE Cardinality(Forking)
      BY <3>2, FS_RemoveElement
    <3> QED BY <3>1, <3>2, <3>3
  <2>5. CountInv' /\ SlotInv' /\ StartupInv' /\ StartupLeavesNothing'
    BY <1>4, <2>4, FrameKeeps DEF RespawnFails, masterVars
  <2>6. JobInv'
    BY <1>0, <1>4, <2>1, <2>3
    DEF RespawnFails, IInv, TypeOK, JobInv, Jobs, masterVars, processVars
  <2> QED BY <2>2, <2>3, <2>5, <2>6 DEF IInv
<1> QED BY <1>1, <1>2, <1>3, <1>4 DEF Monitor

LEMMA StartJobKeeps ==
  ASSUME IInv, NEW j \in Jobs, StartJob(j)
  PROVE  IInv'
<1>1. /\ job' = [job EXCEPT ![j] = "wait"] /\ job[j] = "queued"
      /\ pid' = IF j \in Slots THEN [pid EXCEPT ![j] = workers[j]] ELSE pid
      /\ master = "monitor"
  BY DEF StartJob
<1>2. TypeOK'
  BY <1>1 DEF StartJob, IInv, TypeOK, masterVars, processVars, budgetVars
<1>3. Forking' = Forking
  BY <1>1 DEF Forking, IInv, TypeOK, Jobs
<1>4. CountInv' /\ SlotInv' /\ StartupInv' /\ StartupLeavesNothing'
  BY <1>1, <1>3, Finite, FrameKeeps DEF StartJob, masterVars, budgetVars
<1>5. JobInv'
  <2>1. ASSUME NEW k \in Slots
        PROVE  /\ job'[k] = IF k = j THEN "wait" ELSE job[k]
               /\ pid'[k] = IF k = j THEN workers[k] ELSE pid[k]
               /\ workers[k] # 0
    BY <1>1 DEF IInv, TypeOK, StartupInv, Jobs
  <2>2. UNCHANGED <<workers, status, forkFailures>>
    BY DEF StartJob, masterVars, processVars, budgetVars
  <2> QED BY <1>1, <2>1, <2>2 DEF IInv, JobInv
<1> QED BY <1>2, <1>4, <1>5 DEF StartJob, IInv, masterVars, budgetVars

LEMMA MonitorCliKeeps ==
  ASSUME IInv, MonitorCli
  PROVE  IInv'
<1>1. /\ master = "monitor"
      /\ UNCHANGED <<masterVars, processVars, pid, failures>>
      /\ cli' \in Status
      /\ \A k \in Slots : job'[k] = job[k]
      /\ job' \in [Jobs -> {"none", "queued", "wait", "fork", "done"}]
      /\ \/ forkFailures' = forkFailures
         \/ forkFailures' \in 1 .. MaxForkFailures
  <2>1. CliJob \notin Slots BY PidsAreNat DEF CliJob
  <2> QED BY <2>1, CountAssumption
      DEF MonitorCli, ReapCli, RespawnCli, RespawnCliFails, ForkFails, IInv,
          TypeOK, Status, Jobs, budgetVars
<1>2. TypeOK' BY <1>1 DEF IInv, TypeOK, masterVars, processVars
<1>3. Forking' = Forking BY <1>1 DEF Forking
<1>4. CountInv' /\ SlotInv' /\ StartupInv' /\ StartupLeavesNothing'
  BY <1>1, <1>3, Finite, FrameKeeps DEF masterVars
<1>5. JobInv' BY <1>1 DEF IInv, JobInv, masterVars, processVars
<1> QED BY <1>1, <1>2, <1>4, <1>5 DEF IInv, masterVars

LEMMA EnvironmentKeeps ==
  ASSUME IInv, Environment
  PROVE  IInv'
<1>1. ASSUME NEW p \in Pids,
             WorkerEnds(p) \/ EventLoopHangs(p) \/ StartFails(p)
      PROVE  IInv'
  <2>1. Ends(p)
    <3>1. CASE WorkerEnds(p)
      BY <3>1 DEF WorkerEnds, Ends, IInv, TypeOK, Status, masterVars
    <3>2. CASE EventLoopHangs(p)
      BY <3>2 DEF EventLoopHangs, Ends, IInv, TypeOK, Status, Alive, masterVars
    <3>3. CASE StartFails(p)
      <4>1. \A q \in 1 .. p : p \in Slots => ~(q > CpuCount)
        BY PidsAreNat DEF Slots
      <4> QED BY <3>3, <4>1
          DEF StartFails, Terminated, Ends, IInv, TypeOK, Status, Alive,
              masterVars
    <3> QED BY <1>1, <3>1, <3>2, <3>3
  <2>2. /\ UNCHANGED <<master, cli, forkFailures>>
        /\ failures < MaxFailures /\ failures' = failures + 1
    BY <1>1 DEF WorkerEnds, EventLoopHangs, StartFails, Fails, masterVars
  <2>3. TypeOK'
    BY <2>1, <2>2, PidsAreNat DEF Ends, IInv, TypeOK, jobVars
  <2>4. CountInv' /\ SlotInv' /\ JobInv' /\ StartupInv'
    BY <2>1, <2>2, EndsKeeps, EndsKeepsJobs
  <2>5. StartupLeavesNothing'
    BY <2>1, <2>2 DEF IInv, StartupLeavesNothing, Ends, Alive
  <2> QED BY <2>2, <2>3, <2>4, <2>5 DEF IInv
<1>2. CASE CliEnds
  <2>1. TypeOK'
    BY <1>2, PidsAreNat
    DEF CliEnds, Fails, IInv, TypeOK, Status, masterVars, processVars, jobVars
  <2>2. /\ Forked' = Forked /\ Gone' = Gone /\ LateEnds' = LateEnds
        /\ Forking' = Forking
    BY <1>2 DEF CliEnds, Forked, Gone, LateEnds, Forking, processVars, jobVars
  <2>3. CountInv'
    <3>1. failures' = failures + 1 /\ failures \in Nat
      BY <1>2 DEF CliEnds, Fails, IInv, TypeOK
    <3> QED BY <2>2, <3>1, Finite DEF IInv, CountInv
  <2> QED BY <1>2, <2>1, <2>2, <2>3
      DEF CliEnds, IInv, SlotInv, JobInv, StartupInv, StartupLeavesNothing,
          Alive, masterVars, processVars, jobVars
<1> QED BY <1>1, <1>2 DEF Environment

LEMMA NextKeeps == IInv /\ [Next]_vars => IInv'
<1> SUFFICES ASSUME IInv, [Next]_vars PROVE IInv' OBVIOUS
<1>1. CASE UNCHANGED vars
  <2>1. /\ Forked' = Forked /\ Gone' = Gone /\ LateEnds' = LateEnds
        /\ Forking' = Forking
    BY <1>1 DEF Forked, Gone, LateEnds, Forking, vars, processVars, jobVars
  <2> QED BY <1>1, <2>1
      DEF IInv, TypeOK, CountInv, StartupInv, SlotInv, JobInv,
          StartupLeavesNothing, Alive, vars, masterVars, processVars, jobVars,
          budgetVars
<1> QED
  BY <1>1, StartupKeeps, StartJobKeeps, MonitorKeeps, MonitorCliKeeps,
     EnvironmentKeeps DEF Next

-----------------------------------------------------------------------------
(* What follows from the invariant.                                        *)

LEMMA SlotsAreSingle == IInv => OneWorkerPerSlot
BY DEF IInv, SlotInv, OneWorkerPerSlot, Alive

LEMMA ChildrenAreKept == IInv => MastersKeepTheirChildren
<1> SUFFICES ASSUME IInv, forkFailures = 0
             PROVE  /\ master # "panicked"
                    /\ \A i \in Slots : job[i] = "wait" =>
                         status[pid[i]] \notin {"none", "gone"}
  BY DEF MastersKeepTheirChildren
<1> QED BY DEF IInv, JobInv, SlotInv

LEMMA Inductive == Spec => []IInv
<1>1. Init => IInv BY NothingForkedIInv DEF Init
<1> QED BY <1>1, NextKeeps, PTL DEF Spec

\* The state of the master and its processes is of its types; in particular
\* the pids suffice for any number of replacements the failures allow.
THEOREM SupervisorTypeCorrect == Spec => []TypeOK
<1>1. IInv => TypeOK BY DEF IInv
<1> QED BY <1>1, Inductive, PTL

\* Two live workers are never in the same slot, in whatever order they end and
\* their jobs reap them and fork others.
THEOREM SlotsNeverShared == Spec => []OneWorkerPerSlot
BY SlotsAreSingle, Inductive, PTL

\* As long as no fork fails, no job waits for a child that was reaped and the
\* master does not panic.
THEOREM ChildrenNeverLost == Spec => []MastersKeepTheirChildren
BY ChildrenAreKept, Inductive, PTL

\* A master that gives up at a failed fork of the startup has terminated all
\* workers it had forked.
THEOREM NothingLeftBehind == Spec => []StartupLeavesNothing
<1>1. IInv => StartupLeavesNothing BY DEF IInv
<1> QED BY <1>1, Inductive, PTL
=============================================================================
