--------------------------- MODULE CloudCupProofs ---------------------------
(***************************************************************************)
(* Theorems about the builder and the routing of CloudCup for every set of *)
(* keys a file may have and of targets requests may have, and about the    *)
(* supervision that follows.                                               *)
(***************************************************************************)
EXTENDS CloudCup, SupervisorProofs, SequenceTheorems, WellFoundedInduction,
        TLAPS

(***************************************************************************)
(* First: the least-number principle, from the well-foundedness of < on    *)
(* the naturals.                                                           *)
(***************************************************************************)
Smaller == {ss \in Nat \X Nat : ss[1] < ss[2]}

LEMMA SmallerWellFounded == IsWellFoundedOn(Smaller, Nat)
BY NatLessThanWellFounded DEF OpToRel, Smaller

\* First finds the least of any positions there are.
LEMMA FirstIsLeast ==
  ASSUME NEW S \in SUBSET Nat, S # {}
  PROVE  First(S) \in S /\ \A j \in S : First(S) <= j
<1>1. PICK x \in S : \A y \in S : ~ (<<y, x>> \in Smaller)
  BY SmallerWellFounded, WFMin
<1>2. ASSUME NEW y \in S PROVE x <= y
  <2>1. x \in Nat /\ y \in Nat OBVIOUS
  <2>2. <<y, x>> \in Nat \X Nat => ~(y < x) BY <1>1 DEF Smaller
  <2> QED BY <2>1, <2>2
<1> QED BY <1>2 DEF First

-----------------------------------------------------------------------------
(* Routing.                                                                *)

LEMMA StartsAreNat ==
  ASSUME NEW path
  PROVE  Starts(path) \subseteq Nat
BY DEF Starts, Positions

\* With a general route every request finds a route that exists.
LEMMA RouteExists ==
  ASSUME NEW keys, General \in keys, NEW target
  PROVE  RouteFor(keys, target) \in keys
<1> DEFINE path == ExtractPath(target)
           matching == Matching(keys, path)
<1>1. CASE path \in keys
  BY <1>1 DEF RouteFor
<1>2. CASE path \notin keys /\ matching # {}
  <2>1. matching \in SUBSET Nat BY StartsAreNat DEF Matching
  <2>2. First(matching) \in matching BY <1>2, <2>1, FirstIsLeast
  <2>3. Wildcard(Segment(path, First(matching))) \in keys
    BY <1>2, <2>2 DEF Matching
  <2> HIDE DEF path
  <2>4. RouteFor(keys, target) = Wildcard(Segment(path, First(matching)))
    BY <1>2 DEF RouteFor, path
  <2> QED BY <2>3, <2>4
<1>3. CASE path \notin keys /\ matching = {}
  BY <1>3 DEF RouteFor
<1> QED BY <1>1, <1>2, <1>3

\* Before cuts a path where the token is met first, or not at all.
LEMMA BeforeCuts ==
  ASSUME NEW T, NEW s \in Seq(T), NEW n \in 0 .. Len(s), NEW token,
         \A i \in 1 .. n : s[i] # token,
         n = Len(s) \/ s[n + 1] = token
  PROVE  Before(s, token) = SubSeq(s, 1, n)
<1> DEFINE S == Positions(s, token) \union {Len(s) + 1}
<1>1. Len(s) \in Nat /\ n \in Nat OBVIOUS
<1>2. S \in SUBSET Nat /\ S # {} BY <1>1 DEF Positions
<1>3. n + 1 \in S BY <1>1 DEF Positions
<1>4. \A j \in S : n + 1 <= j BY <1>1 DEF Positions
<1>5. First(S) = n + 1
  <2>1. First(S) \in S /\ First(S) <= n + 1 BY <1>2, <1>3, FirstIsLeast
  <2> HIDE DEF S
  <2>2. First(S) \in Nat /\ n + 1 <= First(S) BY <1>2, <1>4, <2>1
  <2> QED BY <1>1, <2>1, <2>2
<1> HIDE DEF S
<1>6. First(S) - 1 = n BY <1>1, <1>5
<1> QED BY <1>6 DEF Before, S

\* What follows a path without the token is cut off.
LEMMA BeforeJoined ==
  ASSUME NEW T, NEW s \in Seq(T), NEW rest \in Seq(T), NEW token,
         Positions(s, token) = {},
         rest = <<>> \/ rest[1] = token
  PROVE  Before(s \o rest, token) = s
<1> DEFINE joined == s \o rest
<1>1. /\ joined \in Seq(T)
      /\ Len(joined) = Len(s) + Len(rest)
      /\ \A i \in 1 .. Len(s) + Len(rest) :
           joined[i] = IF i <= Len(s) THEN s[i] ELSE rest[i - Len(s)]
  BY ConcatProperties
<1>2. Len(s) \in Nat /\ Len(rest) \in Nat OBVIOUS
<1>3. SubSeq(joined, 1, Len(s)) = s
  <2>1. CASE Len(s) = 0
    BY <2>1, SubSeqEmpty, EmptySeq, <1>2
  <2>2. CASE Len(s) # 0
    <3>1. SubSeq(joined, 1, Len(s)) = SubSeq(s, 1, Len(s))
      <4>1. 1 \in 1 .. Len(s) /\ Len(s) \in 1 .. Len(s) BY <1>2, <2>2
      <4> QED BY <4>1, SubSeqOfConcat1
    <3> QED BY <3>1, SubSeqFull
  <2> QED BY <2>1, <2>2
<1>4. \A i \in 1 .. Len(s) : joined[i] # token
  BY <1>1, <1>2 DEF Positions
<1>5. Len(s) = Len(joined) \/ joined[Len(s) + 1] = token
  <2>1. CASE rest = <<>> BY <2>1, <1>1, <1>2, EmptySeq
  <2>2. CASE rest # <<>>
    <3>1. Len(rest) >= 1 BY <2>2, <1>2, EmptySeq
    <3>2. Len(s) + 1 \in 1 .. Len(s) + Len(rest) BY <3>1, <1>2
    <3>3. joined[Len(s) + 1] = rest[Len(s) + 1 - Len(s)] BY <3>2, <1>1, <1>2
    <3> QED BY <2>2, <3>3, <1>2
  <2> QED BY <2>1, <2>2
<1>6. Len(s) \in 0 .. Len(joined) BY <1>1, <1>2
<1> HIDE DEF joined
<1>7. Before(joined, token) = SubSeq(joined, 1, Len(s))
  BY <1>1, <1>4, <1>5, <1>6, BeforeCuts
<1> QED BY <1>3, <1>7 DEF joined

\* A key as the builder lets it through.
Plain(k) == k # <<>> /\ Positions(k, "?") = {} /\ ~EndsWithSlash(k)

\* extractPath takes a slash or a query off a plain key and leaves the key.
LEMMA ExtractPathOfKey ==
  ASSUME NEW T, {"/", "?"} \subseteq T, NEW k \in Seq(T), Plain(k),
         NEW tail \in {<<>>, <<"/">>, <<"?", "/">>, <<"/", "?">>}
  PROVE  ExtractPath(k \o tail) = k
<1> DEFINE slash == k \o <<"/">>
<1>1. Len(k) \in Nat \ {0} BY EmptySeq DEF Plain
<1>2. CASE tail \in {<<>>, <<"?", "/">>}
  <2>1. tail \in Seq(T) /\ (tail = <<>> \/ tail[1] = "?")
    <3>1. CASE tail = <<>> BY <3>1, EmptySeq
    <3>2. CASE tail = <<"?", "/">> BY <3>2
    <3> QED BY <1>2, <3>1, <3>2
  <2>2. Before(k \o tail, "?") = k BY <2>1, BeforeJoined DEF Plain
  <2> QED BY <2>2 DEF ExtractPath, Plain, EndsWithSlash
<1>3. CASE tail \in {<<"/">>, <<"/", "?">>}
  <2>1. /\ slash \in Seq(T) /\ Len(slash) = Len(k) + 1
        /\ \A i \in 1 .. Len(k) + 1 :
             slash[i] = IF i <= Len(k) THEN k[i] ELSE "/"
    BY <1>1
  <2>2. slash[Len(slash)] = "/" /\ Len(slash) > 1 BY <1>1, <2>1
  <2>3. Positions(slash, "?") = {} BY <1>1, <2>1 DEF Plain, Positions
  <2>4. SubSeq(slash, 1, Len(slash) - 1) = k
    <3>1. <<"/">> \in Seq(T) OBVIOUS
    <3>2. SubSeq(slash, 1, Len(k)) = SubSeq(k, 1, Len(k))
      BY <1>1, <3>1, SubSeqOfConcat1
    <3>3. Len(slash) - 1 = Len(k) BY <1>1, <2>1
    <3> HIDE DEF slash
    <3> QED BY <3>2, <3>3, SubSeqFull
  <2>5. Before(k \o tail, "?") = slash
    <3>1. CASE tail = <<"/">>
      <4>1. <<>> \in Seq(T) OBVIOUS
      <4> HIDE DEF slash
      <4>2. Before(slash \o <<>>, "?") = slash
        BY <2>1, <2>3, <4>1, BeforeJoined
      <4>3. slash \o <<>> = slash BY <2>1, ConcatEmptySeq
      <4> QED BY <3>1, <4>2, <4>3 DEF slash
    <3>2. CASE tail = <<"/", "?">>
      <4>1. /\ <<"?">> \in Seq(T) /\ <<"/">> \in Seq(T)
            /\ <<"?">>[1] = "?"
        OBVIOUS
      <4>4. <<"/">> \o <<"?">> = <<"/", "?">>
        <5> DEFINE both == <<"/">> \o <<"?">>
        <5>1. /\ both \in Seq(T) /\ Len(both) = 2
              /\ both[1] = "/" /\ both[2] = "?"
          BY <4>1
        <5>2. /\ <<"/", "?">> \in Seq(T) /\ Len(<<"/", "?">>) = 2
              /\ <<"/", "?">>[1] = "/" /\ <<"/", "?">>[2] = "?"
          BY <4>1
        <5>3. \A i \in 1 .. 2 : both[i] = <<"/", "?">>[i]
          <6>1. ASSUME NEW i \in 1 .. 2 PROVE i = 1 \/ i = 2 OBVIOUS
          <6> HIDE DEF both
          <6> QED BY <5>1, <5>2, <6>1
        <5> HIDE DEF both
        <5>4. both = <<"/", "?">> BY <5>1, <5>2, <5>3, SeqEqual
        <5> QED BY <5>4 DEF both
      <4>2. slash \o <<"?">> = k \o tail BY <3>2, <4>1, <4>4, ConcatAssociative
      <4> HIDE DEF slash
      <4>3. Before(slash \o <<"?">>, "?") = slash
        BY <2>1, <2>3, <4>1, BeforeJoined
      <4> QED BY <4>2, <4>3
    <3> QED BY <1>3, <3>1, <3>2
  <2> HIDE DEF slash
  <2> QED BY <2>2, <2>4, <2>5 DEF ExtractPath
<1> QED BY <1>2, <1>3

-----------------------------------------------------------------------------
(* The builder.                                                            *)

\* Nothing is made before the fields and the TLS files are read, and nothing
\* is freed while a configuration may still be accepted.
NotYet ==
  /\ build \in {"fields", "tls"} =>
       allocated = {} /\ routes = {} /\ strategies = {} /\ context = "none"
  /\ build = "routes" => strategies = {}
  /\ build \in {"fields", "tls", "routes", "strategies", "accepted"} =>
       frees = [k \in Keys |-> 0]

\* What a configuration in the making holds.
Growing ==
  build \in {"routes", "strategies", "accepted"} =>
    /\ allocated = routes /\ context # "freed"
    /\ \A k \in routes : memory[k] = "fresh" /\ ~EndsWithSlash(k)

\* Only a table with the general route gets to the strategies.
Routed ==
  /\ build \in {"strategies", "accepted"} => General \in routes
  /\ build = "accepted" => strategies = routes

BInv == BuilderTypeOK /\ NotYet /\ Growing /\ Routed /\ RefusalReleases

LEMMA BInvInit == CupInit => BInv
BY KeysAssumption DEF CupInit, BuilderInit, BInv, BuilderTypeOK, NotYet,
   Growing, Routed, RefusalReleases

\* The catch of Builder.init frees each of the arrays once.
LEMMA RefuseKeepsBInv ==
  ASSUME BInv, build \in {"routes"}, NEW arrays, Refuse(arrays),
         arrays = allocated', allocated' \subseteq Keys,
         allocated \subseteq allocated',
         memory' \in [Keys -> {"none", "stale", "fresh"}]
  PROVE  BInv'
<1>1. frees' = [k \in Keys |-> IF k \in allocated' THEN 1 ELSE 0]
  BY DEF BInv, NotYet, Refuse, FreeEach
<1>2. BuilderTypeOK'
  BY <1>1 DEF BInv, BuilderTypeOK, Refuse
<1>3. RefusalReleases'
  BY <1>1 DEF RefusalReleases, Refuse
<1> QED BY <1>2, <1>3 DEF BInv, NotYet, Growing, Routed, Refuse

LEMMA BInvBuild == BInv /\ BuildStep => BInv'
<1> SUFFICES ASSUME BInv, BuildStep PROVE BInv'
  OBVIOUS
<1> USE DEF BInv, BuilderTypeOK, NotYet, Growing, Routed, RefusalReleases
<1>1. CASE CheckFields BY <1>1 DEF CheckFields
<1>2. CASE LoadTls BY <1>2 DEF LoadTls
<1>3. CASE EndRoutes
  <2>1. CASE General \in routes BY <1>3, <2>1 DEF EndRoutes
  <2>2. CASE General \notin routes
    <3>1. Refuse(allocated) /\ allocated' = allocated /\ memory' = memory
      BY <1>3, <2>2 DEF EndRoutes
    <3> QED BY <1>3, <3>1, RefuseKeepsBInv DEF EndRoutes
  <2> QED BY <2>1, <2>2
<1>4. CASE Accept BY <1>4 DEF Accept
<1>5. ASSUME NEW k \in Keys, BackendsInvalid(k) PROVE BInv'
  BY <1>5, RefuseKeepsBInv DEF BackendsInvalid
<1>6. ASSUME NEW k \in Keys, CountPanics(k) PROVE BInv'
  BY <1>6 DEF CountPanics
<1>7. ASSUME NEW k \in Keys, CreateFails(k) PROVE BInv'
  BY <1>7, RefuseKeepsBInv DEF CreateFails
<1>8. ASSUME NEW k \in Keys, RouteInvalid(k) PROVE BInv'
  BY <1>8, RefuseKeepsBInv DEF RouteInvalid, CreateMemory
<1>9. ASSUME NEW k \in Keys, AddRoute(k) PROVE BInv'
  BY <1>9 DEF AddRoute, CreateMemory
<1>10. ASSUME NEW k \in Keys, SetUpStrategy(k) PROVE BInv'
  BY <1>10 DEF SetUpStrategy
<1>11. ASSUME NEW k \in Keys, SetUpFails(k) PROVE BInv'
  BY <1>11 DEF SetUpFails, FreeEach
<1> QED
  BY <1>1, <1>2, <1>3, <1>4, <1>5, <1>6, <1>7, <1>8, <1>9, <1>10, <1>11
  DEF BuildStep

LEMMA BInvStep == BInv /\ [CupNext]_cupVars => BInv'
<1> SUFFICES ASSUME BInv, [CupNext]_cupVars PROVE BInv'
  OBVIOUS
<1> USE DEF BInv, BuilderTypeOK, NotYet, Growing, Routed, RefusalReleases
<1>1. CASE Build BY <1>1, BInvBuild DEF Build
<1>2. CASE UNCHANGED buildVars BY <1>2 DEF buildVars
<1>3. CASE StopAccepted
  BY <1>3 DEF StopAccepted, CloseTwice
<1>4. CASE Run BY <1>4 DEF Run, Forget
<1> QED BY <1>1, <1>2, <1>3, <1>4 DEF CupNext, Stop, cupVars

LEMMA BInvAlways == CupSpec => []BInv
BY BInvInit, BInvStep, PTL DEF CupSpec

-----------------------------------------------------------------------------
(* The theorems.                                                           *)

\* The state of the builder is of its types in every run of the program.
THEOREM BuilderTypeCorrect == CupSpec => []BuilderTypeOK
<1>1. BInv => BuilderTypeOK BY DEF BInv
<1> QED BY <1>1, BInvAlways, PTL

\* Whatever error Config.init meets, each array of backends made until then
\* is freed exactly once, and an error of a strategy also gives back the
\* context and the names of the memories.
THEOREM RefusalIsClean == CupSpec => []RefusalReleases
<1>1. BInv => RefusalReleases BY DEF BInv
<1> QED BY <1>1, BInvAlways, PTL

\* A configuration that Config.init returns holds every strategy and memory
\* its routes need, and the memories are new.
THEOREM AcceptanceIsComplete == CupSpec => []AcceptedIsComplete
<1>1. BInv => AcceptedIsComplete
  BY DEF BInv, BuilderTypeOK, NotYet, Growing, Routed, AcceptedIsComplete,
         Accepted
<1> QED BY <1>1, BInvAlways, PTL

\* handleRequest finds a strategy for every target, whatever it is and
\* whatever the routes of an accepted configuration are.
THEOREM NoTargetIsUnserved == CupSpec => []EveryTargetIsServed
<1>1. BInv => EveryTargetIsServed
  BY RouteExists DEF BInv, Routed, EveryTargetIsServed, Accepted
<1> QED BY <1>1, BInvAlways, PTL

\* A wildcard serves what is below its segment and has no route of its own:
\* the first of the matching segments is the first of the path.
THEOREM WildcardsCoverTheirSegment == CupSpec => []WildcardsServeBelow
<1>1. WildcardsServeBelow
  <2> SUFFICES ASSUME NEW t \in Targets, NEW path, path = ExtractPath(t),
                      HasSubPath(path), path \notin strategies,
                      Wildcard(Segment(path, 1)) \in strategies
               PROVE  RouteFor(strategies, t) = Wildcard(Segment(path, 1))
    BY DEF WildcardsServeBelow
  <2> DEFINE matching == Matching(strategies, path)
  <2>1. 1 \in matching BY DEF Matching, Starts
  <2>2. matching \in SUBSET Nat /\ \A i \in matching : 1 <= i
    BY StartsAreNat DEF Matching, Starts, Positions
  <2> HIDE DEF matching
  <2>3. First(matching) \in matching /\ First(matching) <= 1
    BY <2>1, <2>2, FirstIsLeast
  <2>4. First(matching) = 1
    <3>1. First(matching) \in Nat /\ 1 <= First(matching) BY <2>2, <2>3
    <3> QED BY <2>3, <3>1
  <2> QED BY <2>1, <2>4 DEF RouteFor, matching
<1> QED BY <1>1, PTL

\* A route without a query in its key serves the requests for that key, with
\* a slash or a query behind it or not.
THEOREM KeysServeThemselves == CupSpec => []ExactRoutesWin
<1>1. BInv => ExactRoutesWin
  <2> SUFFICES ASSUME BInv, Accepted,
                      NEW k \in strategies,
                      k # <<>> /\ Positions(k, "?") = {},
                      NEW tail \in {<<>>, <<"/">>, <<"?", "/">>, <<"/", "?">>}
               PROVE  RouteFor(strategies, k \o tail) = k
    BY DEF ExactRoutesWin
  <2> DEFINE T == STRING \union {"/", "?"}
  <2>1. k \in Keys /\ Plain(k)
    BY DEF BInv, BuilderTypeOK, Growing, Routed, Accepted, Plain
  <2>2. k \in Seq(T)
    <3>1. k \in Seq(STRING) BY <2>1, KeysAssumption
    <3> QED BY <3>1
  <2>3. {"/", "?"} \subseteq T OBVIOUS
  <2> HIDE DEF T
  <2>4. ExtractPath(k \o tail) = k BY <2>1, <2>2, <2>3, ExtractPathOfKey
  <2> QED BY <2>4 DEF RouteFor
<1> QED BY <1>1, BInvAlways, PTL

-----------------------------------------------------------------------------
(* The supervision.                                                        *)

LEMMA CupKeepsIInv == IInv /\ [CupNext]_cupVars => IInv'
<1> SUFFICES ASSUME IInv, [CupNext]_cupVars PROVE IInv' OBVIOUS
<1>1. CASE [Next]_vars BY <1>1, NextKeeps
<1>2. CASE Stop \/ StopAccepted \/ Run
  <2>1. /\ master = "config" /\ master' \in {"workers", "exited"}
        /\ UNCHANGED <<workers, processVars, cli, jobVars, budgetVars>>
    BY <1>2 DEF Stop, StopAccepted, Run
  <2>2. /\ Forked' = {} /\ Forked = {} /\ Gone' = Gone
        /\ LateEnds' = LateEnds /\ Forking' = Forking
    BY <2>1 DEF Forked, Gone, LateEnds, Forking, IInv, StartupInv,
                processVars, jobVars
  <2>3. TypeOK'
    BY <2>1 DEF IInv, TypeOK, processVars, jobVars, budgetVars
  <2>4. CountInv' /\ SlotInv' /\ JobInv'
    BY <2>1, <2>2 DEF IInv, CountInv, SlotInv, JobInv, processVars, jobVars,
                      budgetVars
  <2>5. StartupInv'
    <3>1. \A i \in Slots : workers'[i] = 0
      BY <2>1, <2>2 DEF IInv, TypeOK, SlotInv, Forked
    <3> QED BY <2>1, <2>2, <3>1 DEF IInv, StartupInv, jobVars
  <2>6. StartupLeavesNothing'
    BY <2>2 DEF Forked, StartupLeavesNothing, Alive
  <2> QED BY <2>1, <2>3, <2>4, <2>5, <2>6 DEF IInv, budgetVars
<1> QED BY <1>1, <1>2 DEF CupNext, Build, cupVars

\* What holds of the master on its own holds of the whole program: whatever
\* becomes of the configuration, no slot ever has two live workers, no child is
\* lost unless a fork failed, and a master that ends before it monitors leaves
\* no worker behind.
THEOREM SupervisionHolds ==
  CupSpec => [](OneWorkerPerSlot /\ MastersKeepTheirChildren
                  /\ StartupLeavesNothing)
<1>1. IInv => OneWorkerPerSlot /\ MastersKeepTheirChildren
                /\ StartupLeavesNothing
  BY SlotsAreSingle, ChildrenAreKept DEF IInv
<1>2. CupInit => IInv BY NothingForkedIInv DEF CupInit
<1> QED BY <1>1, <1>2, CupKeepsIInv, PTL DEF CupSpec
=============================================================================
