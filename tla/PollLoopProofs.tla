--------------------------- MODULE PollLoopProofs ---------------------------
(***************************************************************************)
(* Proofs about PollLoop, and with it SelfUpdate, for every value of their *)
(* constants.                                                              *)
(***************************************************************************)
EXTENDS PollLoop, TLAPS

USE DEF cadence, image, core, passed

-----------------------------------------------------------------------------
(* The operators.                                                          *)

LEMMA MinOfStages ==
  ASSUME NEW S \in SUBSET (1..3), S # {}
  PROVE  Min(S) \in S /\ \A i \in S : Min(S) <= i
<1>1. \E i \in S : \A j \in S : i <= j
  <2>0. \A i \in S : i = 1 \/ i = 2 \/ i = 3
    OBVIOUS
  <2>1. CASE 1 \in S  BY <2>0, <2>1
  <2>2. CASE 1 \notin S /\ 2 \in S  BY <2>0, <2>2
  <2>3. CASE 1 \notin S /\ 2 \notin S
    <3>1. \A i \in S : i = 3
      BY <2>0, <2>3
    <3>2. PICK i : i \in S
      OBVIOUS
    <3> QED  BY <3>1, <3>2
  <2> QED  BY <2>1, <2>2, <2>3
<1> QED  BY <1>1 DEF Min

\* GoOn moves to the first cycle that is due, or to sleep if none is: no cycle
\* whose deadline has passed is stepped over.
LEMMA GoOnLemma ==
  ASSUME NEW done \in 0..3, NEW timers, GoOn(done, timers)
  PROVE  /\ pc' \in {"snmp", "sweep", "hello", "asleep"}
         /\ sleepIn' \in {sleepIn, poll'}
         /\ pc' = "snmp" => done = 0
         /\ pc' = "sweep" => done <= 1
         /\ timers["snmp"] = 0 /\ done = 0 => pc' = "snmp"
         /\ timers["sweep"] = 0 /\ done <= 1 => pc' \in {"snmp", "sweep"}
<1> DEFINE D == DueAfter(done, timers)
<1>1. /\ Stages[1] = "snmp" /\ Stages[2] = "sweep" /\ Stages[3] = "hello"
  BY DEF Stages
<1>2. D \in SUBSET (1..3) /\ \A i \in 1..3 : i \in D <=> (i > done /\ timers[Stages[i]] = 0)
  BY DEF DueAfter
<1>3. CASE D = {}
  <2>1. pc' = "asleep" /\ sleepIn' = poll'
    BY <1>3 DEF GoOn
  <2>2. \A i \in 1..3 : ~(i > done /\ timers[Stages[i]] = 0)
    BY <1>2, <1>3
  <2> QED  BY <1>1, <2>1, <2>2
<1>4. CASE D # {}
  <2> DEFINE k == Min(D)
  <2>1. k \in D /\ \A i \in D : k <= i
    BY <1>2, <1>4, MinOfStages
  <2>2. pc' = Stages[k] /\ sleepIn' = sleepIn
    BY <1>4 DEF GoOn
  <2>3. k \in 1..3 /\ k > done
    BY <1>2, <2>1
  <2> HIDE DEF k, D
  <2>4. k = 1 \/ k = 2 \/ k = 3
    BY <2>3
  <2>5. timers["snmp"] = 0 /\ done = 0 => k = 1
    BY <1>1, <1>2, <2>1, <2>3
  <2>6. timers["sweep"] = 0 /\ done <= 1 => k \in {1, 2}
    BY <1>1, <1>2, <2>1, <2>3
  <2> QED  BY <1>1, <2>2, <2>3, <2>4, <2>5, <2>6
<1> QED  BY <1>3, <1>4

-----------------------------------------------------------------------------
(* Type correctness.                                                       *)

Timers == {"snmp", "sweep", "hello"}

LEMMA InitType == Init => TypeOK
<1> SUFFICES ASSUME Init PROVE TypeOK
  OBVIOUS
<1>1. Update!TypeOK
  BY PollAssumption DEF Init, Update!Init, Update!TypeOK, Update!File, Update!NoFile, Update!Versions
<1>2. /\ poll \in Polls \cup {PollDefault}
      /\ left \in [Timers -> Nat] /\ sleepIn \in Nat
      /\ golden \in 1..MaxVersion /\ deaths \in 0..MaxBoots
      /\ info \in [fast : BOOLEAN, update : 0..MaxVersion]
  BY PollAssumption DEF Init, NoInfo, Timers
<1>3. every \in [Cycles -> SnmpEvery \cup SweepEvery]
  BY DEF Init, Cycles
<1>4. /\ looping \in BOOLEAN /\ fast \in BOOLEAN /\ offered \in BOOLEAN
      /\ coreFast \in BOOLEAN /\ toldFast \in BOOLEAN
  BY Zenon DEF Init
<1>5. pc = "hello" /\ asked = {} /\ served = {}
  BY DEF Init
<1> QED  BY <1>1, <1>2, <1>3, <1>4, <1>5 DEF TypeOK, Timers

LEMMA BootType ==
  ASSUME TypeOK, Boot
  PROVE  /\ Update!TypeOK'
         /\ pc' = "hello" /\ looping' \in BOOLEAN /\ fast' \in BOOLEAN /\ offered' \in BOOLEAN
         /\ poll' \in Polls \cup {PollDefault}
         /\ info' \in [fast : BOOLEAN, update : 0..MaxVersion]
         /\ every' \in [Cycles -> SnmpEvery \cup SweepEvery]
         /\ left' \in [Timers -> Nat] /\ sleepIn' \in Nat
         /\ asked' = {} /\ served' = {}
         /\ coreFast' = coreFast /\ toldFast' = toldFast /\ golden' = golden
<1>1. Update!TypeOK'
  BY DEF TypeOK, Boot, Update!Start, Update!TypeOK, Update!File
<1>2. looping' \in BOOLEAN /\ fast' \in BOOLEAN /\ offered' \in BOOLEAN
  BY Zenon DEF Boot
<1>3. every' \in [Cycles -> SnmpEvery \cup SweepEvery]
  BY DEF Boot, Cycles
<1>4. /\ poll' \in Polls \cup {PollDefault}
      /\ left' \in [Timers -> Nat] /\ sleepIn' \in Nat
      /\ info' \in [fast : BOOLEAN, update : 0..MaxVersion]
  BY PollAssumption DEF Boot, NoInfo, Timers
<1> QED  BY <1>1, <1>2, <1>3, <1>4 DEF Boot

LEMMA HelloOverType ==
  ASSUME TypeOK, HelloOver, poll' \in Polls \cup {PollDefault}
  PROVE  /\ pc' \in {"snmp", "sweep", "hello", "asleep", "top"}
         /\ left' \in [Timers -> Nat] /\ sleepIn' \in Nat
<1>1. poll' \in Nat /\ sleepIn \in Nat /\ left \in [Timers -> Nat] /\ HelloEvery \in Nat
  BY PollAssumption DEF TypeOK, Timers
<1>2. CASE looping
  <2>1. left' = [left EXCEPT !["hello"] = HelloEvery] /\ GoOn(3, left')
    BY <1>2 DEF HelloOver
  <2>2. pc' \in {"snmp", "sweep", "hello", "asleep"} /\ sleepIn' \in {sleepIn, poll'}
    BY <2>1, GoOnLemma
  <2> QED  BY <1>1, <2>1, <2>2
<1>3. CASE ~looping
  BY <1>1, <1>3 DEF HelloOver
<1> QED  BY <1>2, <1>3

LEMMA CountDownType == ASSUME NEW n \in Nat PROVE CountDown(n) \in Nat /\ (n = 0 => CountDown(n) = 0)
BY DEF CountDown

\* What the steps leave of each variable's kind, one lemma per group of steps.
LEMMA PassType ==
  ASSUME TypeOK,
         \/ Top \/ PollEnds \/ PollRaises \/ Wake \/ Elapse
         \/ \E flags \in SUBSET Cycles : WorkArrives(flags)
  PROVE  TypeOK'
<1>0. /\ poll \in Nat /\ sleepIn \in Nat /\ left \in [Timers -> Nat] /\ every \in [Cycles -> SnmpEvery \cup SweepEvery]
      /\ \A t \in Cycles : every[t] \in Nat
  BY PollAssumption DEF TypeOK, Timers, Cycles
<1>1. CASE Top
  <2>1. fast' \in BOOLEAN
    BY <1>1, Zenon DEF Top
  <2>2. /\ looping' = TRUE /\ pc' = "polling" /\ asked' = {} /\ served' = {}
        /\ UNCHANGED <<info, cadence, left, image, core, deaths, offered>>
    BY <1>1 DEF Top
  <2> QED  BY <2>1, <2>2 DEF TypeOK, Update!TypeOK
<1>2. ASSUME NEW flags \in SUBSET Cycles, WorkArrives(flags) PROVE TypeOK'
  BY <1>2 DEF TypeOK, WorkArrives, Update!TypeOK
<1>3. CASE PollEnds
  <2>1. left' \in [Timers -> Nat]
    BY <1>0, <1>3 DEF PollEnds, DeadlineAfterPoll
  <2>2. GoOn(0, left') /\ poll' = poll
    BY <1>3 DEF PollEnds
  <2>3. pc' \in {"snmp", "sweep", "hello", "asleep"} /\ sleepIn' \in {sleepIn, poll'}
    BY <2>2, GoOnLemma
  <2>4. sleepIn' \in Nat
    BY <1>0, <2>2, <2>3
  <2>5. UNCHANGED <<looping, info, fast, poll, every, image, core, deaths, passed>>
    BY <1>3 DEF PollEnds
  <2> QED  BY <2>1, <2>3, <2>4, <2>5 DEF TypeOK, Update!TypeOK, Timers
<1>4. CASE PollRaises
  <2>1. sleepIn' \in Nat
    BY <1>0, <1>4, PollAssumption DEF PollRaises, Least
  <2> QED  BY <1>4, <2>1 DEF TypeOK, PollRaises, Update!TypeOK
<1>5. CASE Wake
  BY <1>5 DEF TypeOK, Wake, Update!TypeOK
<1>6. CASE Elapse
  <2>1. sleepIn' \in Nat /\ left' \in [Timers -> Nat]
    BY <1>0, <1>6, CountDownType DEF Elapse
  <2> QED  BY <1>6, <2>1 DEF TypeOK, Elapse, Update!TypeOK, Timers
<1> QED  BY <1>1, <1>2, <1>3, <1>4, <1>5, <1>6

LEMMA CycleType ==
  ASSUME TypeOK, NEW t \in Cycles, NEW ok \in BOOLEAN, NEW interval, CycleEnds(t, ok, interval)
  PROVE  TypeOK'
<1>1. every' \in [Cycles -> SnmpEvery \cup SweepEvery]
  <2>1. interval \in SnmpEvery \cup SweepEvery
    BY DEF CycleEnds, TypeOK
  <2> QED  BY <2>1 DEF CycleEnds, TypeOK
<1>2. left' \in [Timers -> Nat]
  <2>1. every'[t] \in Nat
    BY <1>1, PollAssumption
  <2> QED  BY <2>1 DEF CycleEnds, TypeOK, Timers
<1>3. GoOn(CycleNo(t), left') /\ CycleNo(t) \in 0..3 /\ poll' = poll
  BY DEF CycleEnds, AfterCycle, CycleNo
<1>4. pc' \in {"snmp", "sweep", "hello", "asleep"} /\ sleepIn' \in {sleepIn, poll'}
  BY <1>3, GoOnLemma
<1>5. sleepIn' \in Nat
  BY <1>3, <1>4, PollAssumption DEF TypeOK
<1>6. /\ served' \subseteq Cycles
      /\ UNCHANGED <<looping, info, fast, poll, image, core, deaths, asked, offered>>
  BY DEF CycleEnds, TypeOK
<1> QED  BY <1>1, <1>2, <1>4, <1>5, <1>6 DEF TypeOK, Update!TypeOK, Timers

LEMMA HelloType ==
  ASSUME TypeOK, HelloAnswered \/ \E heard \in BOOLEAN : HelloRaises(heard)
  PROVE  TypeOK'
<1>1. CASE HelloAnswered
  <2>1. Answer \in [fast : BOOLEAN, update : 0..MaxVersion]
    BY PollAssumption DEF TypeOK, Answer
  <2>2. poll' \in Polls \cup {PollDefault}
    BY <1>1 DEF HelloAnswered, TypeOK
  <2>3. /\ pc' \in {"updating", "snmp", "sweep", "hello", "asleep", "top"}
        /\ left' \in [Timers -> Nat] /\ sleepIn' \in Nat
    <3>1. CASE Answer.update # 0 /\ Frozen
      BY <1>1, <3>1 DEF HelloAnswered, TypeOK, Timers
    <3>2. CASE ~(Answer.update # 0 /\ Frozen)
      <4>1. HelloOver
        BY <1>1, <3>2 DEF HelloAnswered
      <4> QED  BY <2>2, <4>1, HelloOverType
    <3> QED  BY <3>1, <3>2
  <2>4. Update!TypeOK'
    <3>1. CASE Answer.update # 0 /\ Frozen
      <4>1. Update!Begin(Answer.update)
        BY <1>1, <3>1 DEF HelloAnswered
      <4>2. Answer.update \in 1..MaxVersion
        BY <2>1, <3>1, PollAssumption
      <4> QED  BY <4>1, <4>2 DEF TypeOK, Update!Begin, Update!TypeOK, Update!Versions
    <3>2. CASE ~(Answer.update # 0 /\ Frozen)
      BY <1>1, <3>2 DEF HelloAnswered, TypeOK, Update!TypeOK
    <3> QED  BY <3>1, <3>2
  <2>5. offered' \in BOOLEAN /\ toldFast' \in BOOLEAN
    BY <1>1, Zenon DEF HelloAnswered
  <2>6. /\ info' = Answer
        /\ UNCHANGED <<looping, fast, every, coreFast, golden, deaths, asked, served>>
    BY <1>1 DEF HelloAnswered
  <2> QED  BY <2>1, <2>2, <2>3, <2>4, <2>5, <2>6 DEF TypeOK, Timers
<1>2. ASSUME NEW heard \in BOOLEAN, HelloRaises(heard) PROVE TypeOK'
  <2>1. poll' = poll /\ HelloOver
    BY <1>2 DEF HelloRaises
  <2>2. /\ pc' \in {"snmp", "sweep", "hello", "asleep", "top"}
        /\ left' \in [Timers -> Nat] /\ sleepIn' \in Nat
    BY <2>1, HelloOverType DEF TypeOK
  <2>3. info' \in [fast : BOOLEAN, update : 0..MaxVersion]
    BY <1>2, PollAssumption DEF HelloRaises, TypeOK, NoInfo
  <2>4. toldFast' \in BOOLEAN
    BY <1>2, Zenon DEF HelloRaises
  <2>5. UNCHANGED <<looping, fast, poll, every, image, coreFast, golden, deaths, passed>>
    BY <1>2 DEF HelloRaises
  <2> QED  BY <2>2, <2>3, <2>4, <2>5 DEF TypeOK, Timers, Update!TypeOK
<1> QED  BY <1>1, <1>2

LEMMA UpdateType ==
  ASSUME TypeOK, UpdateAdvances \/ UpdateRaises PROVE TypeOK'
<1>1. CASE UpdateAdvances
  <2>1. Update!TypeOK'
    <3>1. /\ running \in Update!Versions /\ target \in Update!Versions /\ 1 \in Update!Versions
          /\ binary \in Update!File /\ scratch \in Update!File
      BY PollAssumption DEF TypeOK, Update!TypeOK, Update!Versions
    <3>2. Update!NoFile \in Update!File /\ \A w \in BOOLEAN : [version |-> target, whole |-> w] \in Update!File
      BY <3>1 DEF Update!NoFile, Update!File
    <3>3. CASE Update!OpenScratch
      BY <3>1, <3>2, <3>3 DEF Update!TypeOK, Update!OpenScratch
    <3>4. CASE Update!FillScratch
      BY <3>1, <3>2, <3>4 DEF Update!TypeOK, Update!FillScratch
    <3>5. CASE Update!Replace
      BY <3>1, <3>2, <3>5 DEF Update!TypeOK, Update!Replace
    <3> QED  BY <1>1, <3>3, <3>4, <3>5 DEF UpdateAdvances, Update!Advance
  <2> QED  BY <1>1, <2>1 DEF UpdateAdvances, TypeOK
<1>2. CASE UpdateRaises
  <2>1. Update!TypeOK'
    BY <1>2 DEF UpdateRaises, TypeOK, Update!TypeOK, Update!Raise
  <2>2. poll' = poll /\ HelloOver
    BY <1>2 DEF UpdateRaises
  <2>3. /\ pc' \in {"snmp", "sweep", "hello", "asleep", "top"}
        /\ left' \in [Timers -> Nat] /\ sleepIn' \in Nat
    BY <2>2, HelloOverType DEF TypeOK
  <2>4. info' \in [fast : BOOLEAN, update : 0..MaxVersion]
    BY <1>2, PollAssumption DEF UpdateRaises, TypeOK, NoInfo
  <2>5. UNCHANGED <<looping, fast, poll, every, core, deaths, passed>>
    BY <1>2 DEF UpdateRaises
  <2> QED  BY <2>1, <2>3, <2>4, <2>5 DEF TypeOK, Timers
<1> QED  BY <1>1, <1>2

LEMMA WorldType ==
  ASSUME TypeOK, CoreUpgrades \/ CoreReleases \/ UpdateExits \/ Dies PROVE TypeOK'
<1>1. CASE CoreUpgrades
  BY <1>1 DEF CoreUpgrades, TypeOK, Update!TypeOK
<1>2. CASE CoreReleases
  BY <1>2, PollAssumption DEF CoreReleases, TypeOK, Update!TypeOK
<1>3. CASE UpdateExits \/ Dies
  <2>1. Boot /\ deaths' \in 0..MaxBoots
    BY <1>3, PollAssumption DEF UpdateExits, Dies, TypeOK
  <2> QED  BY <2>1, BootType DEF TypeOK, Timers
<1> QED  BY <1>1, <1>2, <1>3

LEMMA NextType == TypeOK /\ [Next]_vars => TypeOK'
<1> SUFFICES ASSUME TypeOK, [Next]_vars PROVE TypeOK'
  OBVIOUS
<1>1. CASE UNCHANGED vars
  BY <1>1 DEF vars, TypeOK, Update!TypeOK
<1>2. CASE SomeCycleEnds(TRUE) \/ SomeCycleEnds(FALSE)
  BY <1>2, CycleType DEF SomeCycleEnds
<1> QED  BY <1>1, <1>2, PassType, HelloType, UpdateType, WorldType DEF Next

\* TypeOK: every variable of the loop and of an update in it keeps its kind,
\* for every set of intervals, every number of releases and of deaths.
THEOREM LoopTypeCorrect == Spec => []TypeOK
BY InitType, NextType, PTL DEF Spec

-----------------------------------------------------------------------------
(* The image.                                                              *)

\* What is at the path is whole because only a whole file is moved there, and
\* only a process on its way out runs another release.
ImageInv ==
  /\ Update!BinaryIsWhole
  /\ step = "replacing" => scratch.whole
  /\ Update!RunsWhatIsInstalled

LEMMA ImageInit == Init => ImageInv
BY DEF Init, ImageInv, Update!Init, Update!BinaryIsWhole, Update!RunsWhatIsInstalled

\* Every step of the loop leaves the image alone or is one of SelfUpdate's.
LEMMA ImageSteps ==
  ASSUME Next
  PROVE  \/ UNCHANGED image
         \/ Update!Begin(Answer.update)
         \/ Update!Advance \/ Update!Raise \/ Update!Start
<1>1. CASE Top \/ PollEnds \/ PollRaises \/ Elapse \/ Wake \/ CoreUpgrades \/ CoreReleases
  BY <1>1 DEF Top, PollEnds, PollRaises, Elapse, Wake, CoreUpgrades, CoreReleases
<1>2. CASE \E flags \in SUBSET Cycles : WorkArrives(flags)
  BY <1>2 DEF WorkArrives
<1>3. CASE SomeCycleEnds(TRUE) \/ SomeCycleEnds(FALSE)
  BY <1>3 DEF SomeCycleEnds, CycleEnds
<1>4. CASE HelloAnswered
  BY <1>4 DEF HelloAnswered
<1>5. CASE \E heard \in BOOLEAN : HelloRaises(heard)
  BY <1>5 DEF HelloRaises
<1>6. CASE UpdateAdvances \/ UpdateRaises
  BY <1>6 DEF UpdateAdvances, UpdateRaises
<1>7. CASE UpdateExits \/ Dies
  BY <1>7 DEF UpdateExits, Dies, Boot
<1> QED  BY <1>1, <1>2, <1>3, <1>4, <1>5, <1>6, <1>7 DEF Next

LEMMA ImageStep == ImageInv /\ [Next]_vars => ImageInv'
<1> SUFFICES ASSUME ImageInv, [Next]_vars PROVE ImageInv'
  OBVIOUS
<1> USE DEF ImageInv, Update!BinaryIsWhole, Update!RunsWhatIsInstalled
<1>1. CASE UNCHANGED image
  BY <1>1
<1>2. ASSUME NEW v, Update!Begin(v) PROVE ImageInv'
  BY <1>2 DEF Update!Begin
<1>3. CASE Update!OpenScratch
  BY <1>3 DEF Update!OpenScratch
<1>4. CASE Update!FillScratch
  BY <1>4 DEF Update!FillScratch
<1>5. CASE Update!Replace
  BY <1>5 DEF Update!Replace
<1>6. CASE Update!Raise
  BY <1>6 DEF Update!Raise
<1>7. CASE Update!Start
  BY <1>7 DEF Update!Start
<1> QED  BY <1>1, <1>2, <1>3, <1>4, <1>5, <1>6, <1>7, ImageSteps DEF vars, Update!Advance

LEMMA ImageIsRight == Spec => []ImageInv
BY ImageInit, ImageStep, PTL DEF Spec

\* BinaryIsWhole: whatever the process dies at or fails in, for any number of
\* releases and deaths, a whole release is at the path it is started from.
THEOREM AlwaysAWholeBinary == Spec => []BinaryIsWhole
<1>1. ImageInv => BinaryIsWhole
  BY DEF ImageInv, BinaryIsWhole
<1> QED  BY <1>1, ImageIsRight, PTL

\* RunsWhatIsInstalled: the loop never polls, answers or says hello with an
\* image other than the one installed; only the exit is left to such a one.
THEOREM InstalledIsRunning == Spec => []RunsWhatIsInstalled
<1>1. ImageInv => RunsWhatIsInstalled
  BY DEF ImageInv, RunsWhatIsInstalled
<1> QED  BY <1>1, ImageIsRight, PTL

-----------------------------------------------------------------------------
(* The fast lane's start.                                                  *)

\* The core does not lose its endpoints, and info repeats what it said: a hello
\* that raises leaves the field as it was or empties it.
LaneInv ==
  /\ coreFast \in BOOLEAN
  /\ LaneOnlyIfOffered
  /\ info.fast => coreFast

LEMMA LaneStep == LaneInv /\ [Next]_vars => LaneInv'
<1> SUFFICES ASSUME LaneInv, [Next]_vars PROVE LaneInv'
  OBVIOUS
<1> USE DEF LaneInv, LaneOnlyIfOffered
<1>1. CASE UNCHANGED <<fast, info, coreFast>>
  BY <1>1
<1>2. CASE Top
  BY <1>2 DEF Top, StartsLane
<1>3. CASE HelloAnswered
  BY <1>3 DEF HelloAnswered, Answer
<1>4. CASE (\E heard \in BOOLEAN : HelloRaises(heard)) \/ UpdateRaises
  BY <1>4 DEF HelloRaises, UpdateRaises, NoInfo
<1>5. CASE CoreUpgrades
  BY <1>5 DEF CoreUpgrades
<1>6. CASE UpdateExits \/ Dies
  BY <1>6 DEF UpdateExits, Dies, Boot, NoInfo
<1>7. CASE PollEnds \/ PollRaises \/ Elapse \/ Wake \/ CoreReleases \/ UpdateAdvances
  BY <1>1, <1>7 DEF PollEnds, PollRaises, Elapse, Wake, CoreReleases, UpdateAdvances
<1>8. CASE \/ \E flags \in SUBSET Cycles : WorkArrives(flags)
           \/ SomeCycleEnds(TRUE) \/ SomeCycleEnds(FALSE)
  BY <1>1, <1>8 DEF WorkArrives, SomeCycleEnds, CycleEnds
<1> QED  BY <1>1, <1>2, <1>3, <1>4, <1>5, <1>6, <1>7, <1>8 DEF Next, vars

\* LaneOnlyIfOffered: no order of upgrades, failed hellos, failed updates and
\* restarts makes the agent run its lane beside a core without the endpoints.
THEOREM LaneIsOffered == Spec => []LaneOnlyIfOffered
<1>1. Init => LaneInv
  BY DEF Init, LaneInv, LaneOnlyIfOffered, NoInfo
<1>2. LaneInv => LaneOnlyIfOffered
  BY DEF LaneInv
<1> QED  BY <1>1, <1>2, LaneStep, PTL DEF Spec

-----------------------------------------------------------------------------
(* The flags of a pass.                                                    *)

\* A flag that is raised pulls its deadline to now, so the pass cannot get past
\* the cycle: what is unserved is still ahead of the await the task is at.
AskedInv ==
  /\ pc \in {"asleep", "hello", "updating"} => Unserved = {}
  /\ pc = "sweep" => Unserved \subseteq {"sweep"}
  /\ pc = "snmp" /\ "sweep" \in Unserved => left["sweep"] = 0

LEMMA AskedInit == Init => AskedInv
BY DEF Init, AskedInv, Unserved

\* After hello the pass is over: it sleeps, or the startup goes on to its loop.
LEMMA AskedHelloOver ==
  ASSUME TypeOK, AskedInv, pc \in {"hello", "updating"}, HelloOver,
         UNCHANGED <<asked, served>>
  PROVE  AskedInv'
<1>1. Unserved' = {}
  BY DEF AskedInv, Unserved
<1> QED  BY <1>1 DEF AskedInv

LEMMA AskedPollEnds ==
  ASSUME TypeOK, PollEnds PROVE AskedInv'
<1>1. /\ \A t \in asked : left'[t] = 0
      /\ asked' = asked /\ served' = served /\ asked \subseteq {"snmp", "sweep"}
  BY DEF PollEnds, DeadlineAfterPoll, TypeOK, Cycles
<1>2. GoOn(0, left')
  BY DEF PollEnds
<1>3. /\ pc' \in {"snmp", "sweep", "hello", "asleep"}
      /\ "snmp" \in asked => pc' = "snmp"
      /\ "sweep" \in asked => pc' \in {"snmp", "sweep"}
  BY <1>1, <1>2, GoOnLemma
<1> QED  BY <1>1, <1>3 DEF AskedInv, Unserved

LEMMA AskedCycle ==
  ASSUME TypeOK, AskedInv, NEW t \in Cycles, NEW ok \in BOOLEAN, NEW interval,
         CycleEnds(t, ok, interval)
  PROVE  AskedInv'
<1>1. GoOn(CycleNo(t), left') /\ CycleNo(t) \in 0..3
  BY DEF CycleEnds, AfterCycle, CycleNo
<1>2. /\ pc = t /\ asked' = asked /\ served' = served \cup {t}
      /\ asked \subseteq {"snmp", "sweep"}
      /\ left \in [Timers -> Nat] /\ left' = [left EXCEPT ![t] = every'[t]]
  BY DEF CycleEnds, TypeOK, Cycles, Timers
<1>3. CASE t = "sweep"
  <2>1. Unserved' = {}
    BY <1>2, <1>3 DEF AskedInv, Unserved
  <2> QED  BY <2>1 DEF AskedInv
<1>4. CASE t = "snmp"
  <2>1. CycleNo(t) = 1 /\ left'["sweep"] = left["sweep"]
    BY <1>2, <1>4 DEF CycleNo, Timers
  <2>2. /\ pc' \in {"snmp", "sweep", "hello", "asleep"} /\ pc' # "snmp"
        /\ left["sweep"] = 0 => pc' = "sweep"
    BY <1>1, <2>1, GoOnLemma
  <2>3. Unserved' \subseteq {"sweep"} /\ ("sweep" \in Unserved' => left["sweep"] = 0)
    BY <1>2, <1>4 DEF AskedInv, Unserved
  <2> QED  BY <2>2, <2>3 DEF AskedInv
<1> QED  BY <1>3, <1>4 DEF Cycles

LEMMA AskedStep == TypeOK /\ AskedInv /\ [Next]_vars => AskedInv'
<1> SUFFICES ASSUME TypeOK, AskedInv, [Next]_vars PROVE AskedInv'
  OBVIOUS
<1>1. CASE UNCHANGED <<pc, left, asked, served>>
  BY <1>1 DEF AskedInv, Unserved
<1>2. CASE CoreUpgrades \/ CoreReleases \/ UpdateAdvances
  BY <1>1, <1>2 DEF CoreUpgrades, CoreReleases, UpdateAdvances
<1>3. CASE Top \/ PollRaises \/ Wake \/ \E flags \in SUBSET Cycles : WorkArrives(flags)
  <2>1. pc' \in {"top", "polling", "working", "backoff"}
    BY <1>3 DEF Top, PollRaises, Wake, WorkArrives
  <2> QED  BY <2>1 DEF AskedInv
<1>4. CASE PollEnds
  BY <1>4, AskedPollEnds
<1>5. CASE SomeCycleEnds(TRUE) \/ SomeCycleEnds(FALSE)
  BY <1>5, AskedCycle DEF SomeCycleEnds
<1>6. CASE HelloAnswered
  <2>1. pc = "hello" /\ UNCHANGED <<asked, served>>
    BY <1>6 DEF HelloAnswered
  <2>2. CASE pc' = "updating"
    BY <2>1, <2>2 DEF AskedInv, Unserved
  <2>3. CASE HelloOver
    BY <2>1, <2>3, AskedHelloOver
  <2> QED  BY <1>6, <2>2, <2>3 DEF HelloAnswered
<1>7. CASE (\E heard \in BOOLEAN : HelloRaises(heard)) \/ UpdateRaises
  BY <1>7, AskedHelloOver DEF HelloRaises, UpdateRaises
<1>8. CASE UpdateExits \/ Dies
  <2>1. asked' = {}
    BY <1>8 DEF UpdateExits, Dies, Boot
  <2> QED  BY <2>1 DEF AskedInv, Unserved
<1>9. CASE Elapse
  <2>1. left'["sweep"] = CountDown(left["sweep"]) /\ UNCHANGED <<pc, asked, served>>
    BY <1>9 DEF Elapse, TypeOK
  <2> QED  BY <2>1, CountDownType DEF AskedInv, Unserved
<1> QED  BY <1>1, <1>2, <1>3, <1>4, <1>5, <1>6, <1>7, <1>8, <1>9 DEF Next, vars

\* No deadline of a cycle is further away than its interval.
Near == \A t \in Cycles : left[t] <= every[t]

LEMMA NearBoot ==
  ASSUME NEW l, NEW e, \E a \in SnmpEvery, b \in SweepEvery : e = [snmp |-> a, sweep |-> b],
         l = [snmp |-> 0, sweep |-> 0, hello |-> HelloEvery]
  PROVE  \A t \in Cycles : l[t] <= e[t]
<1>1. PICK a \in SnmpEvery, b \in SweepEvery : e = [snmp |-> a, sweep |-> b]
  OBVIOUS
<1>2. a \in Nat /\ b \in Nat
  BY PollAssumption
<1> QED  BY <1>1, <1>2 DEF Cycles

LEMMA NearStep == TypeOK /\ Near /\ [Next]_vars => Near'
<1> SUFFICES ASSUME TypeOK, Near, [Next]_vars PROVE Near'
  OBVIOUS
<1>1. /\ left \in [Timers -> Nat] /\ every \in [Cycles -> SnmpEvery \cup SweepEvery]
      /\ Cycles \subseteq Timers /\ SnmpEvery \cup SweepEvery \subseteq Nat
      /\ HelloEvery \in Nat /\ "hello" \notin Cycles
  BY PollAssumption DEF TypeOK, Timers, Cycles
<1>2. CASE UNCHANGED <<left, every>>
  BY <1>2 DEF Near
<1>3. CASE PollEnds
  <2>1. ASSUME NEW t \in Cycles PROVE left'[t] <= every'[t]
    <3>1. left'[t] \in {0, left[t]} /\ every' = every
      BY <1>1, <1>3 DEF PollEnds, DeadlineAfterPoll
    <3>2. left[t] \in Nat /\ every[t] \in Nat /\ left[t] <= every[t]
      BY <1>1 DEF Near
    <3> QED  BY <3>1, <3>2
  <2> QED  BY <2>1 DEF Near
<1>4. ASSUME NEW u \in Cycles, NEW ok \in BOOLEAN, NEW n \in SnmpEvery \cup SweepEvery,
             CycleEnds(u, ok, n)
      PROVE  Near'
  <2>1. ASSUME NEW t \in Cycles PROVE left'[t] <= every'[t]
    <3>1. every' \in [Cycles -> Nat] /\ (t # u => every'[t] = every[t])
      BY <1>1, <1>4 DEF CycleEnds
    <3>2. left' = [left EXCEPT ![u] = every'[u]]
      BY <1>4 DEF CycleEnds
    <3>3. CASE t = u
      BY <1>1, <3>1, <3>2, <3>3
    <3>4. CASE t # u
      BY <1>1, <3>1, <3>2, <3>4 DEF Near
    <3> QED  BY <3>3, <3>4
  <2> QED  BY <2>1 DEF Near
<1>5. CASE HelloOver /\ UNCHANGED every
  <2>1. \A t \in Cycles : left'[t] = left[t]
    BY <1>1, <1>5 DEF HelloOver
  <2> QED  BY <1>5, <2>1 DEF Near
<1>6. CASE Elapse
  <2>1. ASSUME NEW t \in Cycles PROVE left'[t] <= every'[t]
    <3>1. left'[t] = CountDown(left[t]) /\ every' = every
      BY <1>1, <1>6 DEF Elapse
    <3>2. left[t] \in Nat /\ every[t] \in Nat /\ left[t] <= every[t]
      BY <1>1 DEF Near
    <3> QED  BY <3>1, <3>2 DEF CountDown
  <2> QED  BY <2>1 DEF Near
<1>7. CASE UpdateExits \/ Dies
  BY <1>7, NearBoot DEF UpdateExits, Dies, Boot, Near
<1>8. CASE \/ HelloAnswered \/ UpdateRaises \/ \E heard \in BOOLEAN : HelloRaises(heard)
  BY <1>2, <1>5, <1>8 DEF HelloAnswered, UpdateRaises, HelloRaises
<1>9. CASE \/ Top \/ PollRaises \/ Wake \/ CoreUpgrades \/ CoreReleases \/ UpdateAdvances
           \/ \E flags \in SUBSET Cycles : WorkArrives(flags)
  BY <1>2, <1>9 DEF Top, PollRaises, Wake, CoreUpgrades, CoreReleases, UpdateAdvances, WorkArrives, cadence
<1>10. CASE SomeCycleEnds(TRUE) \/ SomeCycleEnds(FALSE)
  BY <1>4, <1>10 DEF SomeCycleEnds
<1> QED  BY <1>2, <1>3, <1>6, <1>7, <1>8, <1>9, <1>10 DEF Next, vars, cadence

\* AskedIsServed: with any intervals, and whatever is due besides, a pass whose
\* work asked for a cycle runs it before it sleeps, or its poll raised and the
\* cycle is at most its own interval away.
THEOREM FlagsAreActedOn == Spec => []AskedIsServed
<1>1. AskedInv /\ Near /\ TypeOK => AskedIsServed
  BY DEF AskedInv, Near, AskedIsServed, Unserved, TypeOK
<1>2. Init => Near
  BY NearBoot DEF Init, Near
<1> QED  BY <1>1, <1>2, AskedInit, AskedStep, NearStep, InitType, NextType, PTL DEF Spec
=============================================================================
