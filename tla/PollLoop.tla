------------------------------ MODULE PollLoop ------------------------------
(***************************************************************************)
(* The agent's main task, outpost/run.py: _loop with the hello, poll, SNMP *)
(* and sweep cycles it awaits one after the other, the fast lane it starts *)
(* beside them, and the self-update that ends the process (SelfUpdate).    *)
(* With it, as seen from the agent, the core that answers and the service  *)
(* manager that restarts the process.                                      *)
(*                                                                         *)
(* A step is what the task does between two awaits.  An await that spans   *)
(* several calls with one exception handler around them (fetch, run and    *)
(* post of a cycle) is one state that ends well or raises.  Time is        *)
(* counted in ticks; a deadline is the number of ticks left to it.         *)
(***************************************************************************)
EXTENDS Integers, FiniteSetsExt

CONSTANTS
  Frozen,       \* can_self_update(): this is the single-file binary
  PollDefault,  \* cfg.poll_seconds
  Polls,        \* the poll_interval_seconds the core may name
  SnmpEvery, SweepEvery,   \* the intervals of the cycles; 900 s and 600 s
                           \* until the core names another
  HelloEvery,   \* 300 s
  MaxBackoff,   \* 60 s
  MaxVersion,   \* bound: releases of the agent
  MaxBoots      \* bound: process starts that are not due to an update

ASSUME PollAssumption ==
  /\ Frozen \in BOOLEAN
  /\ PollDefault \in Nat \ {0} /\ Polls \subseteq Nat \ {0}
  /\ SnmpEvery \subseteq Nat \ {0} /\ SnmpEvery # {}
  /\ SweepEvery \subseteq Nat \ {0} /\ SweepEvery # {}
  /\ HelloEvery \in Nat \ {0} /\ MaxBackoff \in Nat \ {0}
  /\ MaxVersion \in Nat \ {0} /\ MaxBoots \in Nat

VARIABLES
  pc,         \* which await of _loop is pending
  looping,    \* the startup try block is behind
  poll,       \* poll
  info,       \* the fields of info: fast, and update_to (0 for none)
  fast,       \* the FastRunner has been started
  every,      \* snmp_interval and sweep_interval
  left,       \* ticks left to next_snmp, next_sweep, next_hello
  sleepIn,    \* ticks left of the sleep
  running, binary, scratch, step, target,   \* SelfUpdate
  coreFast,   \* the core: its release has the fast-lane endpoints
  toldFast,   \* the core: an agent that runs a fast lane said hello
  golden,     \* the core: the release its agents should run
  deaths,     \* times the process was killed
  asked,      \* the pending flags of work: cycles the core asks for
  served,     \* history: cycles run since work was fetched
  offered     \* history: the core has answered this process fast: true

Update == INSTANCE SelfUpdate

image == <<running, binary, scratch, step, target>>
cadence == <<poll, every, sleepIn>>
core == <<coreFast, toldFast, golden>>
\* The flags of the pass and the two histories.
passed == <<asked, served, offered>>
vars == <<pc, looping, info, fast, cadence, left, image, core, deaths, passed>>

Cycles == {"snmp", "sweep"}
NoInfo == [fast |-> FALSE, update |-> 0]
Least(a, b) == IF a < b THEN a ELSE b
CountsBelowZero(n) == n - 1      \* mutant: a deadline stays in the past
CountDown(n) == IF n = 0 THEN 0 ELSE n - 1

-----------------------------------------------------------------------------
(* The order of one pass: poll, then each cycle that is due, then sleep.   *)

Stages == <<"snmp", "sweep", "hello">>

CyclesOnly(done, timers) ==   \* mutant: hello is said at startup only
  {i \in (done + 1)..2 : timers[Stages[i]] = 0}

\* Those of Stages after the first `done' whose deadline has passed.
DueAfter(done, timers) == {i \in (done + 1)..3 : timers[Stages[i]] = 0}

\* What the pass awaits next.
GoOn(done, timers) ==
  IF DueAfter(done, timers) = {}
  THEN pc' = "asleep" /\ sleepIn' = poll'
  ELSE pc' = Stages[Min(DueAfter(done, timers))] /\ UNCHANGED sleepIn

\* while True: the lane is started once, when the core has offered it.
StartsUnasked == TRUE         \* mutant: an older core is not considered

StartsLane == info.fast

Top ==
  /\ pc = "top"
  /\ fast' = (fast \/ StartsLane)
  /\ looping' = TRUE
  /\ pc' = "polling"
  /\ asked' = {} /\ served' = {}
  /\ UNCHANGED <<info, cadence, left, image, core, deaths, offered>>

\* fetch_work, and after it the batch of checks, its PTR lookups and
\* post_results: the first answer says which cycles to run in this pass.
WorkArrives(flags) ==
  /\ pc = "polling"
  /\ pc' = "working"
  /\ asked' = flags
  /\ UNCHANGED <<looping, info, fast, cadence, left, image, core, deaths,
                 served, offered>>

IgnoresFlags(t) == left[t]    \* mutant: the flags come too late for this pass
PutsOff(t) ==                 \* mutant: the interval starts anew with every poll
  IF t \in asked THEN 0 ELSE IF t \in Cycles THEN every[t] ELSE left[t]

DeadlineAfterPoll(t) == IF t \in asked THEN 0 ELSE left[t]

PollEnds ==
  /\ pc = "working"
  /\ left' = [t \in DOMAIN left |-> DeadlineAfterPoll(t)]
  /\ poll' = poll
  /\ GoOn(0, left')
  /\ UNCHANGED <<looping, info, fast, every, image, core, deaths, passed>>

\* Any exception of the poll: back off and start over, without the cycles.
PollRaises ==
  /\ pc \in {"polling", "working"}
  /\ pc' = "backoff"
  /\ sleepIn' = Least(2 * poll, MaxBackoff)
  /\ UNCHANGED <<looping, info, fast, poll, every, left, image, core, deaths,
                 passed>>

CycleNo(t) == IF t = "snmp" THEN 1 ELSE 2

RetriesAtOnce(t, ok) ==       \* mutant: a failed cycle is run again at once
  IF ok THEN GoOn(CycleNo(t), left') ELSE UNCHANGED <<pc, sleepIn>>

AfterCycle(t, ok) == GoOn(CycleNo(t), left')

\* _snmp_cycle or _sweep_cycle returns, with the interval in force, or raises.
CycleEnds(t, ok, interval) ==
  /\ pc = t
  /\ interval \in (IF t = "snmp" THEN SnmpEvery ELSE SweepEvery) \cup {every[t]}
  /\ every' = IF ok THEN [every EXCEPT ![t] = interval] ELSE every
  /\ left' = [left EXCEPT ![t] = every'[t]]
  /\ served' = served \cup {t}
  /\ poll' = poll
  /\ AfterCycle(t, ok)
  /\ UNCHANGED <<looping, info, fast, image, core, deaths, asked, offered>>

-----------------------------------------------------------------------------
(* hello and self-update, at startup and every HelloEvery.                 *)

\* What the core answers to a hello from this process.
Answer == [fast |-> coreFast, update |-> IF golden = running THEN 0 ELSE golden]

\* The try block around hello ends, normally or not.
HelloOver ==
  IF looping
  THEN /\ left' = [left EXCEPT !["hello"] = HelloEvery]
       /\ GoOn(3, left')
  ELSE pc' = "top" /\ UNCHANGED <<left, sleepIn>>

\* Only the startup hello looks at the poll interval.
HelloAnswered ==
  /\ pc = "hello"
  /\ toldFast' = TRUE
  /\ info' = Answer
  /\ offered' = (offered \/ coreFast)
  /\ poll' \in (IF looping THEN {poll} ELSE Polls \cup {poll})
  /\ IF Answer.update # 0 /\ Frozen
     THEN /\ pc' = "updating"
          /\ Update!Begin(Answer.update)
          /\ UNCHANGED <<left, sleepIn>>
     ELSE HelloOver /\ UNCHANGED image
  /\ UNCHANGED <<looping, fast, every, coreFast, golden, deaths, asked, served>>

\* hello raises; the core may have heard it all the same.  A startup hello
\* that fails leaves info empty, a later one leaves it as it was.
HelloRaises(heard) ==
  /\ pc = "hello"
  /\ toldFast' = (toldFast \/ heard)
  /\ poll' = poll
  /\ HelloOver
  /\ info' = IF looping THEN info ELSE NoInfo
  /\ UNCHANGED <<looping, fast, every, image, coreFast, golden, deaths, passed>>

UpdateAdvances ==
  /\ pc = "updating"
  /\ Update!Advance
  /\ UNCHANGED <<pc, looping, info, fast, cadence, left, core, deaths, passed>>

\* self_update raises: the handler is that of the hello before it.
UpdateRaises ==
  /\ pc = "updating"
  /\ Update!Raise
  /\ poll' = poll
  /\ HelloOver
  /\ info' = IF looping THEN info ELSE NoInfo
  /\ UNCHANGED <<looping, fast, every, core, deaths, passed>>

-----------------------------------------------------------------------------
(* Time, the core and the service manager.                                 *)

\* An await takes its time.
Elapse ==
  /\ pc \notin {"top", "updating"}
  /\ pc \in {"asleep", "backoff"} => sleepIn > 0
  /\ sleepIn' = CountDown(sleepIn)
  /\ left' = [t \in DOMAIN left |-> CountDown(left[t])]
  /\ UNCHANGED <<pc, looping, info, fast, poll, every, image, core, deaths,
                 asked, served, offered>>

Wake ==
  /\ pc \in {"asleep", "backoff"} /\ sleepIn = 0
  /\ pc' = "top"
  /\ UNCHANGED <<looping, info, fast, cadence, left, image, core, deaths, passed>>

CoreUpgrades ==
  /\ ~coreFast /\ coreFast' = TRUE
  /\ UNCHANGED <<pc, looping, info, fast, cadence, left, image, toldFast, golden,
                 deaths, passed>>

CoreReleases ==
  /\ golden < MaxVersion /\ golden' = golden + 1
  /\ UNCHANGED <<pc, looping, info, fast, cadence, left, image, coreFast, toldFast,
                 deaths, passed>>

\* What the service manager starts: the image at the path, and a new _loop.
Boot ==
  /\ Update!Start
  /\ pc' = "hello" /\ looping' = FALSE
  /\ poll' = PollDefault
  /\ info' = NoInfo
  /\ fast' = FALSE
  /\ \E a \in SnmpEvery, b \in SweepEvery : every' = [snmp |-> a, sweep |-> b]
  /\ left' = [snmp |-> 0, sweep |-> 0, hello |-> HelloEvery]
  /\ sleepIn' = 0
  /\ asked' = {} /\ served' = {} /\ offered' = FALSE
  /\ UNCHANGED core

\* os._exit after a replaced binary.
UpdateExits == pc = "updating" /\ step = "leaving" /\ Boot /\ UNCHANGED deaths

\* The process dies for any other reason.
Dies == deaths < MaxBoots /\ deaths' = deaths + 1 /\ Boot

Init ==
  /\ Update!Init
  /\ pc = "hello" /\ looping = FALSE
  /\ poll = PollDefault
  /\ info = NoInfo
  /\ fast = FALSE
  /\ \E a \in SnmpEvery, b \in SweepEvery : every = [snmp |-> a, sweep |-> b]
  /\ left = [snmp |-> 0, sweep |-> 0, hello |-> HelloEvery]
  /\ sleepIn = 0
  /\ coreFast \in BOOLEAN /\ toldFast = FALSE /\ golden = 1
  /\ deaths = 0
  /\ asked = {} /\ served = {} /\ offered = FALSE

SomeCycleEnds(ok) ==
  \E t \in Cycles : \E interval \in SnmpEvery \cup SweepEvery : CycleEnds(t, ok, interval)

Next ==
  \/ Top
  \/ \E flags \in SUBSET Cycles : WorkArrives(flags)
  \/ PollEnds \/ PollRaises
  \/ SomeCycleEnds(TRUE) \/ SomeCycleEnds(FALSE)
  \/ HelloAnswered \/ \E heard \in BOOLEAN : HelloRaises(heard)
  \/ UpdateAdvances \/ UpdateRaises \/ UpdateExits
  \/ Elapse \/ Wake
  \/ CoreUpgrades \/ CoreReleases
  \/ Dies

Spec == Init /\ [][Next]_vars

\* Every await of the loop ends: calls of the client, walks and sweeps by their
\* timeouts, checks by theirs unless a target stalls for ever on an await that
\* has none (CheckBatch!RoundEnds), sleeps with the clock.  How they end is not up to the agent, but a hello, a poll and a download that are
\* tried again and again succeed some day.  (The poll is needed: a poll that
\* raises skips the hello of its pass, so an agent whose polls all fail hears
\* of no update.)
Fairness ==
  /\ WF_vars(Top)
  /\ SF_vars(\E flags \in SUBSET Cycles : WorkArrives(flags))
  /\ WF_vars(PollRaises) /\ SF_vars(PollEnds)
  /\ WF_vars(SomeCycleEnds(FALSE))
  /\ WF_vars(\E heard \in BOOLEAN : HelloRaises(heard)) /\ SF_vars(HelloAnswered)
  /\ \A s \in {"downloading", "writing", "replacing"} : SF_vars(step = s /\ UpdateAdvances)
  /\ WF_vars(UpdateRaises) /\ WF_vars(UpdateExits)
  /\ WF_vars(pc \in {"asleep", "backoff"} /\ Elapse) /\ WF_vars(Wake)

FairSpec == Spec /\ Fairness

-----------------------------------------------------------------------------
(* Safety.                                                                 *)

TypeOK ==
  /\ Update!TypeOK
  /\ pc \in {"hello", "updating", "top", "polling", "working", "backoff",
             "snmp", "sweep", "asleep"}
  /\ looping \in BOOLEAN /\ fast \in BOOLEAN /\ offered \in BOOLEAN
  /\ poll \in Polls \cup {PollDefault}
  /\ info \in [fast : BOOLEAN, update : 0..MaxVersion]
  /\ every \in [Cycles -> SnmpEvery \cup SweepEvery]
  /\ left \in [{"snmp", "sweep", "hello"} -> Nat]
  /\ sleepIn \in Nat
  /\ coreFast \in BOOLEAN /\ toldFast \in BOOLEAN /\ golden \in 1..MaxVersion
  /\ deaths \in 0..MaxBoots
  /\ asked \subseteq Cycles /\ served \subseteq Cycles

Unserved == asked \ served

\* A "Discover now" or a "Poll now" the core hands out is acted on before the
\* pass that fetched it sleeps, unless the poll raised with the request in
\* hand: then it is lost, although the core has cleared it and the comment
\* says "on this cycle" (run.py:188), and costs no more than what is left of
\* the interval of its cycle, which is never more than that interval.
AskedIsServed ==
  pc \in {"asleep", "backoff"} =>
    \A t \in Unserved : pc = "backoff" /\ left[t] <= every[t]

\* The lane runs only beside a core that has its endpoints: one too old for
\* them would answer every report with an error, for ever (run.py:168-173).
LaneOnlyIfOffered == fast => coreFast

\* See SelfUpdate; here with the loop around it, whose handlers swallow what
\* self_update raises and go on polling.
BinaryIsWhole == Update!BinaryIsWhole
RunsWhatIsInstalled == Update!RunsWhatIsInstalled

-----------------------------------------------------------------------------
(* Liveness.                                                               *)

\* Whatever fails, and whichever cycles are due, the agent polls for work
\* again and again (run.py:163-165, 195-198, 203-204).
KeepsPolling == []<>(pc = "polling")

\* Once the core hands the sub-minute checks to the lane instead of the poll
\* (client.py:34-36), a lane comes to run them (run.py:171-173, 216).
FastChecksGetALane == (coreFast /\ toldFast) ~> fast

\* SNMP discovery and sweeps come round again and again, however many polls and
\* cycles raise in between: a "Poll now" whose flag a failed poll has lost is
\* late, never lost for good (run.py:186-214).
EveryCycleComesRound == \A t \in Cycles : []<>(pc = t)

\* A binary install ends up on the release the core wants, through failed
\* downloads, failed writes and deaths on the way (run.py:162, 217, 233-240).
ReachesGolden == Frozen => <>[](running = golden /\ step = "idle")

-----------------------------------------------------------------------------
(* What the comments say and the code does not do.                         *)

\* "The fast lane runs beside the poll loop, as its own task, once the core
\* has said it has the endpoints" (run.py:168-169): from the next pass on.
LaneRunsOnceOffered == pc = "polling" /\ offered => fast
=============================================================================
