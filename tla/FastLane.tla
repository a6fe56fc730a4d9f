------------------------------ MODULE FastLane ------------------------------
(***************************************************************************)
(* The fast lane of the agent, outpost/fast.py: FastRunner.run, the probe  *)
(* tasks it launches, the reports it posts and the work lists it fetches,  *)
(* together with the core that answers and the service manager that        *)
(* restarts the process.                                                   *)
(*                                                                         *)
(* Everything runs on one asyncio event loop, so a step here is what the   *)
(* code does between two awaits.  A probe task is launched and started in  *)
(* one step: nothing that could read or change its entry runs in between.  *)
(*                                                                         *)
(* Time is counted in ticks of the loop (TICK_SECONDS).  A deadline of the *)
(* code (e.due, next_flush, next_refresh) is kept as the number of ticks   *)
(* left to it, 0 once it has passed.                                       *)
(***************************************************************************)
EXTENDS Integers, FiniteSets, SequencesExt

CONSTANTS
  Checks,          \* state_ids of the checks the core may hand out
  Statuses,        \* the outcomes a probe may have
  Advertised,      \* the interval_ms the core may name, in ticks; 0 is absent
  DefaultInterval, \* 1000 ms, for a check with no interval
  MinInterval,     \* 200 ms
  RefreshPeriods,  \* the refresh_seconds the core may name, in ticks
  FlushPeriods,    \* the flush_seconds the core may name, in ticks
  BufferCap,       \* 600: samples kept per check through an outage
  MaxProbes,       \* bound: probes launched per check
  MaxEntries,      \* bound: times a check is handed out anew
  MaxBoots         \* bound: times the process is started

ASSUME CheckAssumption ==
  /\ Statuses \subseteq {"up", "degraded", "down", "unknown"}
  /\ Advertised \subseteq Nat

ASSUME PeriodAssumption ==
  /\ DefaultInterval \in Nat \ {0}
  /\ MinInterval \in Nat \ {0}
  /\ RefreshPeriods \subseteq Nat \ {0} /\ RefreshPeriods # {}
  /\ FlushPeriods \subseteq Nat \ {0} /\ FlushPeriods # {}

ASSUME BoundAssumption ==
  /\ BufferCap \in Nat \ {0}
  /\ MaxProbes \in Nat
  /\ MaxEntries \in Nat
  /\ MaxBoots \in Nat \ {0}

VARIABLES
  pc,           \* where FastRunner.run is
  stopping,     \* self.stopping
  boots,        \* times the process has been started
  entries,      \* self.entries: the number of c's _Entry, 0 for none
  made,         \* made[c]: _Entry objects made for c so far
  obj,          \* obj[c][g]: the fields of c's g-th _Entry object
  probes,       \* the _probe tasks that have not ended
  clock,        \* clock[c]: probes of c launched so far; stamps them
  buffer,       \* self.buffer
  posting,      \* the report post_fast_results has in flight
  owesRefresh,  \* a refresh was due in the pass that is reporting
  flushNow,     \* self.flush_now
  flushIn,      \* ticks left to next_flush
  refreshIn,    \* ticks left to next_refresh
  flushEvery,   \* self.flush_seconds
  refreshEvery, \* self.refresh_seconds
  fresh,        \* history: samples appended to buffer[c] since it was swapped
  delivered     \* the core: samples of c it has ingested

lane == <<stopping, boots>>
schedule == <<entries, made, obj>>
tasks == <<probes, clock>>
reports == <<buffer, posting, fresh, delivered>>
timers == <<owesRefresh, flushIn, refreshIn>>
periods == <<flushEvery, refreshEvery>>
vars == <<pc, lane, schedule, tasks, reports, flushNow, timers, periods>>

-----------------------------------------------------------------------------
(* Data. *)

Gens == 1..MaxEntries
Classes == {"none", "reachable", "unreachable"}

\* What a probe leaves in the buffer: which _Entry object it ran for, when
\* (in launches of that check) it was launched, and what it found.
Samples == [gen : Gens, t : 1..MaxProbes, status : Statuses]

EntryFields == [running : BOOLEAN, last : Classes, due : Nat, every : Nat \ {0}]

\* A task of _probe: whose check, whose object, launched when.
Probes == [sid : Checks, gen : Gens, t : 1..MaxProbes]

Class(status) ==
  IF status \in {"up", "degraded"} THEN "reachable" ELSE "unreachable"

\* max(int(check.get("interval_ms") or 1000), 200)
IntervalOf(ms) ==
  LET named == IF ms = 0 THEN DefaultInterval ELSE ms
  IN  IF named < MinInterval THEN MinInterval ELSE named

NewEntry(ms) ==
  [running |-> FALSE, last |-> "none", due |-> 0, every |-> IntervalOf(ms)]

NoSamples == [c \in Checks |-> <<>>]
Current(c) == obj[c][entries[c]]
Pending(c) == posting[c] \o buffer[c]

-----------------------------------------------------------------------------
(* tick: launch a probe for every entry that is due and not being probed.  *)

LaunchesEvenIfRunning(c) ==      \* mutant: the running flag is not read
  entries[c] # 0 /\ clock[c] < MaxProbes /\ Current(c).due = 0

Launches(c) ==
  /\ entries[c] # 0
  /\ clock[c] < MaxProbes        \* bound
  /\ Current(c).due = 0
  /\ ~Current(c).running

Started(e) == [e EXCEPT !.running = TRUE, !.due = e.every]

Tick ==
  /\ obj' = [c \in Checks |->
       IF Launches(c) THEN [obj[c] EXCEPT ![entries[c]] = Started(@)] ELSE obj[c]]
  /\ clock' = [c \in Checks |-> IF Launches(c) THEN clock[c] + 1 ELSE clock[c]]
  /\ probes' = probes \cup
       {[sid |-> c, gen |-> entries[c], t |-> clock[c] + 1] :
           c \in {d \in Checks : Launches(d)}}
  /\ UNCHANGED <<entries, made>>

-----------------------------------------------------------------------------
(* _probe: a task ends with one sample.                                    *)

RaisesOnlyOutages(e, status) ==  \* mutant: a recovery waits for the timer
  e.last = "reachable" /\ Class(status) = "unreachable"

Raises(e, status) == e.last # "none" /\ Class(status) # e.last

FinishedUnlessAnswered(e, status) ==  \* mutant: an error leaves the flag up
  [e EXCEPT !.last = Class(status), !.running = (status = "down")]

Finished(e, status) == [e EXCEPT !.last = Class(status), !.running = FALSE]

\* The object may no longer be the current one, or be in entries at all: the
\* task still appends its sample, and may still raise flush_now.
ProbeEnds(p, status) ==
  LET c == p.sid
      e == obj[c][p.gen]
      sample == [gen |-> p.gen, t |-> p.t, status |-> status]
  IN  /\ probes' = probes \ {p}
      /\ buffer' = [buffer EXCEPT ![c] = Append(@, sample)]
      /\ fresh' = [fresh EXCEPT ![c] = @ + 1]
      /\ flushNow' = (flushNow \/ Raises(e, status))
      /\ obj' = [obj EXCEPT ![c][p.gen] = Finished(e, status)]
      /\ UNCHANGED <<pc, lane, entries, made, clock, posting, delivered,
                     timers, periods>>

-----------------------------------------------------------------------------
(* flush: swap the buffer, post what it held, keep it when that fails.     *)

\* buffer, self.buffer = self.buffer, {}; flush_now = False; the await, if
\* there is anything to report.
TakeBuffer ==
  /\ posting' = buffer
  /\ buffer' = NoSamples
  /\ fresh' = [c \in Checks |-> 0]
  /\ flushNow' = FALSE
  /\ UNCHANGED delivered

HasResults == buffer # NoSamples

Newest(q) ==
  IF Len(q) > BufferCap THEN SubSeq(q, Len(q) - BufferCap + 1, Len(q)) ELSE q

RequeuedLast(c) == Newest(buffer[c] \o posting[c])  \* mutant: appended instead

RequeuedTrimmedFirst(c) == Newest(posting[c]) \o buffer[c]  \* mutant: only the report is capped

Requeued(c) == Newest(posting[c] \o buffer[c])

AfterReport ==
  pc' = IF pc = "closing" THEN "done" ELSE IF owesRefresh THEN "fetching" ELSE "asleep"

\* The core ingests the report and its answer arrives.
ReportAcknowledged ==
  /\ pc \in {"posting", "closing"}
  /\ delivered' = [c \in Checks |-> delivered[c] \cup ToSet(posting[c])]
  /\ posting' = NoSamples
  /\ owesRefresh' = FALSE
  /\ AfterReport
  /\ UNCHANGED <<lane, schedule, tasks, buffer, fresh, flushNow,
                 flushIn, refreshIn, periods>>

\* post_fast_results raises: refused, timed out, or answered with something
\* that is not the JSON expected.  The core may have ingested all of it, none
\* of it, or the checks it came to before it failed.
ReportFailed(ingested) ==
  /\ pc \in {"posting", "closing"}
  /\ delivered' = [c \in Checks |->
       IF c \in ingested THEN delivered[c] \cup ToSet(posting[c]) ELSE delivered[c]]
  /\ buffer' = [c \in Checks |-> Requeued(c)]
  /\ posting' = NoSamples
  /\ fresh' = [c \in Checks |-> IF fresh[c] < Len(buffer'[c]) THEN fresh[c] ELSE Len(buffer'[c])]
  /\ owesRefresh' = FALSE
  /\ AfterReport
  /\ UNCHANGED <<lane, schedule, tasks, flushNow, flushIn, refreshIn, periods>>

-----------------------------------------------------------------------------
(* refresh: the core names the whole set of checks.                        *)

\* The first refresh of a process sets both deadlines from the periods it
\* learnt; a later one returns to the loop, whose deadlines are already set.
AfterRefresh ==
  IF pc = "starting"
  THEN pc' = "awake" /\ flushIn' = flushEvery' /\ refreshIn' = refreshEvery'
  ELSE pc' = "asleep" /\ UNCHANGED <<flushIn, refreshIn>>

\* Both an absent and a zero period keep the one in force.
LearnPeriods ==
  /\ refreshEvery' \in RefreshPeriods \cup {refreshEvery}
  /\ flushEvery' \in FlushPeriods \cup {flushEvery}

New(S) == {c \in S : entries[c] = 0}

\* The entries for the listed checks are made or updated.
Upsert(S, ms) ==
  /\ \A c \in New(S) : made[c] < MaxEntries      \* bound
  /\ made' = [c \in Checks |-> IF c \in New(S) THEN made[c] + 1 ELSE made[c]]
  /\ obj' = [c \in Checks |->
       CASE c \in New(S) -> [obj[c] EXCEPT ![made[c] + 1] = NewEntry(ms[c])]
         [] c \in S \ New(S) -> [obj[c] EXCEPT ![entries[c]].every = IntervalOf(ms[c])]
         [] OTHER -> obj[c]]

BufferKeptOnWithdrawal(S, c) == buffer[c]   \* mutant: buffer.pop is forgotten

BufferAfter(S, c) == IF entries[c] # 0 /\ c \notin S THEN <<>> ELSE buffer[c]

\* The work list arrives: S is what it names, ms the intervals.
RefreshSucceeds(S, ms) ==
  /\ pc \in {"starting", "fetching"}
  /\ LearnPeriods
  /\ Upsert(S, ms)
  /\ entries' = [c \in Checks |-> IF c \notin S THEN 0
                                  ELSE IF entries[c] = 0 THEN made'[c] ELSE entries[c]]
  /\ buffer' = [c \in Checks |-> BufferAfter(S, c)]
  /\ fresh' = [c \in Checks |-> IF buffer'[c] = <<>> THEN 0 ELSE fresh[c]]
  /\ AfterRefresh
  /\ UNCHANGED <<lane, tasks, posting, delivered, flushNow, owesRefresh>>

\* fetch_fast_work raises, or a value of the list is not a number: what came
\* before it has been applied, nothing is withdrawn.
RefreshRaises(S, ms) ==
  /\ pc \in {"starting", "fetching"}
  /\ LearnPeriods
  /\ Upsert(S, ms)
  /\ entries' = [c \in Checks |-> IF c \in New(S) THEN made'[c] ELSE entries[c]]
  /\ AfterRefresh
  /\ UNCHANGED <<lane, tasks, reports, flushNow, owesRefresh>>

-----------------------------------------------------------------------------
(* run: the loop.                                                          *)

FlushesOnlyChanges == flushNow   \* mutant: next_flush is not looked at

FlushDue == flushNow \/ flushIn = 0

RefreshDue == refreshIn = 0

\* What every pass of the loop does before its first await.
PassWork ==
  /\ pc = "awake" /\ ~stopping
  /\ Tick
  /\ IF FlushDue THEN TakeBuffer ELSE UNCHANGED <<reports, flushNow>>
  /\ flushIn' = IF FlushDue THEN flushEvery ELSE flushIn
  /\ refreshIn' = IF RefreshDue THEN refreshEvery ELSE refreshIn
  /\ UNCHANGED <<lane, periods>>

\* There is something to report; a refresh that is due too comes after it.
PassThenReport ==
  /\ FlushDue /\ HasResults
  /\ PassWork
  /\ pc' = "posting"
  /\ owesRefresh' = RefreshDue

PassThenRefresh ==
  /\ ~(FlushDue /\ HasResults) /\ RefreshDue
  /\ PassWork
  /\ pc' = "fetching"
  /\ UNCHANGED owesRefresh

PassThenSleep ==
  /\ ~(FlushDue /\ HasResults) /\ ~RefreshDue
  /\ PassWork
  /\ pc' = "asleep"
  /\ UNCHANGED owesRefresh

\* The loop is over: one last flush.
LastFlush ==
  /\ pc = "awake" /\ stopping
  /\ TakeBuffer
  /\ pc' = IF HasResults THEN "closing" ELSE "done"
  /\ UNCHANGED <<lane, schedule, tasks, timers, periods>>

CountsBelowZero(n) == n - 1      \* mutant: deadlines are kept as differences

CountDown(n) == IF n = 0 THEN 0 ELSE n - 1

TimePasses ==
  /\ obj' = [c \in Checks |->
       IF entries[c] = 0 THEN obj[c]
       ELSE [obj[c] EXCEPT ![entries[c]].due = CountDown(@)]]
  /\ flushIn' = CountDown(flushIn)
  /\ refreshIn' = CountDown(refreshIn)
  /\ UNCHANGED <<lane, entries, made, tasks, reports, flushNow, owesRefresh, periods>>

\* asyncio.sleep(TICK_SECONDS) returns.
Wake == pc = "asleep" /\ pc' = "awake" /\ TimePasses

\* An answer takes its time.
Wait == pc \in {"posting", "fetching"} /\ TimePasses /\ UNCHANGED pc

\* run.py's finally clause.
Stop ==
  /\ ~stopping /\ pc # "done"
  /\ stopping' = TRUE
  /\ UNCHANGED <<pc, boots, schedule, tasks, reports, flushNow, timers, periods>>

\* The process ends - os._exit after a self-update, a signal, an error - and
\* is started again; only what the core has ingested survives it.
Restart ==
  /\ boots < MaxBoots            \* bound
  /\ boots' = boots + 1
  /\ stopping' = FALSE
  /\ pc' = "starting"
  /\ entries' = [c \in Checks |-> 0]
  /\ obj' = [c \in Checks |-> [g \in Gens |-> NewEntry(0)]]
  /\ probes' = {}
  /\ buffer' = NoSamples
  /\ posting' = NoSamples
  /\ fresh' = [c \in Checks |-> 0]
  /\ flushNow' = FALSE
  /\ owesRefresh' = FALSE
  /\ flushIn' = 0 /\ refreshIn' = 0
  /\ flushEvery' \in FlushPeriods /\ refreshEvery' \in RefreshPeriods
  /\ UNCHANGED <<made, clock, delivered>>

\* FastRunner.run has returned.
Stopped == pc = "done" /\ UNCHANGED vars

Init ==
  /\ pc = "starting" /\ stopping = FALSE /\ boots = 1
  /\ entries = [c \in Checks |-> 0]
  /\ made = [c \in Checks |-> 0]
  /\ obj = [c \in Checks |-> [g \in Gens |-> NewEntry(0)]]
  /\ probes = {}
  /\ clock = [c \in Checks |-> 0]
  /\ buffer = NoSamples
  /\ posting = NoSamples
  /\ fresh = [c \in Checks |-> 0]
  /\ delivered = [c \in Checks |-> {}]
  /\ flushNow = FALSE
  /\ owesRefresh = FALSE
  /\ flushIn = 0 /\ refreshIn = 0
  /\ flushEvery \in FlushPeriods /\ refreshEvery \in RefreshPeriods

Refresh ==
  \E S \in SUBSET Checks : \E ms \in [S -> Advertised] :
    RefreshSucceeds(S, ms) \/ RefreshRaises(S, ms)

Probe == \E p \in probes, status \in Statuses : ProbeEnds(p, status)

Next ==
  \/ PassThenReport \/ PassThenRefresh \/ PassThenSleep \/ LastFlush
  \/ Wake \/ Wait
  \/ ReportAcknowledged
  \/ \E ingested \in SUBSET Checks : ReportFailed(ingested)
  \/ Refresh
  \/ Probe
  \/ Stop \/ Restart \/ Stopped

Spec == Init /\ [][Next]_vars

\* The loop is never blocked for good: asyncio resumes a sleep, and every
\* call of the client ends, with an answer or an exception (it has timeouts of
\* 30 s).  So does a checker, on the condition CheckBatch!RoundEnds names: no
\* target stalls for ever on an await without a limit.  The core is reachable
\* again and again: a report that is retried for ever is acknowledged.
Fairness ==
  /\ WF_vars(PassThenReport \/ PassThenRefresh \/ PassThenSleep \/ LastFlush)
  /\ WF_vars(Wake)
  /\ WF_vars(Refresh)
  /\ WF_vars(\E ingested \in SUBSET Checks : ReportFailed(ingested))
  /\ SF_vars(ReportAcknowledged)
  /\ \A c \in Checks, g \in Gens, t \in 1..MaxProbes :
       WF_vars(\E status \in Statuses :
                 /\ [sid |-> c, gen |-> g, t |-> t] \in probes
                 /\ ProbeEnds([sid |-> c, gen |-> g, t |-> t], status))

FairSpec == Spec /\ Fairness

-----------------------------------------------------------------------------
(* Safety.                                                                 *)

\* Every variable holds a value of the kind the code gives it.
TypeOK ==
  /\ pc \in {"starting", "awake", "posting", "fetching", "asleep", "closing", "done"}
  /\ stopping \in BOOLEAN
  /\ boots \in 1..MaxBoots
  /\ entries \in [Checks -> 0..MaxEntries]
  /\ made \in [Checks -> 0..MaxEntries]
  /\ obj \in [Checks -> [Gens -> EntryFields]]
  /\ probes \subseteq Probes
  /\ clock \in [Checks -> 0..MaxProbes]
  /\ buffer \in [Checks -> Seq(Samples)]
  /\ posting \in [Checks -> Seq(Samples)]
  /\ fresh \in [Checks -> Nat]
  /\ delivered \in [Checks -> SUBSET Samples]
  /\ flushNow \in BOOLEAN /\ owesRefresh \in BOOLEAN
  /\ flushIn \in Nat /\ refreshIn \in Nat
  /\ flushEvery \in FlushPeriods /\ refreshEvery \in RefreshPeriods

\* An entry is marked running exactly while one probe of it is in flight:
\* tick never launches a second one beside it, and no outcome, withdrawal or
\* refresh leaves an entry marked for good (fast.py:78-83, 115).
OneProbePerEntry ==
  \A c \in Checks, g \in Gens :
    LET own == {p \in probes : p.sid = c /\ p.gen = g}
    IN  /\ \A p, q \in own : p = q
        /\ obj[c][g].running <=> own # {}

\* The positions of buffer[c] filled since the buffer was last swapped.
FreshAt(c) == (Len(buffer[c]) - fresh[c] + 1)..Len(buffer[c])

\* A probe that finds its check on the other side of reachability than the
\* probe before it did leaves flush_now up until a report takes its sample,
\* whatever other probes, failed reports and refreshes come in between
\* (fast.py:112-113, 119).
ChangeIsUrgent ==
  \A c \in Checks : \A i \in FreshAt(c) :
    \A q \in ToSet(Pending(c)) \cup delivered[c] :
      LET s == buffer[c][i]
      IN  q.gen = s.gen /\ q.t = s.t - 1 /\ Class(q.status) # Class(s.status)
            => flushNow

\* The core sees the samples of an entry in the order they were taken, also
\* when a report fails after it was ingested and is sent again merged with
\* newer samples: what is pending is in order, and nothing delivered is
\* newer than something pending unless that is a duplicate (fast.py:127-128).
NoOvertaking ==
  \A c \in Checks :
    /\ \A i, j \in DOMAIN Pending(c) :
         i < j /\ Pending(c)[i].gen = Pending(c)[j].gen
           => Pending(c)[i].t < Pending(c)[j].t
    /\ \A p \in ToSet(Pending(c)), d \in delivered[c] :
         p.gen = d.gen /\ p.t < d.t => p \in delivered[c]

\* A probe has added its sample to c's buffer.
Grows(c) == buffer'[c] # <<>> /\ Front(buffer'[c]) = buffer[c]

\* c's buffer is left as it is, in a step that does not lose a report.
Stays(c) ==
  /\ buffer'[c] = buffer[c]
  /\ posting' = posting \/ \A d \in Checks : ToSet(posting[d]) \subseteq delivered'[d]

\* However long the core is away, a buffer is beyond the cap only by what was
\* probed since the last report was lost: when one is, every buffer comes
\* within the cap, with what came in during the await and whether or not the
\* report mentioned its check (fast.py:126-133).
BoundedBacklog ==
  [][\A c \in Checks : Len(buffer'[c]) > BufferCap => Grows(c) \/ Stays(c)]_vars

\* Of an entry that has been withdrawn at most one sample is still reported,
\* that of the probe in flight when it went: the rest of its buffer went with
\* it, and no second probe of it starts (fast.py:70-73, 110).
OneStraggler ==
  \A c \in Checks, g \in Gens :
    g # entries[c] =>
      Cardinality({i \in DOMAIN Pending(c) : Pending(c)[i].gen = g}) <= 1

\* The report in flight and the buffer behind it are one queue per check.
Channel == INSTANCE ProbeChannel WITH
             Cap <- BufferCap,
             queue <- [c \in Checks |-> Pending(c)],
             ingested <- delivered

\* The lane is a per-check FIFO with at-least-once delivery: swapping the
\* buffer, posting, failing, merging and trimming lose and reorder nothing
\* but what ProbeChannel allows (fast.py:117-134).
ImplementsChannel == Channel!Spec

-----------------------------------------------------------------------------
(* Liveness.                                                               *)

IsPending(c, t) == \E p \in ToSet(Pending(c)) : p.t = t

\* No sample waits for ever: an outage ends and the timer finds it, whether
\* or not its check is still handed out (fast.py:145-149).  ImplementsChannel
\* says how it leaves.
EventuallyReported ==
  \A c \in Checks, t \in 1..MaxProbes :
    IsPending(c, t) ~> (~IsPending(c, t) \/ pc = "done")

\* A check that is handed out is probed again and again: no answer, refresh
\* or report can leave it marked running or push its deadline away for good.
KeepsProbing ==
  \A c \in Checks, n \in 0..(MaxProbes - 1) :
    (entries[c] # 0 /\ clock[c] = n) ~> (entries[c] = 0 \/ clock[c] > n \/ stopping)

-----------------------------------------------------------------------------
(* What the module's documentation says and the code does not do.          *)

\* The newest sample the core has of c's current entry.
IsLastReported(c, d) ==
  /\ d \in delivered[c] /\ d.gen = entries[c]
  /\ \A e \in delivered[c] : e.gen = d.gen => e.t <= d.t

\* "Reporting is on the poll interval, or at once when a probe's reachability
\* differs from the last one reported for that check" (fast.py:11-12): with no
\* report in flight, a sample taken since the last swap that differs from what
\* the core was last told is waiting for the next pass, not for the timer.
DifferenceReportedAtOnce ==
  pc \in {"awake", "asleep"} /\ ~stopping =>
    \A c \in Checks : \A i \in FreshAt(c) : \A d \in delivered[c] :
      LET s == buffer[c][i]
      IN  /\ IsLastReported(c, d)
          /\ s.gen = d.gen
          /\ Class(s.status) # Class(d.status)
          => flushNow
=============================================================================
