--------------------------- MODULE FastLaneProofs ---------------------------
(***************************************************************************)
(* Proofs about FastLane, for every value of its constants.                *)
(***************************************************************************)
EXTENDS FastLane, TLAPS, SequenceTheorems

USE DEF lane, schedule, tasks, reports, timers, periods

-----------------------------------------------------------------------------
(* The operators.                                                          *)

LEMMA IntervalType ==
  ASSUME NEW ms \in Advertised
  PROVE  IntervalOf(ms) \in Nat \ {0}
BY CheckAssumption, PeriodAssumption DEF IntervalOf

LEMMA NewEntryType ==
  ASSUME NEW ms \in Advertised \cup {0}
  PROVE  NewEntry(ms) \in EntryFields
BY CheckAssumption, PeriodAssumption DEF NewEntry, IntervalOf, EntryFields, Classes

LEMMA ClassType == ASSUME NEW s PROVE Class(s) \in {"reachable", "unreachable"}
BY DEF Class

\* Trimming returns the newest BufferCap elements of a queue, all of a short one.
LEMMA NewestLemma ==
  ASSUME NEW S, NEW q \in Seq(S)
  PROVE  /\ Newest(q) \in Seq(S)
         /\ Len(Newest(q)) <= BufferCap
         /\ Len(Newest(q)) <= Len(q)
         /\ \A i \in 1..Len(Newest(q)) :
              Newest(q)[i] = q[i + (Len(q) - Len(Newest(q)))]
<1> BufferCap \in Nat /\ BufferCap # 0 /\ Len(q) \in Nat
  BY BoundAssumption
<1>1. CASE Len(q) > BufferCap
  <2>1. Newest(q) = SubSeq(q, Len(q) - BufferCap + 1, Len(q))
    BY <1>1 DEF Newest
  <2>2. /\ SubSeq(q, Len(q) - BufferCap + 1, Len(q)) \in Seq(S)
        /\ Len(SubSeq(q, Len(q) - BufferCap + 1, Len(q))) = BufferCap
        /\ \A i \in 1..BufferCap :
             SubSeq(q, Len(q) - BufferCap + 1, Len(q))[i] = q[i + (Len(q) - BufferCap)]
    BY <1>1, SubSeqProperties
  <2> HIDE DEF Newest
  <2> QED  BY <1>1, <2>1, <2>2
<1>2. CASE ~(Len(q) > BufferCap)
  BY <1>2 DEF Newest
<1> QED  BY <1>1, <1>2

LEMMA StartedType ==
  ASSUME NEW e \in EntryFields
  PROVE  Started(e) \in EntryFields
BY DEF Started, EntryFields

LEMMA FinishedType ==
  ASSUME NEW e \in EntryFields, NEW status
  PROVE  Finished(e, status) \in EntryFields
BY ClassType DEF Finished, EntryFields, Classes

LEMMA CountDownType == ASSUME NEW n \in Nat PROVE CountDown(n) \in Nat
BY DEF CountDown

-----------------------------------------------------------------------------
(* Type correctness.                                                       *)

\* The parts of a pass preserve the types of what they change.
LEMMA TickType ==
  ASSUME TypeOK, Tick
  PROVE  /\ obj' \in [Checks -> [Gens -> EntryFields]]
         /\ clock' \in [Checks -> 0..MaxProbes]
         /\ probes' \subseteq Probes
         /\ entries' = entries /\ made' = made
<1>1. ASSUME NEW c \in Checks, Launches(c)
      PROVE  /\ entries[c] \in Gens
             /\ clock[c] + 1 \in 1..MaxProbes
             /\ Started(obj[c][entries[c]]) \in EntryFields
  <2>1. entries[c] \in Gens /\ clock[c] + 1 \in 1..MaxProbes
    BY <1>1, BoundAssumption DEF TypeOK, Launches, Gens
  <2> QED  BY <2>1, StartedType DEF TypeOK
<1>2. obj' \in [Checks -> [Gens -> EntryFields]]
  BY <1>1 DEF TypeOK, Tick
<1>3. clock' \in [Checks -> 0..MaxProbes]
  BY <1>1, BoundAssumption DEF TypeOK, Tick
<1>4. probes' \subseteq Probes
  BY <1>1 DEF TypeOK, Tick, Probes
<1> QED  BY <1>2, <1>3, <1>4 DEF Tick

LEMMA TakeBufferType ==
  ASSUME TypeOK, TakeBuffer
  PROVE  /\ buffer' \in [Checks -> Seq(Samples)]
         /\ posting' \in [Checks -> Seq(Samples)]
         /\ fresh' \in [Checks -> Nat]
         /\ delivered' \in [Checks -> SUBSET Samples]
         /\ flushNow' \in BOOLEAN
<1>1. NoSamples \in [Checks -> Seq(Samples)]
  BY EmptySeq DEF NoSamples
<1> QED  BY <1>1 DEF TypeOK, TakeBuffer

LEMMA PassWorkType ==
  ASSUME TypeOK, PassWork,
         pc' \in {"posting", "fetching", "asleep"}, owesRefresh' \in BOOLEAN
  PROVE  TypeOK'
<1>1. /\ obj' \in [Checks -> [Gens -> EntryFields]]
      /\ clock' \in [Checks -> 0..MaxProbes]
      /\ probes' \subseteq Probes
      /\ entries' = entries /\ made' = made
  BY TickType DEF PassWork
<1>2. /\ buffer' \in [Checks -> Seq(Samples)]
      /\ posting' \in [Checks -> Seq(Samples)]
      /\ fresh' \in [Checks -> Nat]
      /\ delivered' \in [Checks -> SUBSET Samples]
      /\ flushNow' \in BOOLEAN
  <2>1. CASE FlushDue  BY <2>1, TakeBufferType DEF PassWork
  <2>2. CASE ~FlushDue  BY <2>2 DEF PassWork, TypeOK
  <2> QED  BY <2>1, <2>2
<1>3. flushIn' \in Nat /\ refreshIn' \in Nat
  BY PeriodAssumption DEF PassWork, TypeOK
<1>4. /\ stopping' = stopping /\ boots' = boots
      /\ flushEvery' = flushEvery /\ refreshEvery' = refreshEvery
  BY DEF PassWork
<1> QED  BY <1>1, <1>2, <1>3, <1>4 DEF TypeOK

LEMMA UpsertType ==
  ASSUME TypeOK, NEW S \in SUBSET Checks, NEW ms \in [S -> Advertised], Upsert(S, ms)
  PROVE  /\ obj' \in [Checks -> [Gens -> EntryFields]]
         /\ made' \in [Checks -> 0..MaxEntries]
         /\ \A c \in New(S) : made'[c] \in Gens
<1>1. ASSUME NEW c \in New(S)
      PROVE  made[c] + 1 \in Gens /\ NewEntry(ms[c]) \in EntryFields
  BY BoundAssumption, NewEntryType DEF TypeOK, Upsert, New, Gens
<1>2. ASSUME NEW c \in S \ New(S)
      PROVE  entries[c] \in Gens /\ IntervalOf(ms[c]) \in Nat \ {0}
  BY BoundAssumption, IntervalType DEF TypeOK, New, Gens
<1>3. ASSUME NEW c \in Checks PROVE obj'[c] \in [Gens -> EntryFields]
  <2>1. CASE c \in New(S)
    BY <1>1, <2>1 DEF TypeOK, Upsert
  <2>2. CASE c \in S \ New(S)
    <3>1. obj[c][entries[c]] \in EntryFields /\ obj[c] \in [Gens -> EntryFields]
      BY <1>2, <2>2 DEF TypeOK
    <3>2. obj'[c] = [obj[c] EXCEPT ![entries[c]] = [@ EXCEPT !.every = IntervalOf(ms[c])]]
      BY <2>2 DEF Upsert
    <3>3. [obj[c][entries[c]] EXCEPT !.every = IntervalOf(ms[c])] \in EntryFields
      BY <1>2, <2>2, <3>1 DEF EntryFields
    <3> QED  BY <3>1, <3>2, <3>3
  <2>3. CASE c \notin S
    BY <2>3 DEF TypeOK, Upsert, New
  <2> QED  BY <2>1, <2>2, <2>3
<1>4. obj' \in [Checks -> [Gens -> EntryFields]]
  BY <1>3 DEF Upsert
<1>5. made' \in [Checks -> 0..MaxEntries] /\ \A c \in New(S) : made'[c] \in Gens
  <2>1. \A c \in New(S) : c \in Checks
    BY DEF New
  <2> QED  BY <1>1, <2>1, BoundAssumption DEF TypeOK, Upsert, Gens
<1> QED  BY <1>4, <1>5

LEMMA AfterRefreshType ==
  ASSUME TypeOK, LearnPeriods, AfterRefresh
  PROVE  /\ pc' \in {"awake", "asleep"}
         /\ flushIn' \in Nat /\ refreshIn' \in Nat
         /\ flushEvery' \in FlushPeriods /\ refreshEvery' \in RefreshPeriods
BY PeriodAssumption DEF TypeOK, LearnPeriods, AfterRefresh

LEMMA NextType == TypeOK /\ [Next]_vars => TypeOK'
<1> SUFFICES ASSUME TypeOK, [Next]_vars PROVE TypeOK'
  OBVIOUS
<1> USE EmptySeq
<1>0. NoSamples \in [Checks -> Seq(Samples)]
  BY DEF NoSamples
<1>1. CASE PassThenReport \/ PassThenRefresh \/ PassThenSleep
  BY <1>1, PassWorkType DEF PassThenReport, PassThenRefresh, PassThenSleep, TypeOK, RefreshDue
<1>2. CASE LastFlush
  BY <1>2, TakeBufferType DEF LastFlush, TypeOK
<1>3. CASE Wake \/ Wait
  <2>1. ASSUME NEW c \in Checks, entries[c] # 0
        PROVE  [obj[c] EXCEPT ![entries[c]].due = CountDown(@)] \in [Gens -> EntryFields]
    <3>1. entries[c] \in Gens /\ obj[c] \in [Gens -> EntryFields]
      BY <2>1, BoundAssumption DEF TypeOK, Gens
    <3>2. [obj[c][entries[c]] EXCEPT !.due = CountDown(@)] \in EntryFields
      BY <3>1, CountDownType DEF EntryFields
    <3> QED  BY <3>1, <3>2
  <2>2. TimePasses /\ pc' \in {pc, "awake"}
    BY <1>3 DEF Wake, Wait
  <2>3. obj' \in [Checks -> [Gens -> EntryFields]]
    BY <2>1, <2>2 DEF TimePasses, TypeOK
  <2>4. flushIn' \in Nat /\ refreshIn' \in Nat
    BY <2>2, CountDownType DEF TimePasses, TypeOK
  <2> QED  BY <2>2, <2>3, <2>4 DEF TimePasses, TypeOK
<1>4. CASE ReportAcknowledged
  <2>1. delivered' \in [Checks -> SUBSET Samples]
    BY <1>4 DEF ReportAcknowledged, TypeOK, ToSet
  <2> QED  BY <1>0, <1>4, <2>1 DEF ReportAcknowledged, AfterReport, TypeOK
<1>5. ASSUME NEW I \in SUBSET Checks, ReportFailed(I) PROVE TypeOK'
  <2>1. delivered' \in [Checks -> SUBSET Samples]
    BY <1>5 DEF ReportFailed, TypeOK, ToSet
  <2>2. \A c \in Checks : Requeued(c) \in Seq(Samples) /\ Len(Requeued(c)) \in Nat
    <3>1. \A c \in Checks : posting[c] \o buffer[c] \in Seq(Samples)
      BY DEF TypeOK
    <3>2. \A c \in Checks : Newest(posting[c] \o buffer[c]) \in Seq(Samples)
      BY <3>1, NewestLemma
    <3> QED  BY <3>2 DEF Requeued
  <2>3. buffer' \in [Checks -> Seq(Samples)] /\ fresh' \in [Checks -> Nat]
    BY <1>5, <2>2 DEF ReportFailed, TypeOK
  <2> QED  BY <1>0, <1>5, <2>1, <2>3 DEF ReportFailed, AfterReport, TypeOK
<1>6. ASSUME NEW S \in SUBSET Checks, NEW ms \in [S -> Advertised],
             RefreshSucceeds(S, ms) \/ RefreshRaises(S, ms)
      PROVE  TypeOK'
  <2>1. /\ obj' \in [Checks -> [Gens -> EntryFields]]
        /\ made' \in [Checks -> 0..MaxEntries]
        /\ \A c \in New(S) : made'[c] \in Gens
    BY <1>6, UpsertType DEF RefreshSucceeds, RefreshRaises
  <2>2. /\ pc' \in {"awake", "asleep"}
        /\ flushIn' \in Nat /\ refreshIn' \in Nat
        /\ flushEvery' \in FlushPeriods /\ refreshEvery' \in RefreshPeriods
    BY <1>6, AfterRefreshType DEF RefreshSucceeds, RefreshRaises
  <2>3. entries' \in [Checks -> 0..MaxEntries]
    <3>1. 0 \in 0..MaxEntries /\ Gens \subseteq 0..MaxEntries
      BY BoundAssumption DEF Gens
    <3>2. CASE RefreshSucceeds(S, ms)
      BY <2>1, <3>1, <3>2 DEF RefreshSucceeds, TypeOK, New
    <3>3. CASE RefreshRaises(S, ms)
      BY <2>1, <3>1, <3>3 DEF RefreshRaises, TypeOK, New
    <3> QED  BY <1>6, <3>2, <3>3
  <2>4. buffer' \in [Checks -> Seq(Samples)] /\ fresh' \in [Checks -> Nat]
    <3>1. CASE RefreshSucceeds(S, ms)
      <4>1. \A c \in Checks : BufferAfter(S, c) \in Seq(Samples)
        BY DEF TypeOK, BufferAfter
      <4> QED  BY <3>1, <4>1 DEF RefreshSucceeds, TypeOK
    <3>2. CASE RefreshRaises(S, ms)
      BY <3>2 DEF RefreshRaises, TypeOK
    <3> QED  BY <1>6, <3>1, <3>2
  <2>5. /\ stopping' = stopping /\ boots' = boots /\ probes' = probes /\ clock' = clock
        /\ posting' = posting /\ delivered' = delivered
        /\ flushNow' = flushNow /\ owesRefresh' = owesRefresh
    BY <1>6 DEF RefreshSucceeds, RefreshRaises
  <2> QED  BY <2>1, <2>2, <2>3, <2>4, <2>5 DEF TypeOK
<1>7. ASSUME NEW p \in probes, NEW status \in Statuses, ProbeEnds(p, status) PROVE TypeOK'
  <2>1. p.sid \in Checks /\ p.gen \in Gens /\ p.t \in 1..MaxProbes
    BY DEF TypeOK, Probes
  <2>2. obj' \in [Checks -> [Gens -> EntryFields]]
    BY <1>7, <2>1, FinishedType DEF ProbeEnds, TypeOK
  <2>s. [gen |-> p.gen, t |-> p.t, status |-> status] \in Samples
    BY <2>1 DEF Samples
  <2>3. buffer' \in [Checks -> Seq(Samples)] /\ fresh' \in [Checks -> Nat]
    BY <1>7, <2>1, <2>s DEF ProbeEnds, TypeOK
  <2>4. flushNow' \in BOOLEAN /\ probes' \subseteq Probes
    BY <1>7 DEF ProbeEnds, TypeOK, Raises
  <2> QED  BY <1>7, <2>2, <2>3, <2>4 DEF ProbeEnds, TypeOK
<1>8. CASE Stop
  BY <1>8 DEF Stop, TypeOK
<1>9. CASE Restart
  <2>1. [c \in Checks |-> [g \in Gens |-> NewEntry(0)]] \in [Checks -> [Gens -> EntryFields]]
    BY NewEntryType
  <2>2. boots' \in 1..MaxBoots
    BY <1>9, BoundAssumption DEF Restart, TypeOK
  <2>3. 0 \in 0..MaxEntries
    BY BoundAssumption
  <2> QED  BY <1>0, <1>9, <2>1, <2>2, <2>3 DEF Restart, TypeOK
<1>10. CASE Stopped \/ UNCHANGED vars
  BY <1>10 DEF Stopped, TypeOK, vars
<1> QED
  BY <1>1, <1>2, <1>3, <1>4, <1>5, <1>6, <1>7, <1>8, <1>9, <1>10
  DEF Next, Refresh, Probe

LEMMA InitType == Init => TypeOK
<1>1. NoSamples \in [Checks -> Seq(Samples)]
  BY EmptySeq DEF NoSamples
<1>2. [c \in Checks |-> [g \in Gens |-> NewEntry(0)]] \in [Checks -> [Gens -> EntryFields]]
  BY NewEntryType
<1>3. 0 \in 0..MaxEntries /\ 0 \in 0..MaxProbes /\ 1 \in 1..MaxBoots
  BY BoundAssumption
<1>4. Init => /\ entries \in [Checks -> 0..MaxEntries]
              /\ made \in [Checks -> 0..MaxEntries]
              /\ clock \in [Checks -> 0..MaxProbes]
              /\ fresh \in [Checks -> Nat]
              /\ delivered \in [Checks -> SUBSET Samples]
              /\ boots \in 1..MaxBoots
  BY <1>3 DEF Init
<1>5. Init => /\ obj \in [Checks -> [Gens -> EntryFields]]
              /\ buffer \in [Checks -> Seq(Samples)]
              /\ posting \in [Checks -> Seq(Samples)]
  BY <1>1, <1>2 DEF Init
<1>6. Init => /\ pc = "starting" /\ probes = {}
              /\ flushIn \in Nat /\ refreshIn \in Nat
              /\ flushEvery \in FlushPeriods /\ refreshEvery \in RefreshPeriods
  BY DEF Init
<1>7. Init => stopping \in BOOLEAN /\ flushNow \in BOOLEAN /\ owesRefresh \in BOOLEAN
  BY Zenon DEF Init
<1> QED  BY <1>4, <1>5, <1>6, <1>7 DEF TypeOK

\* TypeOK: every variable keeps a value of the kind the code gives it, for
\* every set of checks, every cap and every period.
THEOREM TypeCorrect == Spec => []TypeOK
BY InitType, NextType, PTL DEF Spec

-----------------------------------------------------------------------------
(* One probe per entry.                                                    *)

\* OneProbePerEntry is not inductive: refresh makes an object with the flag
\* down, which is right only because no task can already hold that object.
\* What is missing is that object numbers are handed out once.
EntriesAreNumbered ==
  /\ \A c \in Checks : entries[c] <= made[c]
  /\ \A p \in probes : p.gen <= made[p.sid]

Own(c, g) == {p \in probes : p.sid = c /\ p.gen = g}

ProbeInv == TypeOK /\ EntriesAreNumbered /\ OneProbePerEntry

\* OneProbePerEntry for one object, in the form the steps below use.
OwnsOne(c, g) ==
  /\ \A p, q \in Own(c, g) : p = q
  /\ obj[c][g].running <=> Own(c, g) # {}

LEMMA OwnsOneLemma ==
  OneProbePerEntry <=> \A c \in Checks, g \in Gens : OwnsOne(c, g)
BY DEF OneProbePerEntry, OwnsOne, Own

LEMMA TickOwnsOne ==
  ASSUME ProbeInv, Tick, NEW c \in Checks, NEW g \in Gens
  PROVE  OwnsOne(c, g)'
<1>1. OwnsOne(c, g)
  BY OwnsOneLemma DEF ProbeInv
<1>2. CASE Launches(c) /\ g = entries[c]
  <2>1. Own(c, g) = {}
    BY <1>1, <1>2 DEF OwnsOne, Launches, Current
  <2>2. Own(c, g)' = {[sid |-> c, gen |-> g, t |-> clock[c] + 1]}
    BY <1>2, <2>1 DEF Own, Tick
  <2>3. obj'[c][g].running
    <3>1. obj'[c][g] = Started(obj[c][g]) /\ obj[c][g] \in EntryFields
      BY <1>2 DEF Tick, ProbeInv, TypeOK
    <3>2. Started(obj[c][g]).running = TRUE
      BY <3>1 DEF Started, EntryFields
    <3> QED  BY <3>1, <3>2
  <2> QED  BY <2>2, <2>3 DEF OwnsOne
<1>3. CASE ~(Launches(c) /\ g = entries[c])
  <2>1. Own(c, g)' = Own(c, g)
    BY <1>3 DEF Own, Tick
  <2>2. obj'[c][g] = obj[c][g]
    BY <1>3 DEF Tick, ProbeInv, TypeOK
  <2> QED  BY <1>1, <2>1, <2>2 DEF OwnsOne
<1> QED  BY <1>2, <1>3

LEMMA TickNumbered ==
  ASSUME ProbeInv, Tick PROVE EntriesAreNumbered'
BY DEF ProbeInv, EntriesAreNumbered, TypeOK, Tick, Probes

LEMMA ProbeEndsOwnsOne ==
  ASSUME ProbeInv, NEW p \in probes, NEW status \in Statuses, ProbeEnds(p, status),
         NEW c \in Checks, NEW g \in Gens
  PROVE  OwnsOne(c, g)'
<1>1. OwnsOne(c, g)
  BY OwnsOneLemma DEF ProbeInv
<1>2. CASE c = p.sid /\ g = p.gen
  <2>1. Own(c, g)' = {}
    BY <1>1, <1>2 DEF OwnsOne, Own, ProbeEnds
  <2>2. obj'[c][g].running = FALSE
    BY <1>2 DEF ProbeEnds, Finished, ProbeInv, TypeOK, EntryFields
  <2> QED  BY <2>1, <2>2 DEF OwnsOne
<1>3. CASE ~(c = p.sid /\ g = p.gen)
  <2>1. Own(c, g)' = Own(c, g)
    BY <1>3 DEF Own, ProbeEnds
  <2>2. obj'[c][g] = obj[c][g]
    BY <1>3 DEF ProbeEnds, ProbeInv, TypeOK
  <2> QED  BY <1>1, <2>1, <2>2 DEF OwnsOne
<1> QED  BY <1>2, <1>3

LEMMA UpsertOwnsOne ==
  ASSUME ProbeInv, NEW S \in SUBSET Checks, NEW ms \in [S -> Advertised], Upsert(S, ms),
         UNCHANGED probes, NEW c \in Checks, NEW g \in Gens
  PROVE  OwnsOne(c, g)'
<1>1. OwnsOne(c, g) /\ Own(c, g)' = Own(c, g)
  BY OwnsOneLemma DEF ProbeInv, Own
<1>2. obj'[c][g].running = obj[c][g].running
  <2>1. CASE c \in New(S) /\ g = made[c] + 1
    <3>1. Own(c, g) = {}
      BY <2>1 DEF Own, ProbeInv, TypeOK, EntriesAreNumbered, Probes
    <3>2. obj[c][g].running = FALSE
      BY <1>1, <3>1 DEF OwnsOne, ProbeInv, TypeOK, EntryFields
    <3>3. obj'[c][g].running = FALSE
      BY <2>1 DEF Upsert, NewEntry, ProbeInv, TypeOK
    <3> QED  BY <3>2, <3>3
  <2>2. CASE c \in New(S) /\ g # made[c] + 1
    BY <2>2 DEF Upsert, ProbeInv, TypeOK
  <2>3. CASE c \in S \ New(S)
    BY <2>3 DEF Upsert, ProbeInv, TypeOK, EntryFields
  <2>4. CASE c \notin S
    BY <2>4 DEF Upsert, New
  <2> QED  BY <2>1, <2>2, <2>3, <2>4
<1> QED  BY <1>1, <1>2 DEF OwnsOne

LEMMA ProbeInvStep == ProbeInv /\ [Next]_vars => ProbeInv'
<1> SUFFICES ASSUME ProbeInv, [Next]_vars PROVE ProbeInv'
  OBVIOUS
<1>1. TypeOK'
  BY NextType DEF ProbeInv
<1>2. SUFFICES EntriesAreNumbered' /\ \A c \in Checks, g \in Gens : OwnsOne(c, g)'
  BY <1>1, <1>2 DEF ProbeInv, OneProbePerEntry, OwnsOne, Own
<1>3. CASE UNCHANGED <<entries, made, obj, probes>>
  <2>1. EntriesAreNumbered'
    BY <1>3 DEF ProbeInv, EntriesAreNumbered
  <2>2. \A c \in Checks, g \in Gens : OwnsOne(c, g)'
    BY <1>3, OwnsOneLemma DEF ProbeInv, OwnsOne, Own
  <2> QED  BY <2>1, <2>2
<1>4. CASE PassThenReport \/ PassThenRefresh \/ PassThenSleep
  BY <1>4, TickOwnsOne, TickNumbered
  DEF PassThenReport, PassThenRefresh, PassThenSleep, PassWork
<1>5. CASE Wake \/ Wait
  <2>1. TimePasses
    BY <1>5 DEF Wake, Wait
  <2>2. EntriesAreNumbered'
    BY <2>1 DEF ProbeInv, EntriesAreNumbered, TimePasses
  <2>3. ASSUME NEW c \in Checks, NEW g \in Gens
        PROVE  obj'[c][g].running = obj[c][g].running
    BY <2>1 DEF TimePasses, ProbeInv, TypeOK, EntryFields
  <2>4. \A c \in Checks, g \in Gens : OwnsOne(c, g)'
    BY <2>1, <2>3, OwnsOneLemma DEF ProbeInv, OwnsOne, Own, TimePasses
  <2> QED  BY <2>2, <2>4
<1>6. ASSUME NEW S \in SUBSET Checks, NEW ms \in [S -> Advertised],
             RefreshSucceeds(S, ms) \/ RefreshRaises(S, ms)
      PROVE  EntriesAreNumbered' /\ \A c \in Checks, g \in Gens : OwnsOne(c, g)'
  <2>1. Upsert(S, ms) /\ UNCHANGED probes
    BY <1>6 DEF RefreshSucceeds, RefreshRaises
  <2>2. \A c \in Checks, g \in Gens : OwnsOne(c, g)'
    BY <2>1, UpsertOwnsOne
  <2>3. \A c \in Checks : made[c] \in Nat /\ made'[c] \in Nat /\ made[c] <= made'[c]
    BY <2>1, BoundAssumption DEF Upsert, ProbeInv, TypeOK
  <2>4. \A c \in Checks : entries'[c] <= made'[c]
    <3>1. \A c \in Checks : entries[c] \in Nat /\ entries[c] <= made[c]
      BY BoundAssumption DEF ProbeInv, TypeOK, EntriesAreNumbered
    <3>2. \A c \in Checks : entries'[c] \in {0, entries[c], made'[c]}
      BY <1>6 DEF RefreshSucceeds, RefreshRaises
    <3> QED  BY <2>3, <3>1, <3>2
  <2>5. \A p \in probes : p.gen <= made'[p.sid]
    BY <2>3, BoundAssumption DEF ProbeInv, TypeOK, EntriesAreNumbered, Probes, Gens
  <2> QED  BY <2>1, <2>2, <2>4, <2>5 DEF EntriesAreNumbered
<1>7. ASSUME NEW p \in probes, NEW status \in Statuses, ProbeEnds(p, status)
      PROVE  EntriesAreNumbered' /\ \A c \in Checks, g \in Gens : OwnsOne(c, g)'
  <2>1. EntriesAreNumbered'
    BY <1>7 DEF ProbeInv, EntriesAreNumbered, ProbeEnds
  <2> QED  BY <1>7, <2>1, ProbeEndsOwnsOne
<1>8. CASE Restart
  <2>1. EntriesAreNumbered'
    BY <1>8, BoundAssumption DEF Restart, ProbeInv, TypeOK, EntriesAreNumbered
  <2>2. \A c \in Checks, g \in Gens : OwnsOne(c, g)'
    BY <1>8 DEF Restart, OwnsOne, Own, NewEntry
  <2> QED  BY <2>1, <2>2
<1> QED
  BY <1>3, <1>4, <1>5, <1>6, <1>7, <1>8
  DEF Next, Refresh, Probe, LastFlush, ReportAcknowledged, ReportFailed, Stop, Stopped, vars

\* OneProbePerEntry: no check is ever probed twice at once through one entry,
\* and no entry stays marked after its probe has ended.
THEOREM ProbesAreExclusive == Spec => []OneProbePerEntry
<1>1. Init => ProbeInv
  <2>1. Init => TypeOK
    BY InitType
  <2>2. Init => EntriesAreNumbered
    BY DEF Init, EntriesAreNumbered
  <2>3. Init => OneProbePerEntry
    BY DEF Init, OneProbePerEntry, NewEntry
  <2> QED  BY <2>1, <2>2, <2>3 DEF ProbeInv
<1>2. ProbeInv => OneProbePerEntry
  BY DEF ProbeInv
<1> QED  BY <1>1, <1>2, ProbeInvStep, PTL DEF Spec
=============================================================================
