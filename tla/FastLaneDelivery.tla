-------------------------- MODULE FastLaneDelivery --------------------------
(***************************************************************************)
(* Proofs about what FastLane does with its samples, for every value of    *)
(* its constants: the bound on what is kept, the order in which the core   *)
(* sees the samples, and that FastLane implements ProbeChannel.            *)
(***************************************************************************)
EXTENDS FastLaneProofs

USE DEF lane, schedule, tasks, reports, timers, periods

-----------------------------------------------------------------------------
(* The backlog.                                                            *)

\* A step in which no report is lost adds to a buffer by a probe only.
LEMMA BacklogStep ==
  ASSUME TypeOK, [Next]_vars, NEW c \in Checks, Len(buffer'[c]) > BufferCap
  PROVE  Grows(c) \/ Stays(c)
<1>1. TypeOK'
  BY NextType
<1>2. buffer[c] \in Seq(Samples) /\ posting[c] \in Seq(Samples) /\ BufferCap \in Nat \ {0}
  BY BoundAssumption DEF TypeOK
<1>3. buffer'[c] # <<>>
  BY <1>2
<1>4. CASE buffer' = buffer /\ posting' = posting
  BY <1>4 DEF Stays
<1>5. CASE TakeBuffer
  BY <1>3, <1>5 DEF TakeBuffer, NoSamples
<1>6. CASE ReportAcknowledged
  BY <1>6 DEF ReportAcknowledged, Stays
<1>7. ASSUME NEW I \in SUBSET Checks, ReportFailed(I) PROVE FALSE
  <2>1. buffer'[c] = Newest(posting[c] \o buffer[c])
    BY <1>7 DEF ReportFailed, Requeued
  <2>2. posting[c] \o buffer[c] \in Seq(Samples)
    BY <1>2
  <2>3. Len(buffer'[c]) <= BufferCap
    BY <2>1, <2>2, NewestLemma
  <2>4. Len(buffer'[c]) \in Nat
    BY <1>1 DEF TypeOK
  <2> QED  BY <1>2, <2>3, <2>4
<1>8. ASSUME NEW S \in SUBSET Checks, NEW ms \in [S -> Advertised], RefreshSucceeds(S, ms)
      PROVE  Stays(c)
  BY <1>3, <1>8 DEF RefreshSucceeds, BufferAfter, Stays
<1>9. ASSUME NEW p \in probes, NEW status \in Statuses, ProbeEnds(p, status)
      PROVE  Grows(c) \/ Stays(c)
  <2>1. CASE c = p.sid
    <3>1. PICK s : s \in Samples /\ buffer'[c] = Append(buffer[c], s)
      <4> DEFINE s == [gen |-> p.gen, t |-> p.t, status |-> status]
      <4>1. s \in Samples
        BY <1>9 DEF TypeOK, Probes, Samples
      <4>2. buffer'[c] = Append(buffer[c], s)
        BY <1>9, <2>1 DEF ProbeEnds, TypeOK
      <4> QED  BY <4>1, <4>2
    <3>2. Front(Append(buffer[c], s)) = buffer[c]
      BY <1>2, <3>1 DEF Front
    <3> QED  BY <1>3, <3>1, <3>2 DEF Grows
  <2>2. CASE c # p.sid
    BY <1>9, <2>2 DEF ProbeEnds, TypeOK, Stays
  <2> QED  BY <2>1, <2>2
<1>10. CASE Restart
  BY <1>3, <1>10 DEF Restart, NoSamples
<1>11. CASE PassWork
  BY <1>4, <1>5, <1>11 DEF PassWork
<1> QED
  BY <1>4, <1>5, <1>6, <1>7, <1>8, <1>9, <1>10, <1>11
  DEF Next, PassThenReport, PassThenRefresh, PassThenSleep, LastFlush, Wake, Wait, TimePasses,
      Refresh, RefreshRaises, Probe, Stop, Stopped, vars

\* BoundedBacklog: through an outage of any length, with every cap and any
\* number of checks, whichever of them the report that was lost mentioned.
THEOREM BacklogIsBounded == Spec => BoundedBacklog
<1>1. TypeOK /\ [Next]_vars =>
        [\A c \in Checks : Len(buffer'[c]) > BufferCap => Grows(c) \/ Stays(c)]_vars
  BY BacklogStep
<1> QED  BY <1>1, TypeCorrect, PTL DEF Spec, BoundedBacklog

-----------------------------------------------------------------------------
(* What a step does to the samples of a check.                             *)

\* Nothing is in flight outside the await of a report.
PostingInv == pc \notin {"posting", "closing"} => posting = NoSamples

LEMMA PostingStep ==
  ASSUME PostingInv, [Next]_vars PROVE PostingInv'
<1>1. CASE PassThenReport
  BY <1>1 DEF PassThenReport, PostingInv
<1>7. CASE PassThenRefresh \/ PassThenSleep
  <2>1. PassWork /\ ~(FlushDue /\ HasResults)
    BY <1>7 DEF PassThenRefresh, PassThenSleep
  <2>2. posting = NoSamples
    BY <2>1 DEF PostingInv, PassWork
  <2> QED  BY <2>1, <2>2 DEF PassWork, TakeBuffer, PostingInv, HasResults
<1>2. CASE LastFlush
  BY <1>2 DEF LastFlush, TakeBuffer, HasResults, PostingInv
<1>3. CASE Wake \/ Wait
  BY <1>3 DEF Wake, Wait, TimePasses, PostingInv
<1>4. CASE ReportAcknowledged \/ \E I \in SUBSET Checks : ReportFailed(I)
  BY <1>4 DEF ReportAcknowledged, ReportFailed, PostingInv
<1>5. CASE Refresh
  BY <1>5 DEF Refresh, RefreshSucceeds, RefreshRaises, PostingInv
<1>6. CASE Probe \/ Stop \/ Restart \/ Stopped \/ UNCHANGED vars
  BY <1>6 DEF Probe, ProbeEnds, Stop, Restart, Stopped, vars, PostingInv
<1> QED
  BY <1>1, <1>2, <1>3, <1>4, <1>5, <1>6, <1>7 DEF Next

Untouched == delivered' = delivered /\ \A c \in Checks : Pending(c)' = Pending(c)

Withdraws(W) ==
  /\ delivered' = delivered
  /\ \A c \in Checks : Pending(c)' = IF c \in W THEN <<>> ELSE Pending(c)

\* Swapping the buffer moves samples from one list to the other, no further.
LEMMA SwapLemma ==
  ASSUME TypeOK, posting = NoSamples, TakeBuffer PROVE Untouched
<1>1. ASSUME NEW c \in Checks PROVE Pending(c)' = Pending(c)
  <2>1. buffer[c] \in Seq(Samples)
    BY DEF TypeOK
  <2>2. posting[c] = <<>> /\ posting'[c] = buffer[c] /\ buffer'[c] = <<>>
    BY DEF TakeBuffer, NoSamples
  <2>3. buffer[c] \o <<>> = buffer[c] /\ <<>> \o buffer[c] = buffer[c]
    BY <2>1, ConcatEmptySeq
  <2> QED  BY <2>2, <2>3 DEF Pending
<1> QED  BY <1>1 DEF Untouched, TakeBuffer

\* Every step of the lane does one of five things to the samples.
LEMMA SampleSteps ==
  ASSUME TypeOK, PostingInv, [Next]_vars
  PROVE  \/ Untouched
         \/ \E p \in probes, status \in Statuses : ProbeEnds(p, status)
         \/ ReportAcknowledged
         \/ \E I \in SUBSET Checks : ReportFailed(I)
         \/ \E W \in SUBSET Checks : Withdraws(W)
<1>1. CASE UNCHANGED <<buffer, posting, delivered>>
  BY <1>1 DEF Untouched, Pending
<1>2. CASE PassWork
  <2>1. posting = NoSamples
    BY <1>2 DEF PostingInv, PassWork
  <2> QED  BY <1>1, <1>2, <2>1, SwapLemma DEF PassWork
<1>3. CASE LastFlush
  <2>1. posting = NoSamples
    BY <1>3 DEF PostingInv, LastFlush
  <2> QED  BY <1>3, <2>1, SwapLemma DEF LastFlush
<1>4. ASSUME NEW S \in SUBSET Checks, NEW ms \in [S -> Advertised], RefreshSucceeds(S, ms)
      PROVE  \E W \in SUBSET Checks : Withdraws(W)
  <2>1. posting = NoSamples /\ posting' = posting /\ delivered' = delivered
    BY <1>4 DEF PostingInv, RefreshSucceeds
  <2>2. WITNESS {c \in Checks : entries[c] # 0 /\ c \notin S} \in SUBSET Checks
  <2>3. ASSUME NEW c \in Checks
        PROVE  Pending(c)' = IF entries[c] # 0 /\ c \notin S THEN <<>> ELSE Pending(c)
    <3>1. posting[c] = <<>>
      BY <2>1 DEF NoSamples
    <3>2. buffer'[c] = IF entries[c] # 0 /\ c \notin S THEN <<>> ELSE buffer[c]
      BY <1>4 DEF RefreshSucceeds, BufferAfter
    <3>3. <<>> \o <<>> = <<>>
      OBVIOUS
    <3> QED  BY <2>1, <3>1, <3>2, <3>3 DEF Pending
  <2> QED  BY <2>1, <2>3 DEF Withdraws
<1>5. CASE Restart
  <2>1. \A c \in Checks : posting'[c] = <<>> /\ buffer'[c] = <<>>
    BY <1>5 DEF Restart, NoSamples
  <2>2. <<>> \o <<>> = <<>>
    OBVIOUS
  <2>3. Withdraws(Checks)
    BY <1>5, <2>1, <2>2 DEF Withdraws, Pending, Restart
  <2> QED  BY <2>3
<1> QED
  BY <1>1, <1>2, <1>3, <1>4, <1>5
  DEF Next, PassThenReport, PassThenRefresh, PassThenSleep, Wake, Wait, TimePasses,
      Refresh, RefreshRaises, Probe, Stop, Stopped, vars

-----------------------------------------------------------------------------
(* Stamps: a probe in flight is newer than all its entry has reported.     *)

LEMMA ConcatSet ==
  ASSUME NEW S, NEW q \in Seq(S), NEW r \in Seq(S)
  PROVE  ToSet(q \o r) = ToSet(q) \cup ToSet(r)
<1>1. /\ q \o r \in Seq(S) /\ Len(q \o r) = Len(q) + Len(r)
      /\ \A i \in 1..Len(q) + Len(r) :
           (q \o r)[i] = IF i <= Len(q) THEN q[i] ELSE r[i - Len(q)]
  BY ConcatProperties
<1>2. Len(q) \in Nat /\ Len(r) \in Nat
  OBVIOUS
<1>3. \A i \in 1..Len(r) : (q \o r)[i + Len(q)] = r[i] /\ i + Len(q) \in 1..Len(q) + Len(r)
  BY <1>1, <1>2
<1>4. \A i \in 1..Len(q) : (q \o r)[i] = q[i] /\ i \in 1..Len(q) + Len(r)
  BY <1>1, <1>2
<1>5. DOMAIN (q \o r) = 1..Len(q) + Len(r) /\ DOMAIN q = 1..Len(q) /\ DOMAIN r = 1..Len(r)
  BY <1>1
<1>6. ASSUME NEW i \in 1..Len(q) + Len(r) PROVE (q \o r)[i] \in ToSet(q) \cup ToSet(r)
  <2>1. CASE i <= Len(q)
    BY <1>1, <1>2, <1>5, <2>1 DEF ToSet
  <2>2. CASE ~(i <= Len(q))
    <3>1. i - Len(q) \in 1..Len(r) /\ (q \o r)[i] = r[i - Len(q)]
      BY <1>1, <1>2, <2>2
    <3> QED  BY <1>5, <3>1 DEF ToSet
  <2> QED  BY <2>1, <2>2
<1>7. ToSet(q \o r) \subseteq ToSet(q) \cup ToSet(r)
  BY <1>5, <1>6 DEF ToSet
<1>8. ToSet(q) \subseteq ToSet(q \o r)
  BY <1>4, <1>5 DEF ToSet
<1>9. ToSet(r) \subseteq ToSet(q \o r)
  <2>1. ASSUME NEW i \in 1..Len(r) PROVE r[i] \in ToSet(q \o r)
    <3>1. i + Len(q) \in DOMAIN (q \o r) /\ (q \o r)[i + Len(q)] = r[i]
      BY <1>3, <1>5
    <3> QED  BY <3>1 DEF ToSet
  <2> QED  BY <1>5, <2>1 DEF ToSet
<1> QED  BY <1>7, <1>8, <1>9

LEMMA AppendSet ==
  ASSUME NEW S, NEW q \in Seq(S), NEW e \in S
  PROVE  ToSet(Append(q, e)) = ToSet(q) \cup {e}
<1>1. /\ Append(q, e) \in Seq(S) /\ Len(Append(q, e)) = Len(q) + 1
      /\ \A i \in 1..Len(q) : Append(q, e)[i] = q[i]
      /\ Append(q, e)[Len(q) + 1] = e
  BY AppendProperties
<1>2. DOMAIN q = 1..Len(q) /\ DOMAIN Append(q, e) = 1..Len(q) + 1 /\ Len(q) \in Nat
  BY <1>1
<1>3. 1..Len(q) + 1 = 1..Len(q) \cup {Len(q) + 1}
  BY <1>2
<1> QED  BY <1>1, <1>2, <1>3 DEF ToSet

LEMMA NewestSet ==
  ASSUME NEW S, NEW q \in Seq(S)
  PROVE  ToSet(Newest(q)) \subseteq ToSet(q)
<1>1. /\ Newest(q) \in Seq(S) /\ Len(Newest(q)) <= Len(q)
      /\ \A i \in 1..Len(Newest(q)) : Newest(q)[i] = q[i + (Len(q) - Len(Newest(q)))]
  BY NewestLemma
<1>2. /\ DOMAIN Newest(q) = 1..Len(Newest(q)) /\ DOMAIN q = 1..Len(q)
      /\ Len(Newest(q)) \in Nat /\ Len(q) \in Nat
  BY <1>1
<1>3. \A i \in 1..Len(Newest(q)) : i + (Len(q) - Len(Newest(q))) \in 1..Len(q)
  BY <1>1, <1>2
<1> QED  BY <1>1, <1>2, <1>3 DEF ToSet

\* The samples of c the core has or may still get.
Known(c) == ToSet(Pending(c)) \cup delivered[c]

Stamped ==
  /\ \A c \in Checks : \A s \in Known(c) : s.t <= clock[c]
  /\ \A p \in probes :
       /\ p.t <= clock[p.sid]
       /\ \A s \in Known(p.sid) : s.gen = p.gen => s.t < p.t

\* Only the end of a probe brings a sample that was not there.
LEMMA KnownShrinks ==
  ASSUME TypeOK, PostingInv, [Next]_vars,
         ~ \E p \in probes, status \in Statuses : ProbeEnds(p, status),
         NEW c \in Checks
  PROVE  Known(c)' \subseteq Known(c)
<1> USE DEF Known
<1>0. posting[c] \in Seq(Samples) /\ buffer[c] \in Seq(Samples) /\ <<>> \in Seq(Samples)
  BY DEF TypeOK
<1>1. ToSet(<<>>) = {} /\ <<>> \o buffer[c] = buffer[c]
  BY <1>0, ConcatEmptySeq DEF ToSet
<1>2. ToSet(Pending(c)) = ToSet(posting[c]) \cup ToSet(buffer[c])
  BY <1>0, ConcatSet DEF Pending
<1>3. CASE Untouched
  BY <1>3 DEF Untouched
<1>4. CASE ReportAcknowledged
  <2>1. /\ posting'[c] = <<>> /\ buffer'[c] = buffer[c]
        /\ delivered'[c] = delivered[c] \cup ToSet(posting[c])
    BY <1>4 DEF ReportAcknowledged, NoSamples
  <2>2. Pending(c)' = buffer[c]
    BY <1>1, <2>1 DEF Pending
  <2> QED  BY <1>2, <2>1, <2>2
<1>5. ASSUME NEW I \in SUBSET Checks, ReportFailed(I) PROVE Known(c)' \subseteq Known(c)
  <2>1. posting[c] \o buffer[c] \in Seq(Samples)
    BY <1>0
  <2>2. Newest(posting[c] \o buffer[c]) \in Seq(Samples)
    BY <2>1, NewestLemma
  <2>3. /\ posting'[c] = <<>> /\ buffer'[c] = Newest(posting[c] \o buffer[c])
        /\ delivered'[c] \subseteq delivered[c] \cup ToSet(posting[c])
    BY <1>5 DEF ReportFailed, NoSamples, Requeued
  <2>4. Pending(c)' = Newest(posting[c] \o buffer[c])
    BY <2>2, <2>3, ConcatEmptySeq DEF Pending
  <2>5. ToSet(Pending(c)') \subseteq ToSet(Pending(c))
    BY <2>1, <2>4, NewestSet DEF Pending
  <2> QED  BY <1>2, <2>3, <2>5
<1>6. ASSUME NEW W \in SUBSET Checks, Withdraws(W) PROVE Known(c)' \subseteq Known(c)
  BY <1>1, <1>6 DEF Withdraws
<1> QED  BY <1>3, <1>4, <1>5, <1>6, SampleSteps

\* The end of a probe brings its sample, and that only.
LEMMA KnownAfterProbe ==
  ASSUME TypeOK, NEW p \in probes, NEW status \in Statuses, ProbeEnds(p, status),
         NEW c \in Checks
  PROVE  Known(c)' = IF c = p.sid
                     THEN Known(c) \cup {[gen |-> p.gen, t |-> p.t, status |-> status]}
                     ELSE Known(c)
<1> DEFINE s == [gen |-> p.gen, t |-> p.t, status |-> status]
<1>0. s \in Samples /\ posting[c] \in Seq(Samples) /\ buffer[c] \in Seq(Samples)
  BY DEF TypeOK, Probes, Samples
<1>1. /\ posting' = posting /\ delivered' = delivered
      /\ buffer'[c] = IF c = p.sid THEN Append(buffer[c], s) ELSE buffer[c]
  BY DEF ProbeEnds, TypeOK
<1> HIDE DEF s
<1>2. Append(buffer[c], s) \in Seq(Samples)
  BY <1>0
<1>3. ToSet(posting[c] \o Append(buffer[c], s)) = ToSet(posting[c]) \cup ToSet(Append(buffer[c], s))
  BY <1>0, <1>2, ConcatSet
<1>4. ToSet(Append(buffer[c], s)) = ToSet(buffer[c]) \cup {s}
  BY <1>0, AppendSet
<1>5. ToSet(posting[c] \o buffer[c]) = ToSet(posting[c]) \cup ToSet(buffer[c])
  BY <1>0, ConcatSet
<1>6. Known(c)' = IF c = p.sid THEN Known(c) \cup {s} ELSE Known(c)
  BY <1>1, <1>3, <1>4, <1>5 DEF Known, Pending
<1> QED  BY <1>6 DEF s

DeliveryInv == ProbeInv /\ PostingInv /\ Stamped

LEMMA StampedStep ==
  ASSUME DeliveryInv, [Next]_vars PROVE Stamped'
<1> USE DEF DeliveryInv
<1>0. /\ TypeOK /\ PostingInv /\ Stamped /\ TypeOK'
      /\ \A c \in Checks : clock[c] \in Nat
      /\ \A c \in Checks : \A s \in Known(c) : s.t \in Nat /\ s.gen \in Gens
  <2>1. TypeOK /\ TypeOK'
    BY NextType DEF ProbeInv
  <2>2. \A c \in Checks : posting[c] \o buffer[c] \in Seq(Samples)
    BY <2>1 DEF TypeOK
  <2>3. \A c \in Checks : Known(c) \subseteq Samples
    <3>1. \A q \in Seq(Samples) : ToSet(q) \subseteq Samples
      BY DEF ToSet
    <3> QED  BY <2>1, <2>2, <3>1 DEF TypeOK, Known, Pending
  <2>4. \A s \in Samples : s.t \in Nat /\ s.gen \in Gens
    BY DEF Samples
  <2>5. \A c \in Checks : clock[c] \in Nat
    BY <2>1 DEF TypeOK
  <2> QED  BY <2>1, <2>3, <2>4, <2>5
<1>p. \A p \in probes : p.sid \in Checks /\ p.gen \in Gens /\ p.t \in Nat
  BY <1>0 DEF TypeOK, Probes
<1>1. ASSUME NEW p \in probes, NEW status \in Statuses, ProbeEnds(p, status) PROVE Stamped'
  <2> DEFINE s == [gen |-> p.gen, t |-> p.t, status |-> status]
  <2>1. s \in Samples /\ s.gen = p.gen /\ s.t = p.t
    BY <1>0 DEF TypeOK, Probes, Samples
  <2>2. \A c \in Checks : Known(c)' = IF c = p.sid THEN Known(c) \cup {s} ELSE Known(c)
    BY <1>0, <1>1, KnownAfterProbe
  <2>3. clock' = clock /\ probes' = probes \ {p}
    BY <1>1 DEF ProbeEnds
  <2>4. \A q \in probes' : q.sid = p.sid => q.gen # p.gen
    BY <2>3, <1>p DEF ProbeInv, OneProbePerEntry
  <2> HIDE DEF s
  <2>5. \A c \in Checks : \A r \in Known(c)' : r.t <= clock'[c]
    BY <1>0, <2>1, <2>2, <2>3 DEF Stamped
  <2>6. ASSUME NEW q \in probes'
        PROVE  q.t <= clock'[q.sid] /\ \A r \in Known(q.sid)' : r.gen = q.gen => r.t < q.t
    BY <1>0, <1>p, <2>1, <2>2, <2>3, <2>4 DEF Stamped
  <2>7. \A q \in probes' : \A r \in Known(q.sid)' : r.gen = q.gen => r.t < q.t
    BY <2>6
  <2> QED  BY <2>5, <2>6, <2>7 DEF Stamped
<1>2. CASE ~ \E p \in probes, status \in Statuses : ProbeEnds(p, status)
  <2>1. \A c \in Checks : Known(c)' \subseteq Known(c)
    BY <1>0, <1>2, KnownShrinks
  <2>2. CASE clock' = clock /\ probes' \subseteq probes
    BY <1>0, <1>p, <2>1, <2>2 DEF Stamped
  <2>3. CASE Tick
    <3>1. \A c \in Checks : clock'[c] \in Nat /\ clock[c] <= clock'[c]
      BY <1>0, <2>3 DEF Tick
    <3>2. ASSUME NEW p \in probes'
          PROVE  \/ p \in probes
                 \/ p.sid \in Checks /\ p.t = clock[p.sid] + 1 /\ p.t = clock'[p.sid]
      BY <2>3 DEF Tick
    <3>3. \A c \in Checks : \A r \in Known(c)' : r.t <= clock'[c]
      BY <1>0, <2>1, <3>1 DEF Stamped
    <3>4. ASSUME NEW p \in probes'
          PROVE  /\ p.t <= clock'[p.sid]
                 /\ \A r \in Known(p.sid)' : r.gen = p.gen => r.t < p.t
      <4>1. CASE p \in probes
        BY <1>0, <1>p, <2>1, <3>1, <4>1 DEF Stamped
      <4>2. CASE p.sid \in Checks /\ p.t = clock[p.sid] + 1 /\ p.t = clock'[p.sid]
        BY <1>0, <2>1, <3>1, <4>2 DEF Stamped
      <4> QED  BY <3>2, <4>1, <4>2
    <3> QED  BY <3>3, <3>4 DEF Stamped
  <2>4. Tick \/ (clock' = clock /\ probes' \subseteq probes)
    BY <1>2 DEF Next, PassThenReport, PassThenRefresh, PassThenSleep, PassWork, LastFlush,
      Wake, Wait, TimePasses, ReportAcknowledged, ReportFailed, Refresh, RefreshSucceeds,
      RefreshRaises, Probe, Stop, Restart, Stopped, vars
  <2> QED  BY <2>2, <2>3, <2>4
<1> QED  BY <1>1, <1>2

LEMMA DeliveryStep == DeliveryInv /\ [Next]_vars => DeliveryInv'
BY ProbeInvStep, PostingStep, StampedStep DEF DeliveryInv

LEMMA DeliveryInit == Init => DeliveryInv
<1>1. Init => ProbeInv
  BY InitType DEF Init, ProbeInv, EntriesAreNumbered, OneProbePerEntry, NewEntry
<1>2. Init => PostingInv
  BY DEF Init, PostingInv
<1>3. ASSUME Init, NEW c \in Checks PROVE Known(c) = {}
  <2>1. <<>> \o <<>> = <<>> /\ DOMAIN <<>> = {}
    OBVIOUS
  <2>2. Pending(c) = <<>>
    BY <1>3, <2>1 DEF Init, NoSamples, Pending
  <2> QED  BY <1>3, <2>1, <2>2 DEF Init, Known, ToSet
<1>4. Init => Stamped
  BY <1>3 DEF Stamped, Init
<1> QED  BY <1>1, <1>2, <1>4 DEF DeliveryInv

-----------------------------------------------------------------------------
(* FastLane implements ProbeChannel.                                       *)

LEMMA ConcatSplit ==
  ASSUME NEW S, NEW q \in Seq(S), NEW r \in Seq(S)
  PROVE  /\ SubSeq(q \o r, 1, Len(q)) = q
         /\ SubSeq(q \o r, Len(q) + 1, Len(q \o r)) = r
<1>1. /\ q \o r \in Seq(S) /\ Len(q \o r) = Len(q) + Len(r)
      /\ \A i \in 1..Len(q) + Len(r) :
           (q \o r)[i] = IF i <= Len(q) THEN q[i] ELSE r[i - Len(q)]
      /\ \A i \in 1..Len(q) + Len(r) : (q \o r)[i] \in S
  BY ConcatProperties
<1>2. Len(q) \in Nat /\ Len(r) \in Nat
  OBVIOUS
<1>3. SubSeq(q \o r, 1, Len(q)) = q
  <2> DEFINE h == SubSeq(q \o r, 1, Len(q))
  <2>0. \A i \in 1..Len(q) : (q \o r)[i] \in S
    BY <1>1, <1>2
  <2>1. h \in Seq(S) /\ Len(h) = Len(q) /\ \A i \in 1..Len(q) : h[i] = (q \o r)[i]
    BY <1>2, <2>0, SubSeqProperties
  <2>2. \A i \in 1..Len(q) : h[i] = q[i]
    BY <1>1, <1>2, <2>1
  <2> HIDE DEF h
  <2> QED  BY <2>1, <2>2, SeqEqual
<1>4. SubSeq(q \o r, Len(q) + 1, Len(q) + Len(r)) = r
  <2> DEFINE h == SubSeq(q \o r, Len(q) + 1, Len(q) + Len(r))
  <2>0. \A i \in Len(q) + 1 .. Len(q) + Len(r) : (q \o r)[i] \in S
    BY <1>1, <1>2
  <2>1. h \in Seq(S) /\ Len(h) = Len(r) /\ \A i \in 1..Len(r) : h[i] = (q \o r)[Len(q) + i]
    BY <1>2, <2>0, SubSeqProperties
  <2>2. \A i \in 1..Len(r) : h[i] = r[i]
    BY <1>1, <1>2, <2>1
  <2> HIDE DEF h
  <2> QED  BY <2>1, <2>2, SeqEqual
<1> QED  BY <1>1, <1>3, <1>4

\* Both ends of a queue made of q and r are positions of it.
LEMMA ConcatEnds ==
  ASSUME NEW S, NEW q \in Seq(S), NEW r \in Seq(S)
  PROVE  0 \in 0..Len(q \o r) /\ Len(q) \in 0..Len(q \o r)
<1>1. Len(q) \in Nat /\ Len(r) \in Nat
  BY LenProperties
<1>2. Len(q \o r) = Len(q) + Len(r)
  BY ConcatProperties
<1> QED  BY <1>1, <1>2

LEMMA ProbeProduces ==
  ASSUME DeliveryInv, NEW p \in probes, NEW status \in Statuses, ProbeEnds(p, status)
  PROVE  \E c \in Checks, s \in Samples : Channel!Produce(c, s)
<1> DEFINE s == [gen |-> p.gen, t |-> p.t, status |-> status]
           c == p.sid
<1>1. TypeOK /\ Stamped
  BY DEF DeliveryInv, ProbeInv
<1>2. c \in Checks /\ s \in Samples /\ s.gen = p.gen /\ s.t = p.t
  BY <1>1 DEF TypeOK, Probes, Samples
<1>3. \A q \in Known(c) : s.gen = q.gen => q.t < s.t
  BY <1>1, <1>2 DEF Stamped
<1>4. /\ posting' = posting /\ delivered' = delivered
      /\ buffer' = [buffer EXCEPT ![c] = Append(@, s)]
  BY DEF ProbeEnds
<1> HIDE DEF s, c
<1>5. ASSUME NEW d \in Checks
      PROVE  Pending(d)' = IF d = c THEN Append(Pending(c), s) ELSE Pending(d)
  <2>1. posting[d] \in Seq(Samples) /\ buffer[d] \in Seq(Samples)
    BY <1>1 DEF TypeOK
  <2>2. CASE d # c
    BY <1>1, <1>4, <2>2 DEF Pending, TypeOK
  <2>3. CASE d = c
    <3>1. buffer'[c] = Append(buffer[c], s)
      BY <1>1, <1>2, <1>4 DEF TypeOK
    <3>2. <<s>> \in Seq(Samples)
      BY <1>2
    <3>3. Append(buffer[c], s) = buffer[c] \o <<s>>
      BY <1>2, <2>1, <2>3, AppendIsConcat
    <3>4. posting[c] \o (buffer[c] \o <<s>>) = (posting[c] \o buffer[c]) \o <<s>>
      <4>1. posting[c] \in Seq(Samples) /\ buffer[c] \in Seq(Samples)
        BY <2>1, <2>3
      <4>2. \A q, r, t \in Seq(Samples) : (q \o r) \o t = q \o (r \o t)
        BY ConcatAssociative
      <4> QED  BY <3>2, <4>1, <4>2, Zenon
    <3>5. (posting[c] \o buffer[c]) \o <<s>> = Append(posting[c] \o buffer[c], s)
      <4>1. posting[c] \o buffer[c] \in Seq(Samples)
        BY <2>1, <2>3
      <4> QED  BY <1>2, <4>1, AppendIsConcat
    <3> QED  BY <1>4, <2>3, <3>1, <3>3, <3>4, <3>5 DEF Pending
  <2> QED  BY <2>2, <2>3
<1>6. Channel!Produce(c, s)
  BY <1>2, <1>3, <1>4, <1>5 DEF Channel!Produce, Channel!Newer, Known, Channel!ToSet, ToSet
<1> QED  BY <1>2, <1>6

LEMMA ReportAcknowledges ==
  ASSUME TypeOK, ReportAcknowledged PROVE Channel!Acknowledge
<1>1. ASSUME NEW c \in Checks
      PROVE  \E n \in 0..Len(Pending(c)) :
               /\ Pending(c)' = SubSeq(Pending(c), n + 1, Len(Pending(c)))
               /\ delivered'[c] = delivered[c] \cup ToSet(SubSeq(Pending(c), 1, n))
  <2>1. posting[c] \in Seq(Samples) /\ buffer[c] \in Seq(Samples)
    BY DEF TypeOK
  <2>2. /\ SubSeq(Pending(c), 1, Len(posting[c])) = posting[c]
        /\ SubSeq(Pending(c), Len(posting[c]) + 1, Len(Pending(c))) = buffer[c]
    BY <2>1, ConcatSplit DEF Pending
  <2>3. Pending(c)' = buffer[c]
    <3>1. posting'[c] = <<>> /\ buffer'[c] = buffer[c]
      BY DEF ReportAcknowledged, NoSamples
    <3> QED  BY <2>1, <3>1, ConcatEmptySeq DEF Pending
  <2>4. delivered'[c] = delivered[c] \cup ToSet(posting[c])
    BY DEF ReportAcknowledged
  <2>5. Len(posting[c]) \in 0..Len(Pending(c))
    BY <2>1, ConcatEnds DEF Pending
  <2> QED  BY <2>2, <2>3, <2>4, <2>5
<1> QED  BY <1>1 DEF Channel!Acknowledge, Channel!ToSet, ToSet

LEMMA ReportFails ==
  ASSUME TypeOK, NEW I \in SUBSET Checks, ReportFailed(I) PROVE Channel!Fail
<1>1. ASSUME NEW c \in Checks
      PROVE  /\ Pending(c)' = Newest(Pending(c))
             /\ \E n \in 0..Len(Pending(c)) :
                  delivered'[c] = delivered[c] \cup ToSet(SubSeq(Pending(c), 1, n))
  <2>1. posting[c] \in Seq(Samples) /\ buffer[c] \in Seq(Samples)
    BY DEF TypeOK
  <2>2. Pending(c) \in Seq(Samples)
    BY <2>1, ConcatProperties DEF Pending
  <2>3. Pending(c)' = Newest(Pending(c))
    <3>1. posting'[c] = <<>> /\ buffer'[c] = Newest(Pending(c))
      BY DEF ReportFailed, NoSamples, Requeued, Pending
    <3>2. Newest(Pending(c)) \in Seq(Samples)
      BY <2>2, NewestLemma
    <3> QED  BY <3>1, <3>2, ConcatEmptySeq DEF Pending
  <2>4. CASE c \in I
    <3>1. delivered'[c] = delivered[c] \cup ToSet(posting[c])
      BY <2>4 DEF ReportFailed
    <3>2. SubSeq(Pending(c), 1, Len(posting[c])) = posting[c]
      BY <2>1, ConcatSplit DEF Pending
    <3>3. Len(posting[c]) \in 0..Len(Pending(c))
      BY <2>1, ConcatEnds DEF Pending
    <3> QED  BY <2>3, <3>1, <3>2, <3>3
  <2>5. CASE c \notin I
    <3>1. delivered'[c] = delivered[c]
      BY <2>5 DEF ReportFailed
    <3>2. SubSeq(Pending(c), 1, 0) = <<>>
      BY SubSeqEmpty
    <3>3. ToSet(<<>>) = {}
      BY DEF ToSet
    <3>4. 0 \in 0..Len(Pending(c))
      BY <2>1, ConcatEnds DEF Pending
    <3> QED  BY <2>3, <3>1, <3>2, <3>3, <3>4
  <2> QED  BY <2>4, <2>5
<1> QED  BY <1>1 DEF Channel!Fail, Channel!NewestOf, Newest, Channel!ToSet, ToSet

LEMMA StepImplements ==
  ASSUME DeliveryInv, [Next]_vars PROVE [Channel!Next]_(Channel!vars)
<1>1. TypeOK /\ PostingInv
  BY DEF DeliveryInv, ProbeInv
<1>2. CASE Untouched
  BY <1>2 DEF Untouched, Channel!vars
<1>3. CASE \E p \in probes, status \in Statuses : ProbeEnds(p, status)
  BY <1>3, ProbeProduces DEF Channel!Next
<1>4. CASE ReportAcknowledged
  BY <1>1, <1>4, ReportAcknowledges DEF Channel!Next
<1>5. CASE \E I \in SUBSET Checks : ReportFailed(I)
  BY <1>1, <1>5, ReportFails DEF Channel!Next
<1>6. ASSUME NEW W \in SUBSET Checks, Withdraws(W) PROVE Channel!Next
  <2>1. Channel!Withdraw(W)
    BY <1>6 DEF Withdraws, Channel!Withdraw
  <2> QED  BY <2>1 DEF Channel!Next
<1> QED  BY <1>1, <1>2, <1>3, <1>4, <1>5, <1>6, SampleSteps

\* ImplementsChannel: for every set of checks and every cap, the buffer, the
\* report in flight and the retry of a failed one are one queue per check with
\* at-least-once delivery in order.
THEOREM LaneImplementsChannel == Spec => ImplementsChannel
<1>1. Init => Channel!Init
  <2>1. ASSUME Init, NEW c \in Checks PROVE Pending(c) = <<>> /\ delivered[c] = {}
    <3>1. <<>> \o <<>> = <<>>
      OBVIOUS
    <3> QED  BY <2>1, <3>1 DEF Init, NoSamples, Pending
  <2> QED  BY <2>1 DEF Init, Channel!Init
<1>2. DeliveryInv /\ [Next]_vars => [Channel!Next]_(Channel!vars)
  BY StepImplements
<1> QED  BY <1>1, <1>2, DeliveryInit, DeliveryStep, PTL DEF Spec, ImplementsChannel, Channel!Spec

-----------------------------------------------------------------------------
(* The order in which the core sees the samples.                           *)

Ordered(q) ==
  \A i, j \in DOMAIN q : i < j /\ q[i].gen = q[j].gen => q[i].t < q[j].t

NoneAhead(c) ==
  \A p \in ToSet(Pending(c)), d \in delivered[c] :
    p.gen = d.gen /\ p.t < d.t => p \in delivered[c]

LEMMA NoOvertakingParts ==
  NoOvertaking <=> \A c \in Checks : Ordered(Pending(c)) /\ NoneAhead(c)
BY DEF NoOvertaking, Ordered, NoneAhead

LEMMA OrderedNewest ==
  ASSUME NEW q \in Seq(Samples), Ordered(q) PROVE Ordered(Newest(q))
<1> DEFINE k == Len(q) - Len(Newest(q))
<1>1. /\ Newest(q) \in Seq(Samples)
      /\ Len(Newest(q)) <= Len(q)
      /\ \A i \in 1..Len(Newest(q)) : Newest(q)[i] = q[i + k]
  BY NewestLemma
<1>2. /\ DOMAIN Newest(q) = 1..Len(Newest(q)) /\ DOMAIN q = 1..Len(q)
      /\ Len(Newest(q)) \in Nat /\ Len(q) \in Nat
  BY <1>1, LenProperties
<1>3. \A i \in 1..Len(Newest(q)) : i + k \in 1..Len(q)
  BY <1>1, <1>2
<1>4. \A i, j \in 1..Len(Newest(q)) : i < j => i + k < j + k
  BY <1>1, <1>2
<1> HIDE DEF k
<1> QED  BY <1>1, <1>2, <1>3, <1>4 DEF Ordered

LEMMA OrderedSplit ==
  ASSUME NEW q \in Seq(Samples), NEW r \in Seq(Samples), Ordered(q \o r)
  PROVE  /\ Ordered(r)
         /\ \A a \in ToSet(q), b \in ToSet(r) : a.gen = b.gen => a.t < b.t
<1>1. /\ q \o r \in Seq(Samples) /\ Len(q \o r) = Len(q) + Len(r)
      /\ \A i \in 1..Len(q) + Len(r) :
           (q \o r)[i] = IF i <= Len(q) THEN q[i] ELSE r[i - Len(q)]
  BY ConcatProperties
<1>2. /\ Len(q) \in Nat /\ Len(r) \in Nat
      /\ DOMAIN q = 1..Len(q) /\ DOMAIN r = 1..Len(r)
      /\ DOMAIN (q \o r) = 1..Len(q) + Len(r)
  BY <1>1, LenProperties
<1>3. \A i \in 1..Len(r) : i + Len(q) \in 1..Len(q) + Len(r) /\ (q \o r)[i + Len(q)] = r[i]
  BY <1>1, <1>2
<1>4. \A i \in 1..Len(q) : i \in 1..Len(q) + Len(r) /\ (q \o r)[i] = q[i]
  BY <1>1, <1>2
<1>5. Ordered(r)
  <2>1. ASSUME NEW i \in 1..Len(r), NEW j \in 1..Len(r), i < j, r[i].gen = r[j].gen
        PROVE  r[i].t < r[j].t
    <3>1. i + Len(q) < j + Len(q)
      BY <1>2, <2>1
    <3> QED  BY <1>2, <1>3, <2>1, <3>1 DEF Ordered
  <2> QED  BY <1>2, <2>1 DEF Ordered
<1>6. ASSUME NEW i \in 1..Len(q), NEW j \in 1..Len(r), q[i].gen = r[j].gen
      PROVE  q[i].t < r[j].t
  <2>1. i < j + Len(q)
    BY <1>2
  <2> QED  BY <1>2, <1>3, <1>4, <1>6, <2>1 DEF Ordered
<1> QED  BY <1>2, <1>5, <1>6 DEF ToSet

LEMMA OrderedAppend ==
  ASSUME NEW q \in Seq(Samples), NEW e \in Samples, Ordered(q),
         \A a \in ToSet(q) : a.gen = e.gen => a.t < e.t
  PROVE  Ordered(Append(q, e))
<1>1. /\ Append(q, e) \in Seq(Samples) /\ Len(Append(q, e)) = Len(q) + 1
      /\ \A i \in 1..Len(q) : Append(q, e)[i] = q[i]
      /\ Append(q, e)[Len(q) + 1] = e
  BY AppendProperties
<1>2. /\ DOMAIN Append(q, e) = 1..Len(q) + 1 /\ DOMAIN q = 1..Len(q) /\ Len(q) \in Nat
  BY <1>1, LenProperties
<1>3. \A i \in 1..Len(q) : q[i] \in ToSet(q)
  BY <1>2 DEF ToSet
<1>4. ASSUME NEW i \in 1..Len(q) + 1, NEW j \in 1..Len(q) + 1, i < j,
             Append(q, e)[i].gen = Append(q, e)[j].gen
      PROVE  Append(q, e)[i].t < Append(q, e)[j].t
  <2>1. i \in 1..Len(q)
    BY <1>2, <1>4
  <2>2. CASE j \in 1..Len(q)
    BY <1>1, <1>2, <1>4, <2>1, <2>2 DEF Ordered
  <2>3. CASE j = Len(q) + 1
    BY <1>1, <1>3, <1>4, <2>1, <2>3
  <2> QED  BY <1>2, <2>2, <2>3
<1> QED  BY <1>2, <1>4 DEF Ordered

LEMMA OrderStep ==
  ASSUME DeliveryInv, NoOvertaking, [Next]_vars PROVE NoOvertaking'
<1>0. TypeOK /\ PostingInv /\ Stamped
  BY DEF DeliveryInv, ProbeInv
<1>1. \A c \in Checks : Ordered(Pending(c)) /\ NoneAhead(c)
  BY NoOvertakingParts
<1>2. \A c \in Checks : posting[c] \in Seq(Samples) /\ buffer[c] \in Seq(Samples)
  BY <1>0 DEF TypeOK
<1>3. \A c \in Checks : /\ Pending(c) \in Seq(Samples)
                        /\ ToSet(Pending(c)) = ToSet(posting[c]) \cup ToSet(buffer[c])
  BY <1>2, ConcatSet, ConcatProperties DEF Pending
<1>4. \A s \in Samples : s.t \in Nat
  BY DEF Samples
<1>5. \A c \in Checks : delivered[c] \subseteq Samples /\ ToSet(Pending(c)) \subseteq Samples
  <2>1. \A q \in Seq(Samples) : ToSet(q) \subseteq Samples
    BY DEF ToSet
  <2> QED  BY <1>0, <1>3, <2>1 DEF TypeOK
<1>6. \A c \in Checks : \A a \in ToSet(posting[c]), b \in ToSet(buffer[c]) :
        a.gen = b.gen => a.t < b.t
  BY <1>1, <1>2, OrderedSplit DEF Pending
<1> SUFFICES ASSUME NEW c \in Checks PROVE Ordered(Pending(c))' /\ NoneAhead(c)'
  BY DEF NoOvertaking, Ordered, NoneAhead
<1>7. CASE Untouched
  <2>1. Pending(c)' = Pending(c) /\ delivered' = delivered
    BY <1>7 DEF Untouched
  <2> QED  BY <1>1, <2>1 DEF Ordered, NoneAhead
<1>8. ASSUME NEW p \in probes, NEW status \in Statuses, ProbeEnds(p, status)
      PROVE  Ordered(Pending(c))' /\ NoneAhead(c)'
  <2>1. PICK d \in Checks, s \in Samples : Channel!Produce(d, s)
    BY <1>8, ProbeProduces
  <2>2. /\ \A q \in ToSet(Pending(d)) \cup delivered[d] : s.gen = q.gen => q.t < s.t
        /\ \A e \in Checks : Pending(e)' = IF e = d THEN Append(Pending(d), s) ELSE Pending(e)
        /\ delivered' = delivered
    <3>1. [e \in Checks |-> Pending(e)]'
            = [[e \in Checks |-> Pending(e)] EXCEPT ![d] = Append(@, s)]
      BY <2>1 DEF Channel!Produce
    <3>2. \A e \in Checks : Pending(e)' = [e1 \in Checks |-> Pending(e1)]'[e]
      OBVIOUS
    <3>3. \A e \in Checks : Pending(e)' = IF e = d THEN Append(Pending(d), s) ELSE Pending(e)
      BY <3>1, <3>2
    <3>4. /\ \A q \in ToSet(Pending(d)) \cup delivered[d] : s.gen = q.gen => q.t < s.t
          /\ delivered' = delivered
      BY <2>1 DEF Channel!Produce, Channel!Newer, Channel!ToSet, ToSet
    <3> QED  BY <3>3, <3>4
  <2>3. CASE c # d
    <3>1. Pending(c)' = Pending(c)
      BY <2>2, <2>3
    <3> QED  BY <1>1, <2>2, <3>1 DEF Ordered, NoneAhead
  <2>4. CASE c = d
    <3>1. Pending(c)' = Append(Pending(c), s)
      BY <2>2, <2>4
    <3>2. Ordered(Append(Pending(c), s))
      BY <1>1, <1>3, <2>2, <2>4, OrderedAppend
    <3>3. ToSet(Append(Pending(c), s)) = ToSet(Pending(c)) \cup {s}
      BY <1>3, AppendSet
    <3>4. NoneAhead(c)'
      BY <1>1, <1>4, <1>5, <2>2, <2>4, <3>1, <3>3 DEF NoneAhead
    <3> QED  BY <3>1, <3>2, <3>4 DEF Ordered
  <2> QED  BY <2>3, <2>4
<1>9. CASE ReportAcknowledged
  <2>1. /\ Pending(c)' = buffer[c]
        /\ delivered'[c] = delivered[c] \cup ToSet(posting[c])
    <3>1. /\ posting'[c] = <<>> /\ buffer'[c] = buffer[c]
          /\ delivered'[c] = delivered[c] \cup ToSet(posting[c])
      BY <1>9 DEF ReportAcknowledged, NoSamples
    <3> QED  BY <1>2, <3>1, ConcatEmptySeq DEF Pending
  <2>2. Ordered(buffer[c])
    BY <1>1, <1>2, OrderedSplit DEF Pending
  <2>3. NoneAhead(c)'
    BY <1>1, <1>3, <1>4, <1>5, <1>6, <2>1 DEF NoneAhead
  <2> QED  BY <2>1, <2>2, <2>3 DEF Ordered
<1>10. ASSUME NEW I \in SUBSET Checks, ReportFailed(I)
       PROVE  Ordered(Pending(c))' /\ NoneAhead(c)'
  <2>1. Pending(c)' = Newest(Pending(c))
    <3>1. posting'[c] = <<>> /\ buffer'[c] = Newest(Pending(c))
      BY <1>10 DEF ReportFailed, NoSamples, Requeued, Pending
    <3>2. Newest(Pending(c)) \in Seq(Samples)
      BY <1>3, NewestLemma
    <3> QED  BY <3>1, <3>2, ConcatEmptySeq DEF Pending
  <2>2. Ordered(Newest(Pending(c)))
    BY <1>1, <1>3, OrderedNewest
  <2>3. ToSet(Newest(Pending(c))) \subseteq ToSet(Pending(c))
    BY <1>3, NewestSet
  <2>4. delivered'[c] \in {delivered[c], delivered[c] \cup ToSet(posting[c])}
    BY <1>10 DEF ReportFailed
  <2>5. NoneAhead(c)'
    BY <1>1, <1>3, <1>4, <1>5, <1>6, <2>1, <2>3, <2>4 DEF NoneAhead
  <2> QED  BY <2>1, <2>2, <2>5 DEF Ordered
<1>11. ASSUME NEW W \in SUBSET Checks, Withdraws(W)
       PROVE  Ordered(Pending(c))' /\ NoneAhead(c)'
  <2>1. delivered' = delivered /\ (Pending(c)' = Pending(c) \/ Pending(c)' = <<>>)
    BY <1>11 DEF Withdraws
  <2>2. DOMAIN <<>> = {}
    OBVIOUS
  <2> QED  BY <1>1, <2>1, <2>2 DEF Ordered, NoneAhead, ToSet
<1> QED  BY <1>0, <1>7, <1>8, <1>9, <1>10, <1>11, SampleSteps

\* NoOvertaking: whatever fails, is withdrawn or restarted, the core never
\* gets a sample of an entry after a newer one it had not had before.
THEOREM SamplesInOrder == Spec => []NoOvertaking
<1>1. Init => NoOvertaking
  <2>1. ASSUME Init, NEW c \in Checks PROVE Pending(c) = <<>> /\ delivered[c] = {}
    <3>1. <<>> \o <<>> = <<>>
      OBVIOUS
    <3> QED  BY <2>1, <3>1 DEF Init, NoSamples, Pending
  <2> QED  BY <2>1 DEF NoOvertaking, ToSet
<1>2. DeliveryInv /\ NoOvertaking /\ [Next]_vars => NoOvertaking'
  BY OrderStep
<1> QED  BY <1>1, <1>2, DeliveryInit, DeliveryStep, PTL DEF Spec
=============================================================================
