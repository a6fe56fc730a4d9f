--------------------------- MODULE FastLaneUrgency ---------------------------
(***************************************************************************)
(* Proofs about FastLane, for every value of its constants: what a change  *)
(* of reachability does to the next report, and what an entry that has     *)
(* been withdrawn still reports.                                           *)
(***************************************************************************)
EXTENDS FastLaneDelivery, FiniteSetTheorems

USE DEF lane, schedule, tasks, reports, timers, periods

-----------------------------------------------------------------------------
(* Withdrawn entries.                                                      *)

Positions(c, g) == {i \in DOMAIN Pending(c) : Pending(c)[i].gen = g}

\* OneStraggler is not inductive: what keeps a second sample away is that the
\* probe in flight is the only one, and that its sample finds none before it.
StragglerInv ==
  \A c \in Checks, g \in Gens :
    g # entries[c] =>
      /\ \A i, j \in Positions(c, g) : i = j
      /\ Own(c, g) # {} => Positions(c, g) = {}

\* q is the end of r, all of it or nothing of it.
EndOf(q, r) == \E k \in Nat : \A i \in DOMAIN q : i + k \in DOMAIN r /\ q[i] = r[i + k]

LEMMA EndOfConcat ==
  ASSUME NEW S, NEW q \in Seq(S), NEW r \in Seq(S) PROVE EndOf(r, q \o r)
<1>1. /\ Len(q \o r) = Len(q) + Len(r) /\ DOMAIN (q \o r) = 1..Len(q) + Len(r)
      /\ \A i \in 1..Len(q) + Len(r) :
           (q \o r)[i] = IF i <= Len(q) THEN q[i] ELSE r[i - Len(q)]
  BY ConcatProperties
<1>2. Len(q) \in Nat /\ Len(r) \in Nat /\ DOMAIN r = 1..Len(r)
  BY LenProperties
<1>3. \A i \in 1..Len(r) : i + Len(q) \in 1..Len(q) + Len(r) /\ (q \o r)[i + Len(q)] = r[i]
  BY <1>1, <1>2
<1> QED  BY <1>1, <1>2, <1>3 DEF EndOf

LEMMA EndOfNewest ==
  ASSUME NEW S, NEW q \in Seq(S) PROVE EndOf(Newest(q), q)
<1> DEFINE k == Len(q) - Len(Newest(q))
<1>1. /\ Newest(q) \in Seq(S) /\ Len(Newest(q)) <= Len(q)
      /\ \A i \in 1..Len(Newest(q)) : Newest(q)[i] = q[i + k]
  BY NewestLemma
<1>2. /\ DOMAIN Newest(q) = 1..Len(Newest(q)) /\ DOMAIN q = 1..Len(q)
      /\ Len(Newest(q)) \in Nat /\ Len(q) \in Nat
  BY <1>1, LenProperties
<1>3. k \in Nat /\ \A i \in 1..Len(Newest(q)) : i + k \in 1..Len(q)
  BY <1>1, <1>2
<1> HIDE DEF k
<1> QED  BY <1>1, <1>2, <1>3 DEF EndOf

\* Only the end of a probe puts a sample into the queue of a check.
LEMMA PendingShrinks ==
  ASSUME TypeOK, PostingInv, [Next]_vars,
         ~ \E p \in probes, status \in Statuses : ProbeEnds(p, status),
         NEW c \in Checks
  PROVE  EndOf(Pending(c)', Pending(c))
<1>0. /\ posting[c] \in Seq(Samples) /\ buffer[c] \in Seq(Samples)
      /\ Pending(c) \in Seq(Samples)
  BY ConcatProperties DEF TypeOK, Pending
<1>1. CASE Pending(c)' = Pending(c)
  <2>1. 0 \in Nat /\ \A i \in DOMAIN Pending(c) : i + 0 \in DOMAIN Pending(c) /\ i + 0 = i
    BY <1>0, LenProperties
  <2> QED  BY <1>1, <2>1 DEF EndOf
<1>2. CASE ReportAcknowledged
  <2>1. posting'[c] = <<>> /\ buffer'[c] = buffer[c]
    BY <1>2 DEF ReportAcknowledged, NoSamples
  <2>2. Pending(c)' = buffer[c]
    BY <1>0, <2>1, ConcatEmptySeq DEF Pending
  <2> QED  BY <1>0, <2>2, EndOfConcat DEF Pending
<1>3. ASSUME NEW I \in SUBSET Checks, ReportFailed(I) PROVE EndOf(Pending(c)', Pending(c))
  <2>1. posting'[c] = <<>> /\ buffer'[c] = Newest(Pending(c))
    BY <1>3 DEF ReportFailed, NoSamples, Requeued, Pending
  <2>2. Newest(Pending(c)) \in Seq(Samples)
    BY <1>0, NewestLemma
  <2>3. Pending(c)' = Newest(Pending(c))
    BY <2>1, <2>2, ConcatEmptySeq DEF Pending
  <2> QED  BY <1>0, <2>3, EndOfNewest
<1>4. CASE Pending(c)' = <<>>
  <2>1. DOMAIN <<>> = {} /\ 0 \in Nat
    OBVIOUS
  <2> QED  BY <1>4, <2>1 DEF EndOf
<1> QED  BY <1>1, <1>2, <1>3, <1>4, SampleSteps DEF Untouched, Withdraws

\* An object stops being the current one only with the buffer of its check.
LEMMA EntryGoes ==
  ASSUME TypeOK, PostingInv, [Next]_vars, NEW c \in Checks
  PROVE  entries'[c] = entries[c] \/ entries[c] = 0 \/ Pending(c)' = <<>>
<1>0. <<>> \o <<>> = <<>>
  OBVIOUS
<1>1. CASE entries' = entries
  BY <1>1
<1>2. ASSUME NEW S \in SUBSET Checks, NEW ms \in [S -> Advertised], RefreshSucceeds(S, ms),
             entries[c] # 0, c \notin S
      PROVE  Pending(c)' = <<>>
  <2>1. posting'[c] = <<>>
    BY <1>2 DEF PostingInv, RefreshSucceeds, NoSamples
  <2>2. buffer'[c] = <<>>
    BY <1>2 DEF RefreshSucceeds, BufferAfter
  <2> QED  BY <1>0, <2>1, <2>2 DEF Pending
<1>3. ASSUME NEW S \in SUBSET Checks, NEW ms \in [S -> Advertised], RefreshSucceeds(S, ms),
             entries[c] # 0, c \in S
      PROVE  entries'[c] = entries[c]
  BY <1>3 DEF RefreshSucceeds
<1>4. ASSUME NEW S \in SUBSET Checks, NEW ms \in [S -> Advertised], RefreshRaises(S, ms),
             entries[c] # 0
      PROVE  entries'[c] = entries[c]
  BY <1>4 DEF RefreshRaises, New
<1>5. CASE Restart
  <2>1. posting'[c] = <<>> /\ buffer'[c] = <<>>
    BY <1>5 DEF Restart, NoSamples
  <2> QED  BY <1>0, <2>1 DEF Pending
<1>6. CASE Refresh
  BY <1>2, <1>3, <1>4, <1>6 DEF Refresh
<1> QED
  BY <1>1, <1>5, <1>6
  DEF Next, PassThenReport, PassThenRefresh, PassThenSleep, PassWork, Tick, LastFlush, Wake,
      Wait, TimePasses, ReportAcknowledged, ReportFailed, Probe, ProbeEnds, Stop, Stopped, vars

\* A probe is launched for the current object of a check and for no other.
LEMMA OwnGrows ==
  ASSUME [Next]_vars, NEW c \in Checks, NEW g \in Gens, g # entries'[c]
  PROVE  Own(c, g)' \subseteq Own(c, g)
<1>1. CASE probes' \subseteq probes
  BY <1>1 DEF Own
<1>2. CASE Tick
  <2>1. \A p \in probes' : p \in probes \/ p.gen = entries'[p.sid]
    BY <1>2 DEF Tick
  <2> QED  BY <2>1 DEF Own
<1> QED
  BY <1>1, <1>2
  DEF Next, PassThenReport, PassThenRefresh, PassThenSleep, PassWork, LastFlush, Wake,
      Wait, TimePasses, ReportAcknowledged, ReportFailed, Refresh, RefreshSucceeds,
      RefreshRaises, Probe, ProbeEnds, Stop, Restart, Stopped, vars

\* The end of a probe appends its sample, everything else stays.
LEMMA ProbeAppends ==
  ASSUME TypeOK, NEW p \in probes, NEW status \in Statuses, ProbeEnds(p, status),
         NEW c \in Checks
  PROVE  /\ Len(Pending(c)) \in Nat /\ DOMAIN Pending(c) = 1..Len(Pending(c))
         /\ c # p.sid => Pending(c)' = Pending(c)
         /\ c = p.sid => /\ DOMAIN (Pending(c)') = 1..(Len(Pending(c)) + 1)
                         /\ \A i \in DOMAIN Pending(c) : Pending(c)'[i] = Pending(c)[i]
                         /\ Pending(c)'[Len(Pending(c)) + 1].gen = p.gen
<1> DEFINE s == [gen |-> p.gen, t |-> p.t, status |-> status]
<1>0. /\ s \in Samples /\ s.gen = p.gen
      /\ posting[c] \in Seq(Samples) /\ buffer[c] \in Seq(Samples)
  BY DEF TypeOK, Probes, Samples
<1>1. /\ posting' = posting
      /\ buffer'[c] = IF c = p.sid THEN Append(buffer[c], s) ELSE buffer[c]
  BY DEF ProbeEnds, TypeOK
<1>2. Pending(c) \in Seq(Samples)
  BY <1>0, ConcatProperties DEF Pending
<1> HIDE DEF s
<1>3. ASSUME c = p.sid PROVE Pending(c)' = Append(Pending(c), s)
  <2>1. <<s>> \in Seq(Samples) /\ Append(buffer[c], s) = buffer[c] \o <<s>>
    BY <1>0, AppendIsConcat
  <2>2. posting[c] \o (buffer[c] \o <<s>>) = (posting[c] \o buffer[c]) \o <<s>>
    <3>1. \A q, r, t \in Seq(Samples) : (q \o r) \o t = q \o (r \o t)
      BY ConcatAssociative
    <3> QED  BY <1>0, <2>1, <3>1, Zenon
  <2>3. (posting[c] \o buffer[c]) \o <<s>> = Append(posting[c] \o buffer[c], s)
    BY <1>0, <1>2, AppendIsConcat DEF Pending
  <2> QED  BY <1>1, <1>3, <2>1, <2>2, <2>3 DEF Pending
<1>4. /\ Append(Pending(c), s) \in Seq(Samples)
      /\ Len(Append(Pending(c), s)) = Len(Pending(c)) + 1
      /\ \A i \in 1..Len(Pending(c)) : Append(Pending(c), s)[i] = Pending(c)[i]
      /\ Append(Pending(c), s)[Len(Pending(c)) + 1] = s
  BY <1>0, <1>2, AppendProperties
<1>5. /\ Len(Pending(c)) \in Nat /\ DOMAIN Pending(c) = 1..Len(Pending(c))
      /\ DOMAIN Append(Pending(c), s) = 1..(Len(Pending(c)) + 1)
  BY <1>2, <1>4, LenProperties
<1>6. c # p.sid => Pending(c)' = Pending(c)
  BY <1>1 DEF Pending
<1> QED  BY <1>0, <1>3, <1>4, <1>5, <1>6

LEMMA StragglerStep ==
  ASSUME DeliveryInv, StragglerInv, [Next]_vars PROVE StragglerInv'
<1>0. TypeOK /\ PostingInv /\ OneProbePerEntry
  BY DEF DeliveryInv, ProbeInv
<1> SUFFICES ASSUME NEW c \in Checks, NEW g \in Gens, (g # entries[c])'
             PROVE  /\ \A i, j \in Positions(c, g)' : i = j
                    /\ Own(c, g)' # {} => Positions(c, g)' = {}
  BY DEF StragglerInv
<1>1. ASSUME NEW p \in probes, NEW status \in Statuses, ProbeEnds(p, status)
      PROVE  /\ \A i, j \in Positions(c, g)' : i = j
             /\ Own(c, g)' # {} => Positions(c, g)' = {}
  <2>0. entries' = entries /\ probes' = probes \ {p}
    BY <1>1 DEF ProbeEnds
  <2>1. /\ \A i, j \in Positions(c, g) : i = j
        /\ Own(c, g) # {} => Positions(c, g) = {}
    BY <2>0 DEF StragglerInv
  <2>2. /\ Len(Pending(c)) \in Nat /\ DOMAIN Pending(c) = 1..Len(Pending(c))
        /\ c # p.sid => Pending(c)' = Pending(c)
        /\ c = p.sid => /\ DOMAIN (Pending(c)') = 1..(Len(Pending(c)) + 1)
                        /\ \A i \in DOMAIN Pending(c) : Pending(c)'[i] = Pending(c)[i]
                        /\ Pending(c)'[Len(Pending(c)) + 1].gen = p.gen
    BY <1>0, <1>1, ProbeAppends
  <2>3. CASE c = p.sid /\ g = p.gen
    <3>1. Own(c, g) # {} /\ Own(c, g)' = {}
      BY <1>0, <2>0, <2>3 DEF Own, OneProbePerEntry
    <3>2. Positions(c, g) = {}
      BY <2>1, <3>1
    <3>3. Positions(c, g)' \subseteq {Len(Pending(c)) + 1}
      BY <2>2, <2>3, <3>2 DEF Positions
    <3> QED  BY <3>1, <3>3
  <2>4. CASE c = p.sid /\ g # p.gen
    <3>1. Positions(c, g)' = Positions(c, g)
      BY <2>2, <2>4 DEF Positions
    <3> QED  BY <2>0, <2>1, <3>1 DEF Own
  <2>5. CASE c # p.sid
    <3>1. Positions(c, g)' = Positions(c, g)
      BY <2>2, <2>5 DEF Positions
    <3> QED  BY <2>0, <2>1, <3>1 DEF Own
  <2> QED  BY <2>3, <2>4, <2>5
<1>2. CASE Pending(c)' = <<>>
  <2>1. DOMAIN <<>> = {}
    OBVIOUS
  <2>2. Positions(c, g)' = {}
    BY <1>2, <2>1 DEF Positions
  <2> QED  BY <2>2
<1>3. ASSUME ~ \E p \in probes, status \in Statuses : ProbeEnds(p, status),
             entries'[c] = entries[c] \/ entries[c] = 0
      PROVE  /\ \A i, j \in Positions(c, g)' : i = j
             /\ Own(c, g)' # {} => Positions(c, g)' = {}
  <2>1. g # entries[c]
    BY <1>3 DEF Gens
  <2>2. /\ \A i, j \in Positions(c, g) : i = j
        /\ Own(c, g) # {} => Positions(c, g) = {}
    BY <2>1 DEF StragglerInv
  <2>3. PICK k \in Nat : \A i \in DOMAIN (Pending(c)') :
                            i + k \in DOMAIN Pending(c) /\ Pending(c)'[i] = Pending(c)[i + k]
    BY <1>0, <1>3, PendingShrinks DEF EndOf
  <2>4. \A i \in Positions(c, g)' : i + k \in Positions(c, g)
    BY <2>3 DEF Positions
  <2>5. Positions(c, g)' \subseteq Nat
    <3>1. TypeOK'
      BY NextType DEF DeliveryInv, ProbeInv
    <3>2. Pending(c)' \in Seq(Samples)
      BY <3>1, ConcatProperties DEF TypeOK, Pending
    <3>3. DOMAIN (Pending(c)') \subseteq Nat
      BY <3>2, LenProperties
    <3> QED  BY <3>3 DEF Positions
  <2>6. \A i, j \in Positions(c, g)' : i = j
    BY <2>2, <2>4, <2>5
  <2>7. Own(c, g)' \subseteq Own(c, g)
    BY OwnGrows
  <2> QED  BY <2>2, <2>4, <2>6, <2>7
<1> QED  BY <1>0, <1>1, <1>2, <1>3, EntryGoes

\* OneStraggler: through any sequence of refreshes, failures and restarts an
\* entry that is not the current one of its check has one sample to report at
\* most.
THEOREM WithdrawnReportsOnce == Spec => []OneStraggler
<1>1. Init => StragglerInv
  <2>1. ASSUME Init, NEW c \in Checks, NEW g \in Gens PROVE Positions(c, g) = {}
    <3>1. <<>> \o <<>> = <<>> /\ DOMAIN <<>> = {}
      OBVIOUS
    <3>2. Pending(c) = <<>>
      BY <2>1, <3>1 DEF Init, NoSamples, Pending
    <3> QED  BY <3>1, <3>2 DEF Positions
  <2> QED  BY <2>1 DEF StragglerInv
<1>2. StragglerInv => OneStraggler
  <2> SUFFICES ASSUME StragglerInv, NEW c \in Checks, NEW g \in Gens, g # entries[c]
               PROVE  Cardinality(Positions(c, g)) <= 1
    BY DEF OneStraggler, Positions
  <2>1. \A i, j \in Positions(c, g) : i = j
    BY DEF StragglerInv
  <2>2. CASE Positions(c, g) = {}
    BY <2>2, FS_EmptySet
  <2>3. ASSUME NEW i \in Positions(c, g) PROVE Cardinality(Positions(c, g)) <= 1
    <3>1. Positions(c, g) = {i}
      BY <2>1
    <3>2. Cardinality({i}) = 1
      BY FS_Singleton
    <3> QED  BY <3>1, <3>2
  <2> QED  BY <2>2, <2>3
<1>3. DeliveryInv /\ StragglerInv /\ [Next]_vars => StragglerInv'
  BY StragglerStep
<1> QED  BY <1>1, <1>2, <1>3, DeliveryInit, DeliveryStep, PTL DEF Spec

-----------------------------------------------------------------------------
(* Changes.                                                                *)

FreshSamples(c) == {buffer[c][i] : i \in FreshAt(c)}

\* What an entry remembers in `last' is what its newest sample found, as long
\* as a next probe can still compare itself with it; and no object carries a
\* sample taken before it was made.
LastIsKnown ==
  /\ \A c \in Checks : fresh[c] <= Len(buffer[c])
  /\ \A c \in Checks : \A q \in Known(c) : q.gen <= made[c]
  /\ \A c \in Checks : \A q \in Known(c) :
       q.gen = entries[c] /\ q.t = clock[c] => obj[c][q.gen].last = Class(q.status)
  /\ \A p \in probes : \A q \in Known(p.sid) :
       q.gen = p.gen /\ q.t = p.t - 1 => obj[p.sid][p.gen].last = Class(q.status)

ChangesAreUrgent ==
  \A c \in Checks : \A s \in FreshSamples(c), q \in Known(c) :
    q.gen = s.gen /\ q.t = s.t - 1 /\ Class(q.status) # Class(s.status) => flushNow

LEMMA ChangeForms == ChangesAreUrgent <=> ChangeIsUrgent
BY DEF ChangesAreUrgent, ChangeIsUrgent, FreshSamples, Known

UrgencyInv == DeliveryInv /\ LastIsKnown

\* What the steps below need to know of the kinds of things.
LEMMA UrgencyKinds ==
  ASSUME UrgencyInv
  PROVE  /\ TypeOK /\ PostingInv /\ Stamped /\ OneProbePerEntry /\ EntriesAreNumbered
         /\ \A c \in Checks : Known(c) \subseteq Samples /\ FreshSamples(c) \subseteq Known(c)
         /\ \A q \in Samples : q.gen \in Gens /\ q.t \in Nat
         /\ \A p \in probes : p.sid \in Checks /\ p.gen \in Gens /\ p.t \in Nat
         /\ \A c \in Checks : /\ clock[c] \in Nat /\ made[c] \in Nat /\ fresh[c] \in Nat
                              /\ Len(buffer[c]) \in Nat /\ DOMAIN buffer[c] = 1..Len(buffer[c])
<1>1. TypeOK /\ PostingInv /\ Stamped /\ OneProbePerEntry /\ EntriesAreNumbered
  BY DEF UrgencyInv, DeliveryInv, ProbeInv
<1>2. \A q \in Samples : q.gen \in Gens /\ q.t \in Nat
  BY DEF Samples
<1>3. \A p \in probes : p.sid \in Checks /\ p.gen \in Gens /\ p.t \in Nat
  BY <1>1 DEF TypeOK, Probes
<1>4. \A c \in Checks : /\ clock[c] \in Nat /\ made[c] \in Nat /\ fresh[c] \in Nat
                        /\ posting[c] \in Seq(Samples) /\ buffer[c] \in Seq(Samples)
                        /\ delivered[c] \subseteq Samples
  BY <1>1, BoundAssumption DEF TypeOK
<1>5. \A c \in Checks : Len(buffer[c]) \in Nat /\ DOMAIN buffer[c] = 1..Len(buffer[c])
  BY <1>4, LenProperties
<1>6. \A q \in Seq(Samples) : ToSet(q) \subseteq Samples
  BY DEF ToSet
<1>7. \A c \in Checks : ToSet(Pending(c)) = ToSet(posting[c]) \cup ToSet(buffer[c])
  BY <1>4, ConcatSet DEF Pending
<1>8. \A c \in Checks : FreshAt(c) \subseteq DOMAIN buffer[c]
  BY <1>4, <1>5 DEF FreshAt, UrgencyInv, LastIsKnown
<1>9. \A c \in Checks : FreshSamples(c) \subseteq ToSet(buffer[c])
  BY <1>8 DEF FreshSamples, ToSet
<1>10. \A c \in Checks : Known(c) \subseteq Samples /\ FreshSamples(c) \subseteq Known(c)
  BY <1>4, <1>6, <1>7, <1>9 DEF Known
<1> QED  BY <1>1, <1>2, <1>3, <1>4, <1>5, <1>10

LEMMA OneMorePlace ==
  ASSUME NEW n \in Nat, NEW f \in Nat, f <= n
  PROVE  /\ ((n + 1) - (f + 1) + 1)..(n + 1) = ((n - f + 1)..n) \cup {n + 1}
         /\ (n - f + 1)..n \subseteq 1..n
OBVIOUS

\* What a failed report leaves is the end of what was pending, so of the
\* samples that are fresh in it each was fresh before.
LEMMA FreshAfterFailure ==
  ASSUME UrgencyInv, NEW I \in SUBSET Checks, ReportFailed(I), NEW c \in Checks
  PROVE  fresh'[c] <= Len(buffer'[c]) /\ FreshSamples(c)' \subseteq FreshSamples(c)
<1>1. /\ posting[c] \in Seq(Samples) /\ buffer[c] \in Seq(Samples) /\ Pending(c) \in Seq(Samples)
      /\ fresh[c] \in Nat
  BY ConcatProperties DEF UrgencyInv, DeliveryInv, ProbeInv, TypeOK, Pending
<1>2. buffer'[c] = Newest(Pending(c))
  BY DEF ReportFailed, Requeued, Pending
<1>3. /\ fresh'[c] = IF fresh[c] < Len(buffer'[c]) THEN fresh[c] ELSE Len(buffer'[c])
  BY DEF ReportFailed
<1>4. PICK m \in Nat, b \in Nat, f \in Nat, k \in Nat :
        m = Len(posting[c]) /\ b = Len(buffer[c]) /\ f = fresh[c] /\ k = Len(buffer'[c])
  <2>1. Newest(Pending(c)) \in Seq(Samples)
    BY <1>1, NewestLemma
  <2>2. Len(posting[c]) \in Nat /\ Len(buffer[c]) \in Nat /\ Len(buffer'[c]) \in Nat
    BY <1>1, <1>2, <2>1, LenProperties
  <2> QED  BY <1>1, <2>2, Zenon
<1>5. /\ Len(Pending(c)) = m + b
      /\ \A i \in 1..m + b : Pending(c)[i] = IF i <= m THEN posting[c][i] ELSE buffer[c][i - m]
  BY <1>1, <1>4, ConcatProperties DEF Pending
<1>6. /\ k <= m + b
      /\ \A i \in 1..k : buffer'[c][i] = Pending(c)[i + ((m + b) - k)]
  <2>1. /\ Len(Newest(Pending(c))) <= Len(Pending(c))
        /\ \A i \in 1..Len(Newest(Pending(c))) :
             Newest(Pending(c))[i] = Pending(c)[i + (Len(Pending(c)) - Len(Newest(Pending(c))))]
    BY <1>1, NewestLemma
  <2>2. Len(Newest(Pending(c))) = k
    BY <1>2, <1>4
  <2> QED  BY <1>2, <1>5, <2>1, <2>2, Zenon
<1>7. PICK e \in Nat : e = fresh'[c] /\ e <= k /\ e <= f /\ f <= b
  <2>1. fresh'[c] = (IF f < k THEN f ELSE k) /\ f <= b
    BY <1>3, <1>4 DEF UrgencyInv, LastIsKnown
  <2> QED  BY <2>1
<1>8. ASSUME NEW i \in (k - e + 1)..k
      PROVE  \E j \in (b - f + 1)..b : buffer'[c][i] = buffer[c][j]
  <2>1. PICK h \in Int : h = i + ((m + b) - k)
    OBVIOUS
  <2>2. i \in 1..k /\ h \in 1..m + b /\ ~(h <= m) /\ h - m \in (b - f + 1)..b
    BY <1>6, <1>7, <2>1
  <2>3. buffer'[c][i] = Pending(c)[h]
    BY <1>6, <2>1, <2>2
  <2>4. Pending(c)[h] = buffer[c][h - m]
    BY <1>5, <2>2
  <2> QED  BY <2>2, <2>3, <2>4
<1>9. FreshAt(c)' = (k - e + 1)..k /\ FreshAt(c) = (b - f + 1)..b
  BY <1>4, <1>7 DEF FreshAt
<1>10. FreshSamples(c)' \subseteq FreshSamples(c)
  BY <1>8, <1>9 DEF FreshSamples
<1> QED  BY <1>4, <1>7, <1>10

LEMMA FreshSteps ==
  ASSUME UrgencyInv, [Next]_vars,
         ~ \E p \in probes, status \in Statuses : ProbeEnds(p, status)
  PROVE  /\ \A c \in Checks : fresh'[c] <= Len(buffer'[c])
         /\ \/ flushNow' = flushNow /\ \A c \in Checks : FreshSamples(c)' \subseteq FreshSamples(c)
            \/ \A c \in Checks : FreshSamples(c)' = {}
<1>0. \A c \in Checks : fresh[c] <= Len(buffer[c])
  BY DEF UrgencyInv, LastIsKnown
<1>e. ASSUME NEW c \in Checks, fresh'[c] = 0, buffer'[c] = <<>>
      PROVE  fresh'[c] <= Len(buffer'[c]) /\ FreshSamples(c)' = {}
  <2>1. Len(buffer'[c]) = 0
    BY <1>e
  <2> QED  BY <1>e, <2>1 DEF FreshSamples, FreshAt
<1>1. CASE UNCHANGED <<buffer, fresh, flushNow>>
  BY <1>0, <1>1 DEF FreshSamples, FreshAt
<1>2. CASE TakeBuffer \/ Restart
  BY <1>2, <1>e DEF TakeBuffer, Restart, NoSamples
<1>3. ASSUME NEW I \in SUBSET Checks, ReportFailed(I)
      PROVE  /\ \A c \in Checks : fresh'[c] <= Len(buffer'[c])
             /\ flushNow' = flushNow
             /\ \A c \in Checks : FreshSamples(c)' \subseteq FreshSamples(c)
  <2>1. flushNow' = flushNow
    BY <1>3 DEF ReportFailed
  <2> QED  BY <1>3, <2>1, FreshAfterFailure
<1>4. ASSUME NEW S \in SUBSET Checks, NEW ms \in [S -> Advertised], RefreshSucceeds(S, ms)
      PROVE  /\ \A c \in Checks : fresh'[c] <= Len(buffer'[c])
             /\ flushNow' = flushNow
             /\ \A c \in Checks : FreshSamples(c)' \subseteq FreshSamples(c)
  <2>1. ASSUME NEW c \in Checks
        PROVE  \/ buffer'[c] = <<>> /\ fresh'[c] = 0
               \/ buffer'[c] = buffer[c] /\ fresh'[c] = fresh[c]
    BY <1>4 DEF RefreshSucceeds, BufferAfter
  <2>2. ASSUME NEW c \in Checks
        PROVE  fresh'[c] <= Len(buffer'[c]) /\ FreshSamples(c)' \subseteq FreshSamples(c)
    <3>1. CASE buffer'[c] = buffer[c] /\ fresh'[c] = fresh[c]
      BY <1>0, <3>1 DEF FreshSamples, FreshAt
    <3>2. CASE buffer'[c] = <<>> /\ fresh'[c] = 0
      BY <1>e, <3>2
    <3> QED  BY <2>1, <3>1, <3>2
  <2>3. flushNow' = flushNow
    BY <1>4 DEF RefreshSucceeds
  <2> QED  BY <2>2, <2>3
<1>5. CASE PassWork
  BY <1>1, <1>2, <1>5 DEF PassWork
<1> QED
  BY <1>1, <1>2, <1>3, <1>4, <1>5
  DEF Next, PassThenReport, PassThenRefresh, PassThenSleep, LastFlush, Wake, Wait, TimePasses,
      ReportAcknowledged, Refresh, RefreshRaises, Probe, Stop, Stopped, vars

LEMMA FreshAfterProbe ==
  ASSUME UrgencyInv, NEW p \in probes, NEW status \in Statuses, ProbeEnds(p, status),
         NEW c \in Checks
  PROVE  /\ fresh'[c] <= Len(buffer'[c])
         /\ FreshSamples(c)' =
              IF c = p.sid THEN FreshSamples(c) \cup {[gen |-> p.gen, t |-> p.t, status |-> status]}
              ELSE FreshSamples(c)
<1> DEFINE s == [gen |-> p.gen, t |-> p.t, status |-> status]
<1>0. /\ fresh[c] <= Len(buffer[c]) /\ fresh[c] \in Nat /\ TypeOK
      /\ buffer[c] \in Seq(Samples) /\ s \in Samples
  BY DEF UrgencyInv, LastIsKnown, DeliveryInv, ProbeInv, TypeOK, Probes, Samples
<1>1. CASE c # p.sid
  <2>1. buffer'[c] = buffer[c] /\ fresh'[c] = fresh[c]
    BY <1>0, <1>1 DEF ProbeEnds, TypeOK
  <2> QED  BY <1>0, <1>1, <2>1 DEF FreshSamples, FreshAt
<1>2. CASE c = p.sid
  <2>1. buffer'[c] = Append(buffer[c], s) /\ fresh'[c] = fresh[c] + 1
    BY <1>0, <1>2 DEF ProbeEnds, TypeOK
  <2> HIDE DEF s
  <2> DEFINE n == Len(buffer[c])
  <2>2. /\ Len(buffer'[c]) = n + 1 /\ n \in Nat
        /\ \A i \in 1..n : buffer'[c][i] = buffer[c][i]
        /\ buffer'[c][n + 1] = s
    BY <1>0, <2>1, AppendProperties, LenProperties
  <2> HIDE DEF n
  <2>3. /\ FreshAt(c)' = ((n + 1) - (fresh[c] + 1) + 1)..(n + 1)
        /\ FreshAt(c) = (n - fresh[c] + 1)..n
    BY <2>1, <2>2 DEF FreshAt, n
  <2>4. FreshAt(c)' = FreshAt(c) \cup {n + 1} /\ FreshAt(c) \subseteq 1..n
    <3>1. fresh[c] <= n
      BY <1>0 DEF n
    <3> QED  BY <1>0, <2>2, <2>3, <3>1, OneMorePlace
  <2>5. FreshSamples(c)' = FreshSamples(c) \cup {s}
    BY <2>2, <2>4 DEF FreshSamples
  <2>6. fresh'[c] <= Len(buffer'[c])
    BY <1>0, <2>1, <2>2 DEF n
  <2> QED  BY <1>2, <2>5, <2>6 DEF s
<1> QED  BY <1>1, <1>2

\* What a step other than the end of a probe does to the objects.
LEMMA ObjectSteps ==
  ASSUME UrgencyInv, [Next]_vars, ~Restart,
         ~ \E p \in probes, status \in Statuses : ProbeEnds(p, status), NEW c \in Checks
  PROVE  /\ made[c] <= made'[c]
         /\ entries'[c] \in {0, entries[c], made[c] + 1}
         /\ \A g \in Gens : g <= made[c] => obj'[c][g].last = obj[c][g].last
<1>0. TypeOK /\ EntriesAreNumbered /\ made[c] \in Nat
  BY UrgencyKinds
<1>1. CASE UNCHANGED <<entries, made, obj>>
  BY <1>0, <1>1
<1>2. CASE Tick \/ TimePasses
  <2>1. entries' = entries /\ made' = made
    BY <1>2 DEF Tick, TimePasses
  <2>2. ASSUME NEW g \in Gens PROVE obj'[c][g].last = obj[c][g].last
    <3>1. obj[c] \in [Gens -> EntryFields] /\ obj[c][g] \in EntryFields
      BY <1>0 DEF TypeOK
    <3>2. \/ obj'[c] = obj[c]
          \/ obj'[c] = [obj[c] EXCEPT ![entries[c]] = Started(@)]
          \/ obj'[c] = [obj[c] EXCEPT ![entries[c]].due = CountDown(@)]
      BY <1>2 DEF Tick, TimePasses
    <3>3. obj'[c][g] \in {obj[c][g], Started(obj[c][g]), [obj[c][g] EXCEPT !.due = CountDown(@)]}
      BY <3>1, <3>2
    <3> QED  BY <3>1, <3>3 DEF Started, EntryFields
  <2> QED  BY <1>0, <2>1, <2>2
<1>3. ASSUME NEW S \in SUBSET Checks, NEW ms \in [S -> Advertised],
             RefreshSucceeds(S, ms) \/ RefreshRaises(S, ms)
      PROVE  /\ made[c] <= made'[c]
             /\ entries'[c] \in {0, entries[c], made[c] + 1}
             /\ \A g \in Gens : g <= made[c] => obj'[c][g].last = obj[c][g].last
  <2>1. Upsert(S, ms)
    BY <1>3 DEF RefreshSucceeds, RefreshRaises
  <2>2. made'[c] = IF c \in New(S) THEN made[c] + 1 ELSE made[c]
    BY <2>1 DEF Upsert
  <2>3. entries'[c] \in {0, entries[c], made[c] + 1}
    BY <1>3, <2>2 DEF RefreshSucceeds, RefreshRaises, New
  <2>4. ASSUME NEW g \in Gens, g <= made[c] PROVE obj'[c][g].last = obj[c][g].last
    <3>1. obj[c] \in [Gens -> EntryFields] /\ obj[c][g] \in EntryFields
      BY <1>0 DEF TypeOK
    <3>2. \/ obj'[c] = obj[c]
          \/ obj'[c] = [obj[c] EXCEPT ![made[c] + 1] = NewEntry(ms[c])]
          \/ obj'[c] = [obj[c] EXCEPT ![entries[c]].every = IntervalOf(ms[c])]
      BY <2>1 DEF Upsert
    <3>3. g # made[c] + 1 /\ g \in Nat
      BY <1>0, <2>4 DEF Gens
    <3>4. obj'[c][g] \in {obj[c][g], [obj[c][g] EXCEPT !.every = IntervalOf(ms[c])]}
      BY <3>1, <3>2, <3>3
    <3> QED  BY <3>1, <3>4 DEF EntryFields
  <2> QED  BY <1>0, <2>2, <2>3, <2>4
<1> QED
  BY <1>1, <1>2, <1>3
  DEF Next, PassThenReport, PassThenRefresh, PassThenSleep, PassWork, LastFlush, Wake, Wait,
      ReportAcknowledged, ReportFailed, Refresh, Probe, Stop, Stopped, vars

LEMMA LaunchSteps ==
  ASSUME UrgencyInv, [Next]_vars
  PROVE  /\ \A c \in Checks : clock[c] <= clock'[c]
         /\ \A p \in probes' : \/ p \in probes
                               \/ /\ p.sid \in Checks /\ p.gen = entries[p.sid] /\ p.gen \in Gens
                                  /\ p.t - 1 = clock[p.sid]
<1>1. TypeOK /\ \A c \in Checks : clock[c] \in Nat
  BY UrgencyKinds
<1>2. CASE clock' = clock /\ probes' \subseteq probes
  BY <1>1, <1>2
<1>3. CASE Tick
  <2>1. \A c \in Checks : clock[c] <= clock'[c]
    BY <1>1, <1>3 DEF Tick
  <2>2. ASSUME NEW p \in probes', p \notin probes
        PROVE  /\ p.sid \in Checks /\ p.gen = entries[p.sid] /\ p.gen \in Gens
               /\ p.t - 1 = clock[p.sid]
    <3>1. PICK c \in Checks : Launches(c) /\ p = [sid |-> c, gen |-> entries[c], t |-> clock[c] + 1]
      BY <1>3, <2>2 DEF Tick
    <3>2. entries[c] \in Gens
      BY <1>1, <3>1, BoundAssumption DEF TypeOK, Launches, Gens
    <3> QED  BY <1>1, <3>1, <3>2
  <2> QED  BY <2>1, <2>2
<1> QED
  BY <1>2, <1>3
  DEF Next, PassThenReport, PassThenRefresh, PassThenSleep, PassWork, LastFlush, Wake,
      Wait, TimePasses, ReportAcknowledged, ReportFailed, Refresh, RefreshSucceeds,
      RefreshRaises, Probe, ProbeEnds, Stop, Restart, Stopped, vars

\* While no probe ends, what an object remembers stays what its samples say.
LEMMA LastStays ==
  ASSUME UrgencyInv, [Next]_vars,
         ~ \E p \in probes, status \in Statuses : ProbeEnds(p, status)
  PROVE  LastIsKnown'
<1>0. /\ TypeOK /\ PostingInv /\ Stamped /\ EntriesAreNumbered /\ LastIsKnown
      /\ \A c \in Checks : /\ Known(c) \subseteq Samples /\ clock[c] \in Nat /\ made[c] \in Nat
      /\ \A q \in Samples : q.gen \in Gens /\ q.t \in Nat
      /\ \A p \in probes : p.sid \in Checks /\ p.gen \in Gens /\ p.t \in Nat
      /\ \A g \in Gens : g \in Nat /\ g # 0
  BY UrgencyKinds DEF UrgencyInv, Gens
<1>1. \A c \in Checks : Known(c)' \subseteq Known(c)
  BY <1>0, KnownShrinks
<1>2. \A c \in Checks : fresh'[c] <= Len(buffer'[c])
  BY FreshSteps
<1>3. /\ \A c \in Checks : clock[c] <= clock'[c] /\ clock'[c] \in Nat
      /\ \A p \in probes' : \/ p \in probes
                            \/ /\ p.sid \in Checks /\ p.gen = entries[p.sid] /\ p.gen \in Gens
                               /\ p.t - 1 = clock[p.sid]
  <2>1. TypeOK'
    BY NextType, <1>0
  <2>2. \A c \in Checks : clock'[c] \in Nat
    BY <2>1 DEF TypeOK
  <2> QED  BY <2>2, LaunchSteps
<1>4. CASE Restart
  <2>1. \A c \in Checks : entries'[c] = 0 /\ made'[c] = made[c]
    BY <1>4 DEF Restart
  <2>2. probes' = {}
    BY <1>4 DEF Restart
  <2>3. \A c \in Checks : \A q \in Known(c)' : q.gen <= made'[c] /\ q.gen # entries'[c]
    BY <1>0, <1>1, <2>1 DEF LastIsKnown
  <2> QED  BY <1>2, <2>2, <2>3 DEF LastIsKnown
<1>5. CASE ~Restart
  <2>1. \A c \in Checks :
          /\ made[c] <= made'[c] /\ made'[c] \in Nat
          /\ entries'[c] \in {0, entries[c], made[c] + 1}
          /\ \A g \in Gens : g <= made[c] => obj'[c][g].last = obj[c][g].last
    <3>1. TypeOK'
      BY NextType, <1>0
    <3>2. \A c \in Checks : made'[c] \in Nat
      BY <3>1, BoundAssumption DEF TypeOK
    <3> QED  BY <1>5, <3>2, ObjectSteps
  <2>2. ASSUME NEW c \in Checks, NEW q \in Known(c)'
        PROVE  /\ q \in Known(c) /\ q.gen <= made[c] /\ q.gen \in Gens /\ q.t <= clock[c]
               /\ obj'[c][q.gen].last = obj[c][q.gen].last
    <3>1. q \in Known(c)
      BY <1>1
    <3>2. q.gen <= made[c] /\ q.gen \in Gens /\ q.t <= clock[c]
      BY <1>0, <3>1 DEF LastIsKnown, Stamped
    <3> QED  BY <2>1, <3>1, <3>2
  <2>3. ASSUME NEW c \in Checks, NEW q \in Known(c)' PROVE q.gen <= made'[c]
    BY <1>0, <2>1, <2>2
  <2>4. ASSUME NEW c \in Checks, NEW q \in Known(c)', q.gen = entries'[c], q.t = clock'[c]
        PROVE  obj'[c][q.gen].last = Class(q.status)
    <3>1. q.gen = entries[c]
      BY <1>0, <2>1, <2>2, <2>4
    <3>2. q.t = clock[c]
      <4>1. q.t \in Nat /\ q.t <= clock[c]
        BY <1>0, <2>2
      <4>2. clock[c] \in Nat /\ clock[c] <= clock'[c]
        BY <1>0, <1>3
      <4> QED  BY <2>4, <4>1, <4>2
    <3> QED  BY <1>0, <2>2, <3>1, <3>2 DEF LastIsKnown
  <2>5. ASSUME NEW p \in probes', NEW q \in Known(p.sid)', q.gen = p.gen, q.t = p.t - 1
        PROVE  obj'[p.sid][p.gen].last = Class(q.status)
    <3>1. p.sid \in Checks
      BY <1>0, <1>3
    <3>2. q \in Known(p.sid) /\ obj'[p.sid][q.gen].last = obj[p.sid][q.gen].last
      BY <2>2, <3>1
    <3>3. CASE p \in probes
      BY <1>0, <2>5, <3>2, <3>3 DEF LastIsKnown
    <3>4. CASE p.gen = entries[p.sid] /\ p.t - 1 = clock[p.sid]
      BY <1>0, <2>5, <3>1, <3>2, <3>4 DEF LastIsKnown
    <3> QED  BY <1>3, <3>3, <3>4
  <2> QED  BY <1>2, <2>3, <2>4, <2>5 DEF LastIsKnown
<1> QED  BY <1>4, <1>5

LEMMA LastFollows ==
  ASSUME UrgencyInv, NEW p \in probes, NEW status \in Statuses, ProbeEnds(p, status)
  PROVE  LastIsKnown'
<1> DEFINE s == [gen |-> p.gen, t |-> p.t, status |-> status]
<1>0. /\ TypeOK /\ Stamped /\ OneProbePerEntry /\ EntriesAreNumbered /\ LastIsKnown
      /\ \A c \in Checks : /\ Known(c) \subseteq Samples /\ clock[c] \in Nat /\ made[c] \in Nat
      /\ \A q \in Samples : q.gen \in Gens /\ q.t \in Nat
      /\ \A r \in probes : r.sid \in Checks /\ r.gen \in Gens /\ r.t \in Nat
  BY UrgencyKinds DEF UrgencyInv
<1>1. /\ \A c \in Checks : Known(c)' = IF c = p.sid THEN Known(c) \cup {s} ELSE Known(c)
      /\ \A c \in Checks : fresh'[c] <= Len(buffer'[c])
  BY <1>0, KnownAfterProbe, FreshAfterProbe
<1>2. s.gen = p.gen /\ s.t = p.t /\ s.status = status
  OBVIOUS
<1> HIDE DEF s
<1>3. /\ entries' = entries /\ made' = made /\ clock' = clock /\ probes' = probes \ {p}
      /\ obj' = [obj EXCEPT ![p.sid][p.gen] = Finished(obj[p.sid][p.gen], status)]
  BY DEF ProbeEnds
<1>4. obj'[p.sid][p.gen].last = Class(status)
  <2>1. obj[p.sid] \in [Gens -> EntryFields] /\ obj[p.sid][p.gen] \in EntryFields /\ obj \in [Checks -> [Gens -> EntryFields]]
    BY <1>0 DEF TypeOK
  <2>2. obj'[p.sid][p.gen] = Finished(obj[p.sid][p.gen], status)
    BY <1>0, <1>3, <2>1
  <2> QED  BY <2>1, <2>2 DEF Finished, EntryFields
<1>5. ASSUME NEW c \in Checks, NEW g \in Gens, ~(c = p.sid /\ g = p.gen)
      PROVE  obj'[c][g] = obj[c][g]
  BY <1>0, <1>3, <1>5 DEF TypeOK
<1>6. ASSUME NEW c \in Checks, NEW q \in Known(c)' PROVE q.gen <= made'[c]
  BY <1>0, <1>1, <1>2, <1>3 DEF LastIsKnown, EntriesAreNumbered
<1>7. ASSUME NEW c \in Checks, NEW q \in Known(c)', q.gen = entries'[c], q.t = clock'[c]
      PROVE  obj'[c][q.gen].last = Class(q.status)
  <2>1. CASE c = p.sid /\ q = s
    BY <1>2, <1>4, <2>1
  <2>2. CASE q \in Known(c)
    <3>1. ~(c = p.sid /\ q.gen = p.gen)
      BY <1>0, <1>3, <1>7, <2>2 DEF Stamped
    <3>2. obj'[c][q.gen] = obj[c][q.gen]
      BY <1>0, <1>5, <2>2, <3>1
    <3> QED  BY <1>0, <1>3, <1>7, <2>2, <3>2 DEF LastIsKnown
  <2> QED  BY <1>1, <2>1, <2>2
<1>8. ASSUME NEW r \in probes', NEW q \in Known(r.sid)', q.gen = r.gen, q.t = r.t - 1
      PROVE  obj'[r.sid][r.gen].last = Class(q.status)
  <2>1. r \in probes /\ ~(r.sid = p.sid /\ r.gen = p.gen)
    BY <1>0, <1>3 DEF OneProbePerEntry
  <2>2. q \in Known(r.sid)
    BY <1>0, <1>1, <1>2, <1>8, <2>1
  <2>3. obj'[r.sid][r.gen] = obj[r.sid][r.gen]
    BY <1>0, <1>5, <2>1
  <2> QED  BY <1>0, <1>8, <2>1, <2>2, <2>3 DEF LastIsKnown
<1> QED  BY <1>1, <1>6, <1>7, <1>8 DEF LastIsKnown

LEMMA ChangesStep ==
  ASSUME UrgencyInv, ChangesAreUrgent, [Next]_vars PROVE ChangesAreUrgent'
<1>0. /\ TypeOK /\ PostingInv /\ Stamped /\ LastIsKnown
      /\ \A c \in Checks : Known(c) \subseteq Samples /\ FreshSamples(c) \subseteq Known(c)
      /\ \A q \in Samples : q.gen \in Gens /\ q.t \in Nat
      /\ \A r \in probes : r.sid \in Checks /\ r.gen \in Gens /\ r.t \in Nat
  BY UrgencyKinds DEF UrgencyInv
<1>1. CASE ~ \E p \in probes, status \in Statuses : ProbeEnds(p, status)
  <2>1. \A c \in Checks : Known(c)' \subseteq Known(c)
    BY <1>0, <1>1, KnownShrinks
  <2>2. \/ flushNow' = flushNow /\ \A c \in Checks : FreshSamples(c)' \subseteq FreshSamples(c)
        \/ \A c \in Checks : FreshSamples(c)' = {}
    BY <1>1, FreshSteps
  <2> QED  BY <2>1, <2>2 DEF ChangesAreUrgent
<1>2. ASSUME NEW p \in probes, NEW status \in Statuses, ProbeEnds(p, status)
      PROVE  ChangesAreUrgent'
  <2> DEFINE s == [gen |-> p.gen, t |-> p.t, status |-> status]
  <2>1. s.gen = p.gen /\ s.t = p.t /\ s.status = status
    OBVIOUS
  <2>2. \A c \in Checks :
          /\ Known(c)' = IF c = p.sid THEN Known(c) \cup {s} ELSE Known(c)
          /\ FreshSamples(c)' = IF c = p.sid THEN FreshSamples(c) \cup {s} ELSE FreshSamples(c)
    BY <1>0, <1>2, KnownAfterProbe, FreshAfterProbe
  <2> HIDE DEF s
  <2>3. flushNow' = (flushNow \/ Raises(obj[p.sid][p.gen], status))
    BY <1>2 DEF ProbeEnds
  <2> SUFFICES ASSUME NEW c \in Checks, NEW f \in FreshSamples(c)', NEW q \in Known(c)',
                      q.gen = f.gen, q.t = f.t - 1, Class(q.status) # Class(f.status)
               PROVE  flushNow'
    BY DEF ChangesAreUrgent
  <2>4. CASE f \in FreshSamples(c)
    <3>1. q \in Known(c)
      <4>1. f \in Known(c) /\ f.t \in Nat
        BY <1>0, <2>4
      <4>2. ~(c = p.sid /\ q = s)
        BY <1>0, <2>1, <4>1 DEF Stamped
      <4> QED  BY <2>2, <4>2
    <3>2. flushNow
      BY <2>4, <3>1 DEF ChangesAreUrgent
    <3> QED  BY <2>3, <3>2
  <2>5. CASE c = p.sid /\ f = s
    <3>1. q \in Known(c)
      BY <1>0, <2>1, <2>2, <2>5
    <3>2. obj[p.sid][p.gen].last = Class(q.status)
      BY <1>0, <2>1, <2>5, <3>1 DEF LastIsKnown
    <3>3. Raises(obj[p.sid][p.gen], status)
      BY <2>1, <2>5, <3>2, ClassType DEF Raises, Class
    <3> QED  BY <2>3, <3>3
  <2> QED  BY <2>2, <2>4, <2>5
<1> QED  BY <1>1, <1>2

\* ChangeIsUrgent: for every set of checks, whatever is probed, refreshed,
\* withdrawn or fails in between, flush_now stays up until a report takes the
\* sample of the probe that found its check on the other side.
THEOREM ChangesAreReportedAtOnce == Spec => []ChangeIsUrgent
<1>1. Init => LastIsKnown /\ ChangesAreUrgent
  <2>1. ASSUME Init, NEW c \in Checks
        PROVE  Known(c) = {} /\ FreshSamples(c) = {} /\ fresh[c] <= Len(buffer[c])
    <3>1. <<>> \o <<>> = <<>> /\ DOMAIN <<>> = {} /\ Len(<<>>) = 0
      OBVIOUS
    <3>2. Pending(c) = <<>> /\ buffer[c] = <<>> /\ fresh[c] = 0 /\ delivered[c] = {}
      BY <2>1, <3>1 DEF Init, NoSamples, Pending
    <3> QED  BY <3>1, <3>2 DEF Known, ToSet, FreshSamples, FreshAt
  <2>2. Init => probes = {}
    BY DEF Init
  <2> QED  BY <2>1, <2>2 DEF LastIsKnown, ChangesAreUrgent
<1>2. DeliveryInv /\ LastIsKnown /\ ChangesAreUrgent /\ [Next]_vars
        => LastIsKnown' /\ ChangesAreUrgent'
  BY LastStays, LastFollows, ChangesStep DEF UrgencyInv
<1>3. ChangesAreUrgent => ChangeIsUrgent
  BY ChangeForms
<1> QED  BY <1>1, <1>2, <1>3, DeliveryInit, DeliveryStep, PTL DEF Spec
=============================================================================
