---------------------------- MODULE ProbeChannel ----------------------------
(***************************************************************************)
(* What the fast lane promises the core about the samples of its probes:   *)
(* one queue per check, emptied from the front into the set of samples the *)
(* core has ingested.  Delivery is at least once and in order; a sample    *)
(* may leave the queue without having been ingested only as one of the     *)
(* oldest of a queue longer than Cap, with the check it belongs to, or     *)
(* with the process.                                                       *)
(*                                                                         *)
(* FastLane implements this with two lists (the buffer and the report that *)
(* is in flight) and a retry; see FastLane!Channel.                        *)
(***************************************************************************)
EXTENDS Integers, SequencesExt

CONSTANTS Checks,   \* state_ids of the sub-minute checks
          Samples,  \* what a probe can report: records with fields gen and t
          Cap       \* samples kept per check through an outage

VARIABLES queue,    \* queue[c]: samples of c not yet acknowledged, oldest first
          ingested  \* ingested[c]: samples of c the core has

vars == <<queue, ingested>>

-----------------------------------------------------------------------------

\* The Cap newest of q.
NewestOf(q) == IF Len(q) > Cap THEN SubSeq(q, Len(q) - Cap + 1, Len(q)) ELSE q

\* s comes from the same entry as q and was probed after it.
Newer(s, q) == s.gen = q.gen => q.t < s.t

Init == /\ queue = [c \in Checks |-> <<>>]
        /\ ingested = [c \in Checks |-> {}]

\* A probe ends: its sample is newer than all its entry has reported or will.
Produce(c, s) ==
  /\ \A q \in ToSet(queue[c]) \cup ingested[c] : Newer(s, q)
  /\ queue' = [queue EXCEPT ![c] = Append(@, s)]
  /\ UNCHANGED ingested

\* A report is acknowledged: what leaves a queue is a prefix, and is ingested.
Acknowledge ==
  \A c \in Checks : \E n \in 0..Len(queue[c]) :
    /\ queue'[c] = SubSeq(queue[c], n + 1, Len(queue[c]))
    /\ ingested'[c] = ingested[c] \cup ToSet(SubSeq(queue[c], 1, n))

\* A report gets no answer: a prefix may have been ingested, nothing is
\* forgotten but the excess over Cap.
Fail ==
  /\ queue' = [c \in Checks |-> NewestOf(queue[c])]
  /\ \A c \in Checks : \E n \in 0..Len(queue[c]) :
       ingested'[c] = ingested[c] \cup ToSet(SubSeq(queue[c], 1, n))

\* The core withdraws checks: what is queued for them goes with them.
Withdraw(W) ==
  /\ queue' = [c \in Checks |-> IF c \in W THEN <<>> ELSE queue[c]]
  /\ UNCHANGED ingested

Next == \/ \E c \in Checks, s \in Samples : Produce(c, s)
        \/ Acknowledge
        \/ Fail
        \/ \E W \in SUBSET Checks : Withdraw(W)

Spec == Init /\ [][Next]_vars
=============================================================================
