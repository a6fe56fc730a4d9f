---------------------------- MODULE MacTableRead ----------------------------
(***************************************************************************)
(* One read of a switch's MAC table: _MacTableRead of                      *)
(* danbyte_checks/snmp_facts.py.  What a walk may do with the budget they  *)
(* all share is in WalkBudget; TableWalk shows that _walk_columns does so. *)
(*                                                                         *)
(* First the default context is walked table by table; then, on agents     *)
(* that keep one table per VLAN, one context per VLAN, several at a time.  *)
(* Between the requests of a walk only the budget is touched: by the rows  *)
(* of contexts read at once, by the clock.  Rows are counted, not told     *)
(* apart.                                                                  *)
(***************************************************************************)
EXTENDS WalkBudget, FiniteSets

CONSTANTS
  Vlans,        \* VLANs an agent may list; a set of naturals
  Hint,         \* mac_vlan_hint
  Contexts,     \* mac_vlan_contexts: "auto", "always" or "off"
  Quick,        \* mode = "quick"
  MaxVlans,     \* mac_max_vlans
  Concurrency,  \* MAC_CONTEXT_CONCURRENCY
  AbortAfter,   \* MAC_CONTEXT_ABORT_AFTER
  MaxRows       \* bound: rows in one answer of a context

ASSUME MacAssumption ==
  /\ Vlans \subseteq Nat /\ IsFiniteSet(Vlans) /\ Hint \subseteq Vlans
  /\ Contexts \in {"auto", "always", "off"} /\ Quick \in BOOLEAN
  /\ MaxRows \in Nat
  /\ MaxVlans \in Nat \ {0} /\ Concurrency \in Nat \ {0} /\ AbortAfter \in Nat \ {0}

VARIABLES
  pc,        \* which walk of the default context is pending; "contexts"; "done"
  halted,    \* the agent stopped answering in the default context
  problems,  \* self.problems has an entry
  vlanFdb,   \* what dot1qVlanFdbId gave: "rows", "empty", or "failed" and empty
  stackRead, \* self.stack is not None
  planned,   \* the VLANs that have a context to read, those over the cap too
  waiting,   \* tasks queued at the gate, first in first out and made in
             \* ascending order: the lowest is at the head
  flights,   \* flights[v]: where the task of v is, for those past the gate
  read, skipped, failed,  \* meta["vlans"]
  streak,    \* contexts that failed since one was read
  aborted,   \* the failed contexts that ended the per-VLAN read
  cutShort   \* history: a walk did not run to its end

listed == <<read, skipped, failed, streak, aborted>>
contexts == <<planned, waiting, flights, listed>>
vars == <<pc, budget, halted, problems, vlanFdb, stackRead, contexts, cutShort>>

Stopped == halted \/ truncated
CanWalk == ~halted /\ time > 0
Complete == ~problems /\ ~truncated

-----------------------------------------------------------------------------
(* Walks.                                                                  *)

\* A walk ends with o, and n rows in its last answer.
WalkOver(o, n) == WalkEnds(o, n) /\ cutShort' = (cutShort \/ o # "ok")

NotesTimeouts(o) == problems \/ o = "timeout"  \* mutant: an SNMP error passes
                                              \* for an empty table
Noted(o) == problems \/ o \in Failures

\* A walk of the default context, with note() when it ended early: a whole walk,
\* of n rows.  One that the deadline cuts short is the last that is made, so the
\* rows it had brought by then decide nothing and are left out.
DefaultWalk(at, o, n) ==
  /\ pc = at
  /\ WalkOver(o, n)
  /\ problems' = Noted(o)
  /\ halted' = (halted \/ o = "timeout")

-----------------------------------------------------------------------------
(* The default context: _read.                                             *)

BasePorts(o) ==
  /\ DefaultWalk("base", o, 0)
  /\ pc' = IF Stopped' THEN "done" ELSE "vlanFdb"
  /\ UNCHANGED <<vlanFdb, stackRead, contexts>>

VlanFdb(o, some) ==
  /\ DefaultWalk("vlanFdb", o, 0)
  /\ vlanFdb' = IF some THEN "rows" ELSE IF o = "ok" THEN "empty" ELSE "failed"
  /\ pc' = IF Stopped' THEN "done" ELSE "qFdb"
  /\ UNCHANGED <<stackRead, contexts>>

\* A lookup in another table is passed over, and leaves no trace, if the clock
\* has run out by the time it would be made, also just after a walk that ended
\* in time (1310-1314): inTime says that it has not.  _learned: ifStackTable is
\* asked for once, for rows on logical interfaces, and in time.
NeedsStack(logicalInTime) == logicalInTime /\ ~stackRead /\ CanWalk'
NeedsNames(inTime) == inTime /\ vlanFdb = "empty" /\ CanWalk'

\* The Q-BRIDGE table.  With rows it is the only table read; its FDB ids may
\* be taken as VLANs only when dot1qVlanFdbId is known to be empty.
QBridgeFdb(o, n, inTime, logical) ==
  /\ DefaultWalk("qFdb", o, n)
  /\ IF n = 0
     THEN pc' = IF Stopped' THEN "done" ELSE "dFdb"
     ELSE pc' = IF NeedsNames(inTime) THEN "names"
                ELSE IF NeedsStack(inTime /\ logical) THEN "qStack" ELSE "done"
  /\ UNCHANGED <<vlanFdb, stackRead, contexts>>

VlanNames(o, logicalInTime) ==
  /\ DefaultWalk("names", o, 0)
  /\ pc' = IF NeedsStack(logicalInTime) THEN "qStack" ELSE "done"
  /\ UNCHANGED <<vlanFdb, stackRead, contexts>>

QBridgeStack(o) ==
  /\ DefaultWalk("qStack", o, 0)
  /\ stackRead' = TRUE
  /\ pc' = "done"
  /\ UNCHANGED <<vlanFdb, contexts>>

AfterBridge == IF Stopped' \/ Contexts = "off" THEN "done" ELSE "entity"

BridgeFdb(o, n, logicalInTime) ==
  /\ DefaultWalk("dFdb", o, n)
  /\ pc' = IF n > 0 /\ NeedsStack(logicalInTime) THEN "dStack" ELSE AfterBridge
  /\ UNCHANGED <<vlanFdb, stackRead, contexts>>

BridgeStack(o) ==
  /\ DefaultWalk("dStack", o, 0)
  /\ stackRead' = TRUE
  /\ pc' = AfterBridge
  /\ UNCHANGED <<vlanFdb, contexts>>

-----------------------------------------------------------------------------
(* Which contexts: _context_vlans and the first half of _per_vlan.         *)

\* plan_context_vlans: the MaxVlans lowest.
UpToCap(V) == {v \in V : Cardinality({w \in V : w < v}) < MaxVlans}

\* Called by the walk that settles the VLANs, whose problems are p.
Plan(V, p) ==
  IF Stopped' \/ V = {}
  THEN /\ pc' = "done" /\ problems' = p
       /\ UNCHANGED contexts
  ELSE /\ planned' = V
       /\ IF Quick
          THEN /\ skipped' = V
               /\ problems' = TRUE
               /\ pc' = "done"
               /\ UNCHANGED waiting
          ELSE /\ skipped' = V \ UpToCap(V)
               /\ problems' = p
               /\ pc' = "contexts"
               /\ waiting' = UpToCap(V)
       /\ UNCHANGED <<flights, read, failed, streak, aborted>>

\* entLogicalTable, and vtpVlanState when that lists no bridge context.
ContextVlans(at, o, V) ==
  /\ pc = at
  /\ WalkOver(o, 0)
  /\ halted' = (halted \/ o = "timeout")
  /\ LET hinted == IF at = "vtp" /\ V = {} /\ ~Stopped' /\ Contexts = "always"
                   THEN Hint ELSE V
     IN  IF at = "entity" /\ V = {} /\ ~Stopped'
         THEN pc' = "vtp" /\ problems' = Noted(o) /\ UNCHANGED contexts
         ELSE Plan(hinted, Noted(o))
  /\ UNCHANGED <<vlanFdb, stackRead>>

-----------------------------------------------------------------------------
(* The contexts: _read_contexts and _read_context.                         *)

WaitsForTheAgent == FALSE     \* mutant: an aborted read goes on

\* Tested by a task once it is past the gate.
GivesUp == aborted # {} \/ truncated \/ time = 0

Skip(v) == waiting' = waiting \ {v} /\ skipped' = skipped \cup {v}

\* The task at the head of the gate gets in, or gives up.
Enter ==
  /\ pc = "contexts"
  /\ Cardinality(DOMAIN flights) < Concurrency
  /\ \E v \in waiting :
       /\ \A w \in waiting : v <= w
       /\ IF GivesUp
          THEN Skip(v) /\ UNCHANGED flights
          ELSE /\ flights' = [w \in DOMAIN flights \cup {v} |->
                                IF w = v THEN [at |-> "base", fdb |-> "ok", rows |-> FALSE]
                                ELSE flights[w]]
               /\ waiting' = waiting \ {v}
               /\ UNCHANGED skipped
  /\ UNCHANGED <<pc, budget, halted, problems, vlanFdb, stackRead, planned,
                 read, failed, streak, aborted, cutShort>>

DropsCut(v, o) ==             \* mutant: a context cut short is in no list
  skipped' = skipped

SkippedIfCut(v, o) == skipped' = IF o \in Cuts THEN skipped \cup {v} ELSE skipped

\* The context of v has been read, or has failed with o.
Settle(v, o) ==
  /\ flights' = [w \in DOMAIN flights \ {v} |-> flights[w]]
  /\ read' = IF o = "ok" THEN read \cup {v} ELSE read
  /\ failed' = IF o \in Failures THEN failed \cup {v} ELSE failed
  /\ SkippedIfCut(v, o)
  /\ streak' = IF o = "ok" THEN {} ELSE IF o \in Failures THEN streak \cup {v} ELSE streak
  /\ aborted' = IF o \notin Failures THEN aborted
                ELSE IF aborted # {} THEN aborted \cup {v}    \* was in flight
                ELSE IF Cardinality(streak') >= AbortAfter THEN streak' ELSE {}

At(v, place) == v \in DOMAIN flights /\ flights[v].at = place

Moves(v, place, o) ==
  /\ flights' = [flights EXCEPT ![v].at = place, ![v].fdb = o]
  /\ UNCHANGED listed

ContextBase(v, o) ==
  /\ At(v, "base")
  /\ WalkOver(o, 0)
  /\ IF o = "ok" THEN Moves(v, "fdb", o) ELSE Settle(v, o)
  /\ UNCHANGED <<pc, halted, problems, vlanFdb, stackRead, planned, waiting>>

\* An answer of the forwarding table's walk, while another context is read.
ContextRows(v, n) ==
  /\ At(v, "fdb")
  /\ RowsArrive(n)
  /\ flights' = [flights EXCEPT ![v].rows = TRUE]
  /\ UNCHANGED <<pc, halted, problems, vlanFdb, stackRead, planned, waiting, listed,
                 cutShort>>

\* The rows a failed walk brought are kept, and may need ifStackTable.
ContextFdb(v, o, n, logicalInTime) ==
  /\ At(v, "fdb")
  /\ WalkOver(o, n)
  /\ IF (flights[v].rows \/ n > 0) /\ logicalInTime /\ ~stackRead /\ CanWalk
     THEN Moves(v, "stack", o) ELSE Settle(v, o)
  /\ UNCHANGED <<pc, halted, problems, vlanFdb, stackRead, planned, waiting>>

\* ifStackTable is walked in the default context, by the task of v.
ContextStack(v, o) ==
  /\ At(v, "stack")
  /\ WalkOver(o, 0)
  /\ problems' = Noted(o)
  /\ halted' = (halted \/ o = "timeout")
  /\ stackRead' = TRUE
  /\ Settle(v, flights[v].fdb)
  /\ UNCHANGED <<pc, vlanFdb, planned, waiting>>

ContextProblems == aborted # {} \/ failed \ aborted # {}

\* gather returns.
ContextsEnd ==
  /\ pc = "contexts" /\ waiting = {} /\ DOMAIN flights = {}
  /\ problems' = (problems \/ ContextProblems)
  /\ pc' = "done"
  /\ UNCHANGED <<budget, halted, vlanFdb, stackRead, contexts, cutShort>>

Elapse ==
  /\ pc # "done"
  /\ Tick
  /\ UNCHANGED <<pc, halted, problems, vlanFdb, stackRead, contexts, cutShort>>

Done == pc = "done" /\ UNCHANGED vars

Init ==
  /\ pc = "base"
  /\ BudgetInit
  /\ halted = FALSE /\ problems = FALSE /\ vlanFdb = "failed"
  /\ stackRead = FALSE
  /\ planned = {} /\ waiting = {} /\ flights = <<>>
  /\ read = {} /\ skipped = {} /\ failed = {} /\ streak = {} /\ aborted = {}
  /\ cutShort = FALSE

DefaultContext ==
  \E o \in Outcomes :
    \/ BasePorts(o) \/ QBridgeStack(o) \/ BridgeStack(o)
    \/ \E b \in BOOLEAN :
         \/ VlanFdb(o, b) \/ VlanNames(o, b)
         \/ \E n \in 0..RowCap : BridgeFdb(o, n, b) \/ \E l \in BOOLEAN : QBridgeFdb(o, n, b, l)

Planning == \E at \in {"entity", "vtp"}, o \in Outcomes, V \in SUBSET Vlans :
              ContextVlans(at, o, V)

Context(v) ==
  \/ \E n \in 1..MaxRows : ContextRows(v, n)
  \/ \E o \in Outcomes :
       \/ ContextBase(v, o) \/ ContextStack(v, o)
       \/ \E n \in 0..MaxRows, b \in BOOLEAN : ContextFdb(v, o, n, b)

Next == \/ DefaultContext \/ Planning
        \/ Enter \/ \E v \in Vlans : Context(v)
        \/ ContextsEnd
        \/ Elapse \/ Done

Spec == Init /\ [][Next]_vars

-----------------------------------------------------------------------------
(* Properties.                                                             *)

TypeOK ==
  /\ pc \in {"base", "vlanFdb", "qFdb", "names", "qStack", "dFdb", "dStack", "entity",
             "vtp", "contexts", "done"}
  /\ BudgetTypeOK
  /\ halted \in BOOLEAN /\ problems \in BOOLEAN /\ stackRead \in BOOLEAN /\ cutShort \in BOOLEAN
  /\ vlanFdb \in {"rows", "empty", "failed"}
  /\ planned \subseteq Vlans /\ waiting \subseteq Vlans
  /\ DOMAIN flights \subseteq Vlans
  /\ \A v \in DOMAIN flights :
       flights[v] \in [at : {"base", "fdb", "stack"}, fdb : Outcomes, rows : BOOLEAN]
  /\ read \subseteq Vlans /\ skipped \subseteq Vlans /\ failed \subseteq Vlans
  /\ streak \subseteq Vlans /\ aborted \subseteq Vlans

\* Every VLAN that has a context is in exactly one place: queued, in flight,
\* read, skipped or failed - through the cap, the deadline, the row cap and an
\* abort with tasks still in flight (snmp_facts.py:1513-1534).
VlansAccounted ==
  LET places == <<waiting, DOMAIN flights, read, skipped, failed>>
  IN  /\ UNION {places[i] : i \in 1..5} = planned
      /\ \A i, j \in 1..5 : i # j => places[i] \cap places[j] = {}

\* A wrong community costs a switch at most AbortAfter refused contexts and
\* those already in flight then, whatever order they fail in (1502-1505, 1529).
AbortBounded == Cardinality(aborted) <= AbortAfter + Concurrency - 1

\* A read calls itself complete only if every walk it started ran to its end:
\* an error, a timeout or the budget in any table, context or lookup leaves a
\* trace in what it reports (snmp_facts.py:1326-1333, 1545, 1563-1570).
CompleteMeansEveryWalkEnded == pc = "done" /\ Complete => ~cutShort

\* What the core relies on: "only a complete read may close MACs that went
\* away" (snmp_facts.py:921), so a complete one has read every VLAN it planned.
CompleteMeansAllRead == pc = "done" /\ Complete => skipped = {}
=============================================================================
