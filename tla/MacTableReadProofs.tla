------------------------- MODULE MacTableReadProofs -------------------------
(***************************************************************************)
(* Proofs about MacTableRead, for every set of VLANs and every limit: no   *)
(* VLAN is lost between the queue and the report, an abort is bounded, no  *)
(* walk that ended early goes unreported, and nothing is done twice.       *)
(***************************************************************************)
EXTENDS MacTableRead, FiniteSetTheorems, TLAPS

USE DEF listed, contexts, budget

-----------------------------------------------------------------------------
(* The inductive invariants.                                               *)

\* Nothing is read in a context, planned or blamed before the contexts are
\* reached, and no task outlives them.
QuietOutsideContexts ==
  /\ pc \notin {"contexts", "done"} =>
       /\ planned = {} /\ waiting = {}
       /\ read = {} /\ skipped = {} /\ failed = {} /\ streak = {} /\ aborted = {}
  /\ pc # "contexts" => DOMAIN flights = {}

\* VlansAccounted, place by place.
Apart ==
  /\ waiting \cap DOMAIN flights = {} /\ waiting \cap read = {}
  /\ waiting \cap skipped = {} /\ waiting \cap failed = {}
  /\ DOMAIN flights \cap read = {} /\ DOMAIN flights \cap skipped = {}
  /\ DOMAIN flights \cap failed = {}
  /\ read \cap skipped = {} /\ read \cap failed = {} /\ skipped \cap failed = {}

AccountedInv ==
  /\ QuietOutsideContexts
  /\ planned = waiting \cup DOMAIN flights \cup read \cup skipped \cup failed
  /\ Apart

\* AbortBounded is not inductive: what is in flight when a read is aborted may
\* still fail, so the blame and the flights are bounded together.
AbortInv ==
  /\ Cardinality(DOMAIN flights) <= Concurrency
  /\ aborted = {} => Cardinality(streak) < AbortAfter
  /\ aborted # {} =>
       Cardinality(aborted) + Cardinality(DOMAIN flights) <= AbortAfter + Concurrency - 1

\* A walk cut short leaves a trace at once: a note, the budget's flag, a failed
\* context - or a task that has the failure and is at its ifStackTable.
TraceInv ==
  /\ cutShort => \/ problems \/ truncated \/ failed # {}
                 \/ \E v \in DOMAIN flights : flights[v].fdb \in Failures
  /\ \A v \in DOMAIN flights : flights[v].at # "stack" => flights[v].fdb = "ok"
  /\ pc = "done" => (failed # {} => problems)

-----------------------------------------------------------------------------
(* What the actions come to.                                               *)

DefaultPlaces == {"base", "vlanFdb", "qFdb", "names", "qStack", "dFdb", "dStack",
                  "entity", "vtp"}

LEMMA BudgetStays ==
  ASSUME BudgetTypeOK, NEW o, NEW n \in Nat, WalkEnds(o, n) \/ RowsArrive(n) \/ Tick
  PROVE  BudgetTypeOK'
<1> USE BudgetAssumption DEF BudgetTypeOK
<1>1. CASE WalkEnds(o, n)  BY <1>1 DEF WalkEnds, TakesRows
<1>2. CASE RowsArrive(n)  BY <1>2 DEF RowsArrive, TakesRows
<1>3. CASE Tick  BY <1>3 DEF Tick
<1> QED  BY <1>1, <1>2, <1>3

\* Every step of the default context is the end of a walk, noted.
DefaultStep(o, n) ==
  /\ pc \in DefaultPlaces /\ pc' \in DefaultPlaces \cup {"done"}
  /\ WalkOver(o, n)
  /\ problems' = Noted(o) /\ halted' = (halted \/ o = "timeout")
  /\ vlanFdb' \in {"rows", "empty", "failed"} /\ stackRead' \in BOOLEAN
  /\ UNCHANGED contexts

LEMMA DefaultContextStep ==
  ASSUME TypeOK, DefaultContext
  PROVE  \E o \in Outcomes, n \in Nat : DefaultStep(o, n)
<1> USE DEF DefaultStep, DefaultPlaces, DefaultWalk, AfterBridge, TypeOK
<1>1. PICK o \in Outcomes :
        \/ BasePorts(o) \/ QBridgeStack(o) \/ BridgeStack(o)
        \/ \E b \in BOOLEAN :
             \/ VlanFdb(o, b) \/ VlanNames(o, b)
             \/ \E n \in 0..RowCap : BridgeFdb(o, n, b) \/ \E l \in BOOLEAN : QBridgeFdb(o, n, b, l)
  BY DEF DefaultContext
<1>2. CASE BasePorts(o)
  <2>1. DefaultStep(o, 0)  BY <1>2 DEF BasePorts
  <2> QED  BY <2>1
<1>3. CASE QBridgeStack(o)
  <2>1. DefaultStep(o, 0)  BY <1>3 DEF QBridgeStack
  <2> QED  BY <2>1
<1>4. CASE BridgeStack(o)
  <2>1. DefaultStep(o, 0)  BY <1>4 DEF BridgeStack
  <2> QED  BY <2>1
<1>5. ASSUME NEW b \in BOOLEAN, VlanFdb(o, b) PROVE DefaultStep(o, 0)
  BY <1>5 DEF VlanFdb
<1>6. ASSUME NEW b \in BOOLEAN, VlanNames(o, b) PROVE DefaultStep(o, 0)
  BY <1>6 DEF VlanNames
<1>7. ASSUME NEW b \in BOOLEAN, NEW l \in BOOLEAN, NEW n \in 0..RowCap, QBridgeFdb(o, n, b, l)
      PROVE  DefaultStep(o, n)
  BY <1>7 DEF QBridgeFdb
<1>8. ASSUME NEW b \in BOOLEAN, NEW n \in 0..RowCap, BridgeFdb(o, n, b)
      PROVE  DefaultStep(o, n)
  BY <1>8 DEF BridgeFdb
<1>9. 0..RowCap \subseteq Nat /\ 0 \in Nat  BY BudgetAssumption
<1> HIDE DEF DefaultStep, DefaultPlaces, DefaultWalk, AfterBridge, TypeOK
<1> QED  BY <1>1, <1>2, <1>3, <1>4, <1>5, <1>6, <1>7, <1>8, <1>9

\* A VLAN discovery ends the read, asks the other table, or hands the VLANs
\* out: to the queue and to the skipped ones.
Handed ==
  /\ planned' \subseteq Vlans
  /\ waiting' \cup skipped' = planned' /\ waiting' \cap skipped' = {}
  /\ \/ pc' = "contexts"
     \/ pc' = "done" /\ waiting' = {} /\ problems'
  /\ UNCHANGED <<flights, read, failed, streak, aborted>>

PlanningStepOf(o) ==
  /\ pc \in {"entity", "vtp"}
  /\ WalkOver(o, 0)
  /\ problems' \in {Noted(o), TRUE} /\ halted' = (halted \/ o = "timeout")
  /\ UNCHANGED <<vlanFdb, stackRead>>
  /\ \/ pc' \in {"vtp", "done"} /\ UNCHANGED contexts
     \/ Handed

LEMMA PlanHands ==
  ASSUME NEW V \in SUBSET Vlans, NEW p, Plan(V, p),
         waiting = {}
  PROVE  /\ problems' \in {p, TRUE}
         /\ \/ pc' = "done" /\ UNCHANGED contexts
            \/ Handed
<1>1. UpToCap(V) \subseteq V  BY DEF UpToCap
<1> QED  BY <1>1 DEF Plan, Handed

LEMMA PlanningStep ==
  ASSUME TypeOK, QuietOutsideContexts, Planning
  PROVE  \E o \in Outcomes : PlanningStepOf(o)
<1>1. PICK at \in {"entity", "vtp"}, o \in Outcomes, V \in SUBSET Vlans :
        ContextVlans(at, o, V)
  BY DEF Planning
<1>2. Hint \in SUBSET Vlans /\ waiting = {}
  BY <1>1, MacAssumption DEF QuietOutsideContexts, ContextVlans
<1>3. CASE at = "entity" /\ V = {} /\ ~Stopped'
  <2>1. PlanningStepOf(o)  BY <1>1, <1>3 DEF ContextVlans, PlanningStepOf
  <2> QED  BY <2>1
<1>4. CASE ~(at = "entity" /\ V = {} /\ ~Stopped')
  <2>1. PICK U \in SUBSET Vlans : Plan(U, Noted(o))
    BY <1>1, <1>2, <1>4 DEF ContextVlans
  <2>2. /\ problems' \in {Noted(o), TRUE}
        /\ (pc' = "done" /\ UNCHANGED contexts) \/ Handed
    BY <1>2, <2>1, PlanHands
  <2>3. PlanningStepOf(o)  BY <1>1, <2>2 DEF ContextVlans, PlanningStepOf
  <2> QED  BY <2>3
<1> QED  BY <1>3, <1>4

\* The task of v after the end of a walk: at ifStackTable or its next table,
\* or done with outcome f.
ContextStepOf(v, o, n) ==
  /\ v \in DOMAIN flights
  /\ WalkOver(o, n)
  /\ stackRead' \in BOOLEAN /\ halted' \in BOOLEAN
  /\ problems' \in {problems, Noted(o)}
  /\ UNCHANGED <<pc, vlanFdb, planned, waiting>>
  /\ \/ flights[v].at # "stack" /\ o = "ok" /\ Moves(v, "fdb", o)
     \/ flights[v].at # "stack" /\ Moves(v, "stack", o)
     \/ flights[v].at # "stack" /\ Settle(v, o)
     \/ problems' = Noted(o) /\ Settle(v, flights[v].fdb)

LEMMA ContextStep ==
  ASSUME TypeOK, NEW v \in Vlans, Context(v)
  PROVE  \/ \E n \in 1..MaxRows : ContextRows(v, n)
         \/ \E o \in Outcomes, n \in Nat : ContextStepOf(v, o, n)
<1> USE DEF ContextStepOf, At, TypeOK
<1>1. ASSUME NEW o \in Outcomes, ContextBase(v, o) PROVE ContextStepOf(v, o, 0)
  BY <1>1 DEF ContextBase
<1>2. ASSUME NEW o \in Outcomes, ContextStack(v, o) PROVE ContextStepOf(v, o, 0)
  BY <1>2 DEF ContextStack
<1>3. ASSUME NEW o \in Outcomes, NEW n \in 0..MaxRows, NEW b \in BOOLEAN,
             ContextFdb(v, o, n, b)
      PROVE  ContextStepOf(v, o, n)
  BY <1>3 DEF ContextFdb
<1>4. 0..MaxRows \subseteq Nat /\ 0 \in Nat  BY MacAssumption
<1> HIDE DEF ContextStepOf, At, TypeOK
<1> QED  BY <1>1, <1>2, <1>3, <1>4 DEF Context

-----------------------------------------------------------------------------
(* Types.                                                                  *)

LEMMA TypeInit == Init => TypeOK
<1>1. Init => BudgetTypeOK
  <2>1. Init => BudgetInit  BY DEF Init
  <2>2. Budget \in 0..Budget /\ RowCap \in 0..RowCap  BY BudgetAssumption
  <2> QED  BY <2>1, <2>2 DEF BudgetInit, BudgetTypeOK
<1>2. Init => DOMAIN flights = {}  BY DEF Init
<1> QED  BY <1>1, <1>2 DEF Init, TypeOK

\* What a context's step does to the lists and the flights keeps their types.
LEMMA SettleType ==
  ASSUME TypeOK, NEW v \in Vlans, NEW o, Settle(v, o)
  PROVE  /\ DOMAIN flights' = DOMAIN flights \ {v}
         /\ \A w \in DOMAIN flights' : flights'[w] = flights[w]
         /\ read' \subseteq Vlans /\ skipped' \subseteq Vlans /\ failed' \subseteq Vlans
         /\ streak' \subseteq Vlans /\ aborted' \subseteq Vlans
  BY DEF Settle, SkippedIfCut, TypeOK

LEMMA MovesType ==
  ASSUME TypeOK, NEW v \in DOMAIN flights, NEW o \in Outcomes,
         NEW place \in {"fdb", "stack"}, Moves(v, place, o)
  PROVE  /\ DOMAIN flights' = DOMAIN flights
         /\ \A w \in DOMAIN flights' :
              flights'[w] \in [at : {"base", "fdb", "stack"}, fdb : Outcomes, rows : BOOLEAN]
         /\ flights'[v].at = place /\ flights'[v].fdb = o
         /\ \A w \in DOMAIN flights' \ {v} : flights'[w] = flights[w]
  BY DEF Moves, TypeOK

LEMMA EnterStep ==
  ASSUME TypeOK, Enter
  PROVE  \E v \in waiting :
           /\ waiting' = waiting \ {v}
           /\ \/ GivesUp /\ skipped' = skipped \cup {v} /\ flights' = flights
              \/ /\ ~GivesUp /\ skipped' = skipped
                 /\ DOMAIN flights' = DOMAIN flights \cup {v}
                 /\ flights'[v] = [at |-> "base", fdb |-> "ok", rows |-> FALSE]
                 /\ \A w \in DOMAIN flights \ {v} : flights'[w] = flights[w]
  BY DEF Enter, Skip

LEMMA TypeStep ==
  ASSUME TypeOK, QuietOutsideContexts, [Next]_vars PROVE TypeOK'
<1>1. CASE UNCHANGED vars  BY <1>1 DEF TypeOK, BudgetTypeOK, vars
<1>2. CASE DefaultContext
  <2>1. PICK o \in Outcomes, n \in Nat : DefaultStep(o, n)
    BY <1>2, DefaultContextStep
  <2>2. BudgetTypeOK' /\ cutShort' \in BOOLEAN
    BY <2>1, BudgetStays DEF DefaultStep, WalkOver, TypeOK
  <2> QED  BY <2>1, <2>2 DEF DefaultStep, DefaultPlaces, Noted, TypeOK
<1>3. CASE Planning
  <2>1. PICK o \in Outcomes : PlanningStepOf(o)
    BY <1>3, PlanningStep
  <2>2. BudgetTypeOK' /\ cutShort' \in BOOLEAN
    BY <2>1, BudgetStays DEF PlanningStepOf, WalkOver, TypeOK
  <2> QED  BY <2>1, <2>2 DEF PlanningStepOf, Handed, Noted, TypeOK
<1>4. CASE Enter
  <2>1. PICK v \in waiting :
           /\ waiting' = waiting \ {v}
           /\ \/ skipped' = skipped \cup {v} /\ flights' = flights
              \/ /\ skipped' = skipped
                 /\ DOMAIN flights' = DOMAIN flights \cup {v}
                 /\ flights'[v] = [at |-> "base", fdb |-> "ok", rows |-> FALSE]
                 /\ \A w \in DOMAIN flights \ {v} : flights'[w] = flights[w]
    BY <1>4, EnterStep
  <2>2. /\ waiting' \subseteq Vlans /\ skipped' \subseteq Vlans
        /\ DOMAIN flights' \subseteq Vlans
    BY <2>1 DEF TypeOK
  <2>3. \A w \in DOMAIN flights' :
          flights'[w] \in [at : {"base", "fdb", "stack"}, fdb : Outcomes, rows : BOOLEAN]
    <3>1. [at |-> "base", fdb |-> "ok", rows |-> FALSE]
            \in [at : {"base", "fdb", "stack"}, fdb : Outcomes, rows : BOOLEAN]
      BY DEF Outcomes
    <3>2. TypeOK  OBVIOUS
    <3> HIDE DEF Outcomes
    <3> QED  BY <2>1, <3>1, <3>2 DEF TypeOK
  <2> QED  BY <1>4, <2>2, <2>3 DEF Enter, TypeOK, BudgetTypeOK
<1>5. ASSUME NEW v \in Vlans, NEW n \in 1..MaxRows, ContextRows(v, n) PROVE TypeOK'
  <2>1. BudgetTypeOK'
    <3>1. n \in Nat  BY MacAssumption
    <3> QED  BY <1>5, <3>1, BudgetStays DEF ContextRows, TypeOK
  <2> QED  BY <1>5, <2>1 DEF ContextRows, At, TypeOK
<1>6. ASSUME NEW v \in Vlans, NEW o \in Outcomes, NEW n \in Nat, ContextStepOf(v, o, n)
      PROVE  TypeOK'
  <2>1. BudgetTypeOK' /\ cutShort' \in BOOLEAN
    BY <1>6, BudgetStays DEF ContextStepOf, WalkOver, TypeOK
  <2>2. problems' \in BOOLEAN  BY <1>6 DEF ContextStepOf, Noted, TypeOK
  <2>3. CASE \E place \in {"fdb", "stack"} : Moves(v, place, o)
    <3>1. v \in DOMAIN flights  BY <1>6 DEF ContextStepOf
    <3>2. UNCHANGED listed  BY <2>3 DEF Moves
    <3> QED  BY <1>6, <2>1, <2>2, <2>3, <3>1, <3>2, MovesType DEF ContextStepOf, TypeOK
  <2>4. CASE \E f : Settle(v, f)
    BY <1>6, <2>1, <2>2, <2>4, SettleType DEF ContextStepOf, TypeOK
  <2> QED  BY <1>6, <2>3, <2>4 DEF ContextStepOf
<1>7. CASE ContextsEnd
  BY <1>7 DEF ContextsEnd, ContextProblems, TypeOK, BudgetTypeOK
<1>8. CASE Elapse
  <2>1. BudgetTypeOK'  BY <1>8, BudgetStays DEF Elapse, TypeOK
  <2> QED  BY <1>8, <2>1 DEF Elapse, TypeOK
<1>9. ASSUME NEW v \in Vlans, Context(v) PROVE TypeOK'
  BY <1>5, <1>6, <1>9, ContextStep
<1> QED  BY <1>1, <1>2, <1>3, <1>4, <1>7, <1>8, <1>9 DEF Next, Done

-----------------------------------------------------------------------------
(* Accounting.                                                             *)

LEMMA AccountedInit == Init => AccountedInv
  BY DEF Init, AccountedInv, QuietOutsideContexts, Apart

LEMMA QuietStep ==
  ASSUME TypeOK, AccountedInv, [Next]_vars PROVE QuietOutsideContexts'
<1> USE DEF QuietOutsideContexts
<1>0. QuietOutsideContexts  BY DEF AccountedInv
<1>1. CASE UNCHANGED vars  BY <1>0, <1>1 DEF vars
<1>2. CASE DefaultContext
  <2>1. PICK o \in Outcomes, n \in Nat : DefaultStep(o, n)
    BY <1>2, DefaultContextStep
  <2> QED  BY <1>0, <2>1 DEF DefaultStep, DefaultPlaces
<1>3. CASE Planning
  <2>1. PICK o \in Outcomes : PlanningStepOf(o)
    BY <1>0, <1>3, PlanningStep
  <2> QED  BY <1>0, <2>1 DEF PlanningStepOf, Handed
<1>4. CASE Enter  BY <1>0, <1>4 DEF Enter
<1>5. ASSUME NEW v \in Vlans, Context(v) PROVE QuietOutsideContexts'
  <2>1. v \in DOMAIN flights /\ UNCHANGED pc
    BY <1>5, ContextStep DEF ContextRows, At, ContextStepOf
  <2> QED  BY <1>0, <2>1
<1>6. CASE ContextsEnd  BY <1>0, <1>6 DEF ContextsEnd
<1>7. CASE Elapse  BY <1>0, <1>7 DEF Elapse
<1> QED  BY <1>1, <1>2, <1>3, <1>4, <1>5, <1>6, <1>7 DEF Next, Done

LEMMA AccountedStep ==
  ASSUME TypeOK, AccountedInv, [Next]_vars PROVE AccountedInv'
<1>0. /\ QuietOutsideContexts /\ QuietOutsideContexts'
      /\ planned = waiting \cup DOMAIN flights \cup read \cup skipped \cup failed /\ Apart
  BY QuietStep DEF AccountedInv
<1> SUFFICES ASSUME ~UNCHANGED contexts
             PROVE  /\ planned' = (waiting \cup DOMAIN flights \cup read \cup skipped \cup failed)'
                    /\ Apart'
  BY <1>0 DEF AccountedInv, Apart
<1>1. CASE UNCHANGED vars  BY <1>1 DEF vars
<1>2. CASE DefaultContext  BY <1>2, DefaultContextStep DEF DefaultStep
<1>3. CASE Planning
  <2>1. Handed /\ pc \in {"entity", "vtp"}
    BY <1>0, <1>3, PlanningStep DEF PlanningStepOf
  <2>2. read = {} /\ failed = {} /\ DOMAIN flights = {}
    BY <1>0, <2>1 DEF QuietOutsideContexts
  <2> QED  BY <2>1, <2>2 DEF Handed, Apart
<1>4. CASE Enter
  <2>1. UNCHANGED <<planned, read, failed>>  BY <1>4 DEF Enter
  <2> QED  BY <1>0, <1>4, <2>1, EnterStep DEF Apart
<1>5. ASSUME NEW v \in Vlans, NEW n \in 1..MaxRows, ContextRows(v, n)
      PROVE  /\ planned' = (waiting \cup DOMAIN flights \cup read \cup skipped \cup failed)'
             /\ Apart'
  BY <1>0, <1>5 DEF ContextRows, Apart
<1>6. ASSUME NEW v \in Vlans, NEW o \in Outcomes, NEW n \in Nat, ContextStepOf(v, o, n)
      PROVE  /\ planned' = (waiting \cup DOMAIN flights \cup read \cup skipped \cup failed)'
             /\ Apart'
  <2>0. v \in DOMAIN flights /\ UNCHANGED <<planned, waiting>>
        /\ flights[v].fdb \in Outcomes
    BY <1>6 DEF ContextStepOf, TypeOK
  <2>1. CASE \E place \in {"fdb", "stack"} : Moves(v, place, o)
    BY <1>0, <2>0, <2>1, MovesType DEF Moves, Apart
  <2>2. ASSUME NEW f \in Outcomes, Settle(v, f)
        PROVE  \/ read' = read \cup {v} /\ UNCHANGED <<skipped, failed>>
               \/ skipped' = skipped \cup {v} /\ UNCHANGED <<read, failed>>
               \/ failed' = failed \cup {v} /\ UNCHANGED <<read, skipped>>
    BY <2>2 DEF Settle, SkippedIfCut, Outcomes, Cuts, Failures
  <2>3. ASSUME NEW f \in Outcomes, Settle(v, f) PROVE DOMAIN flights' = DOMAIN flights \ {v}
    BY <2>3 DEF Settle
  <2>4. CASE \E f \in Outcomes : Settle(v, f)
    BY <1>0, <2>0, <2>2, <2>3, <2>4 DEF Apart
  <2> QED  BY <1>6, <2>0, <2>1, <2>4 DEF ContextStepOf
<1>7. CASE ContextsEnd  BY <1>7 DEF ContextsEnd
<1>8. CASE Elapse  BY <1>8 DEF Elapse
<1> QED  BY <1>1, <1>2, <1>3, <1>4, <1>5, <1>6, <1>7, <1>8, ContextStep DEF Next, Done

LEMMA AccountedMeansPlaced == AccountedInv => VlansAccounted
<1> DEFINE places == <<waiting, DOMAIN flights, read, skipped, failed>>
<1>1. /\ places[1] = waiting /\ places[2] = DOMAIN flights /\ places[3] = read
      /\ places[4] = skipped /\ places[5] = failed
  OBVIOUS
<1>2. 1..5 = {1, 2, 3, 4, 5}  OBVIOUS
<1>3. VlansAccounted <=> /\ UNION {places[i] : i \in 1..5} = planned
                         /\ \A i, j \in 1..5 : i # j => places[i] \cap places[j] = {}
  BY DEF VlansAccounted
<1> HIDE DEF places
<1>4. UNION {places[i] : i \in {1, 2, 3, 4, 5}}
        = places[1] \cup places[2] \cup places[3] \cup places[4] \cup places[5]
  OBVIOUS
<1>5. ASSUME Apart PROVE \A i, j \in {1, 2, 3, 4, 5} : i # j => places[i] \cap places[j] = {}
  BY <1>1, <1>5 DEF Apart
<1> QED  BY <1>1, <1>2, <1>3, <1>4, <1>5 DEF AccountedInv

-----------------------------------------------------------------------------
(* The abort.                                                              *)

LEMMA VlansFinite ==
  ASSUME NEW S, S \subseteq Vlans PROVE IsFiniteSet(S) /\ Cardinality(S) \in Nat
  BY FS_Subset, FS_CardinalityType, MacAssumption

LEMMA AddVlan ==
  ASSUME NEW S, S \subseteq Vlans, NEW v \in Vlans
  PROVE  Cardinality(S \cup {v}) \in {Cardinality(S), Cardinality(S) + 1}
  BY VlansFinite, FS_AddElement

LEMMA RemoveVlan ==
  ASSUME NEW S, S \subseteq Vlans, NEW v \in S
  PROVE  Cardinality(S \ {v}) = Cardinality(S) - 1
  BY VlansFinite, FS_RemoveElement

LEMMA AbortInit == Init => AbortInv
<1>1. Init => DOMAIN flights = {} /\ streak = {} /\ aborted = {}  BY DEF Init
<1>2. Cardinality({}) = 0  BY FS_EmptySet
<1>3. Concurrency >= 0 /\ AbortAfter > 0  BY MacAssumption
<1>4. Init => Cardinality(DOMAIN flights) = 0 /\ Cardinality(streak) = 0  BY <1>1, <1>2
<1> QED  BY <1>1, <1>3, <1>4 DEF AbortInv

\* One context fewer is in flight, and at most one more is blamed.
LEMMA AbortSettles ==
  ASSUME TypeOK, AbortInv, NEW v \in DOMAIN flights, NEW o \in Outcomes, Settle(v, o)
  PROVE  AbortInv'
<1>0. /\ DOMAIN flights \subseteq Vlans /\ DOMAIN flights' = DOMAIN flights \ {v}
      /\ streak \subseteq Vlans /\ aborted \subseteq Vlans /\ v \in Vlans
  BY DEF TypeOK, Settle
<1>1. PICK n \in Nat : n = Cardinality(DOMAIN flights)  BY <1>0, VlansFinite
<1>2. Cardinality(DOMAIN flights') = n - 1  BY <1>0, <1>1, RemoveVlan
<1>3. PICK s \in Nat : s = Cardinality(streak)  BY <1>0, VlansFinite
<1>4. PICK a \in Nat : a = Cardinality(aborted)  BY <1>0, VlansFinite
<1>5. /\ n <= Concurrency
      /\ aborted = {} => s < AbortAfter
      /\ aborted # {} => a + n <= AbortAfter + Concurrency - 1
  BY <1>1, <1>3, <1>4 DEF AbortInv
<1>6. CASE o \notin Failures
  <2>1. aborted' = aborted /\ streak' \in {streak, {}}  BY <1>6 DEF Settle
  <2>2. Cardinality(streak') \in {s, 0}  BY <1>3, <2>1, FS_EmptySet
  <2> QED  BY <1>2, <1>4, <1>5, <2>1, <2>2, MacAssumption DEF AbortInv
<1>7. CASE o \in Failures /\ aborted # {}
  <2>1. aborted' = aborted \cup {v}  BY <1>7 DEF Settle
  <2>2. Cardinality(aborted') \in {a, a + 1}  BY <1>0, <1>4, <2>1, AddVlan
  <2>3. aborted' # {}  BY <2>1
  <2> QED  BY <1>2, <1>5, <1>7, <2>2, <2>3, MacAssumption DEF AbortInv
<1>8. CASE o \in Failures /\ aborted = {}
  <2>1. /\ streak' = streak \cup {v}
        /\ aborted' = IF Cardinality(streak') >= AbortAfter THEN streak' ELSE {}
    BY <1>8 DEF Settle, Failures
  <2>2. Cardinality(streak') \in {s, s + 1}  BY <1>0, <1>3, <2>1, AddVlan
  <2>3. streak' # {}  BY <2>1
  <2>4. CASE Cardinality(streak') >= AbortAfter
    <3>1. aborted' = streak'  BY <2>1, <2>4
    <3>2. Cardinality(aborted') <= AbortAfter
      BY <1>5, <1>8, <2>2, <3>1, MacAssumption
    <3>3. Cardinality(aborted') \in Nat  BY <2>2, <3>1
    <3> QED  BY <1>2, <1>5, <2>3, <3>1, <3>2, <3>3, MacAssumption DEF AbortInv
  <2>5. CASE ~(Cardinality(streak') >= AbortAfter)
    <3>1. aborted' = {} /\ Cardinality(streak') < AbortAfter
      BY <2>1, <2>2, <2>5, MacAssumption
    <3> QED  BY <1>2, <1>5, <3>1, MacAssumption DEF AbortInv
  <2> QED  BY <2>4, <2>5
<1> QED  BY <1>6, <1>7, <1>8

LEMMA AbortStep ==
  ASSUME TypeOK, AccountedInv, AbortInv, [Next]_vars PROVE AbortInv'
<1>0. QuietOutsideContexts  BY DEF AccountedInv
<1>1. CASE UNCHANGED <<DOMAIN flights, streak, aborted>>  BY <1>1 DEF AbortInv
<1>2. CASE DefaultContext
  <2>1. UNCHANGED contexts  BY <1>2, DefaultContextStep DEF DefaultStep
  <2> QED  BY <1>1, <2>1
<1>3. CASE Planning
  <2>1. UNCHANGED <<flights, streak, aborted>>
    BY <1>0, <1>3, PlanningStep DEF PlanningStepOf, Handed
  <2> QED  BY <1>1, <2>1
<1>4. CASE Enter
  <2>1. /\ UNCHANGED <<streak, aborted>>
        /\ Cardinality(DOMAIN flights) < Concurrency
    BY <1>4 DEF Enter
  <2>2. PICK v \in waiting :
          \/ flights' = flights
          \/ ~GivesUp /\ DOMAIN flights' = DOMAIN flights \cup {v}
    BY <1>4, EnterStep
  <2>3. CASE flights' = flights  BY <1>1, <2>1, <2>3
  <2>4. CASE ~GivesUp /\ DOMAIN flights' = DOMAIN flights \cup {v}
    <3>1. aborted = {}  BY <2>4 DEF GivesUp
    <3>2. DOMAIN flights \subseteq Vlans /\ v \in Vlans  BY DEF TypeOK
    <3>3. PICK n \in Nat : n = Cardinality(DOMAIN flights)  BY <3>2, VlansFinite
    <3>4. Cardinality(DOMAIN flights') \in {n, n + 1}  BY <2>4, <3>2, <3>3, AddVlan
    <3> QED  BY <2>1, <3>1, <3>3, <3>4, MacAssumption DEF AbortInv
  <2> QED  BY <2>2, <2>3, <2>4
<1>5. ASSUME NEW v \in Vlans, Context(v) PROVE AbortInv'
  <2>1. CASE \E n \in 1..MaxRows : ContextRows(v, n)
    BY <1>1, <2>1 DEF ContextRows
  <2>2. ASSUME NEW o \in Outcomes, NEW n \in Nat, ContextStepOf(v, o, n)
        PROVE  AbortInv'
    <3>1. v \in DOMAIN flights /\ flights[v].fdb \in Outcomes
      BY <2>2 DEF ContextStepOf, TypeOK
    <3>2. CASE \E place \in {"fdb", "stack"} : Moves(v, place, o)
      BY <1>1, <3>2 DEF Moves
    <3>3. CASE \E f \in Outcomes : Settle(v, f)
      BY <3>1, <3>3, AbortSettles
    <3> QED  BY <2>2, <3>1, <3>2, <3>3 DEF ContextStepOf
  <2> QED  BY <1>5, <2>1, <2>2, ContextStep
<1>6. CASE ContextsEnd  BY <1>1, <1>6 DEF ContextsEnd
<1>7. CASE Elapse  BY <1>1, <1>7 DEF Elapse
<1>8. CASE UNCHANGED vars  BY <1>1, <1>8 DEF vars
<1> QED  BY <1>2, <1>3, <1>4, <1>5, <1>6, <1>7, <1>8 DEF Next, Done

LEMMA AbortMeansBounded == TypeOK /\ AbortInv => AbortBounded
<1> SUFFICES ASSUME TypeOK, AbortInv PROVE AbortBounded
  OBVIOUS
<1>1. DOMAIN flights \subseteq Vlans /\ aborted \subseteq Vlans  BY DEF TypeOK
<1>2. PICK n \in Nat : n = Cardinality(DOMAIN flights)  BY <1>1, VlansFinite
<1>3. PICK a \in Nat : a = Cardinality(aborted)  BY <1>1, VlansFinite
<1>4. CASE aborted = {}
  <2>1. a = 0  BY <1>3, <1>4, FS_EmptySet
  <2> QED  BY <1>3, <2>1, MacAssumption DEF AbortBounded
<1>5. CASE aborted # {}
  BY <1>2, <1>3, <1>5, MacAssumption DEF AbortInv, AbortBounded
<1> QED  BY <1>4, <1>5

-----------------------------------------------------------------------------
(* The trace of a walk cut short.                                          *)

LEMMA TraceInit == Init => TraceInv
<1>1. Init => DOMAIN flights = {} /\ ~cutShort /\ pc = "base"  BY DEF Init
<1> QED  BY <1>1 DEF TraceInv

\* A walk that ends early leaves its mark in the note or in the budget.
LEMMA CutLeavesTrace ==
  ASSUME NEW o \in Outcomes, NEW n, WalkOver(o, n), TypeOK
  PROVE  /\ truncated => truncated'
         /\ cutShort' => cutShort \/ truncated' \/ o \in Failures
  BY DEF WalkOver, WalkEnds, Outcomes, Cuts, Failures, TypeOK, BudgetTypeOK

LEMMA TraceStep ==
  ASSUME TypeOK, AccountedInv, TraceInv, [Next]_vars PROVE TraceInv'
<1>0. QuietOutsideContexts  BY DEF AccountedInv
<1>1. CASE UNCHANGED vars  BY <1>1 DEF vars, TraceInv
<1>2. CASE DefaultContext
  <2>1. PICK o \in Outcomes, n \in Nat : DefaultStep(o, n)
    BY <1>2, DefaultContextStep
  <2>2. DOMAIN flights = {} /\ failed = {} /\ UNCHANGED <<flights, failed>>
    BY <1>0, <2>1 DEF DefaultStep, DefaultPlaces, QuietOutsideContexts
  <2>3. /\ truncated => truncated'
        /\ cutShort' => cutShort \/ truncated' \/ o \in Failures
    BY <2>1, CutLeavesTrace DEF DefaultStep
  <2>4. problems' = (problems \/ o \in Failures)  BY <2>1 DEF DefaultStep, Noted
  <2> QED  BY <2>2, <2>3, <2>4 DEF TraceInv
<1>3. CASE Planning
  <2>1. PICK o \in Outcomes : PlanningStepOf(o)
    BY <1>0, <1>3, PlanningStep
  <2>2. DOMAIN flights = {} /\ failed = {} /\ UNCHANGED <<flights, failed>>
    BY <1>0, <2>1 DEF PlanningStepOf, Handed, QuietOutsideContexts
  <2>3. /\ truncated => truncated'
        /\ cutShort' => cutShort \/ truncated' \/ o \in Failures
    BY <2>1, CutLeavesTrace DEF PlanningStepOf
  <2>4. problems \/ o \in Failures => problems'
    BY <2>1 DEF PlanningStepOf, Noted
  <2> QED  BY <2>2, <2>3, <2>4 DEF TraceInv
<1>4. CASE Enter
  <2>1. UNCHANGED <<pc, problems, truncated, failed, cutShort>> /\ pc = "contexts"
    BY <1>4 DEF Enter
  <2>2. PICK v \in waiting :
          \/ flights' = flights
          \/ /\ DOMAIN flights' = DOMAIN flights \cup {v}
             /\ flights'[v] = [at |-> "base", fdb |-> "ok", rows |-> FALSE]
             /\ \A w \in DOMAIN flights \ {v} : flights'[w] = flights[w]
    BY <1>4, EnterStep
  <2>3. v \notin DOMAIN flights  BY DEF AccountedInv, Apart
  <2> QED  BY <2>1, <2>2, <2>3 DEF TraceInv
<1>5. ASSUME NEW v \in Vlans, NEW n \in 1..MaxRows, ContextRows(v, n) PROVE TraceInv'
  <2>1. /\ UNCHANGED <<pc, problems, truncated, failed, cutShort>>
        /\ DOMAIN flights' = DOMAIN flights
        /\ \A w \in DOMAIN flights :
             flights'[w].at = flights[w].at /\ flights'[w].fdb = flights[w].fdb
    BY <1>5 DEF ContextRows, RowsArrive, TypeOK
  <2> QED  BY <2>1 DEF TraceInv
<1>6. ASSUME NEW v \in Vlans, NEW o \in Outcomes, NEW n \in Nat, ContextStepOf(v, o, n)
      PROVE  TraceInv'
  <2>0. /\ v \in DOMAIN flights /\ pc' = pc
        /\ pc = "contexts"
        /\ problems' \in {problems, problems \/ o \in Failures}
    BY <1>0, <1>6 DEF ContextStepOf, QuietOutsideContexts, Noted
  <2>1. /\ truncated => truncated'
        /\ cutShort' => cutShort \/ truncated' \/ o \in Failures
    BY <1>6, CutLeavesTrace DEF ContextStepOf
  <2>2. CASE flights[v].at # "stack" /\ o = "ok" /\ Moves(v, "fdb", o)
    <3>1. /\ DOMAIN flights' = DOMAIN flights /\ UNCHANGED failed
          /\ flights'[v].at = "fdb" /\ flights'[v].fdb = "ok"
          /\ \A w \in DOMAIN flights \ {v} : flights'[w] = flights[w]
      BY <2>0, <2>2, MovesType DEF Moves
    <3>2. flights[v].fdb = "ok"  BY <2>0, <2>2 DEF TraceInv
    <3>3. "ok" \notin Failures  BY DEF Failures
    <3> QED  BY <2>0, <2>1, <2>2, <3>1, <3>2, <3>3 DEF TraceInv
  <2>3. CASE flights[v].at # "stack" /\ Moves(v, "stack", o)
    <3>1. /\ DOMAIN flights' = DOMAIN flights /\ UNCHANGED failed
          /\ flights'[v].at = "stack" /\ flights'[v].fdb = o
          /\ \A w \in DOMAIN flights \ {v} : flights'[w] = flights[w]
      BY <2>0, <2>3, MovesType DEF Moves
    <3>2. flights[v].fdb = "ok"  BY <2>0, <2>3 DEF TraceInv
    <3>3. "ok" \notin Failures  BY DEF Failures
    <3> QED  BY <2>0, <2>1, <3>1, <3>2, <3>3 DEF TraceInv
  <2>4. ASSUME NEW f \in Outcomes, Settle(v, f)
        PROVE  /\ DOMAIN flights' = DOMAIN flights \ {v}
               /\ \A w \in DOMAIN flights' : flights'[w] = flights[w]
               /\ failed \subseteq failed'
               /\ f \in Failures => failed' # {}
    BY <2>4 DEF Settle
  <2>5. CASE flights[v].at # "stack" /\ Settle(v, o)
    <3>1. flights[v].fdb = "ok"  BY <2>0, <2>5 DEF TraceInv
    <3>2. "ok" \notin Failures  BY DEF Failures
    <3> QED  BY <2>0, <2>1, <2>4, <2>5, <3>1, <3>2 DEF TraceInv
  <2>6. CASE problems' = Noted(o) /\ Settle(v, flights[v].fdb)
    <3>1. flights[v].fdb \in Outcomes  BY <2>0 DEF TypeOK
    <3>2. problems' = (problems \/ o \in Failures)  BY <2>6 DEF Noted
    <3> QED  BY <2>0, <2>1, <2>4, <2>6, <3>1, <3>2 DEF TraceInv
  <2> QED  BY <1>6, <2>2, <2>3, <2>5, <2>6 DEF ContextStepOf
<1>7. CASE ContextsEnd
  <2>1. problems \/ failed # {} => problems'
    BY <1>7 DEF ContextsEnd, ContextProblems
  <2> QED  BY <1>7, <2>1 DEF ContextsEnd, TraceInv
<1>8. CASE Elapse  BY <1>8 DEF Elapse, Tick, TraceInv
<1>9. ASSUME NEW v \in Vlans, Context(v) PROVE TraceInv'
  BY <1>5, <1>6, <1>9, ContextStep
<1> QED  BY <1>1, <1>2, <1>3, <1>4, <1>7, <1>8, <1>9 DEF Next, Done

LEMMA TraceMeansReported ==
  TypeOK /\ AccountedInv /\ TraceInv => CompleteMeansEveryWalkEnded
<1> SUFFICES ASSUME TypeOK, AccountedInv, TraceInv, pc = "done", Complete
             PROVE  ~cutShort
  BY DEF CompleteMeansEveryWalkEnded
<1>1. DOMAIN flights = {}  BY DEF AccountedInv, QuietOutsideContexts
<1> QED  BY <1>1 DEF TraceInv, Complete

-----------------------------------------------------------------------------
(* Nothing is done twice.                                                  *)

\* The walks of the default context, in the order of _read.
Order == [base |-> 0, vlanFdb |-> 1, qFdb |-> 2, names |-> 3, qStack |-> 4, dFdb |-> 5,
          dStack |-> 6, entity |-> 7, vtp |-> 8, contexts |-> 9, done |-> 10]

\* What is still ahead of VLAN v: the gate, dot1dBasePortIfIndex, the forwarding
\* table, ifStackTable.
Ahead(v) ==
  IF v \in waiting THEN 4
  ELSE IF At(v, "base") THEN 3 ELSE IF At(v, "fdb") THEN 2
  ELSE IF At(v, "stack") THEN 1 ELSE 0

\* Each step ends a walk of the default context for good, takes one VLAN further
\* and leaves the others where they are, brings rows under the cap, or uses up
\* time; and what has been said of a VLAN is not taken back.  So a read of
\* finitely many VLANs has finitely many steps, whatever the agent does.
GoesForward ==
  \/ Order[pc'] > Order[pc]
  \/ /\ pc' = pc
     /\ read \subseteq read' /\ skipped \subseteq skipped' /\ failed \subseteq failed'
     /\ \/ \E v \in Vlans : /\ Ahead(v)' < Ahead(v)
                            /\ \A w \in Vlans \ {v} : Ahead(w)' = Ahead(w)
        \/ /\ \A w \in Vlans : Ahead(w)' = Ahead(w)
           /\ rowsLeft' <= rowsLeft /\ time' <= time
           /\ rowsLeft' < rowsLeft \/ time' < time

LEMMA DefaultGoesForward ==
  ASSUME DefaultContext
  PROVE  Order[pc'] > Order[pc]
<1> USE DEF Order, DefaultWalk
<1>1. ASSUME NEW o, BasePorts(o) PROVE Order[pc'] > Order[pc]
  BY <1>1 DEF BasePorts
<1>2. ASSUME NEW o, QBridgeStack(o) PROVE Order[pc'] > Order[pc]
  BY <1>2 DEF QBridgeStack
<1>3. ASSUME NEW o, BridgeStack(o) PROVE Order[pc'] > Order[pc]
  BY <1>3 DEF BridgeStack, AfterBridge
<1>4. ASSUME NEW o, NEW b, VlanFdb(o, b) PROVE Order[pc'] > Order[pc]
  BY <1>4 DEF VlanFdb
<1>5. ASSUME NEW o, NEW b, VlanNames(o, b) PROVE Order[pc'] > Order[pc]
  BY <1>5 DEF VlanNames
<1>6. ASSUME NEW o, NEW n, NEW b, NEW l, QBridgeFdb(o, n, b, l) PROVE Order[pc'] > Order[pc]
  BY <1>6 DEF QBridgeFdb
<1>7. ASSUME NEW o, NEW n, NEW b, BridgeFdb(o, n, b) PROVE Order[pc'] > Order[pc]
  BY <1>7 DEF BridgeFdb, AfterBridge
<1> HIDE DEF Order, DefaultWalk
<1> QED  BY <1>1, <1>2, <1>3, <1>4, <1>5, <1>6, <1>7 DEF DefaultContext

LEMMA PlanningGoesForward ==
  ASSUME Planning
  PROVE  Order[pc'] > Order[pc]
<1>1. PICK at \in {"entity", "vtp"}, o \in Outcomes, V \in SUBSET Vlans : ContextVlans(at, o, V)
  BY DEF Planning
<1>2. pc = at /\ (pc' \in {"contexts", "done"} \/ (at = "entity" /\ pc' = "vtp"))
  BY <1>1 DEF ContextVlans, Plan
<1> QED  BY <1>2 DEF Order

\* The gate, and the two ways a task gets on.
LEMMA EnterGoesForward ==
  ASSUME TypeOK, AccountedInv, Enter
  PROVE  GoesForward
<1>1. PICK v \in waiting :
        /\ waiting' = waiting \ {v}
        /\ \/ skipped' = skipped \cup {v} /\ flights' = flights
           \/ /\ skipped' = skipped
              /\ DOMAIN flights' = DOMAIN flights \cup {v}
              /\ flights'[v] = [at |-> "base", fdb |-> "ok", rows |-> FALSE]
              /\ \A w \in DOMAIN flights \ {v} : flights'[w] = flights[w]
  BY EnterStep
<1>2. v \in Vlans /\ v \notin DOMAIN flights
  BY DEF TypeOK, AccountedInv, Apart
<1>3. Ahead(v) = 4
  BY DEF Ahead
<1>4. Ahead(v)' \in {0, 3}
  BY <1>1, <1>2 DEF Ahead, At
<1>5. \A w \in Vlans \ {v} : Ahead(w)' = Ahead(w)
  BY <1>1 DEF Ahead, At
<1>6. UNCHANGED <<pc, read, failed>> /\ skipped \subseteq skipped'
  BY <1>1 DEF Enter
<1>7. Ahead(v)' < Ahead(v)
  BY <1>3, <1>4
<1> QED  BY <1>2, <1>5, <1>6, <1>7 DEF GoesForward

LEMMA ContextGoesForward ==
  ASSUME TypeOK, AccountedInv, NEW v \in Vlans, Context(v)
  PROVE  GoesForward
<1>1. ASSUME NEW n \in 1..MaxRows, ContextRows(v, n) PROVE GoesForward
  <2>1. rowsLeft \in Nat /\ time \in Nat
    BY BudgetAssumption DEF TypeOK, BudgetTypeOK
  <2>2. rowsLeft' = rowsLeft - n /\ n \in Nat \ {0} /\ time' = time
    BY <1>1, MacAssumption DEF ContextRows, RowsArrive, TakesRows
  <2>3. rowsLeft' < rowsLeft /\ rowsLeft' <= rowsLeft /\ time' <= time
    BY <2>1, <2>2
  <2>4. v \in DOMAIN flights /\ flights' = [flights EXCEPT ![v].rows = TRUE]
    BY <1>1 DEF ContextRows, At
  <2>5. /\ DOMAIN flights' = DOMAIN flights
        /\ \A w \in DOMAIN flights : flights'[w].at = flights[w].at
    BY <2>4 DEF TypeOK
  <2>6. \A w \in Vlans : Ahead(w)' = Ahead(w)
    BY <1>1, <2>5 DEF ContextRows, Ahead, At
  <2> QED  BY <1>1, <2>3, <2>6 DEF ContextRows, GoesForward
<1>2. ASSUME UNCHANGED <<pc, waiting>>, v \in DOMAIN flights,
             NEW f, Settle(v, f)
      PROVE  GoesForward
  <2>1. /\ DOMAIN flights' = DOMAIN flights \ {v}
        /\ \A w \in DOMAIN flights' : flights'[w] = flights[w]
    BY <1>2 DEF Settle
  <2>2. v \notin waiting
    BY <1>2 DEF AccountedInv, Apart
  <2>3. Ahead(v)' = 0 /\ Ahead(v) \in 1..3
    BY <1>2, <2>1, <2>2 DEF Ahead, At, TypeOK
  <2>4. \A w \in Vlans \ {v} : Ahead(w)' = Ahead(w)
    BY <1>2, <2>1 DEF Ahead, At
  <2>5. read \subseteq read' /\ skipped \subseteq skipped' /\ failed \subseteq failed'
    BY <1>2 DEF Settle, SkippedIfCut
  <2>6. Ahead(v)' < Ahead(v)
    BY <2>3
  <2> QED  BY <1>2, <2>4, <2>5, <2>6 DEF GoesForward
<1>3. ASSUME UNCHANGED <<pc, waiting>>, v \in DOMAIN flights, NEW o,
             NEW from \in {"base", "fdb"}, NEW place \in {"fdb", "stack"}, from # place,
             At(v, from), Moves(v, place, o)
      PROVE  GoesForward
  <2>1. /\ DOMAIN flights' = DOMAIN flights /\ flights'[v].at = place
        /\ \A w \in DOMAIN flights \ {v} : flights'[w] = flights[w]
    BY <1>3 DEF Moves, TypeOK
  <2>2. v \notin waiting
    BY <1>3 DEF AccountedInv, Apart
  <2>3. Ahead(v)' < Ahead(v)
    BY <1>3, <2>1, <2>2 DEF Ahead, At
  <2>4. \A w \in Vlans \ {v} : Ahead(w)' = Ahead(w)
    BY <1>3, <2>1 DEF Ahead, At
  <2> QED  BY <1>3, <2>3, <2>4 DEF Moves, GoesForward
<1>4. ASSUME NEW o \in Outcomes, ContextBase(v, o) PROVE GoesForward
  <2>1. UNCHANGED <<pc, waiting>> /\ v \in DOMAIN flights /\ At(v, "base")
    BY <1>4 DEF ContextBase, At
  <2> QED  BY <1>2, <1>3, <1>4, <2>1 DEF ContextBase
<1>5. ASSUME NEW o \in Outcomes, NEW n, NEW b, ContextFdb(v, o, n, b) PROVE GoesForward
  <2>1. UNCHANGED <<pc, waiting>> /\ v \in DOMAIN flights /\ At(v, "fdb")
    BY <1>5 DEF ContextFdb, At
  <2> QED  BY <1>2, <1>3, <1>5, <2>1 DEF ContextFdb
<1>6. ASSUME NEW o \in Outcomes, ContextStack(v, o) PROVE GoesForward
  <2>1. UNCHANGED <<pc, waiting>> /\ v \in DOMAIN flights
    BY <1>6 DEF ContextStack, At
  <2> QED  BY <1>2, <1>6, <2>1 DEF ContextStack
<1> QED  BY <1>1, <1>4, <1>5, <1>6 DEF Context

-----------------------------------------------------------------------------
(* The theorems.                                                           *)

MacTableInv == TypeOK /\ AccountedInv /\ AbortInv /\ TraceInv

LEMMA MacTableInvHolds == Spec => []MacTableInv
<1>1. Init => MacTableInv
  BY TypeInit, AccountedInit, AbortInit, TraceInit DEF MacTableInv
<1>2. MacTableInv /\ [Next]_vars => MacTableInv'
  <2> SUFFICES ASSUME MacTableInv, [Next]_vars PROVE MacTableInv'
    OBVIOUS
  <2>1. TypeOK /\ AccountedInv /\ AbortInv /\ TraceInv  BY DEF MacTableInv
  <2>2. QuietOutsideContexts  BY <2>1 DEF AccountedInv
  <2>3. TypeOK'  BY <2>1, <2>2, TypeStep
  <2>4. AccountedInv'  BY <2>1, AccountedStep
  <2>5. AbortInv'  BY <2>1, AbortStep
  <2>6. TraceInv'  BY <2>1, TraceStep
  <2> QED  BY <2>3, <2>4, <2>5, <2>6 DEF MacTableInv
<1> QED  BY <1>1, <1>2, PTL DEF Spec

\* The state of a MAC table read keeps its types whatever the agent answers,
\* for every set of VLANs, budget, row cap and abort threshold.
THEOREM MacTableTypeCorrect == Spec => []TypeOK
<1>1. MacTableInv => TypeOK  BY DEF MacTableInv
<1> QED  BY <1>1, MacTableInvHolds, PTL

\* No VLAN is lost and none is reported twice: at every moment each VLAN with a
\* context is queued, in flight, read, skipped or failed (_read_contexts).
THEOREM EveryVlanIsAccountedFor == Spec => []VlansAccounted
<1>1. MacTableInv => VlansAccounted  BY AccountedMeansPlaced DEF MacTableInv
<1> QED  BY <1>1, MacTableInvHolds, PTL

\* However the contexts fail, an abort names at most AbortAfter of them and those
\* that were in flight beside the last of these (_read_contexts).
THEOREM AbortsAreBounded == Spec => []AbortBounded
<1>1. MacTableInv => AbortBounded  BY AbortMeansBounded DEF MacTableInv
<1> QED  BY <1>1, MacTableInvHolds, PTL

\* A walk that did not run to its end, in any table, context or lookup, keeps
\* the read from being called complete (note, _read_contexts, _finish).
THEOREM NoCutGoesUnreported == Spec => []CompleteMeansEveryWalkEnded
<1>1. MacTableInv => CompleteMeansEveryWalkEnded
  BY TraceMeansReported DEF MacTableInv
<1> QED  BY <1>1, MacTableInvHolds, PTL

\* Each step of a read ends a walk of the default context, takes one VLAN further
\* and no other, brings rows or uses up time; no VLAN is read a second time and
\* none changes its list (_read, _read_contexts).
THEOREM ReadGoesForward == Spec => [][GoesForward]_vars
<1>1. MacTableInv /\ [Next]_vars => [GoesForward]_vars
  <2> SUFFICES ASSUME MacTableInv, Next, ~UNCHANGED vars PROVE GoesForward
    OBVIOUS
  <2>1. TypeOK /\ AccountedInv  BY DEF MacTableInv
  <2>2. CASE DefaultContext  BY <2>2, DefaultGoesForward DEF GoesForward
  <2>3. CASE Planning  BY <2>3, PlanningGoesForward DEF GoesForward
  <2>4. CASE Enter  BY <2>1, <2>4, EnterGoesForward
  <2>5. ASSUME NEW v \in Vlans, Context(v) PROVE GoesForward
    BY <2>1, <2>5, ContextGoesForward
  <2>6. CASE ContextsEnd  BY <2>6 DEF ContextsEnd, Order, GoesForward
  <2>7. CASE Elapse
    <3>1. time' < time /\ time' <= time /\ rowsLeft' <= rowsLeft
      BY <2>1, <2>7, BudgetAssumption DEF Elapse, Tick, TypeOK, BudgetTypeOK
    <3>2. \A w \in Vlans : Ahead(w)' = Ahead(w)
      BY <2>7 DEF Elapse, Ahead, At
    <3> QED  BY <2>7, <3>1, <3>2 DEF Elapse, GoesForward
  <2>8. CASE Done  BY <2>8 DEF Done
  <2> QED  BY <2>2, <2>3, <2>4, <2>5, <2>6, <2>7, <2>8 DEF Next
<1> QED  BY <1>1, MacTableInvHolds, PTL DEF Spec
=============================================================================
