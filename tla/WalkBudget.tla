----------------------------- MODULE WalkBudget -----------------------------
(***************************************************************************)
(* _WalkBudget of danbyte_checks/snmp_facts.py: the wall clock and the row *)
(* allowance that every walk of one MAC table read shares, and what a walk *)
(* may do with them.  MacTableRead takes a walk to be no more than this;   *)
(* TableWalk, which has the requests and the answers, implements it.       *)
(***************************************************************************)
EXTENDS Integers

CONSTANTS
  Budget,       \* mac_budget_s, in ticks
  RowCap        \* MAC_ROW_CAP

ASSUME BudgetAssumption == Budget \in Nat /\ RowCap \in Nat \ {0}

VARIABLES
  time,      \* budget.remaining(), 0 once it has run out
  rowsLeft,  \* budget.rows_left
  truncated  \* budget.truncated

budget == <<time, rowsLeft, truncated>>

\* How a walk ends: every column read, the budget or the row cap ran out, the
\* agent stopped answering, or it answered with anything else.
Outcomes == {"ok", "time", "rows", "timeout", "error"}
Cuts == {"time", "rows"}          \* stats["truncated"]
Failures == {"timeout", "error"}

BudgetInit == time = Budget /\ rowsLeft = RowCap /\ truncated = FALSE

IgnoresRowCap(n) == rowsLeft' = rowsLeft - n  \* mutant

\* n new rows against the row cap.
TakesRows(n) == n <= rowsLeft /\ rowsLeft' = rowsLeft - n

\* An answer brings n rows, and the walk goes on.
RowsArrive(n) ==
  /\ time > 0
  /\ TakesRows(n)
  /\ UNCHANGED <<time, truncated>>

\* A walk ends, with the n rows of its last answer.  Past the deadline every
\* request is cut, before it none is; a row beyond the cap ends the walk.
WalkEnds(o, n) ==
  /\ o = "time" <=> time = 0
  /\ TakesRows(n)
  /\ o = "time" => n = 0
  /\ o = "rows" => rowsLeft' = 0
  /\ truncated' = (truncated \/ o \in Cuts)
  /\ UNCHANGED time

Tick == time > 0 /\ time' = time - 1 /\ UNCHANGED <<rowsLeft, truncated>>

BudgetTypeOK == time \in 0..Budget /\ rowsLeft \in 0..RowCap /\ truncated \in BOOLEAN
=============================================================================
