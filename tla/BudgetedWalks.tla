--------------------------- MODULE BudgetedWalks ---------------------------
(***************************************************************************)
(* What the reader of a MAC table relies on: walks that share a budget,    *)
(* each of which brings rows and ends once.  No requests, no columns, no   *)
(* agent.                                                                  *)
(***************************************************************************)
EXTENDS WalkBudget, Functions

CONSTANT Walks

VARIABLES
  ended,     \* ended[w]: "open", or how w ended
  kept       \* kept[w]: rows w has charged to the cap

walkVars == <<budget, ended, kept>>

Open(w) == ended[w] = "open"

WalksInit ==
  /\ BudgetInit
  /\ ended = [w \in Walks |-> "open"]
  /\ kept = [w \in Walks |-> 0]

Brings(w, n) ==
  /\ Open(w)
  /\ RowsArrive(n)
  /\ kept' = [kept EXCEPT ![w] = @ + n]
  /\ UNCHANGED ended

Ends(w, o, n) ==
  /\ Open(w)
  /\ WalkEnds(o, n)
  /\ kept' = [kept EXCEPT ![w] = @ + n]
  /\ ended' = [ended EXCEPT ![w] = o]

WalksNext ==
  \/ \E w \in Walks, n \in 0..RowCap :
       Brings(w, n) \/ \E o \in Outcomes : Ends(w, o, n)
  \/ Tick /\ UNCHANGED <<ended, kept>>

WalksSpec == WalksInit /\ [][WalksNext]_walkVars
=============================================================================
