----------------------------- MODULE TableWalk -----------------------------
(***************************************************************************)
(* _walk_columns of danbyte_checks/snmp_facts.py: several columns of one   *)
(* SNMP table read in lockstep, each GETBULK carrying the next rows of     *)
(* every column still open.  Walks of several contexts run at once, as     *)
(* tasks that share one budget, and await one request each at a time.      *)
(*                                                                         *)
(* The OID of a cell is its column and its row index, a natural above 0;   *)
(* 0 is the column's base on the way in, and on the way out any OID or     *)
(* value that shows the column has ended.  Values are left out.            *)
(***************************************************************************)
EXTENDS WalkBudget, FiniteSetsExt, Functions, Sequences

CONSTANTS
  Walks,        \* the walks under way at once
  Columns,      \* the columns, in the order they are asked for; each is its
                \* number in the MIB
  Tables,       \* the tables an agent may have: column -> set of row indexes
  CapSets,      \* the sets of walks that may have cap_rows
  Agents,       \* "v2c", "v1", or "stuck": hands back an OID it already gave
  MaxRep,       \* max_rep
  Retries       \* retries

ASSUME TableAssumption ==
  /\ Columns \in Seq(Nat) /\ Columns # <<>> /\ IsInjective(Columns)
  /\ \A t \in Tables : \A c \in Range(Columns) :
       t[c] \subseteq Nat \ {0} /\ IsFiniteSet(t[c])
  /\ CapSets \subseteq SUBSET Walks /\ Agents \subseteq {"v2c", "v1", "stuck"}
  /\ MaxRep \in Nat \ {0} /\ Retries \in Nat

VARIABLES
  table, agent, \* the agent
  capped,    \* the walks that count their rows against the cap (cap_rows)
  last,      \* last[w][c]: the last row w took in c (last and cursor)
  active,    \* active[w]: the columns still open
  cells,     \* cells[w]: rows, as the set of <<index, column>> in it
  whole,     \* complete
  perReq,    \* perReq[w]: max_rep, halved when an answer would be too big
  attempt,   \* attempt[w]
  ended      \* ended[w]: "open", or how w ended

position == <<last, active, cells, whole, ended>>
vars == <<budget, table, agent, capped, position, perReq, attempt>>

Cols == Range(Columns)
RowsOf(cs) == {cell[1] : cell \in cs}

-----------------------------------------------------------------------------
(* The agent, outside this code: what it answers to a GETBULK.             *)

\* How many rows column c has after row i, up to row j.
Rank(c, i, j) == Cardinality({h \in table[c] : i < h /\ h <= j})

\* The row of column c that comes r-th after row i; a stuck agent repeats i.
Nth(c, i, r) ==
  IF agent = "stuck" /\ i > 0 THEN i
  ELSE IF \E j \in table[c] : j > i /\ Rank(c, i, j) = r
       THEN CHOOSE j \in table[c] : j > i /\ Rank(c, i, j) = r
       ELSE 0

\* SNMPv1 has no end-of-MIB value: past the last column it is noSuchName.
PastTheMib(c, i) == \A d \in Cols : \A j \in table[d] : d < c \/ (d = c /\ j <= i)

-----------------------------------------------------------------------------
(* The walk.                                                               *)

\* The place of column c among those that w still asks for.
Place(c) == CHOOSE k \in DOMAIN Columns : Columns[k] = c
Slot(w, c) == Cardinality({d \in active[w] : Place(d) <= Place(c)})

\* The r-th row offered in column c, after the last one taken.
Offered(w, c, r) == IF r = 0 THEN last[w][c] ELSE Nth(c, last[w][c], r)

TakesItAgain(w, c, r) ==      \* mutant: < for <= in "OID not increasing"
  \A q \in 1..r : Offered(w, c, q) # 0 /\ Offered(w, c, q) >= Offered(w, c, q - 1)

\* It is a row further on, as are those before it.
Advances(w, c, r) == \A q \in 1..r : Offered(w, c, q) > Offered(w, c, q - 1)

\* The rows of column c among n var-binds, which are dealt out over the columns
\* asked for (i % width), and those of them that are taken; the next one, if
\* there is one, ends the column.
Dealt(w, c, n) == {r \in 1..n : (r - 1) * Cardinality(active[w]) + Slot(w, c) <= n}
Taken(w, c, n) == {r \in Dealt(w, c, n) : Advances(w, c, r)}

ShortAnswersAreLast(w, c, n) ==             \* mutant: fewer rows than asked for
  Cardinality(Taken(w, c, n)) < perReq[w]   \* means that the column has ended

Closes(w, c, n) == Taken(w, c, n) # Dealt(w, c, n)

\* "OID not increasing": the column ends there, and the walk is incomplete.
Repeats(w, c, n) ==
  \E r \in Dealt(w, c, n) \ Taken(w, c, n) :
    r - 1 \in Taken(w, c, n) \cup {0} /\ Offered(w, c, r) # 0

\* rows once n var-binds have been dealt with.
CellsAfter(w, n) ==
  cells[w] \cup UNION {{<<Offered(w, c, r), c>> : r \in Taken(w, c, n)} : c \in active[w]}

OneCursor(w, c, n) ==         \* mutant: one cursor for all the columns
  Max({last[w][c]} \cup {j \in UNION {table[d] : d \in Cols} : j \in RowsOf(CellsAfter(w, n))})

\* The last row of c then.
LastAfter(w, c, n) == Max({last[w][c]} \cup {j \in table[c] : <<j, c>> \in CellsAfter(w, n)})

ChargesEachCell(w, n) ==      \* mutant: a row is charged with each of its columns
  IF w \in capped THEN Cardinality(CellsAfter(w, n) \ cells[w]) ELSE 0

\* The rows they add to what is charged to the cap.
Charge(w, n) ==
  IF w \in capped THEN Cardinality(RowsOf(CellsAfter(w, n)) \ RowsOf(cells[w])) ELSE 0

OneTooMany(w, n) == Charge(w, n) > rowsLeft + 1  \* mutant: rows_left < 0

OverCap(w, n) == Charge(w, n) > rowsLeft

Running(w) == ended[w] = "open" /\ time > 0

ForgetsTruncation(w, o) ==    \* mutant: cut() without budget.stop()
  ended' = [ended EXCEPT ![w] = o] /\ UNCHANGED truncated

Finish(w, o) ==
  /\ ended' = [ended EXCEPT ![w] = o]
  /\ truncated' = (truncated \/ o \in Cuts)

\* The walk goes on with the columns cs, or is over.
GoOn(w, cs, complete) ==
  /\ active' = [active EXCEPT ![w] = cs]
  /\ whole' = [whole EXCEPT ![w] = complete]
  /\ attempt' = [attempt EXCEPT ![w] = 0]
  /\ IF cs = {} THEN Finish(w, IF complete THEN "ok" ELSE "error")
                ELSE UNCHANGED <<ended, truncated>>

\* What n var-binds bring is kept.
Keep(w, n) ==
  /\ cells' = [cells EXCEPT ![w] = CellsAfter(w, n)]
  /\ rowsLeft' = rowsLeft - Charge(w, n)
  /\ last' = [last EXCEPT ![w] = [c \in Cols |-> LastAfter(w, c, n)]]

\* An answer of n var-binds: an agent may send fewer than it was asked for,
\* and stop in the middle of a row; a v1 agent sends one row.
Answered(w, n) ==
  /\ Running(w)
  /\ n \in 1..(perReq[w] * Cardinality(active[w]))
  /\ agent = "v1" => /\ n = Cardinality(active[w])
                     /\ \A c \in active[w] : ~PastTheMib(c, last[w][c])
  /\ IF OverCap(w, n)
     THEN \* cut("rows") at the var-bind that brings one row too many
          /\ \E m \in 0..(n - 1) : /\ ~OverCap(w, m) /\ OverCap(w, m + 1)
                                   /\ Keep(w, m)
          /\ Finish(w, "rows")
          /\ UNCHANGED <<active, whole, attempt>>
     ELSE /\ Keep(w, n)
          /\ GoOn(w, {c \in active[w] : ~Closes(w, c, n)},
                  whole[w] /\ \A c \in active[w] : ~Repeats(w, c, n))
  /\ UNCHANGED <<time, table, agent, capped, perReq>>

\* noSuchName: the column at the error index walked off the end of the MIB.
NoSuchName(w, c) ==
  /\ Running(w) /\ agent = "v1"
  /\ c \in active[w] /\ PastTheMib(c, last[w][c])
  /\ \A d \in active[w] : PastTheMib(d, last[w][d]) => Slot(w, c) <= Slot(w, d)
  /\ GoOn(w, active[w] \ {c}, whole[w])
  /\ UNCHANGED <<time, rowsLeft, table, agent, capped, last, cells, perReq>>

\* tooBig: ask for fewer rows, down to one.
NeverSmaller(n) == n          \* mutant

Halved(n) == IF n \div 2 > 1 THEN n \div 2 ELSE 1

TooBig(w) ==
  /\ Running(w) /\ perReq[w] > 1
  /\ perReq' = [perReq EXCEPT ![w] = Halved(@)]
  /\ attempt' = [attempt EXCEPT ![w] = 0]
  /\ UNCHANGED <<budget, table, agent, capped, position>>

\* A request that timed out is sent again, Retries times.
Lost(w) ==
  /\ Running(w)
  /\ IF attempt[w] < Retries
     THEN /\ attempt' = [attempt EXCEPT ![w] = @ + 1]
          /\ UNCHANGED <<truncated, ended>>
     ELSE /\ Finish(w, "timeout")
          /\ UNCHANGED attempt
  /\ UNCHANGED <<time, rowsLeft, table, agent, capped, last, active, cells, whole, perReq>>

\* An exception, another error of the engine or the agent, an empty answer.
Refused(w) ==
  /\ Running(w)
  /\ Finish(w, "error")
  /\ UNCHANGED <<time, rowsLeft, table, agent, capped, last, active, cells, whole,
                 perReq, attempt>>

\* cut("time"): before a request, or by wait_for while it is pending.
OutOfTime(w) ==
  /\ ended[w] = "open" /\ time = 0
  /\ Finish(w, "time")
  /\ UNCHANGED <<time, rowsLeft, table, agent, capped, last, active, cells, whole,
                 perReq, attempt>>

Elapse == Tick /\ UNCHANGED <<table, agent, capped, position, perReq, attempt>>

Done == (\A w \in Walks : ended[w] # "open") /\ UNCHANGED vars

Init ==
  /\ BudgetInit
  /\ table \in Tables /\ agent \in Agents /\ capped \in CapSets
  /\ last = [w \in Walks |-> [c \in Cols |-> 0]]
  /\ active = [w \in Walks |-> Cols]
  /\ cells = [w \in Walks |-> {}]
  /\ whole = [w \in Walks |-> TRUE]
  /\ perReq = [w \in Walks |-> MaxRep]
  /\ attempt = [w \in Walks |-> 0]
  /\ ended = [w \in Walks |-> "open"]

Steps(w) ==
  \/ \E n \in 1..(MaxRep * Len(Columns)) : Answered(w, n)
  \/ \E c \in Cols : NoSuchName(w, c)
  \/ TooBig(w) \/ Lost(w) \/ Refused(w)
  \/ OutOfTime(w)

Next == (\E w \in Walks : Steps(w)) \/ Elapse \/ Done

Spec == Init /\ [][Next]_vars

\* Every request is answered or times out, in pysnmp.
FairSpec == Spec /\ \A w \in Walks : WF_vars(Steps(w))

-----------------------------------------------------------------------------
(* Properties.                                                             *)

TypeOK ==
  /\ BudgetTypeOK
  /\ table \in Tables /\ agent \in Agents /\ capped \in CapSets
  /\ last \in [Walks -> [Cols -> Nat]]
  /\ active \in [Walks -> SUBSET Cols] /\ cells \in [Walks -> SUBSET (Nat \X Cols)]
  /\ whole \in [Walks -> BOOLEAN]
  /\ perReq \in [Walks -> 1..MaxRep] /\ attempt \in [Walks -> 0..Retries]
  /\ ended \in [Walks -> Outcomes \cup {"open"}]

TheTable == UNION {table[c] \X {c} : c \in Cols}

\* A walk puts every value under the row and the column it was read for, and
\* is complete only with the whole of every column: through answers cut in
\* the middle of a row, columns with holes, columns that end before others,
\* v1 errors and agents that hand back an OID twice (snmp_facts.py:698-701).
RowsAreTheTables ==
  \A w \in Walks : /\ cells[w] \subseteq TheTable
                   /\ ended[w] = "ok" => cells[w] = TheTable

\* Of every column a walk has the first rows, however it ended: what it lost is
\* at the end, wherever an answer was cut or a column closed (768-799).
FirstRowsOfEach ==
  \A w \in Walks, c \in Cols : \A j, k \in table[c] :
    j < k /\ <<k, c>> \in cells[w] => <<j, c>> \in cells[w]

\* A row is charged to the cap once, whichever of its columns comes first and
\* whatever other walks charge in between, and so they all keep within it (790-796).
Charged == UNION {{w} \X RowsOf(cells[w]) : w \in capped}

RowsAreChargedOnce == Cardinality(Charged) = RowCap - rowsLeft

\* No request is in vain, whatever the agent answers: it closes a column, brings
\* a cell not read before, lowers the rows asked for or uses up a try, and what
\* comes later in this list costs nothing of what comes before (745-799).
Further(w) ==
  \/ ended'[w] # "open"
  \/ active'[w] # active[w] /\ active'[w] \subseteq active[w] /\ cells[w] \subseteq cells'[w]
  \/ /\ active'[w] = active[w]
     /\ \/ cells'[w] # cells[w] /\ cells[w] \subseteq cells'[w]
        \/ /\ cells'[w] = cells[w]
           /\ \/ perReq'[w] < perReq[w]
              \/ perReq'[w] = perReq[w] /\ attempt'[w] > attempt[w]

Own(w) == <<last[w], active[w], cells[w], whole[w], perReq[w], attempt[w], ended[w]>>

NothingInVain == [][\A w \in Walks : Own(w)' # Own(w) => Further(w)]_vars

\* Whatever the agent answers, the walk ends (722-799).
EveryWalkEnds == <>(\A w \in Walks : ended[w] # "open")

\* The rows each walk has charged to the cap.
Kept == [w \in Walks |-> IF w \in capped THEN Cardinality(RowsOf(cells[w])) ELSE 0]

Abstract == INSTANCE BudgetedWalks WITH kept <- Kept

\* Interleaved at their requests, the walks share the budget as BudgetedWalks
\* says: no row beyond the cap, none after the deadline, one end each, and
\* truncated exactly when the budget or the cap ended one (717-720, 791-794).
ImplementsBudgetedWalks == Abstract!WalksSpec
=============================================================================
