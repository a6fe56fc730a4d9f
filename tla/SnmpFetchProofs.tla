-------------------------- MODULE SnmpFetchProofs --------------------------
(***************************************************************************)
(* Theorems about SnmpFetch: what a poll reports of interfaces, hosts,     *)
(* neighbours and ARP entries is true of the device, and a MAC table it    *)
(* calls complete is all of it, for every device whose tables agree with   *)
(* one another (DeviceAssumption) and every way a walk fails.              *)
(***************************************************************************)
EXTENDS SnmpFetch, FiniteSetTheorems, WellFoundedInduction, TLAPS

-----------------------------------------------------------------------------
(* The order of the poll.                                                  *)

LEMMA PollOrder ==
  /\ Len(Poll) = 25 /\ DOMAIN Poll = 1..25
  /\ Poll[1] = "facts" /\ Poll[2] = "interfaces" /\ Poll[13] = "mactable"
  /\ Poll[20] = "topology" /\ Poll[25] = "over"
  /\ \A i \in 1..25 : Poll[i] = "over" => i = 25
BY DEF Poll

LEMMA PollIsInOrder ==
  \A i, j \in 1..25 : Poll[i] = Poll[j] => i = j
BY DEF Poll

LEMMA Positions ==
  /\ Position("facts") = 1 /\ Position("interfaces") = 2 /\ Position("mactable") = 13
  /\ Position("topology") = 20 /\ Position("over") = 25
<1>1. \A i \in 1..25 : Position(Poll[i]) = i
  BY PollOrder, PollIsInOrder DEF Position
<1> QED BY <1>1, PollOrder

LEMMA WhereItGoesOn ==
  /\ AfterRaise("facts") = 25 /\ AfterRaise("interfaces") = 13
  /\ AfterRaise("mactable") = 20 /\ AfterRaise("topology") = 25
BY Positions DEF AfterRaise

LEMMA StagesAreInThePoll ==
  \A s \in Stages : /\ Position(s) \in 1..25 /\ AfterRaise(s) \in 1..25
                    /\ Position(s) <= AfterRaise(s) /\ Poll[Position(s)] = s
BY Positions, WhereItGoesOn, PollOrder DEF Stages

-----------------------------------------------------------------------------
(* The invariant.  Nothing is read of a stage the poll has left by an      *)
(* error, because it is past that stage; and a walk that ended "ok" has    *)
(* all rows of every column.                                               *)

RaisedIsPast == \A s \in raised : AfterRaise(s) <= at

OkIsAllOfIt == \A w \in Walks : end[w] = "ok" => Whole({w})

FetchInv ==
  /\ TypeOK /\ dev \in Devices
  /\ got = [w \in Walks |-> got[w]] /\ end = [w \in Walks |-> end[w]]
  /\ RaisedIsPast /\ OkIsAllOfIt

WalkOK(w) ==
  /\ got[w] \in [Columns(w) -> 0..Len(Table(w))]
  /\ end[w] \in {"no", "ok", "error", "timeout", "time", "rows"}
  /\ end[w] = "no" => ~Found(w)
  /\ end[w] # "no" => \A i \in at..25 : Poll[i] # w

WalksOK == \A w \in Walks : WalkOK(w)

ShapeOK ==
  /\ at \in 1..25 /\ raised \subseteq Stages
  /\ silent \in BOOLEAN /\ late \in BOOLEAN /\ faults \in 0..MaxFaults

RaisedReadNothing ==
  \A s \in raised : \A i \in Position(s)..(AfterRaise(s) - 1) : Poll[i] \in Walks => end[Poll[i]] = "no"

LEMMA PartsOfTypeOK == TypeOK <=> WalksOK /\ ShapeOK /\ RaisedReadNothing
<1> DEFINE Ahead(w, places) == end[w] # "no" => \A i \in places : Poll[i] # w
           Other(w) == /\ got[w] \in [Columns(w) -> 0..Len(Table(w))]
                       /\ end[w] \in {"no", "ok", "error", "timeout", "time", "rows"}
                       /\ end[w] = "no" => ~Found(w)
           Rest == /\ raised \subseteq Stages
                   /\ silent \in BOOLEAN /\ late \in BOOLEAN /\ faults \in 0..MaxFaults
<1>1. DOMAIN Poll = 1..25 /\ at..Len(Poll) = at..25
  BY PollOrder
<1>2. TypeOK <=> /\ at \in DOMAIN Poll /\ Rest /\ RaisedReadNothing
                 /\ \A w \in Walks : Other(w) /\ Ahead(w, at..Len(Poll))
  BY Zenon DEF TypeOK, RaisedReadNothing
<1>3. WalksOK /\ ShapeOK <=> /\ at \in 1..25 /\ Rest
                             /\ \A w \in Walks : Other(w) /\ Ahead(w, at..25)
  BY Zenon DEF WalksOK, WalkOK, ShapeOK
<1> HIDE DEF Ahead, Other, Rest
<1> QED BY <1>1, <1>2, <1>3

LEMMA TablesAreTables ==
  ASSUME NEW d \in Devices, NEW w \in Walks
  PROVE  /\ IsTable(d.tables[TableOf(w)]) /\ Len(d.tables[TableOf(w)]) \in Nat
         /\ DOMAIN d.tables[TableOf(w)] = 1..Len(d.tables[TableOf(w)])
BY DeviceAssumption DEF IsTable

LEMMA WalksAndStages == Stages \cap Walks = {} /\ "over" \notin Walks \cup Stages
BY DEF Walks, IfWalks, MacWalks, TopoWalks, Stages

\* The walk of this step is at no later place, nor within a stage that raised.
LEMMA AtIsNotRaised ==
  ASSUME FetchInv, NEW s \in raised, NEW i \in Position(s)..(AfterRaise(s) - 1)
  PROVE  i < at /\ i \in 1..25
<1>1. s \in Stages /\ AfterRaise(s) <= at /\ at \in 1..25
  BY PartsOfTypeOK DEF FetchInv, ShapeOK, RaisedIsPast
<1>2. Position(s) \in 1..25 /\ AfterRaise(s) \in 1..25
  BY <1>1, StagesAreInThePoll
<1> QED BY <1>1, <1>2

LEMMA RaisedStayPast ==
  ASSUME FetchInv, raised' = raised, at' \in 1..25, at <= at'
  PROVE  RaisedIsPast'
<1>1. at \in 1..25 /\ \A s \in raised : AfterRaise(s) \in 1..25 /\ AfterRaise(s) <= at
  BY PartsOfTypeOK, StagesAreInThePoll DEF FetchInv, ShapeOK, RaisedIsPast
<1>2. \A s \in raised : AfterRaise(s) <= at'
  BY <1>1
<1> QED BY <1>2 DEF RaisedIsPast, AfterRaise

LEMMA InitIsFetch == Init => FetchInv
<1> SUFFICES ASSUME Init PROVE FetchInv
  OBVIOUS
<1>1. ASSUME NEW w \in Walks
      PROVE  /\ got[w] \in [Columns(w) -> 0..Len(Table(w))] /\ ~Found(w) /\ end[w] = "no"
  <2>1. Len(Table(w)) \in Nat
    BY TablesAreTables DEF Init, Table
  <2>2. got[w] = [c \in Columns(w) |-> 0] /\ end[w] = "no"
    BY DEF Init
  <2>3. 0 \in 0..Len(Table(w))
    BY <2>1
  <2> QED BY <2>2, <2>3 DEF Found
<1>2. WalksOK
  BY <1>1 DEF WalksOK, WalkOK
<1>3. RaisedReadNothing /\ at \in 1..25 /\ raised \subseteq Stages
      /\ faults \in 0..MaxFaults
  BY FetchAssumption DEF Init, RaisedReadNothing
<1>4. silent \in BOOLEAN /\ late \in BOOLEAN
  BY Zenon DEF Init
<1>5. ShapeOK
  BY <1>3, <1>4, Zenon DEF ShapeOK
<1> QED BY <1>1, <1>2, <1>3, <1>5, PartsOfTypeOK DEF Init, FetchInv, RaisedIsPast, OkIsAllOfIt

\* A step that reads nothing and goes on within the poll.
LEMMA KeepsWhatWasRead ==
  ASSUME FetchInv, UNCHANGED <<dev, got, end, raised>>,
         at' \in at..25, silent' \in BOOLEAN, late' \in BOOLEAN, faults' \in 0..MaxFaults
  PROVE  FetchInv'
<1>0. WalksOK /\ ShapeOK /\ RaisedReadNothing
  BY PartsOfTypeOK DEF FetchInv
<1>1. at \in 1..25 /\ at' \in 1..25 /\ at <= at'
  BY <1>0 DEF ShapeOK
<1>2. \A w \in Walks : Table(w)' = Table(w) /\ Found(w)' = Found(w)
  BY DEF Table, Found
<1>3. WalksOK'
  BY <1>0, <1>1, <1>2 DEF WalksOK, WalkOK
<1>4. ShapeOK' /\ RaisedReadNothing'
  BY <1>0, <1>1 DEF ShapeOK, RaisedReadNothing
<1>5. TypeOK'
  BY <1>3, <1>4, PartsOfTypeOK, PTL
<1>6. RaisedIsPast'
  BY <1>1, RaisedStayPast
<1> QED BY <1>2, <1>5, <1>6 DEF FetchInv, OkIsAllOfIt, Whole

\* A step in which walk w comes to its end.
LEMMA KeepsWhenAWalkEnds ==
  ASSUME FetchInv, NEW w \in Walks, Here(w), UNCHANGED <<dev, raised>>, at' = at + 1,
         NEW n \in [Columns(w) -> 0..Len(Table(w))], NEW why \in {"ok", "error", "timeout", "time", "rows"},
         why = "ok" => \A c \in Columns(w) : n[c] = Len(Table(w)),
         got' = [got EXCEPT ![w] = n], end' = [end EXCEPT ![w] = why],
         silent' \in BOOLEAN, late' \in BOOLEAN, faults' \in 0..MaxFaults
  PROVE  FetchInv'
<1>0. WalksOK /\ ShapeOK /\ RaisedReadNothing
  BY PartsOfTypeOK DEF FetchInv
<1>1. at \in 1..25 /\ at + 1 \in 1..25 /\ Poll[at] = w
  <2>1. at \in 1..25 /\ Poll[at] = w
    BY <1>0 DEF ShapeOK, Here
  <2>2. at # 25
    BY <2>1, PollOrder, WalksAndStages
  <2> QED BY <2>1, <2>2
<1>2. \A x \in Walks : Table(x)' = Table(x)
  BY DEF Table
<1>3. end[w] = "no"
  <2>1. at \in at..25
    BY <1>1
  <2> QED BY <1>0, <1>1, <2>1, Zenon DEF WalksOK, WalkOK
<1>4. /\ got' = [x \in Walks |-> got'[x]] /\ end' = [x \in Walks |-> end'[x]]
      /\ got'[w] = n /\ end'[w] = why
      /\ \A x \in Walks : x # w => got'[x] = got[x] /\ end'[x] = end[x]
  BY DEF FetchInv
<1>5. WalksOK'
  <2>1. ASSUME NEW x \in Walks, x # w PROVE WalkOK(x)'
    <3>1. Table(x)' = Table(x) /\ got'[x] = got[x] /\ end'[x] = end[x] /\ Found(x)' = Found(x)
      BY <1>2, <1>4, <2>1, Zenon DEF Found
    <3>2. \A i \in (at + 1)..25 : i \in at..25
      BY <1>1
    <3>3. WalkOK(x)
      BY <1>0 DEF WalksOK
    <3> QED BY <3>1, <3>2, <3>3, Zenon DEF WalkOK
  <2>2. \A i \in (at + 1)..25 : Poll[i] # w
    <3> SUFFICES ASSUME NEW i \in (at + 1)..25, Poll[i] = w PROVE FALSE
      OBVIOUS
    <3>1. i \in 1..25 /\ i # at
      BY <1>1
    <3> QED BY <1>1, <3>1, PollIsInOrder
  <2>3. WalkOK(w)'
    BY <1>2, <1>4, <2>2 DEF WalkOK
  <2> QED BY <2>1, <2>3 DEF WalksOK
<1>6. ShapeOK'
  BY <1>0, <1>1 DEF ShapeOK
<1>7. RaisedReadNothing'
  <2>1. ASSUME NEW s \in raised, NEW i \in Position(s)..(AfterRaise(s) - 1), Poll[i] \in Walks
        PROVE  end'[Poll[i]] = "no"
    <3>1. i < at /\ i \in 1..25
      BY AtIsNotRaised
    <3>2. i # at
      BY <1>1, <3>1
    <3>3. Poll[i] # w
      BY <1>1, <3>1, <3>2, PollIsInOrder, Zenon
    <3> QED BY <1>0, <1>4, <2>1, <3>3 DEF RaisedReadNothing
  <2> QED BY <2>1 DEF RaisedReadNothing, Position, AfterRaise
<1>8. RaisedIsPast'
  BY <1>1, RaisedStayPast
<1>9. OkIsAllOfIt'
  <2>1. ASSUME NEW x \in Walks, end'[x] = "ok", NEW c \in Columns(x) PROVE got'[x][c] = Len(Table(x))
    <3>1. CASE x = w
      BY <1>4, <2>1, <3>1
    <3>2. CASE x # w
      BY <1>4, <2>1, <3>2 DEF FetchInv, OkIsAllOfIt, Whole
    <3> QED BY <3>1, <3>2
  <2> QED BY <1>2, <2>1 DEF OkIsAllOfIt, Whole
<1>10. TypeOK'
  BY <1>5, <1>6, <1>7, PartsOfTypeOK, PTL
<1> QED BY <1>4, <1>8, <1>9, <1>10 DEF FetchInv

LEMMA RaisesKeeps ==
  ASSUME FetchInv, NEW s \in Stages, Raises(s)
  PROVE  FetchInv'
<1>0. WalksOK /\ ShapeOK /\ RaisedReadNothing
  BY PartsOfTypeOK DEF FetchInv
<1>1. /\ at = Position(s) /\ at \in 1..25 /\ at' = AfterRaise(s) /\ at' \in 1..25 /\ at <= at'
  <2>1. at \in 1..25 /\ Poll[at] = s
    BY <1>0 DEF ShapeOK, Raises, Here
  <2> QED BY <2>1, StagesAreInThePoll, PollIsInOrder DEF Raises
<1>2. \A w \in Walks : Table(w)' = Table(w) /\ Found(w)' = Found(w)
  BY DEF Table, Found, Raises
<1>3. WalksOK'
  BY <1>0, <1>1, <1>2 DEF WalksOK, WalkOK, Raises
<1>4. faults' \in 0..MaxFaults
  BY <1>0, FetchAssumption DEF ShapeOK, Raises
<1>5. ShapeOK'
  BY <1>0, <1>1, <1>4 DEF ShapeOK, Raises
<1>6. RaisedReadNothing'
  <2>1. ASSUME NEW x \in raised', NEW i \in Position(x)..(AfterRaise(x) - 1), Poll[i] \in Walks
        PROVE  end[Poll[i]] = "no"
    <3>1. CASE x \in raised
      BY <1>0, <2>1, <3>1 DEF RaisedReadNothing
    <3>2. CASE x = s
      <4>1. i \in at..25
        BY <1>1, <3>2
      <4> QED BY <1>0, <2>1, <4>1, Zenon DEF WalksOK, WalkOK
    <3> QED BY <3>1, <3>2 DEF Raises
  <2> QED BY <2>1 DEF RaisedReadNothing, Position, AfterRaise, Raises
<1>7. RaisedIsPast'
  <2>1. ASSUME NEW x \in raised' PROVE AfterRaise(x) <= at'
    <3>1. CASE x \in raised
      <4>1. x \in Stages /\ AfterRaise(x) <= at
        BY <1>0, <3>1 DEF FetchInv, ShapeOK, RaisedIsPast
      <4> QED BY <1>1, <4>1, StagesAreInThePoll
    <3>2. CASE x = s
      BY <1>1, <3>2
    <3> QED BY <3>1, <3>2 DEF Raises
  <2> QED BY <2>1 DEF RaisedIsPast, AfterRaise
<1>8. TypeOK'
  BY <1>3, <1>5, <1>6, PartsOfTypeOK, PTL
<1> QED BY <1>2, <1>7, <1>8 DEF FetchInv, OkIsAllOfIt, Whole, Raises

LEMMA WalkStepKeeps ==
  ASSUME FetchInv, NEW w \in Walks, WalkStep(w)
  PROVE  FetchInv'
<1>0. WalksOK /\ ShapeOK
  BY PartsOfTypeOK DEF FetchInv
<1> DEFINE all == [c \in Columns(w) |-> Len(Table(w))]
           none == [c \in Columns(w) |-> 0]
<1>1. Here(w) /\ at \in 1..25 /\ all \in [Columns(w) -> 0..Len(Table(w))] /\ none \in [Columns(w) -> 0..Len(Table(w))]
  <2>1. Len(Table(w)) \in Nat
    BY TablesAreTables DEF FetchInv, Table
  <2>2. 0 \in 0..Len(Table(w)) /\ Len(Table(w)) \in 0..Len(Table(w))
    BY <2>1
  <2>3. all \in [Columns(w) -> 0..Len(Table(w))] /\ none \in [Columns(w) -> 0..Len(Table(w))]
    BY <2>2
  <2> QED BY <1>0, <2>3 DEF WalkStep, ShapeOK
<1>2. silent \in BOOLEAN /\ late \in BOOLEAN /\ faults \in 0..MaxFaults
  BY <1>0 DEF ShapeOK
<1>3. CASE Reads(w)
  <2>1. /\ UNCHANGED <<dev, raised, silent, late, faults>> /\ at' = at + 1
        /\ got' = [got EXCEPT ![w] = all] /\ end' = [end EXCEPT ![w] = "ok"]
    BY <1>3 DEF Reads, Brings, trouble
  <2>2. \A c \in Columns(w) : all[c] = Len(Table(w))
    OBVIOUS
  <2> HIDE DEF all
  <2> QED BY <1>1, <1>2, <2>1, <2>2, KeepsWhenAWalkEnds
<1>4. ASSUME NEW n \in [Columns(w) -> 0..Len(Table(w))], NEW why \in {"error", "timeout", "time", "rows"},
             Breaks(w, n, why)
      PROVE  FetchInv'
  <2>1. /\ UNCHANGED <<dev, raised, silent>> /\ at' = at + 1
        /\ got' = [got EXCEPT ![w] = n] /\ end' = [end EXCEPT ![w] = why]
    BY <1>4 DEF Breaks, Brings
  <2>2. late' \in BOOLEAN
    BY <1>2, <1>4, Zenon DEF Breaks
  <2>3. faults' \in 0..MaxFaults
    BY <1>2, <1>4, FetchAssumption DEF Breaks
  <2>4. why \in {"ok", "error", "timeout", "time", "rows"} /\ why # "ok"
    OBVIOUS
  <2> QED BY <1>1, <1>2, <2>1, <2>2, <2>3, <2>4, KeepsWhenAWalkEnds
<1>5. CASE BringsNothing(w)
  <2>1. PICK why \in {"error", "time", "timeout"} :
          /\ UNCHANGED <<dev, raised, silent, late, faults>> /\ at' = at + 1
          /\ got' = [got EXCEPT ![w] = none] /\ end' = [end EXCEPT ![w] = why]
    BY <1>5 DEF BringsNothing, Brings, trouble
  <2>2. why # "ok"
    OBVIOUS
  <2> HIDE DEF none
  <2> QED BY <1>1, <1>2, <2>1, <2>2, KeepsWhenAWalkEnds
<1>6. CASE PassesOver(w)
  <2>1. at # 25
    BY <1>1, PollOrder, WalksAndStages DEF Here
  <2>2. at' \in at..25
    BY <1>1, <1>6, <2>1 DEF PassesOver
  <2>3. UNCHANGED <<dev, got, end, raised, silent, late, faults>>
    BY <1>6 DEF PassesOver, trouble
  <2> QED BY <1>2, <2>2, <2>3, KeepsWhatWasRead
<1> QED BY <1>3, <1>4, <1>5, <1>6 DEF WalkStep

LEMMA StepKeepsFetch ==
  ASSUME FetchInv, [Next]_vars
  PROVE  FetchInv'
<1>0. ShapeOK
  BY PartsOfTypeOK DEF FetchInv
<1>1. at \in 1..25 /\ silent \in BOOLEAN /\ late \in BOOLEAN /\ faults \in 0..MaxFaults
  BY <1>0 DEF ShapeOK
<1>2. CASE UNCHANGED vars
  <2>1. at' \in at..25
    BY <1>1, <1>2 DEF vars
  <2> QED BY <1>1, <1>2, <2>1, KeepsWhatWasRead DEF vars, trouble
<1>3. ASSUME NEW s \in Stages, Opens(s) PROVE FetchInv'
  <2>1. at # 25
    BY <1>3, PollOrder, WalksAndStages DEF Opens, Here
  <2>2. at' \in at..25
    BY <1>1, <1>3, <2>1 DEF Opens
  <2>3. UNCHANGED <<dev, got, end, raised, silent, late, faults>>
    BY <1>3 DEF Opens, trouble
  <2> QED BY <1>1, <2>2, <2>3, KeepsWhatWasRead
<1>4. ASSUME NEW s \in Stages, Raises(s) PROVE FetchInv'
  BY <1>4, RaisesKeeps
<1>5. ASSUME NEW w \in Walks, WalkStep(w) PROVE FetchInv'
  BY <1>5, WalkStepKeeps
<1>6. CASE FallsSilent
  <2>1. at' \in at..25 /\ faults' \in 0..MaxFaults
    BY <1>1, <1>6, FetchAssumption DEF FallsSilent
  <2>2. UNCHANGED <<dev, got, end, raised>> /\ silent' \in BOOLEAN /\ late' \in BOOLEAN
    BY <1>1, <1>6, Zenon DEF FallsSilent
  <2> QED BY <2>1, <2>2, KeepsWhatWasRead
<1>7. CASE Expires
  <2>1. at' \in at..25 /\ faults' \in 0..MaxFaults
    BY <1>1, <1>7, FetchAssumption DEF Expires
  <2>2. UNCHANGED <<dev, got, end, raised>> /\ silent' \in BOOLEAN /\ late' \in BOOLEAN
    BY <1>1, <1>7, Zenon DEF Expires
  <2> QED BY <2>1, <2>2, KeepsWhatWasRead
<1> QED BY <1>2, <1>3, <1>4, <1>5, <1>6, <1>7 DEF Next, Done

LEMMA FetchInvariant == Spec => []FetchInv
<1> QED BY InitIsFetch, StepKeepsFetch, PTL DEF Spec

\* The state of a poll: a stage that raised has read nothing, no walk is ahead
\* of the poll, and none has more rows of a column than its table.
THEOREM FetchTypeCorrect == Spec => []TypeOK
<1>1. FetchInv => TypeOK
  BY DEF FetchInv
<1> QED BY <1>1, FetchInvariant, PTL

-----------------------------------------------------------------------------
(* Columns: what came of a table is part of it, and all of it if all came. *)

PartOf(column, t) ==
  DOMAIN column \subseteq Indexes(t) /\ \A i \in DOMAIN column : column[i] \in Listed(t, i)

AllOf(column, t) == PartOf(column, t) /\ DOMAIN column = Indexes(t)

\* A table has one value for an index.
LEMMA ListedIsOne ==
  ASSUME NEW t, IsTable(t), NEW i, NEW a \in Listed(t, i), NEW b \in Listed(t, i)
  PROVE  a = b
<1>1. PICK j \in DOMAIN t : t[j][1] = i /\ a = t[j][2]
  BY DEF Listed
<1>2. PICK k \in DOMAIN t : t[k][1] = i /\ b = t[k][2]
  BY DEF Listed
<1>3. j = k
  BY <1>1, <1>2 DEF IsTable
<1> QED BY <1>1, <1>2, <1>3

LEMMA ListedHasIndex ==
  ASSUME NEW t, NEW i, i \in Indexes(t)
  PROVE  \E a : a \in Listed(t, i)
BY DEF Indexes, Listed

LEMMA ColumnsByName ==
  /\ \A w \in IfWalks \cup {"mbase", "mvfdb", "mnames", "mstack", "lbase"} : Columns(w) = {"value"}
  /\ \A w \in Capped : w \in Walks /\ Columns(w) = {"port", "status"}
  /\ Columns("loc") = {"named", "id", "desc"} /\ Columns("rem") = {"sysname", "desc", "id"}
  /\ Columns("arp") = {"mac", "kind"}
BY DEF Columns, Capped, Walks, IfWalks, MacWalks, TopoWalks

LEMMA TableIsRead ==
  ASSUME FetchInv, NEW w \in Walks
  PROVE  IsTable(Table(w)) /\ Len(Table(w)) \in Nat /\ DOMAIN Table(w) = 1..Len(Table(w))
BY TablesAreTables DEF FetchInv, Table

LEMMA ColumnDomain ==
  ASSUME FetchInv, NEW w \in Walks, NEW c \in Columns(w)
  PROVE  /\ DOMAIN ColumnOf(w, c) = {Table(w)[k][1] : k \in 1..got[w][c]}
         /\ got[w][c] \in Nat /\ \A k \in 1..got[w][c] : k \in DOMAIN Table(w)
<1>1. DOMAIN ColumnOf(w, c) = {Table(w)[k][1] : k \in 1..got[w][c]}
  BY DEF ColumnOf
<1>2. PICK rows \in Nat : rows = got[w][c] /\ rows \in 0..Len(Table(w))
  <2>1. got[w] \in [Columns(w) -> 0..Len(Table(w))]
    BY PartsOfTypeOK DEF FetchInv, WalksOK, WalkOK
  <2> QED BY <2>1, TableIsRead
<1>3. \A k \in 1..rows : k \in 1..Len(Table(w))
  BY <1>2, TableIsRead
<1> QED BY <1>1, <1>2, <1>3, TableIsRead

LEMMA ColumnRow ==
  ASSUME FetchInv, NEW w \in Walks, NEW c \in Columns(w), NEW i \in DOMAIN ColumnOf(w, c)
  PROVE  \E k \in DOMAIN Table(w) : Table(w)[k][1] = i /\ ColumnOf(w, c)[i] = Cell(w, c, k)
<1> DEFINE k == CHOOSE k \in 1..got[w][c] : Table(w)[k][1] = i
<1>1. \E j \in 1..got[w][c] : Table(w)[j][1] = i
  BY ColumnDomain
<1>2. k \in 1..got[w][c] /\ Table(w)[k][1] = i
  BY <1>1
<1>3. ColumnOf(w, c)[i] = Cell(w, c, k)
  BY ColumnDomain DEF ColumnOf
<1> QED BY <1>2, <1>3, ColumnDomain

LEMMA ColumnIsPart ==
  ASSUME FetchInv, NEW w \in Walks, "value" \in Columns(w)
  PROVE  PartOf(Column(w), Table(w))
<1>1. ASSUME NEW i \in DOMAIN Column(w) PROVE i \in Indexes(Table(w)) /\ Column(w)[i] \in Listed(Table(w), i)
  <2>1. PICK k \in DOMAIN Table(w) : Table(w)[k][1] = i /\ Column(w)[i] = Cell(w, "value", k)
    BY ColumnRow DEF Column
  <2>2. Cell(w, "value", k) = Table(w)[k][2]
    BY DEF Cell
  <2> QED BY <2>1, <2>2 DEF Indexes, Listed
<1> QED BY <1>1 DEF PartOf

\* Of a table read in lockstep a column has a field of its values.
LEMMA FieldIsListed ==
  ASSUME FetchInv, NEW w \in Walks, NEW c \in Columns(w), c # "value", NEW i \in DOMAIN ColumnOf(w, c)
  PROVE  i \in Indexes(Table(w)) /\ \E a \in Listed(Table(w), i) : ColumnOf(w, c)[i] = a[c]
<1>1. PICK k \in DOMAIN Table(w) : Table(w)[k][1] = i /\ ColumnOf(w, c)[i] = Cell(w, c, k)
  BY ColumnRow
<1>2. Cell(w, c, k) = Table(w)[k][2][c]
  BY DEF Cell
<1>3. Table(w)[k][2] \in Listed(Table(w), i)
  BY <1>1 DEF Listed
<1> QED BY <1>1, <1>2, <1>3 DEF Indexes

LEMMA ColumnIsWhole ==
  ASSUME FetchInv, NEW w \in Walks, NEW c \in Columns(w), Whole({w})
  PROVE  DOMAIN ColumnOf(w, c) = Indexes(Table(w))
<1>1. got[w][c] = Len(Table(w))
  BY DEF Whole
<1> QED BY <1>1, ColumnDomain, TableIsRead DEF Indexes

LEMMA ColumnIsAll ==
  ASSUME FetchInv, NEW w \in Walks, "value" \in Columns(w), Whole({w})
  PROVE  AllOf(Column(w), Table(w))
BY ColumnIsWhole, ColumnIsPart DEF AllOf, Column

LEMMA FieldIsItsValues ==
  ASSUME FetchInv, NEW w \in Walks, NEW c \in Columns(w), c # "value", Whole({w}),
         NEW i, NEW a \in Listed(Table(w), i)
  PROVE  i \in DOMAIN ColumnOf(w, c) /\ ColumnOf(w, c)[i] = a[c]
<1>1. i \in DOMAIN ColumnOf(w, c)
  BY ColumnIsWhole DEF Indexes, Listed
<1>2. PICK b \in Listed(Table(w), i) : ColumnOf(w, c)[i] = b[c]
  BY <1>1, FieldIsListed
<1>3. a = b
  BY ListedIsOne, TableIsRead
<1> QED BY <1>1, <1>2, <1>3

LEMMA ColumnIsFinite ==
  ASSUME FetchInv, NEW w \in Walks, NEW c \in Columns(w)
  PROVE  IsFiniteSet(DOMAIN ColumnOf(w, c))
<1> DEFINE rows == got[w][c]
           f == [k \in 1..rows |-> Table(w)[k][1]]
<1>1. rows \in Nat /\ DOMAIN ColumnOf(w, c) = {Table(w)[k][1] : k \in 1..rows}
  BY ColumnDomain
<1> HIDE DEF rows
<1>2. IsFiniteSet(1..rows)
  BY <1>1, FS_Interval
<1>3. f \in Surjection(1..rows, DOMAIN ColumnOf(w, c))
  BY <1>1 DEF Surjection
<1> HIDE DEF f
<1> QED BY <1>2, <1>3, FS_Surjection

\* Of a column that is part of a table whose values for i are one value, the
\* value is that one.
LEMMA OneValue ==
  ASSUME NEW t, IsTable(t), NEW column, PartOf(column, t), NEW i \in DOMAIN column
  PROVE  Listed(t, i) = {column[i]}
<1>1. column[i] \in Listed(t, i)
  BY DEF PartOf
<1> QED BY <1>1, ListedIsOne

-----------------------------------------------------------------------------
(* Numbers.                                                                *)

LEMMA Least ==
  ASSUME NEW S \in SUBSET Nat, S # {}
  PROVE  \E m \in S : \A j \in S : m <= j
<1> DEFINE R == OpToRel(<, Nat)
<1>1. IsWellFoundedOn(R, Nat)
  BY NatLessThanWellFounded
<1>2. \A x, y \in Nat : x < y => <<x, y>> \in R
  BY DEF OpToRel
<1> HIDE DEF R
<1>3. \E x \in S : \A y \in S : ~(<<y, x>> \in R)
  BY <1>1, WFMin
<1>4. \A x, y \in S : ~(x < y) => y <= x
  OBVIOUS
<1> QED BY <1>2, <1>3, <1>4

\* The element of a finite set with the fewest above it has none above it.
LEMMA MaxOfFinite ==
  ASSUME NEW S \in SUBSET Nat, IsFiniteSet(S), S # {}
  PROVE  Max(S) \in S
<1> DEFINE Above(x) == {y \in S : x < y}
           counts == {Cardinality(Above(x)) : x \in S}
<1>1. \A x \in S : IsFiniteSet(Above(x)) /\ Cardinality(Above(x)) \in Nat
  <2> TAKE x \in S
  <2>1. Above(x) \in SUBSET S
    OBVIOUS
  <2> HIDE DEF Above
  <2> QED BY <2>1, FS_Subset, FS_CardinalityType
<1>2. PICK m \in S : \A x \in S : Cardinality(Above(m)) <= Cardinality(Above(x))
  <2>1. counts \in SUBSET Nat /\ counts # {}
    <3> HIDE DEF Above
    <3> QED BY <1>1
  <2> HIDE DEF Above
  <2>2. PICK k \in counts : \A j \in counts : k <= j
    <3> HIDE DEF counts
    <3> QED BY <2>1, Least
  <2>3. PICK x \in S : k = Cardinality(Above(x))
    OBVIOUS
  <2> QED BY <2>2, <2>3
<1>3. \A x \in S : x <= m
  <2> SUFFICES ASSUME NEW x \in S, m < x PROVE FALSE
    OBVIOUS
  <2>0. x \in Nat /\ m \in Nat /\ ~(x < x) /\ \A y \in S : x < y => m < y
    OBVIOUS
  <2>1. Above(x) \in SUBSET Above(m) /\ x \in Above(m) /\ x \notin Above(x)
    BY <2>0
  <2>2. Above(x) # Above(m)
    BY <2>1
  <2> HIDE DEF Above
  <2>3. Cardinality(Above(x)) <= Cardinality(Above(m)) /\ Cardinality(Above(x)) # Cardinality(Above(m))
    BY <1>1, <2>1, <2>2, FS_Subset
  <2> QED BY <1>1, <1>2, <2>3
<1>4. \A j \in S : m >= j
  BY <1>3
<1> HIDE DEF Above, counts
<1> QED BY <1>4 DEF Max

LEMMA MinOfOne ==
  ASSUME NEW n \in Nat
  PROVE  Min({n}) = n
BY DEF Min

-----------------------------------------------------------------------------
(* Interfaces, from columns that are part of the tables of a device.       *)

LEMMA WhatTheDeviceSays ==
  ASSUME NEW d \in Devices, NEW i \in DOMAIN d.is
  PROVE  /\ i \in Nat /\ i # 0 /\ d.is[i].lag \in Nat /\ Aggregates(d.tables, i) = {d.is[i].lag} \ {0}
         /\ AccessVlans(d.tables, i) = {} => d.is[i].vlan = 0
         /\ AccessVlans(d.tables, i) # {} => AccessVlans(d.tables, i) = {d.is[i].vlan}
         /\ d.is[i].layer = IF i \in Addressed(d.tables) THEN "L3" ELSE "L2"
<1>1. InterfacesAgree(d)
  BY DeviceAssumption
<1>2. d.is[i].layer = IF i \in Addressed(d.tables) THEN "L3" ELSE "L2"
  <2>1. d.is[i] = [lag |-> d.is[i].lag, vlan |-> d.is[i].vlan,
                   layer |-> IF i \in Addressed(d.tables) THEN "L3" ELSE "L2"]
    BY <1>1, Zenon DEF InterfacesAgree
  <2> QED BY <2>1
<1>3. i \in Nat \ {0} /\ d.is[i].lag \in Nat /\ Aggregates(d.tables, i) = {d.is[i].lag} \ {0}
  BY <1>1, Zenon DEF InterfacesAgree
<1>4. IF AccessVlans(d.tables, i) = {} THEN d.is[i].vlan = 0 ELSE AccessVlans(d.tables, i) = {d.is[i].vlan}
  BY <1>1, Zenon DEF InterfacesAgree
<1> QED BY <1>2, <1>3, <1>4

LEMMA StackedAreAggregates ==
  ASSUME NEW d \in Devices, NEW i, NEW stack, NEW type,
         PartOf(stack, d.tables.stack), PartOf(type, d.tables.type),
         NEW x \in StackedUnder(stack, type, i)
  PROVE  x \in Aggregates(d.tables, i)
<1>1. PICK k \in DOMAIN stack : /\ x = k[1] /\ k[2] = i /\ k[2] # 0 /\ k[1] # 0 /\ stack[k] = "active"
                                /\ At(type, k[1], "") = "lag"
  BY DEF StackedUnder
<1>2. k \in Indexes(d.tables.stack) /\ "active" \in Listed(d.tables.stack, k)
  BY <1>1 DEF PartOf
<1>3. "lag" \in Listed(d.tables.type, k[1])
  <2>1. k[1] \in DOMAIN type /\ type[k[1]] = "lag"
    BY <1>1 DEF At
  <2> QED BY <2>1 DEF PartOf
<1> QED BY <1>1, <1>2, <1>3 DEF Aggregates

\* An aggregate ifStackTable names is one the device says it is.
LEMMA StackedIsAggregate ==
  ASSUME NEW d \in Devices, NEW i \in DOMAIN d.is, NEW stack, NEW type,
         PartOf(stack, d.tables.stack), PartOf(type, d.tables.type),
         StackedUnder(stack, type, i) # {}
  PROVE  /\ StackedUnder(stack, type, i) = {d.is[i].lag} /\ d.is[i].lag # 0
         /\ Min(StackedUnder(stack, type, i)) = d.is[i].lag
<1>1. \A x \in StackedUnder(stack, type, i) : x \in Aggregates(d.tables, i)
  BY StackedAreAggregates
<1>2. StackedUnder(stack, type, i) = {d.is[i].lag} /\ d.is[i].lag # 0
  BY <1>1, WhatTheDeviceSays
<1> QED BY <1>2, WhatTheDeviceSays, MinOfOne

LEMMA LagIsItsAggregate ==
  ASSUME NEW d \in Devices, NEW i \in DOMAIN d.is, NEW agg, NEW stack, NEW type,
         PartOf(agg, d.tables.agg), PartOf(stack, d.tables.stack), PartOf(type, d.tables.type)
  PROVE  At(ParseLag(agg, stack, type), i, 0) \in {0, d.is[i].lag}
<1> DEFINE attached == {j \in DOMAIN agg : agg[j] \notin {0, j}}
           stacked == {j \in {key[2] : key \in DOMAIN stack} : StackedUnder(stack, type, j) # {}}
<1>1. /\ DOMAIN ParseLag(agg, stack, type) = attached \cup stacked
      /\ \A j \in attached : ParseLag(agg, stack, type)[j] = agg[j]
      /\ \A j \in stacked \ attached : ParseLag(agg, stack, type)[j] = Min(StackedUnder(stack, type, j))
  BY DEF ParseLag
<1>2. CASE i \in attached
  <2>1. agg[i] \in Aggregates(d.tables, i)
    BY <1>2 DEF PartOf, Aggregates
  <2>2. agg[i] = d.is[i].lag
    BY <2>1, WhatTheDeviceSays
  <2> QED BY <1>1, <1>2, <2>2 DEF At
<1>3. CASE i \in stacked \ attached
  <2>1. Min(StackedUnder(stack, type, i)) = d.is[i].lag
    BY <1>3, StackedIsAggregate
  <2> QED BY <1>1, <1>3, <2>1 DEF At
<1>4. CASE i \notin attached \cup stacked
  BY <1>1, <1>4 DEF At
<1> QED BY <1>2, <1>3, <1>4

LEMMA LagIsFound ==
  ASSUME NEW d \in Devices, NEW i \in DOMAIN d.is, NEW agg, NEW stack, NEW type,
         AllOf(agg, d.tables.agg), AllOf(stack, d.tables.stack), AllOf(type, d.tables.type),
         IsTable(d.tables.agg), IsTable(d.tables.stack), IsTable(d.tables.type)
  PROVE  At(ParseLag(agg, stack, type), i, 0) = d.is[i].lag
<1>1. At(ParseLag(agg, stack, type), i, 0) \in {0, d.is[i].lag}
  BY LagIsItsAggregate DEF AllOf
<1>2. CASE d.is[i].lag = 0
  BY <1>1, <1>2
<1>3. CASE d.is[i].lag # 0
  <2> DEFINE lag == d.is[i].lag
  <2>1. lag \in Aggregates(d.tables, i) /\ lag \in Nat /\ i # 0
    BY <1>3, WhatTheDeviceSays
  <2>2. CASE lag \in Listed(d.tables.agg, i) \ {0, i}
    <3>1. i \in DOMAIN agg
      BY <2>2 DEF AllOf, Indexes, Listed
    <3>2. agg[i] = lag
      BY <2>2, <3>1, OneValue DEF AllOf
    <3> QED BY <2>2, <3>1, <3>2 DEF ParseLag, At
  <2>3. CASE i \in DOMAIN agg /\ agg[i] \notin {0, i}
    <3>1. agg[i] \in Aggregates(d.tables, i)
      BY <2>3 DEF AllOf, PartOf, Aggregates
    <3>2. agg[i] = lag
      BY <3>1, WhatTheDeviceSays
    <3> QED BY <2>3, <3>2 DEF ParseLag, At
  <2>4. CASE lag \notin Listed(d.tables.agg, i) \ {0, i} /\ ~(i \in DOMAIN agg /\ agg[i] \notin {0, i})
    <3>1. PICK x \in Indexes(d.tables.stack) :
            /\ lag = x[1] /\ x[2] = i /\ x[1] # 0
            /\ "active" \in Listed(d.tables.stack, x) /\ "lag" \in Listed(d.tables.type, x[1])
      BY <2>1, <2>4 DEF Aggregates
    <3>2. x \in DOMAIN stack /\ stack[x] = "active"
      <4>1. x \in DOMAIN stack
        BY DEF AllOf
      <4> QED BY <3>1, <4>1, OneValue DEF AllOf
    <3>3. x[1] \in DOMAIN type /\ type[x[1]] = "lag"
      <4>1. x[1] \in DOMAIN type
        BY <3>1 DEF AllOf, Indexes, Listed
      <4> QED BY <3>1, <4>1, OneValue DEF AllOf
    <3>4. x \in {k \in DOMAIN stack : /\ k[2] = i /\ k[2] # 0 /\ k[1] # 0 /\ stack[k] = "active"
                                       /\ At(type, k[1], "") = "lag"}
      BY <2>1, <3>1, <3>2, <3>3 DEF At
    <3>5. lag \in StackedUnder(stack, type, i)
      BY <3>1, <3>4 DEF StackedUnder
    <3>6. Min(StackedUnder(stack, type, i)) = lag
      BY <3>5, StackedIsAggregate DEF AllOf
    <3>7. i \in {j \in {key[2] : key \in DOMAIN stack} : StackedUnder(stack, type, j) # {}}
      BY <3>1, <3>2, <3>5
    <3> QED BY <2>4, <3>6, <3>7 DEF ParseLag, At
  <2> QED BY <2>2, <2>3, <2>4
<1> QED BY <1>2, <1>3

\* The bridge ports on an interface that the two columns have.
PortsOn(base, pvid, i) == {p \in DOMAIN pvid \cap DOMAIN base : base[p] = i}

LEMMA VlanParsed ==
  ASSUME NEW base, NEW pvid, NEW i
  PROVE  At(ParseVlans(base, pvid), i, 0) =
           IF PortsOn(base, pvid, i) = {} THEN 0 ELSE pvid[Max(PortsOn(base, pvid, i))]
BY DEF ParseVlans, PortsOn, At

LEMMA PortIsOnOne ==
  ASSUME NEW d \in Devices, NEW i, NEW base, NEW pvid, IsFiniteSet(DOMAIN base),
         PartOf(base, d.tables.base), PartOf(pvid, d.tables.pvid), PortsOn(base, pvid, i) # {}
  PROVE  pvid[Max(PortsOn(base, pvid, i))] \in AccessVlans(d.tables, i)
<1> DEFINE ports == PortsOn(base, pvid, i)
<1>1. ports \in SUBSET DOMAIN base /\ ports \in SUBSET Nat
  <2>1. InterfacesAgree(d)
    BY DeviceAssumption
  <2>2. Indexes(d.tables.base) \subseteq Nat
    BY <2>1, Zenon DEF InterfacesAgree
  <2> QED BY <2>2 DEF PortsOn, PartOf
<1>2. IsFiniteSet(ports)
  BY <1>1, FS_Subset
<1> DEFINE p == Max(ports)
<1>3. p \in ports
  BY <1>1, <1>2, MaxOfFinite
<1> HIDE DEF p
<1>4. p \in DOMAIN pvid /\ p \in DOMAIN base /\ base[p] = i
  BY <1>3 DEF PortsOn
<1>5. p \in Indexes(d.tables.base) /\ i \in Listed(d.tables.base, p) /\ pvid[p] \in Listed(d.tables.pvid, p)
  BY <1>4 DEF PartOf
<1>6. pvid[p] \in AccessVlans(d.tables, i)
  BY <1>5 DEF AccessVlans
<1> QED BY <1>6 DEF p

LEMMA VlanIsItsVlan ==
  ASSUME NEW d \in Devices, NEW i \in DOMAIN d.is, NEW base, NEW pvid, IsFiniteSet(DOMAIN base),
         PartOf(base, d.tables.base), PartOf(pvid, d.tables.pvid)
  PROVE  At(ParseVlans(base, pvid), i, 0) \in {0, d.is[i].vlan}
<1>1. CASE PortsOn(base, pvid, i) = {}
  BY <1>1, VlanParsed
<1>2. CASE PortsOn(base, pvid, i) # {}
  <2>1. pvid[Max(PortsOn(base, pvid, i))] \in AccessVlans(d.tables, i)
    BY <1>2, PortIsOnOne
  <2>2. AccessVlans(d.tables, i) = {d.is[i].vlan}
    BY <2>1, WhatTheDeviceSays
  <2> QED BY <1>2, <2>1, <2>2, VlanParsed
<1> QED BY <1>1, <1>2

LEMMA VlanIsFound ==
  ASSUME NEW d \in Devices, NEW i \in DOMAIN d.is, NEW base, NEW pvid, IsFiniteSet(DOMAIN base),
         AllOf(base, d.tables.base), AllOf(pvid, d.tables.pvid),
         IsTable(d.tables.base), IsTable(d.tables.pvid)
  PROVE  At(ParseVlans(base, pvid), i, 0) = d.is[i].vlan
<1>1. At(ParseVlans(base, pvid), i, 0) \in {0, d.is[i].vlan}
  BY VlanIsItsVlan DEF AllOf
<1>2. CASE AccessVlans(d.tables, i) = {}
  BY <1>1, <1>2, WhatTheDeviceSays
<1>3. CASE AccessVlans(d.tables, i) # {}
  <2>1. PICK v : v \in AccessVlans(d.tables, i)
    BY <1>3
  <2>2. PICK p \in Indexes(d.tables.base) : i \in Listed(d.tables.base, p) /\ v \in Listed(d.tables.pvid, p)
    BY <2>1 DEF AccessVlans
  <2>3. p \in DOMAIN base /\ base[p] = i
    <3>1. p \in DOMAIN base
      BY DEF AllOf
    <3> QED BY <2>2, <3>1, OneValue DEF AllOf
  <2>4. p \in DOMAIN pvid
    BY <2>2 DEF AllOf, Indexes, Listed
  <2>5. PortsOn(base, pvid, i) # {}
    BY <2>3, <2>4 DEF PortsOn
  <2>6. pvid[Max(PortsOn(base, pvid, i))] \in AccessVlans(d.tables, i)
    BY <2>5, PortIsOnOne DEF AllOf
  <2>7. AccessVlans(d.tables, i) = {d.is[i].vlan}
    BY <1>3, WhatTheDeviceSays
  <2> QED BY <2>5, <2>6, <2>7, VlanParsed
<1> QED BY <1>2, <1>3

-----------------------------------------------------------------------------
(* The report.                                                             *)

IfTableColumns == {"descr", "type", "mac", "name", "alias"}

LEMMA TablesByName ==
  /\ Table("descr") = dev.tables["descr"] /\ Table("type") = dev.tables.type /\ Table("mac") = dev.tables.mac
  /\ Table("ip") = dev.tables.ip /\ Table("base") = dev.tables.base /\ Table("pvid") = dev.tables.pvid
  /\ Table("agg") = dev.tables.agg /\ Table("stack") = dev.tables.stack
  /\ Table("mvfdb") = dev.tables.mvfdb /\ Table("qfdb") = dev.tables.qfdb /\ Table("arp") = dev.tables.arp
  /\ \A c \in IfTableColumns : Table(c) = dev.tables[c]
BY DEF Table, TableOf, IfTableColumns

LEMMA InterfaceWalks ==
  /\ IfTableColumns \subseteq IfWalks /\ IfWalks \subseteq Walks
  /\ {"ip", "base", "pvid", "agg", "stack"} \subseteq IfWalks
BY DEF IfTableColumns, IfWalks, Walks

LEMMA InterfaceColumns ==
  ASSUME FetchInv, NEW w \in IfWalks
  PROVE  /\ PartOf(Column(w), Table(w)) /\ IsTable(Table(w)) /\ IsFiniteSet(DOMAIN Column(w))
         /\ Whole(IfWalks) => AllOf(Column(w), Table(w))
<1>1. w \in Walks /\ "value" \in Columns(w)
  BY InterfaceWalks, ColumnsByName
<1>2. Whole(IfWalks) => Whole({w})
  BY DEF Whole
<1> QED BY <1>1, <1>2, ColumnIsPart, ColumnIsAll, TableIsRead, ColumnIsFinite DEF Column

LEMMA NoInterfaces ==
  raised \cap {"facts", "interfaces"} # {} => Interfaces = <<>> /\ DOMAIN Interfaces = {}
BY DEF Interfaces, Empty

LEMMA InterfaceFields ==
  ASSUME raised \cap {"facts", "interfaces"} = {}
  PROVE  /\ DOMAIN Interfaces = UNION {DOMAIN Column(c) : c \in IfTableColumns}
         /\ \A i \in DOMAIN Interfaces :
              /\ Interfaces[i].lag = At(ParseLag(Column("agg"), Column("stack"), Column("type")), i, 0)
              /\ Interfaces[i].vlan = At(ParseVlans(Column("base"), Column("pvid")), i, 0)
              /\ Interfaces[i].layer = IF i \in Values(Column("ip")) THEN "L3" ELSE "L2"
              /\ Interfaces[i].mac = At(Column("mac"), i, "")
              /\ Interfaces[i].descr = At(Column("descr"), i, "")
              /\ Interfaces[i].alias = At(Column("alias"), i, "")
              /\ Interfaces[i].name = IF At(Column("name"), i, "") # "" THEN At(Column("name"), i, "")
                                      ELSE At(Column("descr"), i, "")
              /\ Interfaces[i].type = IF i \in Values(ParseLag(Column("agg"), Column("stack"), Column("type")))
                                      THEN "lag" ELSE At(Column("type"), i, "")
<1> DEFINE col == [c \in IfTableColumns |-> Column(c)]
           lags == ParseLag(Column("agg"), Column("stack"), Column("type"))
           vlans == ParseVlans(Column("base"), Column("pvid"))
           ips == Column("ip")
<1>1. Interfaces = InterfaceRows(col, ips, vlans, lags)
  BY DEF Interfaces, IfTableColumns
<1>2. DOMAIN col = IfTableColumns /\ \A c \in IfTableColumns : col[c] = Column(c)
  OBVIOUS
<1> HIDE DEF col, lags, vlans, ips
<1>3. /\ DOMAIN Interfaces = UNION {DOMAIN col[c] : c \in DOMAIN col}
      /\ \A i \in DOMAIN Interfaces :
              /\ Interfaces[i].lag = At(lags, i, 0)
              /\ Interfaces[i].vlan = At(vlans, i, 0)
              /\ Interfaces[i].layer = IF i \in Values(ips) THEN "L3" ELSE "L2"
              /\ Interfaces[i].mac = At(col["mac"], i, "")
              /\ Interfaces[i].descr = At(col["descr"], i, "")
              /\ Interfaces[i].alias = At(col["alias"], i, "")
              /\ Interfaces[i].name = IF At(col["name"], i, "") # "" THEN col["name"][i]
                                      ELSE At(col["descr"], i, "")
              /\ Interfaces[i].type = IF i \in Values(lags) THEN "lag" ELSE At(col["type"], i, "")
  BY <1>1 DEF InterfaceRows
<1>4. {DOMAIN col[c] : c \in DOMAIN col} = {DOMAIN Column(c) : c \in IfTableColumns}
  BY <1>2
<1>5. /\ col["mac"] = Column("mac") /\ col["descr"] = Column("descr")
      /\ col["alias"] = Column("alias") /\ col["name"] = Column("name") /\ col["type"] = Column("type")
  BY <1>2 DEF IfTableColumns
<1>6. \A i : At(col["name"], i, "") # "" => col["name"][i] = At(col["name"], i, "")
  BY DEF At
<1> QED BY <1>3, <1>4, <1>5, <1>6 DEF lags, vlans, ips

LEMMA ReportedAreInterfaces ==
  ASSUME FetchInv, NEW i \in DOMAIN Interfaces
  PROVE  i \in DOMAIN dev.is
<1>1. raised \cap {"facts", "interfaces"} = {}
  BY NoInterfaces
<1>2. PICK c \in IfTableColumns : i \in DOMAIN Column(c)
  BY <1>1, InterfaceFields
<1>3. i \in Indexes(dev.tables[c])
  BY <1>2, InterfaceColumns, InterfaceWalks, TablesByName DEF PartOf
<1>4. InterfacesAgree(dev)
  BY DeviceAssumption DEF FetchInv
<1>5. DOMAIN dev.is = UNION {Indexes(dev.tables[x]) : x \in IfTableColumns}
  BY <1>4 DEF InterfacesAgree, IfTableColumns
<1> QED BY <1>3, <1>5

LEMMA AllAreReported ==
  ASSUME FetchInv, InterfacesWhole
  PROVE  DOMAIN Interfaces = DOMAIN dev.is
<1>1. raised \cap {"facts", "interfaces"} = {} /\ Whole(IfWalks)
  BY DEF InterfacesWhole
<1>2. \A c \in IfTableColumns : DOMAIN Column(c) = Indexes(dev.tables[c])
  BY <1>1, InterfaceColumns, InterfaceWalks, TablesByName DEF AllOf
<1>3. DOMAIN Interfaces = UNION {Indexes(dev.tables[c]) : c \in IfTableColumns}
  BY <1>1, <1>2, InterfaceFields
<1>4. InterfacesAgree(dev)
  BY DeviceAssumption DEF FetchInv
<1>5. DOMAIN dev.is = UNION {Indexes(dev.tables[x]) : x \in IfTableColumns}
  BY <1>4 DEF InterfacesAgree, IfTableColumns
<1> QED BY <1>3, <1>5

LEMMA LayerIsRight ==
  ASSUME FetchInv, NEW i \in DOMAIN dev.is
  PROVE  /\ i \in Values(Column("ip")) => dev.is[i].layer = "L3"
         /\ Whole(IfWalks) /\ i \notin Values(Column("ip")) => dev.is[i].layer = "L2"
<1>1. dev \in Devices /\ PartOf(Column("ip"), dev.tables.ip) /\ IsTable(dev.tables.ip)
      /\ (Whole(IfWalks) => AllOf(Column("ip"), dev.tables.ip))
  BY InterfaceColumns, InterfaceWalks, TablesByName DEF FetchInv
<1>2. ASSUME i \in Values(Column("ip")) PROVE i \in Addressed(dev.tables)
  BY <1>1, <1>2 DEF Values, PartOf, Addressed
<1>3. ASSUME Whole(IfWalks), i \in Addressed(dev.tables) PROVE i \in Values(Column("ip"))
  <2>1. PICK a \in Indexes(dev.tables.ip) : i \in Listed(dev.tables.ip, a)
    BY <1>3 DEF Addressed
  <2>2. a \in DOMAIN Column("ip")
    BY <1>1, <1>3 DEF AllOf
  <2>3. Column("ip")[a] = i
    BY <1>1, <2>1, <2>2, OneValue
  <2> QED BY <2>2, <2>3 DEF Values
<1> QED BY <1>1, <1>2, <1>3, WhatTheDeviceSays

LEMMA InterfacesFollow == FetchInv => InterfacesAreRight
<1> SUFFICES ASSUME FetchInv
             PROVE  /\ \A i \in DOMAIN Interfaces :
                         /\ Interfaces[i].lag \in {0, dev.is[i].lag}
                         /\ Interfaces[i].vlan \in {0, dev.is[i].vlan}
                         /\ Interfaces[i].layer \in {"L2", dev.is[i].layer}
                    /\ InterfacesWhole =>
                         dev.is = [i \in DOMAIN Interfaces |->
                                     [lag |-> Interfaces[i].lag, vlan |-> Interfaces[i].vlan,
                                      layer |-> Interfaces[i].layer]]
  BY DEF InterfacesAreRight
<1>0. dev \in Devices
  BY DEF FetchInv
<1>1. /\ PartOf(Column("agg"), dev.tables.agg) /\ PartOf(Column("stack"), dev.tables.stack)
      /\ PartOf(Column("type"), dev.tables.type)
      /\ PartOf(Column("base"), dev.tables.base) /\ PartOf(Column("pvid"), dev.tables.pvid)
      /\ IsFiniteSet(DOMAIN Column("base"))
  BY InterfaceColumns, InterfaceWalks, TablesByName DEF IfTableColumns
<1>2. ASSUME NEW i \in DOMAIN Interfaces
      PROVE  /\ Interfaces[i].lag \in {0, dev.is[i].lag}
             /\ Interfaces[i].vlan \in {0, dev.is[i].vlan}
             /\ Interfaces[i].layer \in {"L2", dev.is[i].layer}
  <2>1. raised \cap {"facts", "interfaces"} = {}
    BY NoInterfaces
  <2>2. i \in DOMAIN dev.is
    BY ReportedAreInterfaces
  <2>3. At(ParseLag(Column("agg"), Column("stack"), Column("type")), i, 0) \in {0, dev.is[i].lag}
    BY <1>0, <1>1, <2>2, LagIsItsAggregate
  <2>4. At(ParseVlans(Column("base"), Column("pvid")), i, 0) \in {0, dev.is[i].vlan}
    BY <1>0, <1>1, <2>2, VlanIsItsVlan
  <2>5. i \in Values(Column("ip")) => dev.is[i].layer = "L3"
    BY <2>2, LayerIsRight
  <2> QED BY <2>1, <2>3, <2>4, <2>5, InterfaceFields
<1>3. ASSUME InterfacesWhole
      PROVE  dev.is = [i \in DOMAIN Interfaces |->
                         [lag |-> Interfaces[i].lag, vlan |-> Interfaces[i].vlan,
                          layer |-> Interfaces[i].layer]]
  <2>1. raised \cap {"facts", "interfaces"} = {} /\ Whole(IfWalks)
    BY <1>3 DEF InterfacesWhole
  <2>2. /\ AllOf(Column("agg"), dev.tables.agg) /\ AllOf(Column("stack"), dev.tables.stack)
        /\ AllOf(Column("type"), dev.tables.type)
        /\ AllOf(Column("base"), dev.tables.base) /\ AllOf(Column("pvid"), dev.tables.pvid)
        /\ IsTable(dev.tables.agg) /\ IsTable(dev.tables.stack) /\ IsTable(dev.tables.type)
        /\ IsTable(dev.tables.base) /\ IsTable(dev.tables.pvid)
    BY <2>1, InterfaceColumns, InterfaceWalks, TablesByName DEF IfTableColumns
  <2>3. DOMAIN Interfaces = DOMAIN dev.is
    BY <1>3, AllAreReported
  <2>4. ASSUME NEW i \in DOMAIN dev.is
        PROVE  dev.is[i].lag = Interfaces[i].lag /\ dev.is[i].vlan = Interfaces[i].vlan
               /\ dev.is[i].layer = Interfaces[i].layer
    <3>1. At(ParseLag(Column("agg"), Column("stack"), Column("type")), i, 0) = dev.is[i].lag
      BY <1>0, <2>2, LagIsFound
    <3>2. At(ParseVlans(Column("base"), Column("pvid")), i, 0) = dev.is[i].vlan
      BY <1>0, <1>1, <2>2, VlanIsFound
    <3>3. dev.is[i].layer = IF i \in Values(Column("ip")) THEN "L3" ELSE "L2"
      BY <2>1, LayerIsRight
    <3> QED BY <2>1, <2>3, <3>1, <3>2, <3>3, InterfaceFields
  <2>5. InterfacesAgree(dev)
    BY <1>0, DeviceAssumption
  <2>6. dev.is = [i \in DOMAIN dev.is |-> dev.is[i]]
    BY <2>5 DEF InterfacesAgree
  <2>7. ASSUME NEW i \in DOMAIN dev.is
        PROVE  dev.is[i] = [lag |-> Interfaces[i].lag, vlan |-> Interfaces[i].vlan, layer |-> Interfaces[i].layer]
    <3>1. dev.is[i] = [lag |-> dev.is[i].lag, vlan |-> dev.is[i].vlan,
                       layer |-> IF i \in Addressed(dev.tables) THEN "L3" ELSE "L2"]
      BY <2>5, Zenon DEF InterfacesAgree
    <3>2. dev.is[i].layer = IF i \in Addressed(dev.tables) THEN "L3" ELSE "L2"
      BY <1>0, WhatTheDeviceSays
    <3> QED BY <2>4, <3>1, <3>2
  <2> QED BY <2>3, <2>6, <2>7
<1> QED BY <1>2, <1>3

-----------------------------------------------------------------------------
(* The hosts of the MAC table.                                             *)

\* What is reported of a host is what the kept forwarding entry says.
LEMMA ReportedIsAnEntry ==
  ASSUME NEW r \in Fdb
  PROVE  \E e \in Entries : /\ r.mac = e.mac /\ r.vlan = e.vlan /\ r.fdb = e.fdb /\ r.status = e.status
                            /\ DropReason(e, OwnMacs(Interfaces)) = ""
<1>1. PICK x \in Unfolded : /\ r.mac = x.mac /\ r.vlan = x.vlan /\ r.fdb = x.fdb /\ r.status = x.status
  <2> DEFINE units == UnitPorts(Column("mstack"), Interfaces)
  <2>1. PICK x \in Unfolded : r = [x EXCEPT !.ifIndex = At(units, @, @)]
    <3> HIDE DEF units
    <3> QED BY DEF Fdb, Folded, units
  <2>2. PICK mac, vlan, fdb, port, status, ifIndex :
          x = [mac |-> mac, vlan |-> vlan, fdb |-> fdb, port |-> port, status |-> status, ifIndex |-> ifIndex]
    BY DEF Unfolded, LearnedRows
  <2> HIDE DEF units
  <2> QED BY <2>1, <2>2
<1>2. PICK e \in Entries : /\ x.mac = e.mac /\ x.vlan = e.vlan /\ x.fdb = e.fdb /\ x.status = e.status
                           /\ DropReason(e, OwnMacs(Interfaces)) = ""
  <2> DEFINE kept == {e \in Entries : DropReason(e, OwnMacs(Interfaces)) = ""}
             map == MapBridgePorts({e.port : e \in kept}, Column("mbase"), Interfaces)
  <2>1. Unfolded = {[mac |-> e.mac, vlan |-> e.vlan, fdb |-> e.fdb, port |-> e.port,
                     status |-> e.status, ifIndex |-> map.of[e.port]] :
                      e \in {k \in kept : k.port \in DOMAIN map.of}}
    BY DEF Unfolded, LearnedRows
  <2> HIDE DEF map, kept
  <2>2. PICK e \in kept : x = [mac |-> e.mac, vlan |-> e.vlan, fdb |-> e.fdb, port |-> e.port,
                               status |-> e.status, ifIndex |-> map.of[e.port]]
    BY <2>1
  <2> QED BY <2>2 DEF kept
<1> QED BY <1>1, <1>2

\* With the interfaces read, the addresses left out are those of the device.
LEMMA OwnAreRead ==
  ASSUME FetchInv, InterfacesWhole
  PROVE  OwnMacs(Interfaces) = OwnAddresses(dev)
<1>1. raised \cap {"facts", "interfaces"} = {} /\ Whole(IfWalks)
  BY DEF InterfacesWhole
<1>2. AllOf(Column("mac"), dev.tables.mac) /\ IsTable(dev.tables.mac)
  BY <1>1, InterfaceColumns, InterfaceWalks, TablesByName DEF IfTableColumns
<1>3. ASSUME NEW m \in OwnAddresses(dev) PROVE m \in OwnMacs(Interfaces)
  <2>1. PICK i \in Indexes(dev.tables.mac) : m \in Listed(dev.tables.mac, i) /\ m \notin {"", "zero"}
    BY <1>3 DEF OwnAddresses
  <2>2. i \in DOMAIN Column("mac")
    BY <1>2 DEF AllOf
  <2>3. Listed(dev.tables.mac, i) = {Column("mac")[i]}
    BY <1>2, <2>2, OneValue DEF AllOf
  <2>4. i \in DOMAIN Interfaces
    BY <1>1, <2>2, InterfaceFields DEF IfTableColumns
  <2>5. Interfaces[i].mac = m
    BY <1>1, <2>1, <2>2, <2>3, <2>4, InterfaceFields DEF At
  <2> QED BY <2>1, <2>4, <2>5 DEF OwnMacs
<1>4. ASSUME NEW m \in OwnMacs(Interfaces) PROVE m \in OwnAddresses(dev)
  <2>1. PICK i \in DOMAIN Interfaces : m = Interfaces[i].mac /\ m \notin {"", "zero"}
    BY <1>4 DEF OwnMacs
  <2>2. m = At(Column("mac"), i, "")
    BY <1>1, <2>1, InterfaceFields
  <2>3. i \in DOMAIN Column("mac") /\ m = Column("mac")[i]
    BY <2>1, <2>2 DEF At
  <2>4. i \in Indexes(dev.tables.mac) /\ m \in Listed(dev.tables.mac, i)
    BY <1>2, <2>3 DEF AllOf, PartOf
  <2> QED BY <2>1, <2>4 DEF OwnAddresses
<1> QED BY <1>3, <1>4

LEMMA OwnAreKnown ==
  ASSUME FetchInv, InterfacesWhole
  PROVE  dev.own \subseteq OwnMacs(Interfaces)
<1> SUFFICES ASSUME NEW m \in dev.own PROVE m \in OwnMacs(Interfaces)
  OBVIOUS
<1>1. AddressesAgree(dev)
  BY DeviceAssumption DEF FetchInv
<1>2. m \in OwnAddresses(dev)
  BY <1>1 DEF AddressesAgree
<1> QED BY <1>2, OwnAreRead

\* A forwarding entry with index i, of either table.
QBridgeEntry(i) ==
  [mac |-> i[2], fdb |-> i[1], vlan |-> VlanOfFdb.of[i[1]],
   port |-> At(Read("qfdb").port, i, 0), status |-> At(Read("qfdb").status, i, "")]

BridgeEntry(i) ==
  [mac |-> i, fdb |-> 0, vlan |-> 0,
   port |-> At(Read("dfdb").port, i, 0), status |-> At(Read("dfdb").status, i, "")]

LEMMA EntriesOfATable ==
  /\ Found("qfdb") => Entries = {QBridgeEntry(i) : i \in Keys(Read("qfdb"))}
  /\ ~Found("qfdb") => Entries = {BridgeEntry(i) : i \in Keys(Read("dfdb"))}
BY Zenon DEF Entries, QBridgeEntry, BridgeEntry

\* An entry that came is one of the device's, its index an FDB and an address.
LEMMA QBridgeIndex ==
  ASSUME FetchInv, NEW x \in Keys(Read("qfdb"))
  PROVE  x \in Indexes(dev.tables.qfdb) /\ x = <<x[1], x[2]>>
<1>1. PICK c \in Columns("qfdb") : x \in DOMAIN ColumnOf("qfdb", c)
  BY DEF Keys, Read
<1>2. c # "value" /\ "qfdb" \in Walks
  BY ColumnsByName DEF Capped
<1>3. x \in Indexes(dev.tables.qfdb)
  BY <1>1, <1>2, FieldIsListed, TablesByName
<1>4. AddressesAgree(dev)
  BY DeviceAssumption DEF FetchInv
<1> QED BY <1>3, <1>4 DEF AddressesAgree

\* A status that did not come was lost, and its walk then did not end "ok".
LEMMA StatusIsItsRow ==
  ASSUME FetchInv, NEW w \in Capped, NEW i \in Keys(Read(w)), NEW a \in Listed(Table(w), i)
  PROVE  \/ At(Read(w).status, i, "") = a.status
         \/ At(Read(w).status, i, "") = "" /\ end[w] \notin {"no", "ok"}
<1> DEFINE status == ColumnOf(w, "status")
<1>0. w \in Walks /\ "status" \in Columns(w) /\ Read(w).status = status /\ IsTable(Table(w))
  BY ColumnsByName, TableIsRead DEF Read
<1>1. CASE i \in DOMAIN status
  <2>1. PICK b \in Listed(Table(w), i) : status[i] = b["status"]
    BY <1>0, <1>1, FieldIsListed
  <2>2. a = b
    BY <1>0, <2>1, ListedIsOne
  <2> QED BY <1>0, <1>1, <2>1, <2>2 DEF At
<1>2. CASE i \notin DOMAIN status /\ end[w] = "ok"
  <2>1. Whole({w})
    BY <1>0, <1>2 DEF FetchInv, OkIsAllOfIt
  <2>2. i \in DOMAIN status
    BY <1>0, <2>1, FieldIsItsValues
  <2> QED BY <1>2, <2>2
<1>3. CASE i \notin DOMAIN status /\ end[w] # "ok"
  <2>1. PICK c \in Columns(w) : i \in DOMAIN ColumnOf(w, c)
    BY DEF Keys, Read
  <2>2. PICK rows \in Nat : rows = got[w][c] /\ i \in {Table(w)[k][1] : k \in 1..rows}
    BY <1>0, <2>1, ColumnDomain
  <2>3. Found(w)
    BY <2>2 DEF Found
  <2>4. end[w] # "no"
    BY <1>0, <2>3, PartsOfTypeOK DEF FetchInv, WalksOK, WalkOK
  <2> QED BY <1>0, <1>3, <2>4 DEF At
<1> QED BY <1>1, <1>2, <1>3

LEMMA HostsFollow == FetchInv => OnlyHostsAreReported
<1> SUFFICES ASSUME FetchInv, NEW r \in Fdb
             PROVE  /\ r.mac \notin GroupMacs
                    /\ r.mac \in dev.own => ~InterfacesWhole
                    /\ StatusesOf(r) \cap {"self", "invalid"} # {} => r.status = "" /\ ~FdbComplete
  BY DEF OnlyHostsAreReported
<1>1. PICK e \in Entries : /\ r.mac = e.mac /\ r.fdb = e.fdb /\ r.status = e.status
                           /\ DropReason(e, OwnMacs(Interfaces)) = ""
  BY ReportedIsAnEntry
<1>2. e.mac \notin GroupMacs /\ e.status \notin {"self", "invalid"} /\ e.mac \notin OwnMacs(Interfaces)
  BY <1>1 DEF DropReason
<1>3. ASSUME NEW w \in Capped, NEW i, NEW a \in Listed(Table(w), i), a.status \in {"self", "invalid"},
             i \in Keys(Read(w)), r.status = At(Read(w).status, i, "")
      PROVE  r.status = "" /\ ~FdbComplete
  <2>1. r.status \notin {"self", "invalid"}
    BY <1>1, <1>2
  <2>2. At(Read(w).status, i, "") = "" /\ end[w] \notin {"no", "ok"}
    BY <1>3, <2>1, StatusIsItsRow
  <2> QED BY <1>3, <2>2 DEF FdbComplete, Ended, Capped, MacWalks
<1>4. ASSUME StatusesOf(r) \cap {"self", "invalid"} # {} PROVE r.status = "" /\ ~FdbComplete
  <2>1. CASE Found("qfdb")
    <3>1. PICK x \in Keys(Read("qfdb")) : e = QBridgeEntry(x)
      BY <2>1, EntriesOfATable
    <3>2. e.mac = x[2] /\ e.fdb = x[1] /\ e.status = At(Read("qfdb").status, x, "")
      BY <3>1 DEF QBridgeEntry
    <3>3. x = <<r.fdb, r.mac>>
      BY <1>1, <3>1, <3>2, QBridgeIndex
    <3>4. PICK a \in Listed(dev.tables.qfdb, x) : a.status \in {"self", "invalid"}
      BY <1>4, <2>1, <3>3 DEF StatusesOf
    <3> QED BY <1>1, <1>3, <3>2, <3>4, TablesByName DEF Capped
  <2>2. CASE ~Found("qfdb")
    <3>1. PICK x \in Keys(Read("dfdb")) : e = BridgeEntry(x)
      BY <2>2, EntriesOfATable
    <3>2. e.mac = x /\ e.status = At(Read("dfdb").status, x, "")
      BY <3>1 DEF BridgeEntry
    <3>3. PICK a \in Listed(dev.tables.dfdb, x) : a.status \in {"self", "invalid"}
      BY <1>1, <1>4, <2>2, <3>2 DEF StatusesOf
    <3> QED BY <1>1, <1>3, <3>2, <3>3 DEF Capped, Table, TableOf
  <2> QED BY <2>1, <2>2
<1> QED BY <1>1, <1>2, <1>4, OwnAreKnown

-----------------------------------------------------------------------------
(* The VLAN of a host.                                                     *)

\* An FDB that one VLAN uses is of that VLAN.
LEMMA OneUser ==
  ASSUME NEW d \in Devices, NEW x \in Indexes(d.tables.qfdb), NEW column, AllOf(column, d.tables.mvfdb),
         IsTable(d.tables.mvfdb), IsFiniteSet(DOMAIN column),
         NEW users, users = {v \in DOMAIN column : ValidVlan(v) /\ column[v] = x[1]}, Cardinality(users) = 1
  PROVE  (CHOOSE v \in users : TRUE) = d.vlanOf[x[1]]
<1>1. users = {v \in Indexes(d.tables.mvfdb) : ValidVlan(v) /\ x[1] \in Listed(d.tables.mvfdb, v)}
  <2>1. \A v \in DOMAIN column : Listed(d.tables.mvfdb, v) = {column[v]}
    BY OneValue DEF AllOf
  <2> QED BY <2>1 DEF AllOf
<1>2. users \in SUBSET DOMAIN column
  OBVIOUS
<1>3. IsFiniteSet(users)
  BY <1>2, FS_Subset
<1>4. PICK v : users = {v}
  BY <1>3, FS_Singleton
<1>5. VlansAgree(d) /\ v \in Indexes(d.tables.mvfdb)
  BY <1>2, <1>4, DeviceAssumption DEF AllOf
<1>6. d.vlanOf[x[1]] = v
  BY <1>1, <1>4, <1>5, Zenon DEF VlansAgree
<1>7. (CHOOSE u \in {v} : TRUE) = v
  OBVIOUS
<1> QED BY <1>4, <1>6, <1>7

LEMMA VlanOfAnFdb ==
  ASSUME FetchInv, NEW x \in Keys(Read("qfdb"))
  PROVE  \/ VlanOfFdb.of[x[1]] \in {0, dev.vlanOf[x[1]]}
         \/ /\ Found("mvfdb") /\ end["mvfdb"] \notin {"no", "ok"}
            /\ x[1] \in Listed(dev.tables.mvfdb, VlanOfFdb.of[x[1]])
<1> DEFINE ids == {i[1] : i \in Keys(Read("qfdb"))}
           column == Column("mvfdb")
           users(f) == {v \in DOMAIN column : ValidVlan(v) /\ column[v] = f}
           listed == \E v \in DOMAIN column : ValidVlan(v)
<1>0. dev \in Devices /\ x[1] \in ids /\ "mvfdb" \in Walks /\ Columns("mvfdb") = {"value"}
  BY ColumnsByName DEF FetchInv, Walks, MacWalks
<1>1. x \in Indexes(dev.tables.qfdb)
  BY QBridgeIndex
<1>2. IsTable(dev.tables.mvfdb) /\ IsFiniteSet(DOMAIN column) /\ PartOf(column, dev.tables.mvfdb)
  BY <1>0, ColumnIsFinite, ColumnIsPart, TableIsRead, TablesByName DEF Column
<1>3. CASE listed
  <2>1. Found("mvfdb")
    <3>1. PICK rows \in Nat : rows = got["mvfdb"]["value"] /\ DOMAIN column = {Table("mvfdb")[k][1] : k \in 1..rows}
      BY <1>0, ColumnDomain DEF Column
    <3>2. rows # 0
      <4> HIDE DEF column
      <4> QED BY <1>3, <3>1
    <3> QED BY <1>0, <3>1, <3>2 DEF Found
  <2>2. VlanOfFdb.of[x[1]] = IF Cardinality(users(x[1])) = 1 THEN CHOOSE v \in users(x[1]) : TRUE ELSE 0
    <3> HIDE DEF users
    <3>1. VlanOfFdb.of = [f \in ids |-> IF Cardinality(users(f)) = 1
                                        THEN CHOOSE v \in users(f) : TRUE ELSE 0]
      BY <1>3 DEF VlanOfFdb, MapFdbVlans, users
    <3> HIDE DEF ids
    <3> QED BY <1>0, <3>1
  <2> DEFINE set == users(x[1])
  <2>3. set = {v \in DOMAIN column : ValidVlan(v) /\ column[v] = x[1]}
    OBVIOUS
  <2> HIDE DEF column, set, users
  <2>4. CASE Cardinality(set) = 1 /\ Whole({"mvfdb"})
    <3>1. AllOf(column, dev.tables.mvfdb)
      BY <1>0, <2>4, ColumnIsAll, TablesByName DEF column
    <3>2. (CHOOSE v \in set : TRUE) = dev.vlanOf[x[1]]
      BY <1>0, <1>1, <1>2, <2>3, <2>4, <3>1, OneUser
    <3> QED BY <2>2, <2>4, <3>2 DEF set
  <2>5. CASE Cardinality(set) = 1 /\ ~Whole({"mvfdb"})
    <3>1. PICK v \in set : v = CHOOSE u \in set : TRUE
      BY <2>5, FS_EmptySet
    <3>2. x[1] \in Listed(dev.tables.mvfdb, v)
      BY <1>2, <2>3, <3>1 DEF PartOf
    <3>3. end["mvfdb"] # "ok"
      BY <1>0, <2>5 DEF FetchInv, OkIsAllOfIt
    <3>4. end["mvfdb"] # "no"
      BY <1>0, <2>1, PartsOfTypeOK DEF FetchInv, WalksOK, WalkOK
    <3> QED BY <2>1, <2>2, <2>5, <3>1, <3>2, <3>3, <3>4 DEF set
  <2>6. CASE Cardinality(set) # 1
    BY <2>2, <2>6 DEF set
  <2> QED BY <2>4, <2>5, <2>6
<1>4. CASE ~listed /\ ids \subseteq Named
  <2>1. VlanOfFdb.of[x[1]] = x[1]
    BY <1>0, <1>4 DEF VlanOfFdb, MapFdbVlans
  <2>2. Unlisted
    BY <1>0, <1>4 DEF Named
  <2>3. PICK rows \in Nat : rows = Len(Table("mvfdb")) /\ ~(rows > 0) /\ DOMAIN Table("mvfdb") = 1..rows
    <3>1. got["mvfdb"]["value"] = Len(Table("mvfdb")) /\ ~(got["mvfdb"]["value"] > 0)
      BY <1>0, <2>2 DEF Unlisted, FetchInv, OkIsAllOfIt, Whole, Found
    <3> QED BY <1>0, <3>1, TableIsRead
  <2>4. DOMAIN Table("mvfdb") = {}
    BY <2>3
  <2>5. Indexes(dev.tables.mvfdb) = {}
    BY <2>4, TablesByName DEF Indexes
  <2>6. VlansAgree(dev)
    BY <1>0, DeviceAssumption
  <2>7. dev.vlanOf[x[1]] = x[1]
    BY <1>1, <2>5, <2>6, Zenon DEF VlansAgree
  <2> QED BY <2>1, <2>7
<1>5. CASE ~listed /\ ~(ids \subseteq Named)
  BY <1>0, <1>5 DEF VlanOfFdb, MapFdbVlans
<1> QED BY <1>3, <1>4, <1>5

LEMMA VlansFollow == FetchInv => VlanIsRight
<1> SUFFICES ASSUME FetchInv, NEW r \in Fdb
             PROVE  \/ r.vlan \in {0, dev.vlanOf[r.fdb]}
                    \/ Found("mvfdb") /\ r.fdb \in Listed(dev.tables.mvfdb, r.vlan) /\ ~FdbComplete
  BY DEF VlanIsRight
<1>1. PICK e \in Entries : r.vlan = e.vlan /\ r.fdb = e.fdb
  BY ReportedIsAnEntry
<1>2. CASE Found("qfdb")
  <2>1. PICK x \in Keys(Read("qfdb")) : e.vlan = VlanOfFdb.of[x[1]] /\ e.fdb = x[1]
    <3>1. \A x : QBridgeEntry(x).vlan = VlanOfFdb.of[x[1]] /\ QBridgeEntry(x).fdb = x[1]
      BY DEF QBridgeEntry
    <3> QED BY <1>2, <3>1, EntriesOfATable
  <2>2. end["mvfdb"] \notin {"no", "ok"} => ~FdbComplete
    BY DEF FdbComplete, Ended, MacWalks
  <2> QED BY <1>1, <2>1, <2>2, VlanOfAnFdb
<1>3. CASE ~Found("qfdb")
  <2>1. e.vlan = 0
    <3>1. \A x : BridgeEntry(x).vlan = 0
      BY DEF BridgeEntry
    <3> QED BY <1>3, <3>1, EntriesOfATable
  <2> QED BY <1>1, <2>1
<1> QED BY <1>2, <1>3

-----------------------------------------------------------------------------
(* The ARP table.                                                          *)

LEMMA ArpFollows == FetchInv => ArpIsWhatItSays
<1> SUFFICES ASSUME FetchInv
             PROVE  /\ ArpComplete => {<<a.ifIndex, a.ip>> : a \in ArpRows(Read("arp"))} = dev.valid
                    /\ \A a \in ArpRows(Read("arp")) : a.kind # "" => <<a.ifIndex, a.ip>> \in dev.valid
  BY DEF ArpIsWhatItSays
<1> DEFINE macs == ColumnOf("arp", "mac")
           kinds == ColumnOf("arp", "kind")
           entries == {b \in DOMAIN macs : At(kinds, b, "") # "invalid"}
           t == dev.tables.arp
           valid == {y \in Indexes(t) : \E v \in Listed(t, y) : v.kind # "invalid"}
           row(b) == [ifIndex |-> b[1], ip |-> b[2], mac |-> macs[b], kind |-> At(kinds, b, "")]
<1>0. /\ "arp" \in Walks /\ dev \in Devices /\ Table("arp") = t
      /\ Columns("arp") = {"mac", "kind"} /\ Read("arp").mac = macs /\ Read("arp").kind = kinds
  BY TablesByName, ColumnsByName DEF FetchInv, Walks, TopoWalks, Read
<1>1. AddressesAgree(dev) /\ IsTable(t)
  BY <1>0, DeviceAssumption, TableIsRead
<1>2. dev.valid = {<<x[1], x[2]>> : x \in valid}
  BY <1>1, Zenon DEF AddressesAgree
<1>3. ASSUME NEW b \in entries, At(kinds, b, "") # "" PROVE b \in valid
  <2>1. b \in DOMAIN kinds /\ kinds[b] # "invalid"
    BY <1>3 DEF At
  <2>2. b \in Indexes(t) /\ \E a \in Listed(t, b) : kinds[b] = a["kind"]
    BY <1>0, <2>1, FieldIsListed
  <2> HIDE DEF t, kinds
  <2> QED BY <2>1, <2>2
<1>4. ASSUME ArpComplete PROVE entries = valid
  <2>1. Whole({"arp"})
    BY <1>0, <1>4 DEF ArpComplete, FetchInv, OkIsAllOfIt
  <2>2. DOMAIN macs = Indexes(t)
    BY <1>0, <2>1, ColumnIsWhole
  <2>3. ASSUME NEW b, NEW a \in Listed(t, b) PROVE At(kinds, b, "") = a.kind
    <3>1. b \in DOMAIN kinds /\ kinds[b] = a["kind"]
      BY <1>0, <2>1, FieldIsItsValues
    <3> QED BY <3>1 DEF At
  <2>4. \A b \in Indexes(t) : \E a : a \in Listed(t, b)
    BY ListedHasIndex
  <2> HIDE DEF macs, kinds, t
  <2> QED BY <2>2, <2>3, <2>4
<1>5. ArpRows(Read("arp")) = {row(b) : b \in entries}
  BY <1>0 DEF ArpRows
<1>6. \A b : /\ row(b).ifIndex = b[1] /\ row(b).ip = b[2] /\ row(b).kind = At(kinds, b, "")
             /\ <<row(b).ifIndex, row(b).ip>> = <<b[1], b[2]>>
  OBVIOUS
<1> HIDE DEF macs, kinds, entries, valid, t, row
<1>7. {<<a.ifIndex, a.ip>> : a \in ArpRows(Read("arp"))} = {<<b[1], b[2]>> : b \in entries}
  <2>1. {<<a.ifIndex, a.ip>> : a \in {row(b) : b \in entries}} = {<<row(b).ifIndex, row(b).ip>> : b \in entries}
    OBVIOUS
  <2>2. {<<row(b).ifIndex, row(b).ip>> : b \in entries} = {<<b[1], b[2]>> : b \in entries}
    BY <1>6
  <2> QED BY <1>5, <2>1, <2>2
<1>8. ASSUME NEW a \in ArpRows(Read("arp")), a.kind # "" PROVE <<a.ifIndex, a.ip>> \in dev.valid
  <2>1. PICK b \in entries : a = row(b)
    BY <1>5
  <2>2. b \in valid
    BY <1>3, <1>6, <1>8, <2>1
  <2> QED BY <1>2, <1>6, <2>1, <2>2
<1> QED BY <1>2, <1>4, <1>7, <1>8

-----------------------------------------------------------------------------
(* The local port of a neighbour.                                          *)

LEMMA AtIsListed ==
  ASSUME NEW t, IsTable(t), NEW column, AllOf(column, t), NEW i
  PROVE  /\ \A text : text # "" => (At(column, i, "") = text <=> text \in Listed(t, i))
         /\ At(column, i, "") = "" <=> Listed(t, i) \subseteq {""}
<1>1. CASE i \in DOMAIN column
  <2>1. Listed(t, i) = {column[i]}
    BY <1>1, OneValue DEF AllOf
  <2> QED BY <1>1, <2>1 DEF At
<1>2. CASE i \notin DOMAIN column
  <2>1. Listed(t, i) = {}
    BY <1>2 DEF AllOf, Indexes, Listed
  <2> QED BY <1>2, <2>1 DEF At
<1> QED BY <1>1, <1>2

\* With the names read, the interfaces that match a text are those that have it.
LEMMA MatchedHaveIt ==
  ASSUME FetchInv, NamesWhole, NEW field \in {"name", "descr", "alias"}, NEW text, text # ""
  PROVE  {i \in DOMAIN Interfaces : Interfaces[i][field] = text} = Having(dev.tables, field, text)
<1> DEFINE matched == {i \in DOMAIN Interfaces : Interfaces[i][field] = text}
           names == dev.tables.name
           descrs == dev.tables["descr"]
           aliases == dev.tables.alias
<1>1. raised \cap {"facts", "interfaces"} = {} /\ Whole({"name", "descr", "alias"})
  BY DEF NamesWhole
<1>2. /\ AllOf(Column("name"), names) /\ AllOf(Column("descr"), descrs) /\ AllOf(Column("alias"), aliases)
      /\ IsTable(names) /\ IsTable(descrs) /\ IsTable(aliases)
  <2>1. ASSUME NEW c \in {"name", "descr", "alias"} PROVE AllOf(Column(c), Table(c)) /\ IsTable(Table(c))
    <3>1. c \in Walks /\ "value" \in Columns(c)
      BY ColumnsByName DEF Walks, IfWalks
    <3>2. Whole({c})
      BY <1>1 DEF Whole
    <3> QED BY <3>1, <3>2, ColumnIsAll, TableIsRead
  <2>2. Table("name") = names /\ Table("descr") = descrs /\ Table("alias") = aliases
    BY DEF Table, TableOf
  <2> QED BY <2>1, <2>2
<1>3. Having(dev.tables, field, text) =
        {i \in Indexes(names) \cup Indexes(descrs) \cup Indexes(aliases) :
           text \in Listed(IF field = "name" /\ Listed(names, i) \subseteq {""} THEN descrs
                           ELSE dev.tables[field], i)}
  <2>1. UNION {Indexes(dev.tables[c]) : c \in {"name", "descr", "alias"}} =
          Indexes(names) \cup Indexes(descrs) \cup Indexes(aliases)
    OBVIOUS
  <2> HIDE DEF names, descrs, aliases
  <2> QED BY <2>1, Zenon DEF Having, names, descrs
<1>4. Indexes(names) \cup Indexes(descrs) \cup Indexes(aliases) \subseteq DOMAIN Interfaces
  <2>1. \A c \in IfTableColumns : DOMAIN Column(c) \subseteq DOMAIN Interfaces
    BY <1>1, InterfaceFields
  <2> QED BY <1>2, <2>1 DEF AllOf, IfTableColumns
<1>5. \A i : text \in Listed(names, i) \/ text \in Listed(descrs, i) \/ text \in Listed(aliases, i)
               => i \in Indexes(names) \cup Indexes(descrs) \cup Indexes(aliases)
  BY DEF Indexes, Listed
<1> HIDE DEF names, descrs, aliases
<1>6. ASSUME NEW i
      PROVE  /\ At(Column("name"), i, "") = text <=> text \in Listed(names, i)
             /\ At(Column("descr"), i, "") = text <=> text \in Listed(descrs, i)
             /\ At(Column("alias"), i, "") = text <=> text \in Listed(aliases, i)
             /\ At(Column("name"), i, "") = "" <=> Listed(names, i) \subseteq {""}
  BY <1>2, AtIsListed
<1>7. CASE field = "name"
  <2>1. dev.tables[field] = names
    BY <1>7 DEF names
  <2>2. ASSUME NEW i \in DOMAIN Interfaces
        PROVE  Interfaces[i][field] = text <=>
                 text \in Listed(IF Listed(names, i) \subseteq {""} THEN descrs ELSE names, i)
    <3>1. Interfaces[i][field] = IF At(Column("name"), i, "") # "" THEN At(Column("name"), i, "")
                                 ELSE At(Column("descr"), i, "")
      BY <1>1, <1>7, InterfaceFields
    <3> QED BY <1>6, <3>1
  <2>3. Having(dev.tables, field, text) =
          {i \in Indexes(names) \cup Indexes(descrs) \cup Indexes(aliases) :
             text \in Listed(IF Listed(names, i) \subseteq {""} THEN descrs ELSE names, i)}
    BY <1>3, <1>7, <2>1
  <2> QED BY <1>4, <1>5, <2>2, <2>3
<1>8. CASE field = "descr"
  <2>1. dev.tables[field] = descrs
    BY <1>8 DEF descrs
  <2>2. ASSUME NEW i \in DOMAIN Interfaces PROVE Interfaces[i][field] = text <=> text \in Listed(descrs, i)
    BY <1>1, <1>6, <1>8, InterfaceFields
  <2>3. Having(dev.tables, field, text) =
          {i \in Indexes(names) \cup Indexes(descrs) \cup Indexes(aliases) : text \in Listed(descrs, i)}
    BY <1>3, <1>8, <2>1
  <2> QED BY <1>4, <1>5, <2>2, <2>3
<1>9. CASE field = "alias"
  <2>1. dev.tables[field] = aliases
    BY <1>9 DEF aliases
  <2>2. ASSUME NEW i \in DOMAIN Interfaces PROVE Interfaces[i][field] = text <=> text \in Listed(aliases, i)
    BY <1>1, <1>6, <1>9, InterfaceFields
  <2>3. Having(dev.tables, field, text) =
          {i \in Indexes(names) \cup Indexes(descrs) \cup Indexes(aliases) : text \in Listed(aliases, i)}
    BY <1>3, <1>9, <2>1
  <2> QED BY <1>4, <1>5, <2>2, <2>3
<1> QED BY <1>7, <1>8, <1>9

LEMMA InterfacesAreFinite ==
  ASSUME FetchInv
  PROVE  IsFiniteSet(DOMAIN Interfaces) /\ DOMAIN Interfaces \in SUBSET Nat
<1>1. DOMAIN Interfaces \in SUBSET Nat
  <2>1. dev \in Devices
    BY DEF FetchInv
  <2> QED BY <2>1, ReportedAreInterfaces, WhatTheDeviceSays
<1>2. CASE raised \cap {"facts", "interfaces"} # {}
  BY <1>1, <1>2, NoInterfaces, FS_EmptySet
<1>3. CASE raised \cap {"facts", "interfaces"} = {}
  <2> DEFINE u == DOMAIN Column("descr") \cup (DOMAIN Column("type") \cup (DOMAIN Column("mac") \cup
                   (DOMAIN Column("name") \cup DOMAIN Column("alias"))))
  <2>1. DOMAIN Interfaces = u
    BY <1>3, InterfaceFields DEF IfTableColumns
  <2>2. /\ IsFiniteSet(DOMAIN Column("descr")) /\ IsFiniteSet(DOMAIN Column("type"))
        /\ IsFiniteSet(DOMAIN Column("mac")) /\ IsFiniteSet(DOMAIN Column("name"))
        /\ IsFiniteSet(DOMAIN Column("alias"))
    BY InterfaceColumns, InterfaceWalks DEF IfTableColumns
  <2>3. IsFiniteSet(u)
    BY <2>2, FS_Union
  <2> QED BY <1>1, <2>1, <2>3
<1> QED BY <1>2, <1>3

\* An interface that matches a text has it, however much of the names came.
LEMMA MatchedIsNamed ==
  ASSUME FetchInv, NEW i \in DOMAIN Interfaces, NEW field \in {"name", "descr", "alias"},
         Interfaces[i][field] # ""
  PROVE  \E f \in {"name", "descr", "alias"} : i \in Having(dev.tables, f, Interfaces[i][field])
<1> DEFINE text == Interfaces[i][field]
<1>1. raised \cap {"facts", "interfaces"} = {}
  BY NoInterfaces
<1>2. ASSUME NEW c \in {"name", "descr", "alias"}, At(Column(c), i, "") = text
      PROVE  text \in Listed(dev.tables[c], i)
  <2>1. i \in DOMAIN Column(c) /\ Column(c)[i] = text
    BY <1>2 DEF At
  <2>2. PartOf(Column(c), dev.tables[c])
    BY InterfaceColumns, InterfaceWalks, TablesByName DEF IfTableColumns
  <2> QED BY <2>1, <2>2 DEF PartOf
<1>3. \E c \in {"name", "descr", "alias"} : At(Column(c), i, "") = text
  BY <1>1, InterfaceFields
<1>4. PICK c \in {"name", "descr", "alias"} : text \in Listed(dev.tables[c], i)
  BY <1>2, <1>3
<1>5. i \in Indexes(dev.tables[c])
  BY <1>4 DEF Indexes, Listed
<1>6. ~(c = "name" /\ Listed(dev.tables.name, i) \subseteq {""})
  BY <1>4
<1>7. text \in Listed(IF c = "name" /\ Listed(dev.tables.name, i) \subseteq {""}
                      THEN dev.tables["descr"] ELSE dev.tables[c], i)
  BY <1>4, <1>6
<1> HIDE DEF text
<1>8. i \in Having(dev.tables, c, text)
  BY <1>5, <1>7 DEF Having
<1> QED BY <1>8 DEF text

\* What an LLDP port is called matches its interface or none, or, not all
\* names having come, one that has the name.
LEMMA MatchIsRight ==
  ASSUME FetchInv, NEW p \in Indexes(dev.tables.loc), NEW a \in Listed(dev.tables.loc, p),
         NEW text \in Texts(a)
  PROVE  \/ MatchInterface(Interfaces, text) \in {0, dev.local[p]}
         \/ IsCalledLike(MatchInterface(Interfaces, text), p) /\ ~NamesWhole
<1> DEFINE named(field) == {i \in DOMAIN Interfaces : Interfaces[i][field] = text}
<1>1. ASSUME text # "", NEW field \in {"name", "descr", "alias"}, Cardinality(named(field)) = 1
      PROVE  \/ Min(named(field)) = dev.local[p]
             \/ IsCalledLike(Min(named(field)), p) /\ ~NamesWhole
  <2>1. named(field) \in SUBSET DOMAIN Interfaces
    OBVIOUS
  <2>2. NamesWhole => named(field) = Having(dev.tables, field, text)
    BY <1>1, MatchedHaveIt
  <2>3. \A i \in named(field) : i \in DOMAIN Interfaces /\ Interfaces[i][field] = text
    OBVIOUS
  <2> HIDE DEF named
  <2>4. IsFiniteSet(named(field))
    BY <2>1, InterfacesAreFinite, FS_Subset
  <2>5. PICK i : named(field) = {i}
    BY <1>1, <2>4, FS_Singleton
  <2>6. i \in DOMAIN Interfaces /\ i \in Nat /\ i \in DOMAIN dev.is /\ Min(named(field)) = i
    BY <2>1, <2>5, InterfacesAreFinite, ReportedAreInterfaces, MinOfOne
  <2>7. ASSUME NamesWhole PROVE dev.local[p] = i
    <3>1. NamesAgree(dev)
      BY DeviceAssumption DEF FetchInv
    <3>3. \A f \in {"name", "descr", "alias"}, j \in DOMAIN dev.is :
            \A x \in Texts(a) : x # "" /\ Having(dev.tables, f, x) = {j} => dev.local[p] = j
      BY <3>1, Zenon DEF NamesAgree
    <3>4. Having(dev.tables, field, text) = {i} /\ text # ""
      BY <1>1, <2>2, <2>5, <2>7
    <3> QED BY <2>6, <3>3, <3>4
  <2>8. IsCalledLike(i, p)
    <3>1. Interfaces[i][field] = text
      BY <2>3, <2>5
    <3>2. PICK f \in {"name", "descr", "alias"} : i \in Having(dev.tables, f, text)
      BY <1>1, <2>6, <3>1, MatchedIsNamed
    <3> QED BY <1>1, <3>2 DEF IsCalledLike
  <2> QED BY <2>6, <2>7, <2>8
<1> QED BY <1>1 DEF MatchInterface

\* A port is called by its columns what its row in the table calls it.
LEMMA CalledAsListed ==
  ASSUME FetchInv, NEW p
  PROVE  /\ At(ColumnOf("loc", "named"), p, FALSE) /\ At(ColumnOf("loc", "id"), p, "") # "" =>
              p \in Indexes(dev.tables.loc) /\
              \E a \in Listed(dev.tables.loc, p) : At(ColumnOf("loc", "id"), p, "") \in Texts(a)
         /\ At(ColumnOf("loc", "desc"), p, "") # "" =>
              p \in Indexes(dev.tables.loc) /\
              \E a \in Listed(dev.tables.loc, p) : At(ColumnOf("loc", "desc"), p, "") \in Texts(a)
<1> DEFINE t == dev.tables.loc
           named == ColumnOf("loc", "named")
           id == ColumnOf("loc", "id")
           desc == ColumnOf("loc", "desc")
<1>0. "loc" \in Walks /\ Table("loc") = t /\ Columns("loc") = {"named", "id", "desc"} /\ IsTable(t)
  BY ColumnsByName, TableIsRead DEF Walks, TopoWalks, Table, TableOf
<1>1. /\ \A i \in DOMAIN named : i \in Indexes(t) /\ \E a \in Listed(t, i) : named[i] = a.named
      /\ \A i \in DOMAIN id : i \in Indexes(t) /\ \E a \in Listed(t, i) : id[i] = a.id
      /\ \A i \in DOMAIN desc : i \in Indexes(t) /\ \E a \in Listed(t, i) : desc[i] = a.desc
  <2>1. ASSUME NEW c \in {"named", "id", "desc"}, NEW i \in DOMAIN ColumnOf("loc", c)
        PROVE  i \in Indexes(t) /\ \E a \in Listed(t, i) : ColumnOf("loc", c)[i] = a[c]
    BY <1>0, FieldIsListed
  <2>2. \A a : a.named = a["named"] /\ a.id = a["id"] /\ a.desc = a["desc"]
    OBVIOUS
  <2> QED BY <2>1, <2>2
<1> HIDE DEF t, named, id, desc
<1>2. ASSUME At(named, p, FALSE), At(id, p, "") # ""
      PROVE  p \in Indexes(t) /\ \E a \in Listed(t, p) : At(id, p, "") \in Texts(a)
  <2>1. p \in DOMAIN id /\ p \in DOMAIN named /\ named[p] /\ At(id, p, "") = id[p]
    BY <1>2 DEF At
  <2>2. PICK a \in Listed(t, p) : id[p] = a.id
    BY <1>1, <2>1
  <2>3. PICK b \in Listed(t, p) : named[p] = b.named
    BY <1>1, <2>1
  <2>4. a = b
    BY <1>0, ListedIsOne
  <2>5. a.named
    BY <2>1, <2>3, <2>4
  <2>6. id[p] \in Texts(a)
    BY <2>2, <2>5 DEF Texts
  <2> QED BY <1>1, <2>1, <2>6
<1>3. ASSUME At(desc, p, "") # ""
      PROVE  p \in Indexes(t) /\ \E a \in Listed(t, p) : At(desc, p, "") \in Texts(a)
  <2>1. p \in DOMAIN desc /\ At(desc, p, "") = desc[p]
    BY <1>3 DEF At
  <2>2. PICK a \in Listed(t, p) : desc[p] = a.desc
    BY <1>1, <2>1
  <2>3. desc[p] \in Texts(a)
    BY <2>2 DEF Texts
  <2> QED BY <1>1, <2>1, <2>3
<1> QED BY <1>2, <1>3 DEF t, named, id, desc

LEMMA LocalPortsFollow == FetchInv => LocalPortIsRight
<1> SUFFICES ASSUME FetchInv, NEW n \in NeighborRows
             PROVE  \/ n.ifIndex \in {0, dev.local[n.port]}
                    \/ IsCalledLike(n.ifIndex, n.port) /\ ~NamesWhole
  BY DEF LocalPortIsRight
<1> DEFINE rem == Read("rem")
           loc == Read("loc")
           base == Column("lbase")
           p == n.port
           id == At(loc.id, p, "")
           desc == At(loc.desc, p, "")
           via == At(base, p, 0)
<1>0. /\ "rem" \in Walks /\ "lbase" \in Walks /\ "value" \in Columns("lbase") /\ "sysname" \in Columns("rem")
      /\ Table("rem") = dev.tables.rem /\ Table("lbase") = dev.tables.base
      /\ rem.sysname = ColumnOf("rem", "sysname") /\ loc.named = ColumnOf("loc", "named")
      /\ loc.id = ColumnOf("loc", "id") /\ loc.desc = ColumnOf("loc", "desc")
  BY ColumnsByName DEF Walks, TopoWalks, Table, TableOf, Read
<1>1. PICK m \in DOMAIN rem.sysname : p = m[1] /\ n.ifIndex = LocalPort(m[1], loc, Interfaces, base)
  <2> DEFINE row(m) == [port |-> m[1], device |-> rem.sysname[m],
                        remote |-> IF At(rem.desc, m, "") # "" THEN rem.desc[m] ELSE At(rem.id, m, ""),
                        ifIndex |-> LocalPort(m[1], loc, Interfaces, base)]
  <2>1. NeighborRows = {row(m) : m \in {x \in DOMAIN rem.sysname : rem.sysname[x] # ""}}
    BY DEF NeighborRows, Neighbors
  <2>2. \A m : row(m).port = m[1] /\ row(m).ifIndex = LocalPort(m[1], loc, Interfaces, base)
    OBVIOUS
  <2> HIDE DEF row, rem, loc, base
  <2> QED BY <2>1, <2>2
<1>2. NamesAgree(dev)
  BY DeviceAssumption DEF FetchInv
<1>3. via \in {0, dev.local[p]}
  <2>1. m \in Indexes(dev.tables.rem)
    BY <1>0, <1>1, FieldIsListed
  <2>2. Listed(dev.tables.base, p) \subseteq {0, dev.local[p]}
    BY <1>1, <1>2, <2>1, Zenon DEF NamesAgree
  <2>3. p \in DOMAIN base => base[p] \in Listed(dev.tables.base, p)
    BY <1>0, ColumnIsPart DEF PartOf
  <2> QED BY <2>2, <2>3 DEF At
<1>4. ASSUME NEW text \in {desc} \cup {x \in {id} : At(loc.named, p, FALSE)}
      PROVE  \/ MatchInterface(Interfaces, text) \in {0, dev.local[p]}
             \/ IsCalledLike(MatchInterface(Interfaces, text), p) /\ ~NamesWhole
  <2>1. CASE text = ""
    BY <2>1 DEF MatchInterface
  <2>2. CASE text # ""
    <3>1. p \in Indexes(dev.tables.loc) /\ \E a \in Listed(dev.tables.loc, p) : text \in Texts(a)
      <4>1. CASE text = desc
        BY <1>0, <2>2, <4>1, CalledAsListed
      <4>2. CASE text = id /\ At(loc.named, p, FALSE)
        BY <1>0, <2>2, <4>2, CalledAsListed
      <4> QED BY <1>4, <4>1, <4>2
    <3> QED BY <3>1, MatchIsRight
  <2> QED BY <2>1, <2>2
<1>5. LocalPort(p, loc, Interfaces, base) \in
        {0, via, MatchInterface(Interfaces, desc)} \cup
        {x \in {MatchInterface(Interfaces, id)} : At(loc.named, p, FALSE)}
  BY DEF LocalPort
<1> HIDE DEF loc, base, id, desc, via
<1> QED BY <1>1, <1>3, <1>4, <1>5

-----------------------------------------------------------------------------
(* A read of the MAC table called complete.  A walk of it that was passed  *)
(* over is excused by what will still be so at the end: the read stopped,  *)
(* or there was no need of the walk.                                       *)

Needed == {"mbase", "qfdb", "dfdb", "mstack"}

Past(w) == \A i \in at..25 : Poll[i] # w

Excused(w) ==
  \/ w = "qfdb" /\ Stopped
  \/ w = "dfdb" /\ (Found("qfdb") \/ Stopped)
  \/ w = "mstack" /\ (Logical(Unfolded, Interfaces) = {} \/ ~CanWalk)

PassedOverIsExcused ==
  raised \cap {"facts", "mactable"} = {} =>
    \A w \in Needed : end[w] = "no" /\ Past(w) => Excused(w)

LEMMA MacWalksInOrder ==
  /\ \A i \in 1..25 : Poll[i] \in MacWalks => i \in 14..19
  /\ \A i \in 20..25 : Poll[i] \in {"topology", "over"} \cup TopoWalks
  /\ Poll[19] = "mstack"
BY DEF Poll, MacWalks, TopoWalks

LEMMA KindsOfWalk ==
  /\ Needed \subseteq MacWalks /\ MacWalks \subseteq Walks /\ IfWalks \subseteq Walks /\ TopoWalks \subseteq Walks
  /\ TopoWalks \cap (MacWalks \cup IfWalks) = {}
BY DEF Needed, Walks, MacWalks, IfWalks, TopoWalks

LEMMA NotMadeIsExcused ==
  ASSUME FetchInv, NEW w \in Needed, ~Made(w)
  PROVE  Excused(w)
BY DEF Needed, Made, Excused

\* A column is what it was if its walk is not the one that ended.
LEMMA ColumnStays ==
  ASSUME NEW w, dev' = dev, got'[w] = got[w]
  PROVE  Column(w)' = Column(w) /\ Read(w)' = Read(w) /\ Found(w)' = Found(w)
<1>1. Table(w)' = Table(w)
  BY DEF Table
<1>2. \A c, k : Cell(w, c, k)' = Cell(w, c, k)
  BY <1>1 DEF Cell
<1>3. \A c : ColumnOf(w, c)' = ColumnOf(w, c)
  BY <1>1, <1>2 DEF ColumnOf
<1> QED BY <1>3 DEF Column, Read, Found

LEMMA RowsStay ==
  ASSUME dev' = dev, raised' = raised, end'["mvfdb"] = end["mvfdb"],
         \A w \in MacWalks \cup IfWalks : got'[w] = got[w]
  PROVE  Unfolded' = Unfolded /\ Interfaces' = Interfaces
<1>1. \A w \in MacWalks \cup IfWalks : Column(w)' = Column(w) /\ Read(w)' = Read(w) /\ Found(w)' = Found(w)
  BY ColumnStays
<1>2. Interfaces' = Interfaces
  <2>1. /\ Column("agg")' = Column("agg") /\ Column("stack")' = Column("stack") /\ Column("type")' = Column("type")
        /\ Column("base")' = Column("base") /\ Column("pvid")' = Column("pvid") /\ Column("ip")' = Column("ip")
    BY <1>1 DEF IfWalks
  <2>2. [c \in {"descr", "type", "mac", "name", "alias"} |-> Column(c)'] =
          [c \in {"descr", "type", "mac", "name", "alias"} |-> Column(c)]
    BY <1>1 DEF IfWalks
  <2> QED BY <2>1, <2>2 DEF Interfaces
<1>3. /\ Read("qfdb")' = Read("qfdb") /\ Read("dfdb")' = Read("dfdb")
      /\ Column("mvfdb")' = Column("mvfdb") /\ Column("mnames")' = Column("mnames")
      /\ Column("mbase")' = Column("mbase")
      /\ Found("qfdb")' = Found("qfdb") /\ Found("mvfdb")' = Found("mvfdb")
  BY <1>1 DEF MacWalks
<1>4. Unlisted' = Unlisted
  BY <1>3 DEF Unlisted
<1>5. Named' = Named
  BY <1>2, <1>3, <1>4 DEF Named
<1>6. VlanOfFdb' = VlanOfFdb
  BY <1>3, <1>5 DEF VlanOfFdb, Keys
<1>7. Entries' = Entries
  BY <1>3, <1>6 DEF Entries, Keys
<1>8. Unfolded' = Unfolded
  BY <1>2, <1>3, <1>7 DEF Unfolded
<1> QED BY <1>2, <1>8

\* What a step is to the walks: one of them ends, or none does and the poll
\* stays, goes on past a walk it does not make, or leaves a stage by an error.
Ends ==
  /\ Poll[at] \in Walks /\ at' = at + 1
  /\ dev' = dev /\ raised' = raised /\ end[Poll[at]] = "no"
  /\ \A w \in Walks : w # Poll[at] => got'[w] = got[w] /\ end'[w] = end[w]
  /\ end'[Poll[at]] # "no"

EndsNone ==
  /\ UNCHANGED <<dev, got, end>>
  /\ \/ raised' = raised /\ at' = at
     \/ raised' = raised /\ at' = at + 1 /\ (Poll[at] \in Walks => ~Made(Poll[at]))
     \/ \E s \in Stages : raised' = raised \cup {s} /\ at = Position(s) /\ at' = AfterRaise(s)

LEMMA BringsEnds ==
  ASSUME FetchInv, NEW w \in Walks, Here(w), NEW n, NEW why, why # "no",
         Brings(w, n, why), dev' = dev, raised' = raised
  PROVE  Ends
<1>0. WalksOK /\ ShapeOK
  BY PartsOfTypeOK DEF FetchInv
<1>1. Poll[at] = w /\ at \in at..25
  BY <1>0 DEF Here, ShapeOK
<1>2. end[w] = "no"
  BY <1>0, <1>1, Zenon DEF WalksOK, WalkOK
<1>3. at' = at + 1 /\ got' = [got EXCEPT ![w] = n] /\ end' = [end EXCEPT ![w] = why]
  BY DEF Brings
<1>4. end'[w] = why /\ \A x \in Walks : x # w => got'[x] = got[x] /\ end'[x] = end[x]
  BY <1>3 DEF FetchInv
<1> QED BY <1>1, <1>2, <1>3, <1>4 DEF Ends

LEMMA StepEndsOneOrNone ==
  ASSUME FetchInv, [Next]_vars
  PROVE  (Ends \/ EndsNone) /\ (late => late')
<1>0. ShapeOK
  BY PartsOfTypeOK DEF FetchInv
<1>1. CASE UNCHANGED vars
  BY <1>1 DEF vars, trouble, EndsNone
<1>2. ASSUME NEW s \in Stages, Opens(s) PROVE EndsNone /\ late' = late
  <2>1. Poll[at] = s /\ at' = at + 1 /\ UNCHANGED <<dev, got, end, raised, late>>
    BY <1>2 DEF Opens, trouble, Here
  <2> QED BY <2>1, WalksAndStages DEF EndsNone
<1>3. ASSUME NEW s \in Stages, Raises(s) PROVE EndsNone /\ late' = late
  <2>1. /\ at \in 1..25 /\ Poll[at] = s /\ at' = AfterRaise(s) /\ raised' = raised \cup {s}
        /\ UNCHANGED <<dev, got, end, late>>
    BY <1>0, <1>3 DEF Raises, Here, ShapeOK
  <2>2. at = Position(s)
    BY <2>1, StagesAreInThePoll, PollIsInOrder
  <2> QED BY <2>1, <2>2 DEF EndsNone
<1>4. ASSUME NEW w \in Walks, WalkStep(w) PROVE (Ends \/ EndsNone) /\ (late => late')
  <2>1. Here(w) /\ Poll[at] = w
    BY <1>4 DEF WalkStep, Here
  <2>2. CASE Reads(w)
    <3>1. Brings(w, [c \in Columns(w) |-> Len(Table(w))], "ok") /\ dev' = dev /\ raised' = raised /\ late' = late
      BY <2>2 DEF Reads, trouble
    <3>2. Ends
      BY <2>1, <3>1, BringsEnds
    <3> QED BY <3>1, <3>2
  <2>3. ASSUME NEW n, NEW why \in {"error", "timeout", "time", "rows"}, Breaks(w, n, why)
        PROVE  Ends /\ (late => late')
    <3>1. Brings(w, n, why) /\ dev' = dev /\ raised' = raised /\ late' = (late \/ why = "time")
      BY <2>3, Zenon DEF Breaks
    <3>2. Ends
      BY <2>1, <3>1, BringsEnds
    <3> QED BY <3>1, <3>2, Zenon
  <2>4. CASE BringsNothing(w)
    <3>1. PICK why \in {"error", "time", "timeout"} :
            Brings(w, [c \in Columns(w) |-> 0], why) /\ dev' = dev /\ raised' = raised /\ late' = late
      BY <2>4 DEF BringsNothing, trouble
    <3>2. Ends
      BY <2>1, <3>1, BringsEnds
    <3> QED BY <3>1, <3>2
  <2>5. CASE PassesOver(w)
    <3>1. ~Made(w) /\ at' = at + 1 /\ UNCHANGED <<dev, got, end, raised, late>>
      BY <2>5 DEF PassesOver, trouble
    <3> QED BY <2>1, <3>1 DEF EndsNone
  <2> QED BY <1>4, <2>2, <2>3, <2>4, <2>5 DEF WalkStep
<1>5. CASE FallsSilent
  BY <1>5 DEF FallsSilent, EndsNone
<1>6. CASE Expires
  <2>1. UNCHANGED <<dev, at, got, end, raised>> /\ late' = TRUE
    BY <1>6, Zenon DEF Expires
  <2>2. EndsNone
    BY <2>1 DEF EndsNone
  <2> QED BY <2>1, <2>2, Zenon
<1> QED BY <1>1, <1>2, <1>3, <1>4, <1>5, <1>6 DEF Next, Done

LEMMA ExcusedStays ==
  ASSUME FetchInv, [Next]_vars, NEW w \in Needed, end[w] = "no", Past(w), raised' = raised, Excused(w)
  PROVE  Excused(w)'
<1>0. at \in 1..25 /\ WalksOK
  BY PartsOfTypeOK DEF FetchInv, ShapeOK
<1>1. (Ends \/ EndsNone) /\ (late => late')
  BY StepEndsOneOrNone
<1>2. ASSUME NEW x \in Walks, end[x] # "no" PROVE end'[x] = end[x] /\ got'[x] = got[x]
  BY <1>1, <1>2 DEF Ends, EndsNone
<1>3. Stopped => Stopped'
  <2> SUFFICES ASSUME NEW x \in MacWalks, end[x] \in {"timeout", "time", "rows"}
               PROVE  end'[x] \in {"timeout", "time", "rows"}
    BY DEF Stopped
  <2> QED BY <1>2, KindsOfWalk
<1>4. ~CanWalk => ~(CanWalk')
  <2>1. ASSUME NEW x \in MacWalks, end[x] = "timeout" PROVE end'[x] = "timeout"
    BY <1>2, <2>1, KindsOfWalk
  <2> QED BY <1>1, <2>1, Zenon DEF CanWalk
<1>5. ASSUME Found("qfdb") PROVE Found("qfdb")'
  <2>1. "qfdb" \in Walks
    BY KindsOfWalk DEF Needed
  <2>2. end["qfdb"] # "no"
    BY <1>0, <1>5, <2>1 DEF WalksOK, WalkOK
  <2> QED BY <1>2, <1>5, <2>1, <2>2 DEF Found
<1>6. ASSUME w = "mstack" PROVE Unfolded' = Unfolded /\ Interfaces' = Interfaces
  <2>1. at \in 20..25
    <3>1. 19 \notin at..25
      BY <1>6, MacWalksInOrder DEF Past
    <3> QED BY <1>0, <3>1
  <2>2. Poll[at] \notin MacWalks \cup IfWalks
    BY <2>1, MacWalksInOrder, KindsOfWalk, WalksAndStages DEF Stages
  <2>3. \A x \in MacWalks \cup IfWalks : got'[x] = got[x] /\ end'[x] = end[x]
    BY <1>1, <2>2, KindsOfWalk DEF Ends, EndsNone
  <2>4. dev' = dev /\ "mvfdb" \in MacWalks
    BY <1>1 DEF Ends, EndsNone, MacWalks
  <2> QED BY <2>3, <2>4, RowsStay
<1>7. CASE w = "qfdb" /\ Stopped
  BY <1>3, <1>7 DEF Excused
<1>8. CASE w = "dfdb" /\ (Found("qfdb") \/ Stopped)
  BY <1>3, <1>5, <1>8 DEF Excused
<1>9. CASE w = "mstack" /\ (Logical(Unfolded, Interfaces) = {} \/ ~CanWalk)
  BY <1>4, <1>6, <1>9 DEF Excused
<1> QED BY <1>7, <1>8, <1>9 DEF Excused

\* The excuse of a walk passed over in this step, of which nothing changes.
LEMMA ExcusedOfTheSame ==
  ASSUME NEW w, Excused(w), UNCHANGED <<dev, got, end, raised>>, late => late'
  PROVE  Excused(w)'
<1>1. Unfolded' = Unfolded /\ Interfaces' = Interfaces
  BY RowsStay
<1>2. Stopped' = Stopped /\ Found("qfdb")' = Found("qfdb")
  BY DEF Stopped, Found
<1>3. ~CanWalk => ~(CanWalk')
  BY Zenon DEF CanWalk
<1> QED BY <1>1, <1>2, <1>3 DEF Excused

LEMMA StepKeepsExcuses ==
  ASSUME FetchInv, PassedOverIsExcused, [Next]_vars
  PROVE  PassedOverIsExcused'
<1>0. at \in 1..25 /\ raised \subseteq Stages
  BY PartsOfTypeOK DEF FetchInv, ShapeOK
<1>1. (Ends \/ EndsNone) /\ (late => late')
  BY StepEndsOneOrNone
<1> SUFFICES ASSUME raised' \cap {"facts", "mactable"} = {}, NEW w \in Needed,
                    end'[w] = "no", \A i \in at'..25 : Poll[i] # w
             PROVE  Excused(w)'
  BY DEF PassedOverIsExcused, Past
<1>2. w \in MacWalks /\ w \in Walks
  BY KindsOfWalk
<1>3. end[w] = "no"
  BY <1>1, <1>2 DEF Ends, EndsNone
<1>4. raised \cap {"facts", "mactable"} = {}
  BY <1>1 DEF Ends, EndsNone
<1>5. CASE Past(w)
  <2>1. Excused(w)
    BY <1>3, <1>4, <1>5 DEF PassedOverIsExcused
  <2>2. CASE raised' = raised
    BY <1>3, <1>5, <2>1, <2>2, ExcusedStays
  <2>3. CASE raised' # raised
    <3>1. PICK s \in Stages : /\ UNCHANGED <<dev, got, end>> /\ raised' = raised \cup {s}
                              /\ at = Position(s)
      BY <1>1, <2>3 DEF Ends, EndsNone
    <3>2. s \in {"interfaces", "topology"}
      BY <3>1 DEF Stages
    <3>3. s = "topology"
      <4>1. ASSUME s = "interfaces" PROVE FALSE
        <5>1. at = 2
          BY <3>1, <4>1, Positions
        <5>2. PICK i \in 14..19 : Poll[i] = w
          BY DEF Needed, Poll
        <5> QED BY <1>5, <5>1, <5>2 DEF Past
      <4> QED BY <3>2, <4>1
    <3>4. Interfaces' = Interfaces /\ Unfolded' = Unfolded
      <4>1. \A x : Column(x)' = Column(x) /\ Read(x)' = Read(x) /\ Found(x)' = Found(x)
        BY <3>1, ColumnStays
      <4>2. raised' \cap {"facts", "interfaces"} = raised \cap {"facts", "interfaces"}
        BY <3>1, <3>3
      <4>3. Interfaces' = Interfaces
        BY <4>1, <4>2 DEF Interfaces
      <4>4. Named' = Named
        BY <3>1, <4>1, <4>3 DEF Named, Unlisted
      <4>5. VlanOfFdb' = VlanOfFdb
        BY <3>1, <4>1, <4>4 DEF VlanOfFdb, Keys
      <4>6. Entries' = Entries
        BY <4>1, <4>5 DEF Entries, Keys
      <4> QED BY <4>1, <4>3, <4>6 DEF Unfolded
    <3>5. Stopped' = Stopped /\ Found("qfdb")' = Found("qfdb")
      BY <3>1 DEF Stopped, Found
    <3>6. ~CanWalk => ~(CanWalk')
      BY <1>1, <3>1, Zenon DEF CanWalk
    <3> QED BY <2>1, <3>1, <3>4, <3>5, <3>6 DEF Excused
  <2> QED BY <2>2, <2>3
<1>6. CASE ~Past(w)
  <2>1. PICK i \in at..25 : Poll[i] = w
    BY <1>6 DEF Past
  <2>2. i \notin at'..25 /\ i \in 14..19
    BY <1>0, <1>2, <2>1, MacWalksInOrder
  <2>3. CASE Ends
    <3>1. i = at
      BY <1>0, <2>1, <2>2, <2>3 DEF Ends
    <3> QED BY <1>2, <2>1, <2>3, <3>1 DEF Ends
  <2>4. CASE EndsNone /\ raised' = raised /\ at' = at
    BY <2>1, <2>2, <2>4
  <2>5. CASE EndsNone /\ raised' = raised /\ at' = at + 1 /\ (Poll[at] \in Walks => ~Made(Poll[at]))
    <3>1. i = at
      BY <1>0, <2>1, <2>2, <2>5
    <3>2. Excused(w)
      BY <1>2, <2>1, <2>5, <3>1, NotMadeIsExcused
    <3> QED BY <1>1, <2>5, <3>2, ExcusedOfTheSame DEF EndsNone
  <2>6. ASSUME NEW s \in Stages, raised' = raised \cup {s}, at = Position(s), at' = AfterRaise(s)
        PROVE  FALSE
    <3>1. s \in {"interfaces", "topology"}
      BY <2>6 DEF Stages
    <3>2. (s = "interfaces" => at' = 13) /\ (s = "topology" => at = 20)
      BY <2>6, Positions, WhereItGoesOn
    <3> QED BY <2>1, <2>2, <3>1, <3>2
  <2> QED BY <1>1, <2>3, <2>4, <2>5, <2>6 DEF EndsNone
<1> QED BY <1>5, <1>6

CompleteInv == FetchInv /\ PassedOverIsExcused

LEMMA CompleteInvariant == Spec => []CompleteInv
<1>1. Init => CompleteInv
  <2> SUFFICES ASSUME Init PROVE CompleteInv
    OBVIOUS
  <2>1. ASSUME NEW w \in Needed PROVE ~Past(w)
    <3>1. \E i \in 1..25 : Poll[i] = w
      BY DEF Poll, Needed
    <3> QED BY <3>1 DEF Past, Init
  <2> QED BY <2>1, InitIsFetch DEF CompleteInv, PassedOverIsExcused
<1>2. CompleteInv /\ [Next]_vars => CompleteInv'
  BY StepKeepsFetch, StepKeepsExcuses DEF CompleteInv
<1> QED BY <1>1, <1>2, PTL DEF Spec

\* What a complete read in time has read whole: all that the hosts are made of.
LEMMA CompleteIsWhole ==
  ASSUME CompleteInv, Over, FdbComplete, ~late
  PROVE  /\ Whole({"mbase"}) /\ Whole({"qfdb"}) /\ (~Found("qfdb") => Whole({"dfdb"}))
         /\ Whole({"mstack"}) \/ Logical(Unfolded, Interfaces) = {}
<1>0. /\ FetchInv /\ PassedOverIsExcused /\ raised \cap {"facts", "mactable"} = {}
      /\ \A w \in MacWalks : end[w] \in {"no", "ok"}
  BY DEF CompleteInv, FdbComplete, Ended
<1>1. at = 25
  BY <1>0, PartsOfTypeOK, PollOrder DEF FetchInv, ShapeOK, Over, Here
<1>2. ASSUME NEW w \in Walks PROVE Past(w)
  BY <1>1, PollOrder, WalksAndStages DEF Past
<1>3. ~Stopped /\ CanWalk
  BY <1>0 DEF Stopped, CanWalk
<1>4. ASSUME NEW w \in Needed PROVE Whole({w}) \/ Excused(w)
  <2>1. w \in MacWalks /\ w \in Walks
    BY KindsOfWalk
  <2>2. CASE end[w] = "ok"
    BY <1>0, <2>1, <2>2 DEF FetchInv, OkIsAllOfIt, Whole
  <2>3. CASE end[w] = "no"
    BY <1>0, <1>2, <2>1, <2>3 DEF PassedOverIsExcused
  <2> QED BY <1>0, <2>1, <2>2, <2>3
<1>5. /\ ~Excused("mbase") /\ ~Excused("qfdb")
      /\ Excused("dfdb") => Found("qfdb")
      /\ Excused("mstack") => Logical(Unfolded, Interfaces) = {}
  BY <1>3 DEF Excused
<1> QED BY <1>4, <1>5 DEF Needed

LEMMA AggregatesRead ==
  ASSUME FetchInv, InterfacesWhole, NEW i, i # 0
  PROVE  i \in Values(ParseLag(Column("agg"), Column("stack"), Column("type")))
           <=> \E j \in DOMAIN dev.is : dev.is[j].lag = i
<1> DEFINE agg == Column("agg")
           stack == Column("stack")
           type == Column("type")
           lags == ParseLag(agg, stack, type)
<1>0. dev \in Devices /\ InterfacesAgree(dev)
  BY DeviceAssumption DEF FetchInv
<1>1. /\ AllOf(agg, dev.tables.agg) /\ AllOf(stack, dev.tables.stack) /\ AllOf(type, dev.tables.type)
      /\ IsTable(dev.tables.agg) /\ IsTable(dev.tables.stack) /\ IsTable(dev.tables.type)
  <2>1. Whole(IfWalks)
    BY DEF InterfacesWhole
  <2> QED BY <2>1, InterfaceColumns, InterfaceWalks, TablesByName DEF IfTableColumns
<1> HIDE DEF agg, stack, type
<1>2. ASSUME NEW j \in DOMAIN dev.is PROVE At(lags, j, 0) = dev.is[j].lag
  BY <1>0, <1>1, LagIsFound
<1>3. ASSUME NEW j \in DOMAIN lags PROVE j \in DOMAIN dev.is
  <2>1. CASE j \in DOMAIN agg /\ agg[j] \notin {0, j}
    <3>1. agg[j] \in Aggregates(dev.tables, j) /\ j \in Indexes(dev.tables.agg)
      BY <1>1, <2>1 DEF AllOf, PartOf, Aggregates
    <3> QED BY <1>0, <3>1 DEF InterfacesAgree
  <2>2. CASE j \in {key[2] : key \in DOMAIN stack} /\ StackedUnder(stack, type, j) # {}
    <3>1. Aggregates(dev.tables, j) # {}
      BY <1>0, <1>1, <2>2, StackedAreAggregates DEF AllOf
    <3>2. j \in {x[2] : x \in Indexes(dev.tables.stack)}
      BY <1>1, <2>2 DEF AllOf
    <3> QED BY <1>0, <3>1, <3>2 DEF InterfacesAgree
  <2> QED BY <1>3, <2>1, <2>2 DEF ParseLag
<1> HIDE DEF lags
<1>4. ASSUME NEW j \in DOMAIN lags, lags[j] = i PROVE \E k \in DOMAIN dev.is : dev.is[k].lag = i
  BY <1>2, <1>3, <1>4 DEF At
<1>5. ASSUME NEW j \in DOMAIN dev.is, dev.is[j].lag = i PROVE j \in DOMAIN lags /\ lags[j] = i
  BY <1>2, <1>5 DEF At
<1>6. i \in Values(lags) <=> \E j \in DOMAIN dev.is : dev.is[j].lag = i
  BY <1>4, <1>5 DEF Values
<1> QED BY <1>6 DEF lags, agg, stack, type

\* With the interfaces read, what passes for a port is one.
LEMMA PortsAreRead ==
  ASSUME FetchInv, InterfacesWhole, NEW i
  PROVE  /\ IsPort(Interfaces, i) <=> IsAPort(dev, i)
         /\ i \in DOMAIN Interfaces <=> i \in DOMAIN dev.is
<1>1. raised \cap {"facts", "interfaces"} = {} /\ Whole(IfWalks)
  BY DEF InterfacesWhole
<1>2. DOMAIN Interfaces = DOMAIN dev.is
  BY AllAreReported
<1>3. ASSUME i \in DOMAIN dev.is PROVE Interfaces[i].type \in {"ethernet", "lag"} <=> IsAPort(dev, i)
  <2> DEFINE lags == Values(ParseLag(Column("agg"), Column("stack"), Column("type")))
             type == At(Column("type"), i, "")
  <2>1. Interfaces[i].type = IF i \in lags THEN "lag" ELSE type
    BY <1>1, <1>2, <1>3, InterfaceFields
  <2>2. i # 0
    BY <1>3, WhatTheDeviceSays DEF FetchInv
  <2>3. i \in lags <=> \E j \in DOMAIN dev.is : dev.is[j].lag = i
    BY <2>2, AggregatesRead
  <2>4. AllOf(Column("type"), dev.tables.type) /\ IsTable(dev.tables.type)
    BY <1>1, InterfaceColumns, InterfaceWalks, TablesByName DEF IfTableColumns
  <2>5. type \in {"ethernet", "lag"} <=> Listed(dev.tables.type, i) \cap {"ethernet", "lag"} # {}
    <3>1. \A text : text # "" => (type = text <=> text \in Listed(dev.tables.type, i))
      BY <2>4, AtIsListed
    <3>2. /\ type = "ethernet" <=> "ethernet" \in Listed(dev.tables.type, i)
          /\ type = "lag" <=> "lag" \in Listed(dev.tables.type, i)
      BY <3>1
    <3> HIDE DEF type
    <3> QED BY <3>2
  <2> HIDE DEF type, lags
  <2> QED BY <1>3, <2>1, <2>3, <2>5 DEF IsAPort
<1> QED BY <1>2, <1>3 DEF IsPort, IsAPort

\* The columns of a forwarding table that was read whole.
LEMMA WholeRows ==
  ASSUME FetchInv, NEW w \in Capped, Whole({w})
  PROVE  /\ Read(w).port = ColumnOf(w, "port") /\ Read(w).status = ColumnOf(w, "status")
         /\ Keys(Read(w)) = Indexes(Table(w)) /\ (Found(w) <=> Len(Table(w)) > 0)
         /\ \A k \in DOMAIN Table(w) : /\ At(ColumnOf(w, "port"), Table(w)[k][1], 0) = Table(w)[k][2].port
                                       /\ At(ColumnOf(w, "status"), Table(w)[k][1], "") = Table(w)[k][2].status
<1>1. w \in Walks /\ Columns(w) = {"port", "status"}
  BY ColumnsByName
<1>2. Read(w).port = ColumnOf(w, "port") /\ Read(w).status = ColumnOf(w, "status")
  BY <1>1 DEF Read
<1>3. DOMAIN ColumnOf(w, "port") = Indexes(Table(w)) /\ DOMAIN ColumnOf(w, "status") = Indexes(Table(w))
  BY <1>1, ColumnIsWhole
<1>4. Keys(Read(w)) = Indexes(Table(w))
  BY <1>1, <1>3 DEF Keys, Read
<1>5. Found(w) <=> Len(Table(w)) > 0
  BY <1>1 DEF Found, Whole
<1>6. ASSUME NEW k \in DOMAIN Table(w)
      PROVE  /\ At(ColumnOf(w, "port"), Table(w)[k][1], 0) = Table(w)[k][2].port
             /\ At(ColumnOf(w, "status"), Table(w)[k][1], "") = Table(w)[k][2].status
  <2>1. Table(w)[k][2] \in Listed(Table(w), Table(w)[k][1])
    BY DEF Listed
  <2>2. \A c \in {"port", "status"} : /\ Table(w)[k][1] \in DOMAIN ColumnOf(w, c)
                                      /\ ColumnOf(w, c)[Table(w)[k][1]] = Table(w)[k][2][c]
    BY <1>1, <2>1, FieldIsItsValues
  <2> QED BY <2>2 DEF At
<1> QED BY <1>2, <1>4, <1>5, <1>6

Forwarding ==
  LET q == dev.tables.qfdb
      b == dev.tables.dfdb
  IN  IF Len(q) > 0
      THEN {[mac |-> q[k][1][2], port |-> q[k][2].port, status |-> q[k][2].status] : k \in DOMAIN q}
      ELSE {[mac |-> b[k][1], port |-> b[k][2].port, status |-> b[k][2].status] : k \in DOMAIN b}

\* The entries read are those of the device, but for what is known of the FDB.
LEMMA EntriesAreForwarding ==
  ASSUME CompleteInv, Over, FdbComplete, ~late
  PROVE  /\ \A e \in Entries : [mac |-> e.mac, port |-> e.port, status |-> e.status] \in Forwarding
         /\ \A f \in Forwarding : \E e \in Entries : f = [mac |-> e.mac, port |-> e.port, status |-> e.status]
<1>0. FetchInv /\ "qfdb" \in Capped /\ "dfdb" \in Capped
  BY DEF CompleteInv, Capped
<1>1. Whole({"qfdb"}) /\ (~Found("qfdb") => Whole({"dfdb"}))
  BY CompleteIsWhole
<1>2. Table("qfdb") = dev.tables.qfdb /\ Table("dfdb") = dev.tables.dfdb
  BY DEF Table, TableOf
<1>3. Found("qfdb") <=> Len(dev.tables.qfdb) > 0
  BY <1>0, <1>1, <1>2, WholeRows
<1>4. CASE Found("qfdb")
  <2> DEFINE t == dev.tables.qfdb
             Port(i) == At(ColumnOf("qfdb", "port"), i, 0)
             Status(i) == At(ColumnOf("qfdb", "status"), i, "")
             entry(i) == [mac |-> i[2], fdb |-> i[1], vlan |-> VlanOfFdb.of[i[1]], port |-> Port(i), status |-> Status(i)]
             whole(k) == [mac |-> t[k][1][2], port |-> t[k][2].port, status |-> t[k][2].status]
  <2>1. \A k \in DOMAIN t : Port(t[k][1]) = t[k][2].port /\ Status(t[k][1]) = t[k][2].status
    BY <1>0, <1>1, <1>2, WholeRows
  <2>2. Entries = {entry(i) : i \in {t[k][1] : k \in DOMAIN t}}
    <3>1. Entries = {entry(i) : i \in Keys(Read("qfdb"))}
      <4>1. \A i : entry(i) = QBridgeEntry(i)
        BY <1>0, <1>1, <1>4, WholeRows DEF QBridgeEntry
      <4> HIDE DEF entry
      <4> QED BY <1>4, <4>1, EntriesOfATable
    <3>2. Keys(Read("qfdb")) = Indexes(t)
      BY <1>0, <1>1, <1>2, WholeRows
    <3> HIDE DEF entry
    <3> QED BY <3>1, <3>2 DEF Indexes
  <2>3. Forwarding = {whole(k) : k \in DOMAIN t}
    BY <1>3, <1>4 DEF Forwarding
  <2>4. \A k \in DOMAIN t : LET e == entry(t[k][1])
                            IN  [mac |-> e.mac, port |-> e.port, status |-> e.status] = whole(k)
    <3> HIDE DEF Port, Status
    <3> QED BY <2>1
  <2> HIDE DEF entry, whole, t
  <2> QED BY <2>2, <2>3, <2>4
<1>5. CASE ~Found("qfdb")
  <2> DEFINE t == dev.tables.dfdb
             Port(i) == At(ColumnOf("dfdb", "port"), i, 0)
             Status(i) == At(ColumnOf("dfdb", "status"), i, "")
             entry(i) == [mac |-> i, fdb |-> 0, vlan |-> 0, port |-> Port(i), status |-> Status(i)]
             whole(k) == [mac |-> t[k][1], port |-> t[k][2].port, status |-> t[k][2].status]
  <2>1. \A k \in DOMAIN t : Port(t[k][1]) = t[k][2].port /\ Status(t[k][1]) = t[k][2].status
    BY <1>0, <1>1, <1>2, <1>5, WholeRows
  <2>2. Entries = {entry(i) : i \in {t[k][1] : k \in DOMAIN t}}
    <3>1. Entries = {entry(i) : i \in Keys(Read("dfdb"))}
      <4>1. \A i : entry(i) = BridgeEntry(i)
        BY <1>0, <1>1, <1>5, WholeRows DEF BridgeEntry
      <4> HIDE DEF entry
      <4> QED BY <1>5, <4>1, EntriesOfATable
    <3>2. Keys(Read("dfdb")) = Indexes(t)
      BY <1>0, <1>1, <1>2, <1>5, WholeRows
    <3> HIDE DEF entry
    <3> QED BY <3>1, <3>2 DEF Indexes
  <2>3. Forwarding = {whole(k) : k \in DOMAIN t}
    BY <1>3, <1>5 DEF Forwarding
  <2>4. \A k \in DOMAIN t : LET e == entry(t[k][1])
                            IN  [mac |-> e.mac, port |-> e.port, status |-> e.status] = whole(k)
    <3> HIDE DEF Port, Status
    <3> QED BY <2>1
  <2> HIDE DEF entry, whole, t
  <2> QED BY <2>2, <2>3, <2>4
<1> QED BY <1>4, <1>5

Kept == {e \in Entries : DropReason(e, OwnMacs(Interfaces)) = ""}

LEMMA KeptAreLearned ==
  ASSUME CompleteInv, Over, FdbComplete, InterfacesWhole, ~late
  PROVE  /\ \A e \in Kept : [mac |-> e.mac, port |-> e.port, status |-> e.status] \in Learned(dev)
         /\ \A f \in Learned(dev) : \E e \in Kept : f = [mac |-> e.mac, port |-> e.port, status |-> e.status]
<1> DEFINE Hosts(e) == /\ e.status \notin {"self", "invalid"} /\ e.mac \notin GroupMacs
                       /\ e.mac \notin OwnAddresses(dev) /\ e.port # 0
<1>1. OwnMacs(Interfaces) = OwnAddresses(dev)
  BY OwnAreRead DEF CompleteInv
<1>2. Learned(dev) = {e \in Forwarding : Hosts(e)}
  BY DEF Learned, Forwarding
<1>3. Kept = {e \in Entries : Hosts(e)}
  <2>1. ASSUME NEW e \in Entries PROVE DropReason(e, OwnAddresses(dev)) = "" <=> Hosts(e)
    BY DEF DropReason
  <2> QED BY <1>1, <2>1 DEF Kept
<1>4. \A e : Hosts([mac |-> e.mac, port |-> e.port, status |-> e.status]) <=> Hosts(e)
  OBVIOUS
<1> HIDE DEF Hosts
<1> QED BY <1>2, <1>3, <1>4, EntriesAreForwarding

-----------------------------------------------------------------------------
(* Where the hosts of a complete read are: the interface of a bridge port, *)
(* and the port a logical unit is folded onto.                             *)

Placed == MapBridgePorts({e.port : e \in Kept}, Column("mbase"), Interfaces).of

\* The port a host was learned on is mapped as the device's own tables say.
LEMMA PortsArePlaced ==
  ASSUME CompleteInv, Over, FdbComplete, InterfacesWhole, ~late, NEW e \in Kept
  PROVE  /\ e.port \in DOMAIN Placed => InterfaceOf(dev, e.port) = {Placed[e.port]}
         /\ e.port \notin DOMAIN Placed => InterfaceOf(dev, e.port) = {}
<1> DEFINE t == dev.tables.base
           c == Column("mbase")
           ports == {k.port : k \in Kept}
           base == {q \in DOMAIN c : q # 0 /\ c[q] # 0}
           p == e.port
<1>1. FetchInv /\ "mbase" \in Walks /\ Table("mbase") = t /\ "value" \in Columns("mbase")
  BY ColumnsByName DEF CompleteInv, Walks, MacWalks, Table, TableOf
<1>2. AllOf(c, t) /\ IsTable(t)
  <2>1. Whole({"mbase"})
    BY CompleteIsWhole
  <2> HIDE DEF t, c
  <2> QED BY <1>1, <2>1, ColumnIsAll, TableIsRead DEF c
<1> HIDE DEF t, c
<1>3. \A q \in DOMAIN c : Listed(t, q) = {c[q]}
  BY <1>2, OneValue DEF AllOf
<1>4. DOMAIN c = Indexes(t) /\ \A q : q \notin DOMAIN c => Listed(t, q) = {}
  BY <1>2 DEF AllOf, Indexes, Listed
<1>5. base # {} <=> \E q \in Indexes(t) \ {0} : 0 \notin Listed(t, q)
  BY <1>3, <1>4
<1>6. e.port # 0 /\ e.port \in ports
  BY DEF Kept, DropReason
<1>7. (\A q \in ports : IsPort(Interfaces, q)) <=> \A f \in Learned(dev) : IsAPort(dev, f.port)
  <2>1. \A q : IsPort(Interfaces, q) <=> IsAPort(dev, q)
    BY <1>1, PortsAreRead
  <2>2. \A k \in Kept : \E f \in Learned(dev) : f.port = k.port
    BY KeptAreLearned
  <2>3. \A f \in Learned(dev) : \E k \in Kept : f.port = k.port
    BY KeptAreLearned
  <2> QED BY <2>1, <2>2, <2>3
<1>8. Placed = IF base # {} THEN [q \in ports \cap base |-> c[q]]
               ELSE IF ports # {} /\ \A q \in ports : IsPort(Interfaces, q) THEN [q \in ports |-> q]
               ELSE <<>>
  BY DEF Placed, MapBridgePorts, Empty, c
<1>9. InterfaceOf(dev, p) = IF \E q \in Indexes(t) \ {0} : 0 \notin Listed(t, q) THEN Listed(t, p) \ {0}
                            ELSE {i \in {p} : \A f \in Learned(dev) : IsAPort(dev, f.port)}
  BY DEF InterfaceOf, t
<1> HIDE DEF ports
<1>10. CASE base # {}
  <2>1. Placed = [q \in ports \cap base |-> c[q]] /\ InterfaceOf(dev, p) = Listed(t, p) \ {0}
    BY <1>5, <1>8, <1>9, <1>10
  <2>2. CASE p \in base
    BY <1>3, <1>6, <2>1, <2>2
  <2>3. CASE p \notin base
    BY <1>3, <1>4, <1>6, <2>1, <2>3
  <2> QED BY <2>2, <2>3
<1>11. CASE base = {}
  <2>1. Placed = IF \A q \in ports : IsPort(Interfaces, q) THEN [q \in ports |-> q] ELSE <<>>
    BY <1>6, <1>8, <1>11
  <2>2. InterfaceOf(dev, p) = IF \A q \in ports : IsPort(Interfaces, q) THEN {p} ELSE {}
    BY <1>5, <1>7, <1>9, <1>11
  <2> QED BY <1>6, <2>1, <2>2
<1> QED BY <1>10, <1>11

Units == UnitPorts(Column("mstack"), Interfaces)

\* The ports unit i is stacked on, as they were read.
PortsBelow(i) ==
  {k[2] : k \in {key \in DOMAIN Column("mstack") : /\ key[1] = i /\ Column("mstack")[key] = "active"
                                                   /\ IsPort(Interfaces, key[2])}}

LEMMA UnitsByPortsBelow ==
  /\ DOMAIN Units = {j \in DOMAIN Interfaces : ~IsPort(Interfaces, j) /\ Cardinality(PortsBelow(j)) = 1}
  /\ \A i \in DOMAIN Units : Units[i] = CHOOSE p \in PortsBelow(i) : TRUE
BY DEF Units, UnitPorts, PortsBelow

LEMMA BelowIsFinite ==
  ASSUME FetchInv, NEW i
  PROVE  IsFiniteSet(PortsBelow(i))
<1> DEFINE keys == {key \in DOMAIN Column("mstack") : /\ key[1] = i /\ Column("mstack")[key] = "active"
                                                      /\ IsPort(Interfaces, key[2])}
           f == [k \in keys |-> k[2]]
<1>1. "mstack" \in Walks /\ "value" \in Columns("mstack")
  BY ColumnsByName DEF Walks, MacWalks
<1>2. IsFiniteSet(keys)
  <2>1. IsFiniteSet(DOMAIN Column("mstack"))
    BY <1>1, ColumnIsFinite DEF Column
  <2> QED BY <2>1, FS_Subset
<1>3. PortsBelow(i) = {k[2] : k \in keys}
  BY DEF PortsBelow
<1> HIDE DEF keys
<1>4. f \in Surjection(keys, PortsBelow(i))
  BY <1>3 DEF Surjection
<1> HIDE DEF f
<1> QED BY <1>2, <1>4, FS_Surjection

\* The interface a host is seen on is folded as the device's stack says.
LEMMA UnitsAreFolded ==
  ASSUME CompleteInv, Over, FdbComplete, InterfacesWhole, ~late, NEW r \in Unfolded
  PROVE  Behind(dev, r.ifIndex) = {At(Units, r.ifIndex, r.ifIndex)}
<1> DEFINE t == dev.tables.stack
           c == Column("mstack")
           i == r.ifIndex
           below == {x[2] : x \in {y \in Indexes(t) : /\ y[1] = i /\ IsAPort(dev, y[2])
                                                      /\ "active" \in Listed(t, y)}}
<1>1. FetchInv /\ "mstack" \in Walks /\ Table("mstack") = t /\ "value" \in Columns("mstack")
  BY ColumnsByName DEF CompleteInv, Walks, MacWalks, Table, TableOf
<1>2. \A q : /\ IsPort(Interfaces, q) <=> IsAPort(dev, q)
             /\ q \in DOMAIN Interfaces <=> q \in DOMAIN dev.is
  BY <1>1, PortsAreRead
<1>3. Behind(dev, i) = IF i \in DOMAIN dev.is /\ ~IsAPort(dev, i) /\ \E p \in below : below = {p} THEN below ELSE {i}
  BY DEF Behind
<1> SUFFICES Behind(dev, i) = {At(Units, i, i)}
  OBVIOUS
<1> HIDE DEF i
<1>4. CASE i \notin DOMAIN dev.is \/ IsAPort(dev, i)
  BY <1>2, <1>3, <1>4, UnitsByPortsBelow DEF At
<1>5. CASE i \in DOMAIN dev.is /\ ~IsAPort(dev, i)
  <2>1. Whole({"mstack"})
    <3>1. i \in Logical(Unfolded, Interfaces)
      BY <1>2, <1>5 DEF Logical, i
    <3> QED BY <3>1, CompleteIsWhole
  <2>2. AllOf(c, t) /\ IsTable(t)
    <3> HIDE DEF c, t
    <3> QED BY <1>1, <2>1, ColumnIsAll, TableIsRead DEF c
  <2>3. PortsBelow(i) = {k[2] : k \in {key \in DOMAIN c : key[1] = i /\ c[key] = "active" /\ IsPort(Interfaces, key[2])}}
    BY DEF PortsBelow
  <2> HIDE DEF c, t
  <2>4. DOMAIN c = Indexes(t) /\ \A y \in DOMAIN c : "active" \in Listed(t, y) <=> c[y] = "active"
    <3>1. \A y \in DOMAIN c : Listed(t, y) = {c[y]}
      BY <2>2, OneValue DEF AllOf
    <3> QED BY <2>2, <3>1 DEF AllOf
  <2>5. {y \in Indexes(t) : y[1] = i /\ IsAPort(dev, y[2]) /\ "active" \in Listed(t, y)}
          = {key \in DOMAIN c : key[1] = i /\ c[key] = "active" /\ IsPort(Interfaces, key[2])}
    BY <1>2, <2>4
  <2>6. PortsBelow(i) = below
    BY <2>3, <2>5
  <2> HIDE DEF below
  <2>7. Cardinality(below) = 1 <=> \E p \in below : below = {p}
    <3>1. IsFiniteSet(below)
      BY <1>1, <2>6, BelowIsFinite
    <3>2. Cardinality(below) = 1 <=> \E p : below = {p}
      BY <3>1, FS_Singleton
    <3> QED BY <3>2
  <2>8. CASE Cardinality(below) = 1
    <3>1. i \in DOMAIN Units /\ Units[i] = CHOOSE p \in below : TRUE
      BY <1>2, <1>5, <2>6, <2>8, UnitsByPortsBelow
    <3>2. PICK p \in below : below = {p}
      BY <2>7, <2>8
    <3>3. Units[i] = p
      BY <3>1, <3>2
    <3> QED BY <1>3, <1>5, <3>1, <3>2, <3>3 DEF At
  <2>9. CASE Cardinality(below) # 1
    BY <1>3, <1>5, <2>6, <2>7, <2>9, UnitsByPortsBelow DEF At
  <2> QED BY <2>8, <2>9
<1> QED BY <1>4, <1>5

LEMMA HostsFollowTables == CompleteInv => HostsAreWhereTheyAre
<1> SUFFICES ASSUME CompleteInv, Over, FdbComplete, InterfacesWhole, ~late
             PROVE  {<<r.mac, r.ifIndex>> : r \in Fdb} = dev.hosts
  BY DEF HostsAreWhereTheyAre
<1> DEFINE row(e) == [mac |-> e.mac, vlan |-> e.vlan, fdb |-> e.fdb, port |-> e.port,
                      status |-> e.status, ifIndex |-> Placed[e.port]]
           on == {k \in Kept : k.port \in DOMAIN Placed}
<1>1. Unfolded = {row(e) : e \in on}
  BY DEF Unfolded, LearnedRows, Kept, Placed
<1>2. Fdb = {[x EXCEPT !.ifIndex = At(Units, @, @)] : x \in Unfolded}
  BY DEF Fdb, Folded, Units
<1>3. dev.hosts = UNION {{<<f.mac, j>> : j \in UNION {Behind(dev, i) : i \in InterfaceOf(dev, f.port)}}
                            : f \in Learned(dev)}
  BY DeviceAssumption DEF CompleteInv, FetchInv, HostsAgree
<1>4. ASSUME NEW e \in on
      PROVE  /\ row(e) \in Unfolded
             /\ {<<e.mac, j>> : j \in UNION {Behind(dev, i) : i \in InterfaceOf(dev, e.port)}}
                  = {<<e.mac, At(Units, Placed[e.port], Placed[e.port])>>}
             /\ [row(e) EXCEPT !.ifIndex = At(Units, @, @)].mac = e.mac
             /\ [row(e) EXCEPT !.ifIndex = At(Units, @, @)].ifIndex = At(Units, Placed[e.port], Placed[e.port])
  <2>1. row(e) \in Unfolded
    BY <1>1
  <2>2. InterfaceOf(dev, e.port) = {Placed[e.port]}
    BY PortsArePlaced
  <2>3. Behind(dev, Placed[e.port]) = {At(Units, Placed[e.port], Placed[e.port])}
    BY <2>1, UnitsAreFolded
  <2> QED BY <2>1, <2>2, <2>3
<1> HIDE DEF row
<1>5. ASSUME NEW f \in Learned(dev), NEW h \in {<<f.mac, j>> : j \in UNION {Behind(dev, i) : i \in InterfaceOf(dev, f.port)}}
      PROVE  h \in {<<r.mac, r.ifIndex>> : r \in Fdb}
  <2>1. PICK e \in Kept : f.mac = e.mac /\ f.port = e.port
    BY KeptAreLearned
  <2>2. e.port \in DOMAIN Placed
    BY <2>1, PortsArePlaced
  <2>3. h = <<e.mac, At(Units, Placed[e.port], Placed[e.port])>>
    BY <1>4, <2>1, <2>2
  <2>4. [row(e) EXCEPT !.ifIndex = At(Units, @, @)] \in Fdb
    BY <1>2, <1>4, <2>2
  <2> QED BY <1>4, <2>2, <2>3, <2>4
<1>6. ASSUME NEW r \in Fdb
      PROVE  \E f \in Learned(dev) :
               <<r.mac, r.ifIndex>> \in {<<f.mac, j>> : j \in UNION {Behind(dev, i) : i \in InterfaceOf(dev, f.port)}}
  <2>1. PICK e \in on : r = [row(e) EXCEPT !.ifIndex = At(Units, @, @)]
    BY <1>1, <1>2
  <2>2. r.mac = e.mac /\ r.ifIndex = At(Units, Placed[e.port], Placed[e.port])
    BY <1>4, <2>1
  <2>3. PICK f \in Learned(dev) : f.mac = e.mac /\ f.port = e.port
    BY KeptAreLearned
  <2> DEFINE place == At(Units, Placed[e.port], Placed[e.port])
  <2>4. {<<e.mac, j>> : j \in UNION {Behind(dev, i) : i \in InterfaceOf(dev, e.port)}} = {<<e.mac, place>>}
    BY <1>4
  <2>5. {<<f.mac, j>> : j \in UNION {Behind(dev, i) : i \in InterfaceOf(dev, f.port)}} = {<<e.mac, place>>}
    BY <2>3, <2>4
  <2> HIDE DEF place
  <2>6. <<r.mac, r.ifIndex>> = <<e.mac, place>>
    BY <2>2 DEF place
  <2> QED BY <2>5, <2>6
<1> QED BY <1>3, <1>5, <1>6

-----------------------------------------------------------------------------

\* Whichever walks fail, an interface is put in no aggregate and no VLAN it is
\* not in and is not called L3 without an address; if all are whole, the rows
\* are those of the device.
THEOREM InterfacesAreTheDevices == Spec => []InterfacesAreRight
<1> QED BY InterfacesFollow, FetchInvariant, PTL

\* A MAC table called complete, its interfaces read and time left, has every
\* host the whole tables of the device have, each on its port, and no other.
THEOREM CompleteIsEveryHost == Spec => []HostsAreWhereTheyAre
<1> QED BY HostsFollowTables, CompleteInvariant, PTL

\* However little was read, no row of the MAC table is a group address or, its
\* addresses being known, the device's own.  An entry the device calls its own
\* gets by only where its status was lost on the way, and then of a read that
\* is not called complete.
THEOREM HostsAreNotTheDevice == Spec => []OnlyHostsAreReported
<1> QED BY HostsFollow, FetchInvariant, PTL

\* A row has a VLAN only if it is its VLAN, with dot1qVlanFdbId read, failed or
\* absent; broken off half way it may give one of several VLANs of the FDB, of
\* a read that is not called complete.  That a device without the table numbers
\* its FDBs by VLAN, as the code takes it to, is assumed (VlansAgree).
THEOREM VlansAreTheDevices == Spec => []VlanIsRight
<1> QED BY VlansFollow, FetchInvariant, PTL

\* A neighbour's local port is its interface or is left open, or, of a read
\* that lost names, is an interface with a name the port goes by.  That no
\* other interface alone has the name of a port is assumed (NamesAgree).
THEOREM LocalPortsAreTheDevices == Spec => []LocalPortIsRight
<1> QED BY LocalPortsFollow, FetchInvariant, PTL

\* An ARP table called complete is that of the device, and what it has of one
\* cut short is in it.
THEOREM ArpIsTheDevices == Spec => []ArpIsWhatItSays
<1> QED BY ArpFollows, FetchInvariant, PTL
=============================================================================
