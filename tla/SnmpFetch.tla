------------------------------ MODULE SnmpFetch ------------------------------
(***************************************************************************)
(* fetch_snmp of danbyte_checks/snmp_facts.py: one poll of one device.     *)
(* The system facts, then three stages, each a sequence of walks any of    *)
(* which may end early with what it has read: the interfaces, the MAC      *)
(* table (here its default context: mac_vlan_contexts "off") and LLDP with *)
(* ARP.  What the poll reports is computed from the rows that came         *)
(* (SnmpTables).                                                           *)
(*                                                                         *)
(* A table of the device is a sequence of <<index, value>> in the order of *)
(* their OIDs, a value being a record where the table is read in lockstep. *)
(* A walk brings the first rows of each column, and if it ends early not   *)
(* of each the same number (TableWalk!FirstRowsOfEach).                    *)
(***************************************************************************)
EXTENDS SnmpTables, Sequences

CONSTANTS
  Devices,      \* the devices polled: their tables, and what is true of them
  MaxFaults     \* bound: things that go wrong in one poll

ASSUME FetchAssumption == MaxFaults \in Nat

VARIABLES
  dev,       \* the device
  at,        \* how far the poll is, a position in Poll
  got,       \* got[w][c]: how many rows of column c walk w brought
  end,       \* end[w]: "no" (not made), "ok", or why it ended early
  raised,    \* the stages that raised SnmpFactsError
  silent,    \* the device has stopped answering
  late,      \* mac_budget_s is over
  faults     \* things that have gone wrong

trouble == <<raised, silent, late, faults>>
vars == <<dev, at, got, end, trouble>>

\* The walks of each stage.  The columns nothing is decided by (counters,
\* speeds, states, VLAN names of an interface) are left out.
IfWalks == {"descr", "type", "mac", "name", "alias", "ip", "base", "pvid", "agg", "stack"}
MacWalks == {"mbase", "mvfdb", "qfdb", "mnames", "dfdb", "mstack"}
TopoWalks == {"loc", "rem", "lbase", "arp"}
Walks == IfWalks \cup MacWalks \cup TopoWalks

\* The stages and their walks, in the order they are made.
Stages == {"facts", "interfaces", "mactable", "topology"}
Poll == <<"facts",
          "interfaces", "descr", "type", "mac", "name", "alias", "ip", "base", "pvid", "agg", "stack",
          "mactable", "mbase", "mvfdb", "qfdb", "mnames", "dfdb", "mstack",
          "topology", "loc", "rem", "lbase", "arp", "over">>
Position(x) == CHOOSE i \in DOMAIN Poll : Poll[i] = x

\* The table a walk reads.
TableOf(w) == IF w \in {"mbase", "lbase"} THEN "base"
              ELSE IF w = "mstack" THEN "stack" ELSE w
Table(w) == dev.tables[TableOf(w)]

Mac(w) == w \in MacWalks
Capped == {"qfdb", "dfdb"}

\* The columns of a table read in lockstep; others have one.
Columns(w) ==
  CASE w \in Capped -> {"port", "status"}
    [] w = "loc" -> {"named", "id", "desc"}
    [] w = "rem" -> {"sysname", "desc", "id"}
    [] w = "arp" -> {"mac", "kind"}
    [] w \in Walks \ (Capped \cup {"loc", "rem", "arp"}) -> {"value"}

-----------------------------------------------------------------------------
(* The devices: that their tables are tables, which agree with one another *)
(* and with what is true.  A theorem about a report starts from here.      *)

IsTable(t) ==
  /\ Len(t) \in Nat /\ DOMAIN t = 1..Len(t)
  /\ \A j, k \in DOMAIN t : t[j][1] = t[k][1] => j = k

\* The indexes of a table, and the values it has for index i.
Indexes(t) == {t[k][1] : k \in DOMAIN t}
Listed(t, i) == {t[k][2] : k \in {j \in DOMAIN t : t[j][1] = i}}

\* The aggregates interface i is in, by the LAG MIB and by ifStackTable.
Aggregates(t, i) ==
  (Listed(t.agg, i) \ {0, i}) \cup
  {x[1] : x \in {y \in Indexes(t.stack) : /\ y[2] = i /\ y[2] # 0 /\ y[1] # 0
                                          /\ "active" \in Listed(t.stack, y)
                                          /\ "lag" \in Listed(t.type, y[1])}}

\* The access VLANs of the bridge ports on interface i.
AccessVlans(t, i) == UNION {Listed(t.pvid, p) : p \in {q \in Indexes(t.base) : i \in Listed(t.base, q)}}

Addressed(t) == UNION {Listed(t.ip, a) : a \in Indexes(t.ip)}

\* An interface is in one aggregate and one VLAN at most, 0 being none; and
\* what is in an aggregate is an interface.
InterfacesAgree(d) ==
  /\ d.is = [i \in UNION {Indexes(d.tables[c]) : c \in {"descr", "type", "mac", "name", "alias"}} |->
               [lag |-> d.is[i].lag, vlan |-> d.is[i].vlan,
                layer |-> IF i \in Addressed(d.tables) THEN "L3" ELSE "L2"]]
  /\ DOMAIN d.is \subseteq Nat \ {0} /\ Indexes(d.tables.base) \subseteq Nat
  /\ \A i \in Indexes(d.tables.agg) \cup {x[2] : x \in Indexes(d.tables.stack)} :
       Aggregates(d.tables, i) # {} => i \in DOMAIN d.is
  /\ \A i \in DOMAIN d.is :
       /\ d.is[i].lag \in Nat /\ Aggregates(d.tables, i) = {d.is[i].lag} \ {0}
       /\ IF AccessVlans(d.tables, i) = {} THEN d.is[i].vlan = 0
          ELSE AccessVlans(d.tables, i) = {d.is[i].vlan}

\* An FDB that one VLAN alone uses is of that VLAN; a device that has no such
\* table numbers its FDBs by VLAN.
VlansAgree(d) ==
  \A x \in Indexes(d.tables.qfdb) :
    /\ \A v \in Indexes(d.tables.mvfdb) :
         {u \in Indexes(d.tables.mvfdb) : ValidVlan(u) /\ x[1] \in Listed(d.tables.mvfdb, u)} = {v}
           => d.vlanOf[x[1]] = v
    /\ Indexes(d.tables.mvfdb) = {} => d.vlanOf[x[1]] = x[1]

OwnAddresses(d) == (UNION {Listed(d.tables.mac, i) : i \in Indexes(d.tables.mac)}) \ {"", "zero"}

AddressesAgree(d) ==
  /\ d.own \subseteq OwnAddresses(d)
  /\ \A x \in Indexes(d.tables.qfdb) : x = <<x[1], x[2]>>
  /\ \A x \in Indexes(d.tables.arp) : \A a \in Listed(d.tables.arp, x) : a = [mac |-> a.mac, kind |-> a.kind]
  /\ d.valid = {<<x[1], x[2]>> : x \in {y \in Indexes(d.tables.arp) :
                                          \E a \in Listed(d.tables.arp, y) : a.kind # "invalid"}}

\* The interfaces that have the text as their name (their descr, where they
\* have no name), descr or alias.
Having(t, field, text) ==
  {i \in UNION {Indexes(t[c]) : c \in {"name", "descr", "alias"}} :
     text \in Listed(IF field = "name" /\ Listed(t.name, i) \subseteq {""} THEN t.descr ELSE t[field], i)}

\* What an LLDP port goes by: its description, its id if that is a name.
Texts(a) == {a.desc} \cup {x \in {a.id} : a.named}

\* No other interface alone has what an LLDP port is called; a bridge port of
\* its number is on the same interface.
NamesAgree(d) ==
  /\ \A p \in Indexes(d.tables.loc) : \A a \in Listed(d.tables.loc, p) :
       /\ a = [named |-> a.named, id |-> a.id, desc |-> a.desc]
       /\ \A field \in {"name", "descr", "alias"}, i \in DOMAIN d.is :
            \A text \in Texts(a) :
              text # "" /\ Having(d.tables, field, text) = {i} => d.local[p] = i
  /\ \A x \in Indexes(d.tables.rem) : Listed(d.tables.base, x[1]) \subseteq {0, d.local[x[1]]}

\* A port, as against a VLAN, a tunnel or a unit.
IsAPort(d, i) ==
  i \in DOMAIN d.is /\ (\/ Listed(d.tables.type, i) \cap {"ethernet", "lag"} # {}
                        \/ \E j \in DOMAIN d.is : d.is[j].lag = i)

\* The hosts a device has learned, of the forwarding table it has.
Learned(d) ==
  LET q == d.tables.qfdb
      b == d.tables.dfdb
      entries == IF Len(q) > 0
                 THEN {[mac |-> q[k][1][2], port |-> q[k][2].port, status |-> q[k][2].status] : k \in DOMAIN q}
                 ELSE {[mac |-> b[k][1], port |-> b[k][2].port, status |-> b[k][2].status] : k \in DOMAIN b}
  IN  {e \in entries : /\ e.status \notin {"self", "invalid"} /\ e.mac \notin GroupMacs
                       /\ e.mac \notin OwnAddresses(d) /\ e.port # 0}

\* The interface of a bridge port, if any: that of the bridge port table, or,
\* the device having none and all learned ports being ports, that of its number.
InterfaceOf(d, p) ==
  IF \E q \in Indexes(d.tables.base) \ {0} : 0 \notin Listed(d.tables.base, q)
  THEN Listed(d.tables.base, p) \ {0}
  ELSE {i \in {p} : \A e \in Learned(d) : IsAPort(d, e.port)}

\* Where a host seen on i is: on the one port i is a unit of, or on i.
Behind(d, i) ==
  LET below == {x[2] : x \in {y \in Indexes(d.tables.stack) : /\ y[1] = i /\ IsAPort(d, y[2])
                                                             /\ "active" \in Listed(d.tables.stack, y)}}
  IN  IF i \in DOMAIN d.is /\ ~IsAPort(d, i) /\ \E p \in below : below = {p} THEN below ELSE {i}

HostsAgree(d) ==
  d.hosts = UNION {{<<e.mac, j>> : j \in UNION {Behind(d, i) : i \in InterfaceOf(d, e.port)}} : e \in Learned(d)}

ASSUME DeviceAssumption ==
  \A d \in Devices : /\ \A w \in Walks : IsTable(d.tables[TableOf(w)])
                     /\ InterfacesAgree(d) /\ VlansAgree(d) /\ AddressesAgree(d)
                     /\ NamesAgree(d) /\ HostsAgree(d)

-----------------------------------------------------------------------------
(* What has been read so far.                                              *)

Cell(w, c, k) == IF c = "value" THEN Table(w)[k][2] ELSE Table(w)[k][2][c]

ColumnOf(w, c) ==
  [i \in {Table(w)[k][1] : k \in 1..got[w][c]} |->
     Cell(w, c, CHOOSE k \in 1..got[w][c] : Table(w)[k][1] = i)]

Column(w) == ColumnOf(w, "value")
Read(w) == [c \in Columns(w) |-> ColumnOf(w, c)]

Found(w) == \E c \in Columns(w) : got[w][c] > 0
Whole(W) == \A w \in W : \A c \in Columns(w) : got[w][c] = Len(Table(w))
Ended(W) == \A w \in W : end[w] \in {"no", "ok"}

\* out["interfaces"]: fetch_interfaces.
Interfaces ==
  IF raised \cap {"facts", "interfaces"} # {} THEN Empty
  ELSE InterfaceRows([c \in {"descr", "type", "mac", "name", "alias"} |-> Column(c)], Column("ip"),
                     ParseVlans(Column("base"), Column("pvid")),
                     ParseLag(Column("agg"), Column("stack"), Column("type")))

\* _MacTableRead: a timeout halts it, the deadline and the row cap stop it.
CanWalk == ~late /\ \A w \in MacWalks : end[w] # "timeout"
Stopped == \E w \in MacWalks : end[w] \in {"timeout", "time", "rows"}

Emptied == ~Found("mvfdb")    \* mutant: a walk that failed found nothing

\* dot1qVlanFdbId ended empty, rather than failed.
Unlisted == ~Found("mvfdb") /\ end["mvfdb"] = "ok"

Named == IF Unlisted THEN Pvids(Interfaces) \cup DOMAIN Column("mnames") ELSE {}

\* The rows of a forwarding table, of which a column may be missing.
Keys(table) == UNION {DOMAIN table[c] : c \in DOMAIN table}

VlanOfFdb == MapFdbVlans({i[1] : i \in Keys(Read("qfdb"))}, Column("mvfdb"), Named)

\* The forwarding entries: Q-BRIDGE where it has any, else BRIDGE-MIB.
Entries ==
  IF Found("qfdb")
  THEN LET q == Read("qfdb")
       IN  {[mac |-> i[2], fdb |-> i[1], vlan |-> VlanOfFdb.of[i[1]],
             port |-> At(q.port, i, 0), status |-> At(q.status, i, "")] : i \in Keys(q)}
  ELSE LET d == Read("dfdb")
       IN  {[mac |-> i, fdb |-> 0, vlan |-> 0,
             port |-> At(d.port, i, 0), status |-> At(d.status, i, "")] : i \in Keys(d)}

Unfolded == LearnedRows(Entries, Column("mbase"), Interfaces).rows

\* out["fdb"] and fdb_meta["complete"].
Fdb == Folded(Unfolded, UnitPorts(Column("mstack"), Interfaces))
FdbComplete == raised \cap {"facts", "mactable"} = {} /\ Ended(MacWalks)

\* out["neighbors"], out["arp"] and arp_meta["complete"].
NeighborRows == Neighbors(Read("rem"), Read("loc"), Interfaces, Column("lbase"))

NotEmpty == ArpRows(Read("arp")) # {}   \* mutant: some of it is all of it

ArpComplete == raised \cap {"facts", "topology"} = {} /\ end["arp"] = "ok"

-----------------------------------------------------------------------------
(* The poll.                                                               *)

\* Whether the code makes this walk, given what those before it brought.
Made(w) ==
  CASE w \in {"mvfdb", "qfdb"} -> ~Stopped
    [] w = "mnames" -> Found("qfdb") /\ Unlisted /\ CanWalk
    [] w = "dfdb" -> ~Found("qfdb") /\ ~Stopped
    [] w = "mstack" -> Logical(Unfolded, Interfaces) # {} /\ CanWalk
    [] w = "lbase" -> Found("rem")
    [] OTHER -> TRUE

Here(x) == Poll[at] = x

Opens(s) ==
  /\ Here(s)
  /\ s = "facts" => ~silent
  /\ at' = at + 1
  /\ UNCHANGED <<dev, got, end, trouble>>

GoesOn(s) == at + 1           \* mutant: the error of a stage is passed over

\* Where fetch_snmp goes on when a stage raises; without facts the device is
\* unreachable.
AfterRaise(s) ==
  CASE s = "facts" -> Position("over")
    [] s = "interfaces" -> Position("mactable")
    [] s = "mactable" -> Position("topology")
    [] s = "topology" -> Position("over")

\* No transport, no engine; for the facts, no answer.
Raises(s) ==
  /\ Here(s)
  /\ s # "facts" \/ ~silent => faults < MaxFaults
  /\ raised' = raised \cup {s}
  /\ faults' = IF s = "facts" /\ silent THEN faults ELSE faults + 1
  /\ at' = AfterRaise(s)
  /\ UNCHANGED <<dev, got, end, silent, late>>

\* Walk w is over with the first n[c] rows of each column c.
Brings(w, n, why) ==
  /\ Made(w)
  /\ at' = at + 1
  /\ got' = [got EXCEPT ![w] = n]
  /\ end' = [end EXCEPT ![w] = why]

Reads(w) ==
  /\ ~silent /\ (Mac(w) => ~late)
  /\ Brings(w, [c \in Columns(w) |-> Len(Table(w))], "ok")
  /\ UNCHANGED <<dev, trouble>>

\* An answer is lost, an error comes instead, an OID comes twice, the deadline
\* or, at a row of which no column had come, the cap is met.
Breaks(w, n, why) ==
  /\ ~silent /\ (Mac(w) => ~late) /\ faults < MaxFaults
  /\ n \in [Columns(w) -> 0..Len(Table(w))]
  /\ why \in {"error"} \cup (IF Mac(w) THEN {"timeout", "time"} ELSE {})
                       \cup (IF w \in Capped THEN {"rows"} ELSE {})
  /\ why = "rows" => /\ \A c \in Columns(w) : n[c] < Len(Table(w))
                     /\ \E c \in Columns(w) : n[c] > 0
  /\ Brings(w, n, why)
  /\ late' = (late \/ why = "time")
  /\ faults' = faults + 1
  /\ UNCHANGED <<dev, raised, silent>>

\* A device that has fallen silent, or a MAC table read past its deadline.
BringsNothing(w) ==
  /\ silent \/ (Mac(w) /\ late)
  /\ Brings(w, [c \in Columns(w) |-> 0],
            IF ~Mac(w) THEN "error" ELSE IF late THEN "time" ELSE "timeout")
  /\ UNCHANGED <<dev, trouble>>

PassesOver(w) ==
  /\ ~Made(w)
  /\ at' = at + 1
  /\ UNCHANGED <<dev, got, end, trouble>>

FallsSilent ==
  /\ ~Here("over") /\ ~silent /\ faults < MaxFaults
  /\ silent' = TRUE /\ faults' = faults + 1
  /\ UNCHANGED <<dev, at, got, end, raised, late>>

\* The deadline passes between two walks of the MAC table.
Expires ==
  /\ Mac(Poll[at]) /\ ~late /\ faults < MaxFaults
  /\ late' = TRUE /\ faults' = faults + 1
  /\ UNCHANGED <<dev, at, got, end, raised, silent>>

Over == Here("over")
Done == Over /\ UNCHANGED vars

Init ==
  /\ dev \in Devices
  /\ at = 1
  /\ got = [w \in Walks |-> [c \in Columns(w) |-> 0]]
  /\ end = [w \in Walks |-> "no"]
  /\ raised = {}
  /\ silent = FALSE /\ late = FALSE /\ faults = 0

WalkStep(w) ==
  /\ Here(w)
  /\ \/ Reads(w)
     \/ \E n \in [Columns(w) -> 0..Len(Table(w))], why \in {"error", "timeout", "time", "rows"} :
          Breaks(w, n, why)
     \/ BringsNothing(w)
     \/ PassesOver(w)

Next ==
  \/ \E s \in Stages : Opens(s) \/ Raises(s)
  \/ \E w \in Walks : WalkStep(w)
  \/ FallsSilent \/ Expires
  \/ Done

Spec == Init /\ [][Next]_vars

-----------------------------------------------------------------------------
(* Properties, of the report: what is true of the device is in dev.        *)

\* A stage that raised has read nothing, and no walk is ahead of the poll.
TypeOK ==
  /\ at \in DOMAIN Poll
  /\ \A w \in Walks : /\ got[w] \in [Columns(w) -> 0..Len(Table(w))]
                      /\ end[w] \in {"no", "ok", "error", "timeout", "time", "rows"}
                      /\ end[w] = "no" => ~Found(w)
                      /\ end[w] # "no" => \A i \in at..Len(Poll) : Poll[i] # w
  /\ \A s \in raised : \A i \in Position(s)..(AfterRaise(s) - 1) :
       Poll[i] \in Walks => end[Poll[i]] = "no"
  /\ raised \subseteq Stages /\ silent \in BOOLEAN /\ late \in BOOLEAN /\ faults \in 0..MaxFaults

NamesWhole == Whole({"name", "descr", "alias"}) /\ raised \cap {"facts", "interfaces"} = {}
InterfacesWhole == Whole(IfWalks) /\ raised \cap {"facts", "interfaces"} = {}

\* Whichever walks fail, an interface is put in no aggregate and no VLAN it is
\* not in and is not called L3 without an address; if all are whole, the rows
\* are those of the device (176-201, 213-229, 340-381).
InterfacesAreRight ==
  Over => /\ \A i \in DOMAIN Interfaces :
               /\ Interfaces[i].lag \in {0, dev.is[i].lag}
               /\ Interfaces[i].vlan \in {0, dev.is[i].vlan}
               /\ Interfaces[i].layer \in {"L2", dev.is[i].layer}
          /\ InterfacesWhole =>
               dev.is = [i \in DOMAIN Interfaces |->
                           [lag |-> Interfaces[i].lag, vlan |-> Interfaces[i].vlan,
                            layer |-> Interfaces[i].layer]]

\* Of a read called complete the core may close what is missing: with the
\* interfaces read and time left it has every host of the device, each on the
\* port it is behind, and nothing else (1158-1230, 1404-1422, 1570).
HostsAreWhereTheyAre ==
  Over /\ FdbComplete /\ InterfacesWhole /\ ~late =>
    {<<r.mac, r.ifIndex>> : r \in Fdb} = dev.hosts

\* What the device says of the forwarding entry a row was made of.
StatusesOf(r) ==
  {e.status : e \in IF Found("qfdb") THEN Listed(dev.tables.qfdb, <<r.fdb, r.mac>>)
                    ELSE Listed(dev.tables.dfdb, r.mac)}

\* However little was read, no row is a group address or, its addresses being
\* known, the device's own address.  One that the device says is its own
\* passes only if its status was lost on the way, and the read is then not
\* called complete (797, 1022-1033, 1137-1160).
OnlyHostsAreReported ==
  Over => \A r \in Fdb :
    /\ r.mac \notin GroupMacs
    /\ r.mac \in dev.own => ~InterfacesWhole
    /\ StatusesOf(r) \cap {"self", "invalid"} # {} => r.status = "" /\ ~FdbComplete

\* A row has a VLAN only if it is its VLAN, whether dot1qVlanFdbId was read,
\* failed or is not there.  Of a walk that broke off half way one of several
\* VLANs of an FDB may look like the only one; the read is then not called
\* complete (1091-1114, 1386-1402).
VlanIsRight ==
  Over => \A r \in Fdb :
    \/ r.vlan \in {0, dev.vlanOf[r.fdb]}
    \/ Found("mvfdb") /\ r.fdb \in Listed(dev.tables.mvfdb, r.vlan) /\ ~FdbComplete

\* Interface i has a text that LLDP port p goes by.
IsCalledLike(i, p) ==
  \E a \in Listed(dev.tables.loc, p), field \in {"name", "descr", "alias"} :
    \E text \in Texts(a) \ {""} : i \in Having(dev.tables, field, text)

\* A neighbour's local port is the interface it is seen on, or is left open,
\* whatever walks failed; except that of several interfaces one name may look
\* like the only one while not all names were read, and the port is then put
\* on an interface that has the name (506-556).
LocalPortIsRight ==
  Over => \A n \in NeighborRows :
    \/ n.ifIndex \in {0, dev.local[n.port]}
    \/ IsCalledLike(n.ifIndex, n.port) /\ ~NamesWhole

\* An ARP table called complete has exactly the valid entries; one cut short
\* is never called complete, and says of no entry it got whole that it is
\* valid when it is not (833-835, 559-579).
ArpIsWhatItSays ==
  Over => /\ ArpComplete => {<<a.ifIndex, a.ip>> : a \in ArpRows(Read("arp"))} = dev.valid
          /\ \A a \in ArpRows(Read("arp")) : a.kind # "" => <<a.ifIndex, a.ip>> \in dev.valid

-----------------------------------------------------------------------------
(* What the comments say and the code does not do.                         *)

\* "lag_if_index - the ifIndex of the aggregate the port belongs to, '' when
\* it is not a member" (docs/COMPATIBILITY.md:90-91).
BlankMeansNotMember ==
  Over => \A i \in DOMAIN Interfaces : Interfaces[i].lag = 0 => dev.is[i].lag = 0
=============================================================================
