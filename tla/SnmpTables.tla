----------------------------- MODULE SnmpTables -----------------------------
(***************************************************************************)
(* The joins of danbyte_checks/snmp_facts.py: what is made of walked       *)
(* columns.  A column is a function from row index to value, and need not  *)
(* have every row the agent has; a table of several is a record of its     *)
(* columns, which need not have the same rows.  An ifIndex, a bridge port, *)
(* a VLAN and an FDB id are naturals, 0 for none; names, addresses and the *)
(* words of an enumeration are strings, "" for none.  Formatting is left   *)
(* out.                                                                    *)
(***************************************************************************)
EXTENDS Integers, FiniteSets, FiniteSetsExt

Empty == <<>>
At(column, i, default) == IF i \in DOMAIN column THEN column[i] ELSE default
Values(column) == {column[i] : i \in DOMAIN column}

GroupMacs == {"group", "zero"}     \* I/G bit set, or all-zero

ValidVlan(v) == 1 <= v /\ v <= 4094

-----------------------------------------------------------------------------
(* Interfaces: parse_lag_membership and parse_vlans.                       *)

AnyLayer(stack, type, i) ==   \* mutant: all that is stacked is aggregated
  {key[1] : key \in {k \in DOMAIN stack : k[2] = i /\ k[1] # 0}}

\* The aggregates ifStackTable puts on top of interface i.
StackedUnder(stack, type, i) ==
  {key[1] : key \in {k \in DOMAIN stack : /\ k[2] = i /\ k[2] # 0 /\ k[1] # 0
                                           /\ stack[k] = "active"
                                           /\ At(type, k[1], "") = "lag"}}

\* Member -> aggregate: dot3adAggPortAttachedAggID where it answers, else the
\* first aggregate above in ifStackTable.
ParseLag(agg, stack, type) ==
  LET attached == {i \in DOMAIN agg : agg[i] \notin {0, i}}
      stacked == {i \in {key[2] : key \in DOMAIN stack} : StackedUnder(stack, type, i) # {}}
  IN  [i \in attached \cup stacked |->
         IF i \in attached THEN agg[i] ELSE Min(StackedUnder(stack, type, i))]

\* ifIndex -> access VLAN; of two bridge ports on one ifIndex the last counts.
ParseVlans(basePort, pvid) ==
  LET ports(i) == {p \in DOMAIN pvid \cap DOMAIN basePort : basePort[p] = i}
  IN  [i \in {basePort[p] : p \in DOMAIN pvid \cap DOMAIN basePort} |-> pvid[Max(ports(i))]]

\* The rows of fetch_interfaces, one per ifIndex any ifTable column has.
InterfaceRows(col, ip, vlanOf, lagOf) ==
  [i \in UNION {DOMAIN col[c] : c \in DOMAIN col} |->
     [name  |-> IF At(col["name"], i, "") # "" THEN col["name"][i] ELSE At(col["descr"], i, ""),
      descr |-> At(col["descr"], i, ""),
      alias |-> At(col["alias"], i, ""),
      type  |-> IF i \in Values(lagOf) THEN "lag" ELSE At(col["type"], i, ""),
      mac   |-> At(col["mac"], i, ""),
      lag   |-> At(lagOf, i, 0),
      layer |-> IF i \in Values(ip) THEN "L3" ELSE "L2",
      vlan  |-> At(vlanOf, i, 0)]]

-----------------------------------------------------------------------------
(* The MAC table: what the filter needs of the interface rows (_Ifaces),   *)
(* the VLAN of an FDB id, the filter and the port mapping.                 *)

OwnMacs(ifs) == {ifs[i].mac : i \in DOMAIN ifs} \ {"", "zero"}
Pvids(ifs) == {v \in {ifs[i].vlan : i \in DOMAIN ifs} : ValidVlan(v)}
IsPort(ifs, i) == i \in DOMAIN ifs /\ ifs[i].type \in {"ethernet", "lag"}

\* FDB id -> VLAN, 0 where it cannot be told, and how that was decided.
MapFdbVlans(ids, vlanFdb, named) ==
  LET users(f) == {v \in DOMAIN vlanFdb : ValidVlan(v) /\ vlanFdb[v] = f}
      listed == \E v \in DOMAIN vlanFdb : ValidVlan(v)
  IN  IF listed
      THEN [how |-> "fdb-id",
            of |-> [f \in ids |-> IF Cardinality(users(f)) = 1
                                  THEN CHOOSE v \in users(f) : TRUE ELSE 0]]
      ELSE IF ids # {} /\ ids \subseteq named
      THEN [how |-> "assumed", of |-> [f \in ids |-> f]]
      ELSE [how |-> "none", of |-> [f \in ids |-> 0]]

TrustsTheStatus(entry, own) ==  \* mutant: the device's own addresses pass
  IF entry.status \in {"self", "invalid"} THEN "self"
  ELSE IF entry.mac \in GroupMacs THEN "group"
  ELSE IF entry.port = 0 THEN "port0" ELSE ""

\* Why a forwarding entry is not a learned host; "" for one that is.
DropReason(entry, own) ==
  IF entry.status \in {"self", "invalid"} THEN "self"
  ELSE IF entry.mac \in GroupMacs THEN "group"
  ELSE IF entry.mac \in own THEN "own"
  ELSE IF entry.port = 0 THEN "port0" ELSE ""

\* Bridge port -> ifIndex, and how.
MapBridgePorts(ports, basePort, ifs) ==
  LET base == {p \in DOMAIN basePort : p # 0 /\ basePort[p] # 0}
  IN  IF base # {} THEN [how |-> "base-port", of |-> [p \in ports \cap base |-> basePort[p]]]
      ELSE IF ports # {} /\ \A p \in ports : IsPort(ifs, p)
      THEN [how |-> "assumed", of |-> [p \in ports |-> p]]
      ELSE [how |-> "none", of |-> Empty]

\* learned_rows: the entries that are hosts, on the interfaces of their ports.
LearnedRows(entries, basePort, ifs) ==
  LET kept == {e \in entries : DropReason(e, OwnMacs(ifs)) = ""}
      map == MapBridgePorts({e.port : e \in kept}, basePort, ifs)
  IN  [how |-> IF kept = {} THEN "" ELSE map.how,
       rows |-> {[mac |-> e.mac, vlan |-> e.vlan, fdb |-> e.fdb, port |-> e.port,
                  status |-> e.status, ifIndex |-> map.of[e.port]] :
                    e \in {k \in kept : k.port \in DOMAIN map.of}}]

Logical(rows, ifs) == {r.ifIndex : r \in rows} \cap {i \in DOMAIN ifs : ~IsPort(ifs, i)}

AnyPortBelow(stack, ifs) ==   \* mutant: the first port below will do
  LET below(i) == {k[2] : k \in {key \in DOMAIN stack : key[1] = i /\ IsPort(ifs, key[2])}}
  IN  [i \in {j \in DOMAIN ifs : below(j) # {}} |-> Min(below(i))]

\* A logical unit -> the one port it is stacked on.
UnitPorts(stack, ifs) ==
  LET below(i) == {k[2] : k \in {key \in DOMAIN stack : /\ key[1] = i /\ stack[key] = "active"
                                                         /\ IsPort(ifs, key[2])}}
  IN  [i \in {j \in DOMAIN ifs : ~IsPort(ifs, j) /\ Cardinality(below(j)) = 1} |->
         CHOOSE p \in below(i) : TRUE]

\* The rows, those on a logical unit folded onto its port.
Folded(rows, units) == {[r EXCEPT !.ifIndex = At(units, @, @)] : r \in rows}

-----------------------------------------------------------------------------
(* LLDP and ARP.                                                           *)

FirstMatch(ifs, text) ==      \* mutant: an ambiguous name names the first
  LET found == {i \in DOMAIN ifs : text \in {ifs[i].name, ifs[i].alias}}
  IN  IF text = "" \/ found = {} THEN 0 ELSE Min(found)

\* The one interface whose name, else descr, else alias is the text.
MatchInterface(ifs, text) ==
  LET named(field) == {i \in DOMAIN ifs : ifs[i][field] = text}
      One(S) == Cardinality(S) = 1
  IN  IF text = "" THEN 0
      ELSE IF One(named("name")) THEN Min(named("name"))
      ELSE IF One(named("descr")) THEN Min(named("descr"))
      ELSE IF One(named("alias")) THEN Min(named("alias"))
      ELSE 0

\* The ifIndex of an LLDP port: by the name its id is, as a bridge port, by
\* its description.
LocalPort(port, loc, ifs, basePort) ==
  LET byId == IF At(loc.named, port, FALSE) THEN MatchInterface(ifs, At(loc.id, port, "")) ELSE 0
      via == At(basePort, port, 0)
  IN  IF byId # 0 THEN byId
      ELSE IF via # 0 /\ (DOMAIN ifs = {} \/ via \in DOMAIN ifs) THEN via
      ELSE MatchInterface(ifs, At(loc.desc, port, ""))

\* parse_lldp: the neighbours that name themselves.
Neighbors(rem, loc, ifs, basePort) ==
  {[port |-> n[1], device |-> rem.sysname[n],
    remote |-> IF At(rem.desc, n, "") # "" THEN rem.desc[n] ELSE At(rem.id, n, ""),
    ifIndex |-> LocalPort(n[1], loc, ifs, basePort)] :
       n \in {m \in DOMAIN rem.sysname : rem.sysname[m] # ""}}

\* parse_arp: the entries that are not known to be invalid.
ArpRows(arp) ==
  {[ifIndex |-> a[1], ip |-> a[2], mac |-> arp.mac[a], kind |-> At(arp.kind, a, "")] :
     a \in {b \in DOMAIN arp.mac : At(arp.kind, b, "") # "invalid"}}
=============================================================================
