---------------------------- MODULE MCSnmpFetch ----------------------------
(***************************************************************************)
(* Instances of SnmpFetch for TLC: four devices, each with what makes a    *)
(* join hard.                                                              *)
(***************************************************************************)
EXTENDS SnmpFetch, TLC

NoRows == [t \in {"descr", "type", "mac", "name", "alias", "ip", "base", "pvid", "agg",
                  "stack", "mvfdb", "qfdb", "mnames", "dfdb", "loc", "rem", "arp"} |-> <<>>]

Is(lag, vlan, layer) == [lag |-> lag, vlan |-> vlan, layer |-> layer]
At4(p, s) == [port |-> p, status |-> s]
Loc(named, id, desc) == [named |-> named, id |-> id, desc |-> desc]
Rem(sysname, desc, id) == [sysname |-> sysname, desc |-> desc, id |-> id]

\* Q-BRIDGE and the LAG MIB: an aggregate that calls itself virtual, two ports
\* with one alias, an FDB shared by VLANs 1 and 7, its own address learned.
Switch ==
  [tables |->
     [descr |-> <<<<1, "d1">>, <<2, "d2">>, <<3, "d3">>, <<10, "d10">>>>,
      type |-> <<<<1, "ethernet">>, <<2, "ethernet">>, <<3, "ethernet">>, <<10, "virtual">>>>,
      mac |-> <<<<1, "m1">>, <<3, "m3">>, <<10, "m1">>>>,
      name |-> <<<<1, "gi1">>, <<2, "gi2">>, <<3, "gi3">>, <<10, "po1">>>>,
      alias |-> <<<<1, "up">>, <<3, "up">>>>,
      ip |-> <<<<"a0", 3>>>>,
      base |-> <<<<13, 3>>, <<20, 10>>>>,
      pvid |-> <<<<13, 5>>, <<20, 1>>>>,
      agg |-> <<<<1, 10>>, <<2, 10>>, <<3, 3>>>>,
      stack |-> <<<<<<0, 10>>, "active">>, <<<<10, 1>>, "active">>, <<<<10, 2>>, "active">>>>,
      mvfdb |-> <<<<1, 1>>, <<5, 5>>, <<7, 1>>>>,
      qfdb |-> <<<<<<1, "h1">>, At4(20, "learned")>>, <<<<5, "group">>, At4(13, "learned")>>,
                 <<<<5, "h2">>, At4(13, "mgmt")>>, <<<<5, "h3">>, At4(0, "learned")>>,
                 <<<<5, "m3">>, At4(13, "learned")>>, <<<<5, "m9">>, At4(13, "self")>>>>,
      loc |-> <<<<13, Loc(TRUE, "up", "d3")>>, <<20, Loc(FALSE, "m1", "po1")>>>>,
      rem |-> <<<<<<13, 1>>, Rem("n1", "e1", "e1")>>, <<<<20, 1>>, Rem("n2", "", "e2")>>>>,
      arp |-> <<<<<<3, "a1">>, [mac |-> "h2", kind |-> "dynamic"]>>,
                <<<<3, "a2">>, [mac |-> "h9", kind |-> "invalid"]>>>>] @@ NoRows,
   is |-> (1 :> Is(10, 0, "L2")) @@ (2 :> Is(10, 0, "L2")) @@ (3 :> Is(0, 5, "L3")) @@ (10 :> Is(0, 1, "L2")),
   own |-> {"m1", "m3"},
   hosts |-> {<<"h1", 10>>, <<"h2", 3>>},
   vlanOf |-> (1 :> 0) @@ (5 :> 5),
   local |-> (13 :> 3) @@ (20 :> 10),
   valid |-> {<<3, "a1">>}]

\* No LAG MIB, no bridge port table and no dot1qVlanFdbId: aggregates by
\* ifStackTable, beside a VLAN over a port and a member that is not active.
Plain ==
  [tables |->
     [descr |-> <<<<1, "p1">>, <<2, "p2">>, <<5, "v5">>, <<9, "ae">>>>,
      type |-> <<<<1, "ethernet">>, <<2, "ethernet">>, <<5, "l2vlan">>, <<9, "lag">>>>,
      mac |-> <<<<9, "m9">>>>,
      stack |-> <<<<<<5, 2>>, "active">>, <<<<9, 1>>, "active">>, <<<<9, 2>>, "notReady">>>>,
      mnames |-> <<<<5, "five">>, <<6, "six">>>>,
      qfdb |-> <<<<<<5, "h1">>, At4(2, "learned")>>, <<<<6, "h1">>, At4(9, "learned")>>>>,
      loc |-> <<<<2, Loc(TRUE, "p2", "")>>, <<9, Loc(FALSE, "", "ae")>>>>,
      rem |-> <<<<<<2, 1>>, Rem("n1", "e1", "")>>, <<<<9, 1>>, Rem("", "e1", "")>>>>] @@ NoRows,
   is |-> (1 :> Is(9, 0, "L2")) @@ (2 :> Is(0, 0, "L2")) @@ (5 :> Is(0, 0, "L2")) @@ (9 :> Is(0, 0, "L2")),
   own |-> {"m9"},
   hosts |-> {<<"h1", 2>>, <<"h1", 9>>},
   vlanOf |-> (5 :> 5) @@ (6 :> 6),
   local |-> (2 :> 2) @@ (9 :> 9),
   valid |-> {}]

\* BRIDGE-MIB on logical units: one over one port, one over two.
Units ==
  [tables |->
     [descr |-> <<<<1, "ge1">>, <<2, "ge2">>, <<101, "ge1.0">>, <<102, "irb">>>>,
      type |-> <<<<1, "ethernet">>, <<2, "ethernet">>, <<101, "virtual">>, <<102, "virtual">>>>,
      base |-> <<<<1, 101>>, <<2, 102>>>>,
      stack |-> <<<<<<101, 1>>, "active">>, <<<<101, 2>>, "destroy">>,
                  <<<<102, 1>>, "active">>, <<<<102, 2>>, "active">>>>,
      dfdb |-> <<<<"h1", At4(1, "learned")>>, <<"h2", At4(2, "learned")>>, <<"zero", At4(1, "learned")>>>>,
      rem |-> <<<<<<1, 1>>, Rem("n1", "", "e1")>>>>,
      loc |-> <<<<1, Loc(TRUE, "1", "ge1.0")>>>>] @@ NoRows,
   is |-> [i \in {1, 2, 101, 102} |-> Is(0, 0, "L2")],
   own |-> {},
   hosts |-> {<<"h1", 1>>, <<"h2", 102>>},
   vlanOf |-> (0 :> 0),
   local |-> (1 :> 101),
   valid |-> {}]

\* A virtual aggregate with one member, which is an aggregate to the LAG MIB
\* and a logical unit without it.
OneMember ==
  [tables |->
     [descr |-> <<<<1, "gi1">>, <<10, "po1">>>>,
      type |-> <<<<1, "ethernet">>, <<10, "virtual">>>>,
      base |-> <<<<5, 10>>>>, pvid |-> <<<<5, 4>>>>,
      agg |-> <<<<1, 10>>>>,
      stack |-> <<<<<<10, 1>>, "active">>>>,
      dfdb |-> <<<<"h1", At4(5, "learned")>>>>] @@ NoRows,
   is |-> (1 :> Is(10, 0, "L2")) @@ (10 :> Is(0, 4, "L2")),
   own |-> {},
   hosts |-> {<<"h1", 10>>},
   vlanOf |-> (0 :> 0),
   local |-> <<>>,
   valid |-> {}]

All == {Switch, Plain, Units, OneMember}
=============================================================================
