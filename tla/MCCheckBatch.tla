---------------------------- MODULE MCCheckBatch ----------------------------
(***************************************************************************)
(* Instances of CheckBatch for TLC: two checks, of one target or of two,   *)
(* or three certificate reads; an executor with one thread.              *)
(***************************************************************************)
EXTENDS CheckBatch

CONSTANTS c1, c2, c3, t1, t2

Kind(k, asks, targets) == [kind : {k}, asks : asks, target : targets]

\* Every kind, with what it asks for where that changes what it does.
FirstChecks == UNION
  {Kind("icmp", {"expect"}, {t1}), Kind("tcp", {"nothing", "expect", "both"}, {t1}),
   Kind("udp", {"expect"}, {t1}), Kind("telnet", {"send", "expect"}, {t1}),
   Kind("http", {"nothing"}, {t1}), Kind("snmp", {"expect"}, {t1}),
   Kind("ssh", {"nothing", "expect"}, {t1})}

Exec == Kind("exec", {"nothing"}, {t1})
Certificates(targets) == Kind("tls_cert", {"nothing"}, targets)

CertificatesOnly ==
  {(c1 :> a) @@ (c2 :> b) : a \in Certificates({t1}), b \in Certificates({t1, t2})}

EveryKind ==
  {(c1 :> a) @@ (c2 :> b) : a \in FirstChecks, b \in Exec} \cup CertificatesOnly

\* Two reads of one target queue in front of the read of another.
ThreeCertificates ==
  {(c1 :> a) @@ (c2 :> a) @@ (c3 :> b) : a \in Certificates({t1}), b \in Certificates({t2})}
=============================================================================
