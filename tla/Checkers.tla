------------------------------ MODULE Checkers ------------------------------
(***************************************************************************)
(* The checkers of danbyte_checks/: what each kind says of an await that   *)
(* ended one way or another.                                               *)
(*                                                                         *)
(* A checker is a short sequence of awaits.  TCP, Telnet and SSH connect   *)
(* and then may send and read; TCP and Telnet wait for the connection to   *)
(* be closed as well; the certificate read shakes hands and, if the chain  *)
(* does not verify, shakes hands again; the others await one thing.  An    *)
(* operator below is given the await, how it ended and what the check      *)
(* asks for, and yields the status, or the next await.                     *)
(***************************************************************************)

Statuses == {"up", "down", "degraded", "unknown"}

\* What a check asks for beyond an answer: nothing; that something is sent (or
\* run); that what comes back is as expected; both.
Asks == {"nothing", "send", "expect", "both"}
Sending(asks) == asks \in {"send", "both"}
Expecting(asks) == asks \in {"expect", "both"}

Kinds == {"icmp", "tcp", "udp", "telnet", "http", "snmp", "ssh", "tls_cert", "exec"}

\* How the target can end an await - "denied" is that it does not take the
\* agent's credentials, or the agent its certificate; "fault" that it answers
\* with an error of its own - and how the agent itself can: refused by the
\* address policy or unresolvable, an OSError of its own (no descriptor, no
\* route), any other exception.
TargetEnds == {"answer", "wrong", "denied", "fault", "refusal", "timeout"}
Troubles == {"blocked", "oserror", "error"}

Failed(how) == how \in {"refusal", "timeout", "oserror"}

\* The end of a checker that has got an answer.
Judge(how, asks) == IF how = "wrong" /\ Expecting(asks) THEN "degraded" ELSE "up"

-----------------------------------------------------------------------------
(* One operator per kind.  await is "trying", "draining", "reading",       *)
(* "first" or "second".                                                    *)

Icmp(await, how, asks) ==
  CASE how \in Troubles  -> "unknown"
    [] how = "timeout"   -> "down"
    [] OTHER             -> Judge(how, asks)

\* A banner that does not come counts as no connection.
Tcp(await, how, asks) ==
  IF how = "error" THEN "unknown"
  ELSE IF Failed(how) THEN "down"
  ELSE IF await = "trying" /\ Sending(asks) THEN "draining"
  ELSE IF await # "reading" /\ Expecting(asks) THEN "reading"
  ELSE Judge(how, asks)

Udp(await, how, asks) ==
  CASE how = "refusal"   -> "down"
    [] how \in {"timeout", "oserror", "error"} -> "unknown"
    [] OTHER             -> Judge(how, asks)

\* A banner that does not come counts as an empty one.
Telnet(await, how, asks) ==
  IF how = "error" THEN "unknown"
  ELSE IF await = "reading" /\ how = "timeout" THEN Judge("wrong", asks)
  ELSE IF Failed(how) THEN "down"
  ELSE IF await = "trying" /\ Sending(asks) THEN "draining"
  ELSE IF await # "reading" /\ asks # "nothing" THEN "reading"
  ELSE Judge(how, asks)

\* A certificate chain that does not verify is a ConnectError.
Http(await, how, asks) ==
  CASE how \in {"blocked", "denied"} \/ Failed(how) -> "down"
    [] how = "error"     -> "unknown"
    [] how = "wrong"     -> "degraded"
    [] OTHER             -> "up"

\* Every error_indication counts as silence, that an SNMPv3 agent reports a
\* wrong user or digest too; an error_status does not.
Snmp(await, how, asks) ==
  CASE how \in Troubles \cup {"fault"}   -> "unknown"
    [] how \in {"timeout", "denied"}     -> "down"
    [] OTHER             -> Judge(how, asks)

\* One timeout is over the connection and the command.  Refusing the login is
\* PermissionDenied, refusing the command another asyncssh.Error.
Ssh(await, how, asks) ==
  IF how = "error" THEN "unknown"
  ELSE IF Failed(how) THEN "down"
  ELSE IF how = "denied" THEN (IF await = "trying" THEN "degraded" ELSE "down")
  ELSE IF await = "trying" /\ asks # "nothing" THEN "reading"
  ELSE Judge(how, asks)

\* collect_chain and the judgement of run.  "denied" is a chain that does not
\* verify; a handshake that yields no certificate counts as a refusal.
TlsCert(await, how, asks) ==
  IF how \in {"blocked", "error"} THEN "unknown"
  ELSE IF Failed(how) THEN "down"
  ELSE IF await = "second" THEN "degraded"
  ELSE IF how = "denied" THEN "second" ELSE "up"

\* run_check: the checker of the kind, if this agent has one.
Verdict(check, await, how) ==
  LET a == check.asks IN
  CASE check.kind = "icmp"     -> Icmp(await, how, a)
    [] check.kind = "tcp"      -> Tcp(await, how, a)
    [] check.kind = "udp"      -> Udp(await, how, a)
    [] check.kind = "telnet"   -> Telnet(await, how, a)
    [] check.kind = "http"     -> Http(await, how, a)
    [] check.kind = "snmp"     -> Snmp(await, how, a)
    [] check.kind = "ssh"      -> Ssh(await, how, a)
    [] check.kind = "tls_cert" -> TlsCert(await, how, a)
    [] OTHER                   -> "unknown"

\* The finally of TCP and Telnet: a connection that was made is closed, and
\* that is waited for, before the checker returns what it has found.
Closes(check, await, how) ==
  check.kind \in {"tcp", "telnet"} /\ (await = "trying" => how = "answer")

-----------------------------------------------------------------------------
(* The other end.  A target serves what is asked for; serves something     *)
(* else (a slow echo, another banner, page or value, another name's        *)
(* certificate); answers and denies (a login, an SNMPv3 user, a chain that *)
(* nobody vouches for); accepts and says nothing; is there but refuses, or *)
(* does not speak the protocol; stalls: accepts and then takes no more of  *)
(* what it is sent, or hands out a page byte by byte; or is gone.  Serving *)
(* means to answer within a tick.                                          *)

Healths == {"serving", "wrong", "denying", "mute", "refusing", "stalling", "gone"}

Echo(health) ==
  CASE health = "gone" -> {"timeout"} [] health = "wrong" -> {"wrong"} [] OTHER -> {"answer"}

Connection(health) ==
  CASE health = "gone" -> {"timeout"} [] health = "refusing" -> {"refusal"}
    [] OTHER -> {"answer"}

\* What a target that is gone was to get fits in the socket's buffer, or the
\* system gives up on the connection.
Drained(health) ==
  CASE health = "stalling" -> {} [] health = "gone" -> {"answer", "refusal"}
    [] health = "refusing" -> {"refusal"} [] OTHER -> {"answer"}

Closing(health, asks) == IF health = "stalling" /\ Sending(asks) THEN {} ELSE {"answer"}

Different(kind, await) ==
  CASE kind = "snmp" -> {"wrong", "fault"} [] kind = "tls_cert" -> {"denied"}
    [] kind = "ssh" /\ await = "trying" -> {"answer"} [] OTHER -> {"wrong"}

Denial(kind) == IF kind \in {"http", "snmp", "ssh", "tls_cert"} THEN {"denied"} ELSE {"answer"}

\* What a target makes of a request or a read.
Service(kind, await, health) ==
  CASE health = "serving"  -> {"answer"}
    [] health = "wrong"    -> Different(kind, await)
    [] health = "denying"  -> Denial(kind)
    [] health = "refusing" -> IF kind = "snmp" THEN {"timeout"} ELSE {"refusal"}
    [] health = "stalling" -> IF kind = "http" THEN {} ELSE {"timeout"}
    [] OTHER               -> {"timeout"}

\* How an await may end, the target being as it is: the timeouts of httpx are
\* for single reads and writes, and drain and wait_closed have none, so a
\* target that stalls can hold them as long as it does.
Ends(check, await, health) ==
  CASE check.kind = "exec"  -> {"answer"}     \* nobody is asked
    [] check.kind = "icmp"  -> Echo(health)
    [] await = "closing"    -> Closing(health, check.asks)
    [] await = "draining"   -> Drained(health)
    [] await = "trying" /\ check.kind \in {"tcp", "telnet"} -> Connection(health)
    [] await = "second" /\ health \in {"wrong", "denying"} -> {"answer"}
    [] OTHER                -> Service(check.kind, await, health)

=============================================================================
