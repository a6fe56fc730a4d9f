----------------------------- MODULE CheckBatch -----------------------------
(***************************************************************************)
(* The checks of a poll, outpost/run.py 175-187 with outpost/checks.py and *)
(* danbyte_checks/reverse_dns.py: all checks of a work list side by side   *)
(* (Checkers), then the reverse lookups of their targets, then what is     *)
(* attached to which result.                                               *)
(*                                                                         *)
(* Certificate reads and lookups by the system's resolver are blocking     *)
(* calls, made in the threads of the event loop's one default executor.    *)
(* Giving up on such a call takes it out of the queue, but a thread that   *)
(* is already in it stays there until the call returns, if need be into    *)
(* the next poll.                                                          *)
(***************************************************************************)
EXTENDS Checkers, Naturals, FiniteSets, Sequences, SequencesExt

CONSTANTS
  Checks, Targets,
  WorkLists,     \* what the core may hand out: for each check its kind, what
                 \* it asks for and its target
  DnsModes,      \* of "off", "system", "explicit" and "missing" (resolvers
                 \* are named, and dnspython is not installed)
  Threads,       \* workers of the executor
  Gate,          \* the semaphore of the lookups: 100
  Timeout,       \* timeout_ms of the checks, in ticks
  Grace,         \* what tls_cert grants its thread beyond it: 5 s
  LookupTimeout, \* 3 s
  AgentTrouble,  \* what can go wrong with the agent itself
  MaxRounds,     \* bound: polls
  MaxMishaps     \* bound: in a poll, changes of the targets and troubles

ASSUME BatchAssumption ==
  /\ Checks \cap Targets = {} /\ WorkLists # {}
  /\ IsFiniteSet(Checks) /\ IsFiniteSet(Targets)
  /\ WorkLists \subseteq [Checks -> [kind : Kinds, asks : Asks, target : Targets]]
  /\ DnsModes \subseteq {"off", "system", "explicit", "missing"}
  /\ {Threads, Gate, Timeout, LookupTimeout} \subseteq Nat \ {0} /\ Grace \in Nat
  /\ AgentTrouble \subseteq Troubles
  /\ MaxRounds \in Nat /\ MaxMishaps \in Nat

VARIABLES
  phase, round,
  work, dns,     \* the work list, and its "dns"
  await,         \* what a check awaits, or "done"
  left,          \* ticks left to the socket timeout of that await
  outer,         \* ticks left to the wait_for around a certificate read
  status, ptr,   \* the results
  queue, busy,   \* the executor: jobs queued, jobs that have a thread
  lookup, wait,  \* where the lookup of an address is, ticks left to it
  said,          \* how it ended
  health,        \* the targets, as long as they matter
  mishaps,       \* times one has changed, or the agent had trouble
  seen,          \* history: healths of its target until a check had its result
  blame          \* history: what the agent itself did to a check: a trouble of
                 \* its own, or "thread", no thread for it

checking == <<work, dns, await, left, outer, status, seen, blame>>
executor == <<queue, busy>>
looking == <<ptr, lookup, wait, said>>
world == <<health, mishaps>>
vars == <<phase, round, checking, executor, looking, world>>

Job(x) == <<x, round>>
\* A job is queued at most once.
Without(job) ==
  IF \E i \in DOMAIN queue : queue[i] = job
  THEN RemoveAt(queue, CHOOSE i \in DOMAIN queue : queue[i] = job) ELSE queue
Asked == {work[c].target : c \in Checks}
InThread == {"queued", "first", "second"}
NoWork == CHOOSE w \in WorkLists : TRUE
Zero(S) == [x \in S |-> 0]
None(S) == [x \in S |-> "none"]
CountsBelowZero(n) == n - 1   \* mutant: a timer that has expired goes on
CountDown(n) == IF n = 0 THEN 0 ELSE n - 1

-----------------------------------------------------------------------------
(* The checks.                                                             *)

\* fetch_work, and run_check of every check up to its first await.  Between
\* polls the targets come and go as they like.
Fetch ==
  /\ phase = "idle" /\ round < MaxRounds
  /\ phase' = "checking" /\ round' = round + 1
  /\ work' \in WorkLists
  /\ await' = [c \in Checks |-> IF work'[c].kind = "tls_cert" THEN "queued" ELSE "trying"]
  /\ queue' = queue \o SetToSeq({<<c, round'>> : c \in {d \in Checks : await'[d] = "queued"}})
  /\ left' = [c \in Checks |-> Timeout]
  /\ outer' = [c \in Checks |-> Timeout + Grace]
  /\ health' \in [Targets -> Healths]
  /\ \A t \in Targets : (\A c \in Checks : work'[c].target # t) => health'[t] = "gone"
  /\ seen' = [c \in Checks |-> {health'[work'[c].target]}]
  /\ UNCHANGED <<dns, status, blame, busy, looking, mishaps>>

\* How the target may end the await of a check; not at all, if it is held.
TheirEnds(c) == Ends(work[c], await[c], health[work[c].target])

\* An await with a timer ends when it expires.
MayEnd(c, how) ==
  \/ how \in TheirEnds(c) /\ (how = "timeout" => left[c] = 0)
  \/ /\ how \in AgentTrouble /\ mishaps < MaxMishaps
     /\ how = "blocked" => /\ work[c].kind \in {"http", "tls_cert"}
                           /\ await[c] \in {"trying", "first"}

\* The exception handlers of a checker, and that of run_check around it.
ErrorIsDown(c, how) ==   \* mutant: an unexpected exception counts as an outage
  IF how = "error" THEN "down" ELSE Verdict(work[c], await[c], how)

Says(c, how) == Verdict(work[c], await[c], how)

Conclude(c, how) ==
  /\ IF Says(c, how) \in Statuses
     THEN /\ await' = [await EXCEPT ![c] =
                         IF Closes(work[c], await[c], how) THEN "closing" ELSE "done"]
          /\ status' = [status EXCEPT ![c] = Says(c, how)]
          /\ UNCHANGED left
     ELSE /\ await' = [await EXCEPT ![c] = Says(c, how)]
          /\ left' = IF Says(c, how) = "second" THEN [left EXCEPT ![c] = Timeout] ELSE left
          /\ UNCHANGED status
  /\ blame' = [blame EXCEPT ![c] = @ \cup ({how} \cap Troubles)]
  /\ mishaps' = IF how \in Troubles THEN mishaps + 1 ELSE mishaps

\* An await of a checker on the event loop ends.
CheckAdvances(c, how) ==
  /\ await[c] \in {"trying", "draining", "reading"}
  /\ MayEnd(c, how)
  /\ Conclude(c, how)
  /\ UNCHANGED <<phase, round, work, dns, outer, seen, executor, looking, health>>

\* wait_closed ends, and the checker returns.  An OSError is passed over, any
\* other exception takes the place of the result and is caught by run_check.
ConnectionCloses(c, how) ==
  /\ await[c] = "closing"
  /\ MayEnd(c, how)
  /\ await' = [await EXCEPT ![c] = "done"]
  /\ status' = IF how = "error" THEN [status EXCEPT ![c] = "unknown"] ELSE status
  /\ blame' = [blame EXCEPT ![c] = @ \cup ({how} \cap Troubles)]
  /\ mishaps' = IF how \in Troubles THEN mishaps + 1 ELSE mishaps
  /\ UNCHANGED <<phase, round, work, dns, left, outer, seen, executor, looking, health>>

\* A handshake of a certificate read ends, in its thread.
HandshakeEnds(c, how) ==
  /\ await[c] \in {"first", "second"}
  /\ MayEnd(c, how)
  /\ Conclude(c, how)
  /\ busy' = IF await'[c] = "done" THEN busy \ {Job(c)} ELSE busy
  /\ UNCHANGED <<phase, round, work, dns, outer, seen, queue, looking, health>>

\* The wait_for around it expires first.
ReadTimesOut(c) ==
  /\ await[c] \in InThread /\ outer[c] = 0
  /\ await' = [await EXCEPT ![c] = "done"]
  /\ status' = [status EXCEPT ![c] = "down"]
  /\ queue' = Without(Job(c))
  /\ UNCHANGED <<phase, round, work, dns, left, outer, seen, blame, busy,
                 looking, world>>

-----------------------------------------------------------------------------
(* The executor.                                                           *)

\* A job whose caller has given up, or belongs to an earlier poll.
Orphan(job) ==
  \/ job[2] # round
  \/ job[1] \in Checks /\ await[job[1]] = "done"
  \/ job[1] \in Targets /\ lookup[job[1]] # "asking"

ThreadTakes ==
  /\ queue # <<>> /\ Cardinality(busy) < Threads
  /\ busy' = busy \cup {Head(queue)} /\ queue' = Tail(queue)
  /\ LET x == Head(queue)[1]
         current == Head(queue)[2] = round
     IN  /\ IF current /\ x \in Checks
            THEN /\ await' = [await EXCEPT ![x] = "first"]
                 /\ left' = [left EXCEPT ![x] = Timeout]
            ELSE UNCHANGED <<await, left>>
         /\ lookup' = IF current /\ x \in Targets /\ lookup[x] = "queued"
                      THEN [lookup EXCEPT ![x] = "asking"] ELSE lookup
  /\ UNCHANGED <<phase, round, work, dns, outer, status, seen, blame, ptr,
                 wait, said, world>>

OrphanEnds(job) ==
  /\ job \in busy /\ Orphan(job)
  /\ busy' = busy \ {job}
  /\ UNCHANGED <<phase, round, checking, queue, looking, world>>

-----------------------------------------------------------------------------
(* The lookups.                                                            *)

\* Once the last check has ended it does not matter what the targets do.
ForgetTargets ==
  /\ health' = [t \in Targets |-> "gone"] /\ mishaps' = 0
  /\ seen' = [c \in Checks |-> {}] /\ blame' = [c \in Checks |-> {}]

\* gather has all the results; resolve_ptrs is called, or the core resolves.
ChecksEnd ==
  /\ phase = "checking" /\ \A c \in Checks : await[c] = "done"
  /\ dns' \in DnsModes
  /\ IF dns' \in {"system", "explicit"}
     THEN /\ phase' = "looking"
          /\ lookup' = [t \in Targets |-> IF t \in Asked THEN "due" ELSE "none"]
     ELSE phase' = "posting" /\ UNCHANGED lookup
  /\ ForgetTargets
  /\ left' = Zero(Checks) /\ outer' = Zero(Checks)
  /\ UNCHANGED <<round, work, await, status, executor, ptr, wait, said>>

LookupStarts(t) ==
  /\ lookup[t] = "due"
  /\ Cardinality({u \in Targets : lookup[u] \in {"queued", "asking"}}) < Gate
  /\ wait' = [wait EXCEPT ![t] = LookupTimeout]
  /\ IF dns = "system"
     THEN lookup' = [lookup EXCEPT ![t] = "queued"] /\ queue' = Append(queue, Job(t))
     ELSE lookup' = [lookup EXCEPT ![t] = "asking"] /\ UNCHANGED queue
  /\ UNCHANGED <<phase, round, checking, busy, ptr, said, world>>

\* A name; no such name; or the resolver itself has failed.
LookupAnswered(t, reply) ==
  /\ lookup[t] = "asking"
  /\ lookup' = [lookup EXCEPT ![t] = "ended"]
  /\ said' = [said EXCEPT ![t] = reply]
  /\ busy' = busy \ {Job(t)}
  /\ UNCHANGED <<phase, round, checking, queue, ptr, wait, world>>

WaitsForAnswer(t) == FALSE   \* mutant: a lookup is not given up

GivesUp(t) == wait[t] = 0

LookupTimesOut(t) ==
  /\ lookup[t] \in {"queued", "asking"} /\ GivesUp(t)
  /\ lookup' = [lookup EXCEPT ![t] = "ended"]
  /\ said' = [said EXCEPT ![t] = "silence"]
  /\ queue' = Without(Job(t))
  /\ UNCHANGED <<phase, round, checking, busy, ptr, wait, world>>

SilenceIsNone(t) ==   \* mutant: no answer is taken for an answer
  CASE said[t] = "name" -> "name" [] OTHER -> "empty"

\* What resolve_ptrs returns for an address: its name, None, or nothing.
Found(t) ==
  CASE said[t] = "name" -> "name"
    [] said[t] = "nxdomain" \/ (said[t] = "failure" /\ dns = "system") -> "empty"
    [] OTHER -> "absent"

\* gather has all the lookups; attach_ptrs goes through the results.
Attach ==
  /\ phase = "looking" /\ \A t \in Asked : lookup[t] = "ended"
  /\ ptr' = [c \in Checks |-> Found(work[c].target)]
  /\ phase' = "posting"
  /\ UNCHANGED <<round, checking, executor, lookup, wait, said, world>>

\* An exception that _via_system does not name: attach_ptrs goes without, and
\* the other lookups go on for nobody.
LookupRaises(t) ==
  /\ phase = "looking" /\ dns = "system" /\ lookup[t] = "asking"
  /\ "error" \in AgentTrouble /\ mishaps < MaxMishaps /\ mishaps' = mishaps + 1
  /\ phase' = "posting"
  /\ lookup' = [lookup EXCEPT ![t] = "ended"]
  /\ busy' = busy \ {Job(t)}
  /\ UNCHANGED <<round, checking, queue, ptr, wait, said, health>>

\* post_results, well or not; what the pass knew is gone.
Post ==
  /\ phase = "posting" /\ phase' = "idle"
  /\ work' = NoWork /\ dns' = "off"
  /\ wait' = Zero(Targets)
  /\ status' = None(Checks) /\ ptr' = [c \in Checks |-> "absent"]
  /\ lookup' = None(Targets) /\ said' = None(Targets)
  /\ mishaps' = 0
  /\ UNCHANGED <<round, await, left, outer, executor, seen, blame, health>>

-----------------------------------------------------------------------------
(* Time and the targets.                                                   *)

\* Nothing that takes no time is outstanding: a target that answers or
\* refuses does so within a tick, a timer that has expired is acted on, and
\* a free thread takes what is queued.
Quiet ==
  /\ \A c \in Checks :
       /\ await[c] \notin {"queued", "done"} =>
            TheirEnds(c) = {} \/ (TheirEnds(c) = {"timeout"} /\ left[c] > 0)
       /\ await[c] \in InThread => outer[c] > 0
  /\ \A t \in Targets : lookup[t] \in {"queued", "asking"} => wait[t] > 0
  /\ queue = <<>> \/ Cardinality(busy) = Threads

Tick ==
  /\ phase \in {"checking", "looking"} /\ Quiet
  /\ left' = [c \in Checks |-> IF await[c] = "queued" THEN left[c] ELSE CountDown(left[c])]
  /\ outer' = [c \in Checks |-> CountDown(outer[c])]
  /\ wait' = [t \in Targets |-> CountDown(wait[t])]
  /\ blame' = [c \in Checks |-> IF await[c] = "queued" THEN blame[c] \cup {"thread"}
                                                      ELSE blame[c]]
  /\ UNCHANGED <<phase, round, work, dns, await, status, seen, executor, ptr,
                 lookup, said, world>>

HealthChanges(t, h) ==
  /\ \E c \in Checks : work[c].target = t /\ await[c] # "done"
  /\ mishaps < MaxMishaps /\ mishaps' = mishaps + 1
  /\ health[t] # h /\ health' = [health EXCEPT ![t] = h]
  /\ seen' = [c \in Checks |-> IF work[c].target = t /\ await[c] \notin {"closing", "done"}
                               THEN seen[c] \cup {h} ELSE seen[c]]
  /\ UNCHANGED <<phase, round, work, dns, await, left, outer, status, blame,
                 executor, looking>>

Done == phase = "idle" /\ round = MaxRounds /\ UNCHANGED vars

Init ==
  /\ phase = "idle" /\ round = 0
  /\ work = NoWork /\ dns = "off"
  /\ await = [c \in Checks |-> "done"]
  /\ left = Zero(Checks) /\ outer = Zero(Checks) /\ wait = Zero(Targets)
  /\ status = None(Checks) /\ ptr = [c \in Checks |-> "absent"]
  /\ queue = <<>> /\ busy = {}
  /\ lookup = None(Targets) /\ said = None(Targets)
  /\ health = [t \in Targets |-> "gone"] /\ mishaps = 0
  /\ seen = [c \in Checks |-> {}] /\ blame = [c \in Checks |-> {}]

AnyEnd(Step(_, _)) == \E c \in Checks : \E how \in TargetEnds \cup Troubles : Step(c, how)

Next ==
  \/ Fetch
  \/ AnyEnd(CheckAdvances) \/ AnyEnd(ConnectionCloses) \/ AnyEnd(HandshakeEnds)
  \/ \E c \in Checks : ReadTimesOut(c)
  \/ ThreadTakes \/ \E job \in busy : OrphanEnds(job)
  \/ ChecksEnd
  \/ \E t \in Targets : LookupStarts(t)
  \/ \E t \in Targets, reply \in {"name", "nxdomain", "failure"} : LookupAnswered(t, reply)
  \/ \E t \in Targets : LookupTimesOut(t) \/ LookupRaises(t)
  \/ Attach \/ Post
  \/ Tick \/ \E t \in Targets, h \in Healths : HealthChanges(t, h)
  \/ Done

Spec == Init /\ [][Next]_vars

\* Awaits that can end do: those of a checker when the target lets them or
\* their timer expires, a handshake with the timeout of its socket, a sleep
\* with the clock.  A call of the resolver that a thread is in need not return,
\* and a resolver need not answer; nor does a target that stalls have to stop.
Fairness ==
  /\ WF_vars(AnyEnd(CheckAdvances)) /\ WF_vars(AnyEnd(ConnectionCloses))
  /\ WF_vars(AnyEnd(HandshakeEnds))
  /\ \A c \in Checks : WF_vars(ReadTimesOut(c))
  /\ WF_vars(ThreadTakes)
  /\ WF_vars(\E job \in busy : job[1] \in Checks /\ OrphanEnds(job))
  /\ WF_vars(ChecksEnd)
  /\ \A t \in Targets : WF_vars(LookupStarts(t)) /\ WF_vars(LookupTimesOut(t))
  /\ WF_vars(Attach) /\ WF_vars(Post) /\ WF_vars(Tick)

FairSpec == Spec /\ Fairness

-----------------------------------------------------------------------------
(* Properties.                                                             *)

TypeOK ==
  /\ phase \in {"idle", "checking", "looking", "posting"} /\ round \in 0..MaxRounds
  /\ work \in WorkLists /\ dns \in DnsModes \cup {"off"}
  /\ await \in [Checks -> {"trying", "draining", "reading", "closing", "queued", "first",
                           "second", "done"}]
  /\ left \in [Checks -> 0..Timeout] /\ outer \in [Checks -> 0..(Timeout + Grace)]
  /\ status \in [Checks -> Statuses \cup {"none"}]
  /\ ptr \in [Checks -> {"absent", "empty", "name"}]
  /\ queue \in Seq((Checks \cup Targets) \X (1..MaxRounds))
  /\ busy \subseteq (Checks \cup Targets) \X (1..MaxRounds)
  /\ Cardinality(busy) <= Threads
  /\ lookup \in [Targets -> {"none", "due", "queued", "asking", "ended"}]
  /\ wait \in [Targets -> 0..LookupTimeout]
  /\ said \in [Targets -> {"none", "name", "nxdomain", "failure", "silence"}]
  /\ health \in [Targets -> Healths] /\ mishaps \in 0..MaxMishaps
  /\ seen \in [Checks -> SUBSET Healths]
  /\ blame \in [Checks -> SUBSET (Troubles \cup {"thread"})]

\* The targets that do not answer a check of a kind; those it can reach; those
\* that serve what it asks for.
Silent == {"mute", "refusing", "stalling", "gone"}

Unreachable(kind) ==
  CASE kind = "icmp" -> {"gone"} [] kind = "udp" -> {"refusing"}
    [] kind = "telnet" -> {"refusing", "gone"} [] OTHER -> Silent

Reachable(kind) ==
  CASE kind = "icmp" -> Healths \ {"gone"}
    [] kind \in {"tcp", "telnet"} -> Healths \ {"refusing", "gone"}
    [] OTHER -> {"serving", "wrong", "denying"}

Satisfying(kind) ==
  CASE kind = "icmp" -> Healths \ {"wrong", "gone"}
    [] kind \in {"tcp", "udp", "telnet"} -> {"serving", "denying"}
    [] OTHER -> {"serving"}

\* What a result claims was so at some time before its check had it, however
\* the target came and went between the awaits (base.py:11-16).  A target that
\* is reported up or degraded could be reached, and one that had to meet an
\* expectation and is up met it.  One that is unknown left a udp check without
\* an answer or answered an SNMP check with an error, or the agent was at fault.
\* One that is down could not be reached, but for the exceptions listed, in
\* which the code does not keep base.py:11-13: an OSError of the agent, no
\* thread for a certificate read (tls_cert.py:390), a refusal by its own address
\* policy (http.py:63), and targets that answer and deny - a chain that does not
\* verify (http.py:83), an SNMPv3 report (snmp.py:107), a refused command
\* (ssh.py:124).
StatusIsEarned ==
  phase = "checking" => \A c \in Checks : LET k == work[c].kind IN
    /\ status[c] = "down" =>
         \/ seen[c] \cap Unreachable(k) # {}
         \/ blame[c] \cap {"oserror", "thread"} # {}
         \/ k = "http" /\ "blocked" \in blame[c]
         \/ k \in {"http", "snmp", "ssh"} /\ "denying" \in seen[c]
    /\ status[c] \in {"up", "degraded"} => seen[c] \cap Reachable(k) # {}
    /\ status[c] = "up" /\ (Expecting(work[c].asks) \/ k \in {"http", "tls_cert"}) =>
         seen[c] \cap Satisfying(k) # {}
    /\ status[c] = "unknown" =>
         \/ k = "exec" \/ blame[c] # {}
         \/ k = "udp" /\ seen[c] \cap Silent # {}
         \/ k = "snmp" /\ "wrong" \in seen[c]

\* A result carries the field ptr only if the lookup of its own target, in this
\* poll, brought an answer, and then carries that answer: neither a result
\* whose lookup was given up, nor one that shares its target with another, nor
\* an earlier poll's lookup still in a thread gets it wrong (checks.py:47-51).
PtrIsAnAnswer ==
  phase = "posting" => \A c \in Checks : LET s == said[work[c].target] IN
    /\ s \in {"none", "silence"} => ptr[c] = "absent"
    /\ ptr[c] = "name" => s = "name"
    /\ ptr[c] = "empty" => s \in {"nxdomain", "failure"}
    /\ dns = "explicit" /\ s \in {"name", "nxdomain"} => ptr[c] # "absent"

\* Whatever hangs, targets, threads or the resolver, the poll comes to its end,
\* unless a target stalls for ever on one of the awaits that have no limit of
\* their own: the page of an HTTP check (http.py:80), what a TCP or Telnet check
\* sends (tcp.py:52, telnet.py:63) and its close (tcp.py:76, telnet.py:89).  So
\* far the code keeps "never run longer than timeout_ms" (base.py:9-10).
Held(c) ==
  /\ health[work[c].target] = "stalling"
  /\ \/ work[c].kind = "http" /\ await[c] = "trying"
     \/ Sending(work[c].asks) /\ await[c] \in {"draining", "closing"}

RoundEnds ==
  (phase = "checking" ~> phase = "idle") \/ <>[](\E c \in Checks : Held(c))

-----------------------------------------------------------------------------
(* What the comments say and the code does not do.                         *)

\* "down is reserved for a genuine reachability failure" (base.py:13).
OnlyTargetsAreDown ==
  phase = "checking" => \A c \in Checks : status[c] = "down" =>
    seen[c] \cap Silent # {}

\* None "means the servers answered and this address has no PTR"
\* (reverse_dns.py:125); the core reads the empty ptr as that.
EmptyMeansNameless ==
  phase = "posting" => \A c \in Checks : ptr[c] = "empty" => said[work[c].target] = "nxdomain"

=============================================================================
