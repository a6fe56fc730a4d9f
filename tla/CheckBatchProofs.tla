-------------------------- MODULE CheckBatchProofs --------------------------
(***************************************************************************)
(* Proofs about CheckBatch, for every set of checks and targets, every     *)
(* work list and every timeout: what a status and a PTR name rest on, and  *)
(* that nothing in a batch is done twice.                                  *)
(***************************************************************************)
EXTENDS CheckBatch, SequenceTheorems, FiniteSetTheorems, TLAPS

USE DEF checking, executor, looking, world

-----------------------------------------------------------------------------
(* The queue of the executor.                                              *)

\* r holds elements of q, each position of r one of its own.
PartOf(r, q) ==
  \E at \in [DOMAIN r -> DOMAIN q] :
    /\ \A i \in DOMAIN r : r[i] = q[at[i]]
    /\ \A i, j \in DOMAIN r : at[i] = at[j] => i = j

LEMMA RemoveAtProperties ==
  ASSUME NEW S, NEW q \in Seq(S), NEW k \in DOMAIN q
  PROVE  /\ RemoveAt(q, k) \in Seq(S)
         /\ PartOf(RemoveAt(q, k), q)
         /\ (\A i, j \in DOMAIN q : q[i] = q[k] /\ q[j] = q[k] => i = j) =>
              \A i \in DOMAIN RemoveAt(q, k) : RemoveAt(q, k)[i] # q[k]
<1>1. PICK n \in Nat : n = Len(q) /\ DOMAIN q = 1..n /\ q \in [1..n -> S]
  BY LenProperties
<1>2. k \in 1..n  BY <1>1
<1>3. PICK m \in Nat : m = k - 1 /\ m < n  BY <1>2
<1>4. PICK a \in Seq(S) : /\ a = SubSeq(q, 1, k - 1)
                          /\ Len(a) = m /\ \A i \in 1..m : a[i] = q[i]
  <2>1. \A i \in 1..m : q[i] \in S  BY <1>1, <1>3
  <2>2. /\ SubSeq(q, 1, m) \in Seq(S)
        /\ Len(SubSeq(q, 1, m)) = IF 1 <= m THEN m - 1 + 1 ELSE 0
        /\ \A i \in 1..m - 1 + 1 : SubSeq(q, 1, m)[i] = q[1 + i - 1]
    BY <2>1, SubSeqProperties
  <2>3. k - 1 = m /\ m - 1 + 1 = m /\ \A i \in 1..m : 1 + i - 1 = i  BY <1>2, <1>3
  <2>4. Len(SubSeq(q, 1, m)) = m  BY <1>3, <2>2, <2>3
  <2>5. \A i \in 1..m : SubSeq(q, 1, m)[i] = q[i]  BY <2>2, <2>3
  <2> QED  BY <2>2, <2>3, <2>4, <2>5
<1>5. PICK b \in Seq(S) : /\ b = SubSeq(q, k + 1, Len(q))
                          /\ Len(b) = n - k /\ \A i \in 1..(n - k) : b[i] = q[i + k]
  <2>1. \A i \in (k + 1)..n : q[i] \in S  BY <1>1, <1>2
  <2>2. /\ SubSeq(q, k + 1, n) \in Seq(S)
        /\ Len(SubSeq(q, k + 1, n)) = IF k + 1 <= n THEN n - (k + 1) + 1 ELSE 0
        /\ \A i \in 1..n - (k + 1) + 1 : SubSeq(q, k + 1, n)[i] = q[(k + 1) + i - 1]
    <3>1. k + 1 \in Int /\ n \in Int  BY <1>2
    <3> QED  BY <2>1, <3>1, SubSeqProperties
  <2>3. \A i \in 1..(n - k) : i \in 1..n - (k + 1) + 1 /\ (k + 1) + i - 1 = i + k
    BY <1>2
  <2>4. Len(SubSeq(q, k + 1, n)) = n - k
    <3>1. (IF k + 1 <= n THEN n - (k + 1) + 1 ELSE 0) = n - k  BY <1>2
    <3> QED  BY <2>2, <3>1
  <2>5. \A i \in 1..(n - k) : SubSeq(q, k + 1, n)[i] = q[i + k]  BY <2>2, <2>3
  <2> QED  BY <1>1, <2>2, <2>4, <2>5
<1>6. PICK r \in Seq(S) :
        /\ r = a \o b /\ Len(r) = Len(a) + Len(b)
        /\ \A i \in 1..Len(a) + Len(b) :
             r[i] = IF i <= Len(a) THEN a[i] ELSE b[i - Len(a)]
  <2>1. /\ a \o b \in Seq(S) /\ Len(a \o b) = Len(a) + Len(b)
        /\ \A i \in 1..Len(a) + Len(b) :
             (a \o b)[i] = IF i <= Len(a) THEN a[i] ELSE b[i - Len(a)]
    BY ConcatProperties
  <2> QED  BY <2>1, Zenon
<1>7. RemoveAt(q, k) = r  BY <1>4, <1>5, <1>6 DEF RemoveAt
<1>8. DOMAIN r = 1..(n - 1)
  <2>1. Len(r) = n - 1  BY <1>2, <1>3, <1>4, <1>5, <1>6
  <2> QED  BY <2>1, LenProperties
<1> DEFINE at == [i \in 1..(n - 1) |-> IF i <= m THEN i ELSE i + 1]
<1>9. /\ at \in [1..(n - 1) -> 1..n]
      /\ \A i \in 1..(n - 1) : at[i] = IF i <= m THEN i ELSE i + 1
  BY <1>3
<1> HIDE DEF at
<1>10. /\ \A i \in 1..(n - 1) : at[i] # k
       /\ \A i, j \in 1..(n - 1) : at[i] = at[j] => i = j
  BY <1>2, <1>3, <1>9
<1>11. ASSUME NEW i \in 1..(n - 1) PROVE r[i] = q[at[i]]
  <2>1. i \in 1..Len(a) + Len(b)  BY <1>2, <1>3, <1>4, <1>5
  <2>2. r[i] = IF i <= m THEN a[i] ELSE b[i - m]  BY <1>4, <1>6, <2>1
  <2>3. CASE i <= m
    <3>1. i \in 1..m  BY <2>3, <1>3
    <3> QED  BY <1>4, <1>9, <2>2, <2>3, <3>1
  <2>4. CASE ~(i <= m)
    <3>1. i - m \in 1..(n - k) /\ i - m + k = i + 1  BY <1>2, <1>3, <2>4
    <3>2. b[i - m] = q[i + 1]  BY <1>5, <3>1
    <3> QED  BY <1>9, <2>2, <2>4, <3>2
  <2> QED  BY <2>3, <2>4
<1>12. PartOf(r, q)
  <2>1. at \in [DOMAIN r -> DOMAIN q]  BY <1>1, <1>8, <1>9
  <2>2. /\ \A i \in DOMAIN r : r[i] = q[at[i]]
        /\ \A i, j \in DOMAIN r : at[i] = at[j] => i = j
    BY <1>8, <1>10, <1>11
  <2> QED  BY <2>1, <2>2, Zenon DEF PartOf
<1>13. ASSUME \A i, j \in DOMAIN q : q[i] = q[k] /\ q[j] = q[k] => i = j
       PROVE  \A i \in DOMAIN r : r[i] # q[k]
  BY <1>1, <1>2, <1>8, <1>9, <1>10, <1>11, <1>13
<1> QED  BY <1>7, <1>12, <1>13

LEMMA PartOfItself ==
  ASSUME NEW q PROVE PartOf(q, q)
<1> DEFINE at == [i \in DOMAIN q |-> i]
<1>1. at \in [DOMAIN q -> DOMAIN q] /\ \A i \in DOMAIN q : at[i] = i  OBVIOUS
<1> QED  BY <1>1 DEF PartOf

LEMMA WithoutProperties ==
  ASSUME NEW S, queue \in Seq(S), NEW job
  PROVE  /\ Without(job) \in Seq(S)
         /\ PartOf(Without(job), queue)
         /\ (\A i, j \in DOMAIN queue : queue[i] = job /\ queue[j] = job => i = j) =>
              \A i \in DOMAIN Without(job) : Without(job)[i] # job
<1>1. CASE \E i \in DOMAIN queue : queue[i] = job
  <2>1. PICK k \in DOMAIN queue : queue[k] = job /\ Without(job) = RemoveAt(queue, k)
    BY <1>1 DEF Without
  <2> QED  BY <2>1, RemoveAtProperties
<1>2. CASE ~\E i \in DOMAIN queue : queue[i] = job
  BY <1>2, PartOfItself DEF Without
<1> QED  BY <1>1, <1>2

LEMMA TailIsPart ==
  ASSUME NEW S, NEW q \in Seq(S), q # <<>>
  PROVE  /\ Tail(q) \in Seq(S) /\ PartOf(Tail(q), q) /\ Head(q) \in S
         /\ Head(q) = q[1] /\ 1 \in DOMAIN q
         /\ (\A i, j \in DOMAIN q : q[i] = q[1] /\ q[j] = q[1] => i = j) =>
              \A i \in DOMAIN Tail(q) : Tail(q)[i] # q[1]
<1>1. PICK n \in Nat : n = Len(q) /\ DOMAIN q = 1..n /\ n >= 1
  BY LenProperties, EmptySeq
<1>2. PICK r \in Seq(S) : r = Tail(q)  BY HeadTailProperties
<1>3. DOMAIN r = 1..(n - 1) /\ \A i \in 1..(n - 1) : r[i] = q[i + 1]
  BY <1>1, <1>2, HeadTailProperties, LenProperties
<1>4. Head(q) = q[1] /\ q[1] \in S  BY <1>1, HeadTailProperties, ElementOfSeq
<1> DEFINE at == [i \in 1..(n - 1) |-> i + 1]
<1>5. /\ at \in [1..(n - 1) -> 1..n]
      /\ \A i \in 1..(n - 1) : r[i] = q[at[i]] /\ at[i] # 1
      /\ \A i, j \in 1..(n - 1) : at[i] = at[j] => i = j
  BY <1>1, <1>3
<1> HIDE DEF at
<1>6. PartOf(r, q)  BY <1>1, <1>3, <1>5 DEF PartOf
<1>7. 1 \in DOMAIN q  BY <1>1
<1> QED  BY <1>1, <1>2, <1>3, <1>4, <1>5, <1>6, <1>7

\* SetToSeq of a finite set is a sequence of its elements without repetition.
LEMMA SetToSeqProperties ==
  ASSUME NEW S, IsFiniteSet(S)
  PROVE  /\ SetToSeq(S) \in Seq(S)
         /\ \A i, j \in DOMAIN SetToSeq(S) : SetToSeq(S)[i] = SetToSeq(S)[j] => i = j
<1>1. PICK n \in Nat : n = Cardinality(S) /\ ExistsBijection(1..n, S)
  BY FS_CardinalityType
<1>2. PICK f \in [1..n -> S] : \A i, j \in 1..n : f[i] = f[j] => i = j
  BY <1>1 DEF ExistsBijection, Bijection, Injection, IsInjective
<1>3. IsInjective(f)  BY <1>2 DEF IsInjective
<1>4. /\ SetToSeq(S) \in [1..n -> S]
      /\ IsInjective(SetToSeq(S))
  BY <1>1, <1>3 DEF SetToSeq
<1>5. SetToSeq(S) \in Seq(S)  BY <1>1, <1>4, SeqDef
<1> QED  BY <1>4, <1>5 DEF IsInjective

-----------------------------------------------------------------------------
(* What a checker makes of the end of an await.                            *)

Await == {"trying", "draining", "reading", "first", "second"}
Expects(check) == Expecting(check.asks) \/ check.kind \in {"http", "tls_cert"}

\* What is known of a check at an await, with its target seen as in hs: one that
\* is past its first await has reached it.
Knows(check, await_, hs) ==
  /\ await_ \in {"first", "second"} <=> check.kind = "tls_cert"
  /\ await_ = "draining" => check.kind \in {"tcp", "telnet"}
  /\ await_ = "reading" => check.kind \in {"tcp", "telnet", "ssh"}
  /\ await_ \in {"draining", "reading", "second"} => hs \cap Reachable(check.kind) # {}

\* What a status claims of the target, seen as in hs, if the agent is not to
\* blame.
Claims(check, s, hs) ==
  /\ s = "down" => \/ hs \cap Unreachable(check.kind) # {}
                   \/ check.kind \in {"http", "snmp", "ssh"} /\ "denying" \in hs
  /\ s \in {"up", "degraded"} => hs \cap Reachable(check.kind) # {}
  /\ s = "up" /\ Expects(check) => hs \cap Satisfying(check.kind) # {}
  /\ s = "unknown" => \/ check.kind = "exec"
                      \/ check.kind = "udp" /\ hs \cap Silent # {}
                      \/ check.kind = "snmp" /\ "wrong" \in hs

Check == [kind : Kinds, asks : Asks, target : Targets]

LEMMA EndsAreTheirs ==
  ASSUME NEW check \in Check, NEW a, NEW h
  PROVE  Ends(check, a, h) \subseteq TargetEnds /\ TargetEnds \cap Troubles = {}
  BY DEF Ends, Echo, Closing, Drained, Connection, Service, Different, Denial,
         TargetEnds, Troubles

\* An await that the target ends leads to the next await of the checker, or to
\* a status that claims no more than the target has shown.
LEMMA TargetIsJudged ==
  ASSUME NEW check \in Check, NEW a \in Await, NEW h \in Healths, NEW hs, h \in hs,
         Knows(check, a, hs), NEW how \in Ends(check, a, h)
  PROVE  LET v == Verdict(check, a, how) IN
           /\ v \in Statuses => Claims(check, v, hs)
           /\ v \notin Statuses => v \in Await \ {"trying", "first"} /\ Knows(check, v, hs)
<1>0. check.kind \in Kinds /\ check.asks \in Asks /\ how \in TargetEnds /\ how \notin Troubles
  BY EndsAreTheirs DEF Check
<1> USE DEF Knows, Claims, Expects, Verdict, Ends, Healths, Await, Statuses, Asks,
            Silent, Unreachable, Reachable, Satisfying, Judge, Failed, Troubles,
            Sending, Expecting, Echo, Drained, Connection, Service, Different, Denial
<1>1. CASE check.kind = "icmp"  BY <1>0, <1>1 DEF Icmp
<1>2. CASE check.kind = "tcp"
  <2>1. CASE a = "trying"  BY <1>0, <1>2, <2>1 DEF Tcp
  <2>2. CASE a = "draining"  BY <1>0, <1>2, <2>2 DEF Tcp
  <2>3. CASE a = "reading"  BY <1>0, <1>2, <2>3 DEF Tcp
  <2> QED  BY <1>2, <2>1, <2>2, <2>3
<1>3. CASE check.kind = "udp"  BY <1>0, <1>3 DEF Udp
<1>4. CASE check.kind = "telnet"
  <2>1. CASE a = "trying"  BY <1>0, <1>4, <2>1 DEF Telnet
  <2>2. CASE a = "draining"  BY <1>0, <1>4, <2>2 DEF Telnet
  <2>3. CASE a = "reading"  BY <1>0, <1>4, <2>3 DEF Telnet
  <2> QED  BY <1>4, <2>1, <2>2, <2>3
<1>5. CASE check.kind = "http"  BY <1>0, <1>5 DEF Http
<1>6. CASE check.kind = "snmp"  BY <1>0, <1>6 DEF Snmp
<1>7. CASE check.kind = "ssh"  BY <1>0, <1>7 DEF Ssh
<1>8. CASE check.kind = "tls_cert"  BY <1>0, <1>8 DEF TlsCert
<1>9. CASE check.kind = "exec"  BY <1>0, <1>9
<1> QED  BY <1>0, <1>1, <1>2, <1>3, <1>4, <1>5, <1>6, <1>7, <1>8, <1>9 DEF Kinds

\* An await that the agent itself spoils never shows the target up, and shows it
\* down only for an OSError or, to an HTTP check, the address policy.
LEMMA TroubleIsNoAnswer ==
  ASSUME NEW check \in Check, NEW a \in Await, NEW how \in Troubles,
         how = "blocked" => check.kind \in {"http", "tls_cert"}
  PROVE  LET v == Verdict(check, a, how) IN
           \/ v = "unknown"
           \/ v = "down" /\ (how = "oserror" \/ (how = "blocked" /\ check.kind = "http"))
<1>0. check.kind \in Kinds  BY DEF Check
<1> USE DEF Verdict, Failed, Troubles, Judge
<1>1. CASE check.kind = "icmp"  BY <1>0, <1>1 DEF Icmp
<1>2. CASE check.kind = "tcp"  BY <1>0, <1>2 DEF Tcp
<1>3. CASE check.kind = "udp"  BY <1>0, <1>3 DEF Udp
<1>4. CASE check.kind = "telnet"  BY <1>0, <1>4 DEF Telnet
<1>5. CASE check.kind = "http"  BY <1>0, <1>5 DEF Http
<1>6. CASE check.kind = "snmp"  BY <1>0, <1>6 DEF Snmp
<1>7. CASE check.kind = "ssh"  BY <1>0, <1>7 DEF Ssh
<1>8. CASE check.kind = "tls_cert"  BY <1>0, <1>8 DEF TlsCert
<1>9. CASE check.kind = "exec"  BY <1>0, <1>9
<1> QED  BY <1>0, <1>1, <1>2, <1>3, <1>4, <1>5, <1>6, <1>7, <1>8, <1>9 DEF Kinds

-----------------------------------------------------------------------------
(* Types.                                                                  *)

Jobs == (Checks \cup Targets) \X (1..MaxRounds)

\* TypeOK, and no job is made before the first poll.
TypeInv ==
  /\ TypeOK
  /\ IsFiniteSet(busy)
  /\ round = 0 => phase = "idle" /\ \A t \in Targets : lookup[t] = "none"

LEMMA NoWorkType == NoWork \in WorkLists
  BY BatchAssumption DEF NoWork

LEMMA WorkType ==
  ASSUME NEW w \in WorkLists, NEW c \in Checks
  PROVE  w[c] \in Check /\ w[c].kind \in Kinds /\ w[c].target \in Targets
  BY BatchAssumption DEF Check

\* What Fetch queues: the jobs of the certificate reads, each once.
LEMMA FetchQueues ==
  ASSUME TypeOK, Fetch
  PROVE  \E s \in Seq(Jobs) :
           /\ queue' = queue \o s
           /\ \A i \in DOMAIN s : /\ s[i][1] \in Checks /\ s[i][2] = round'
                                  /\ await'[s[i][1]] = "queued"
           /\ \A i, j \in DOMAIN s : s[i] = s[j] => i = j
<1> DEFINE D == {d \in Checks : await'[d] = "queued"}
           S == {<<c, round'>> : c \in D}
<1>1. IsFiniteSet(D)  BY BatchAssumption, FS_Subset
<1>2. IsFiniteSet(S)
  <2>1. IsFiniteSet({round'})  BY FS_Singleton
  <2>2. IsFiniteSet(D \X {round'})  BY <1>1, <2>1, FS_Product
  <2>3. S \subseteq D \X {round'}  OBVIOUS
  <2> QED  BY <2>2, <2>3, FS_Subset
<1>3. round' \in 1..MaxRounds  BY BatchAssumption DEF Fetch, TypeOK
<1>4. S \subseteq Jobs  BY <1>3 DEF Jobs
<1>5. queue' = queue \o SetToSeq(S)  BY DEF Fetch
<1>6. \A x \in S : x[1] \in Checks /\ x[2] = round' /\ await'[x[1]] = "queued"
  OBVIOUS
<1> HIDE DEF D, S
<1>7. PICK s : s = SetToSeq(S)  OBVIOUS
<1>8. s \in Seq(S) /\ \A i, j \in DOMAIN s : s[i] = s[j] => i = j
  BY <1>2, <1>7, SetToSeqProperties
<1>9. s \in Seq(Jobs)  BY <1>4, <1>8, SeqMonotonic
<1>10. \A i \in DOMAIN s : s[i] \in S  BY <1>8, ElementOfSeq, LenProperties
<1> QED  BY <1>5, <1>6, <1>7, <1>8, <1>9, <1>10

LEMMA TypeInit == Init => TypeInv
<1> SUFFICES ASSUME Init PROVE TypeInv
  OBVIOUS
<1> USE DEF Init, Zero, None
<1>1. queue \in Seq(Jobs) /\ busy \subseteq Jobs  BY EmptySeq
<1>2. IsFiniteSet(busy) /\ Cardinality(busy) <= Threads  BY FS_EmptySet, BatchAssumption
<1>3. round \in 0..MaxRounds /\ mishaps \in 0..MaxMishaps  BY BatchAssumption
<1>4. /\ left \in [Checks -> 0..Timeout] /\ outer \in [Checks -> 0..(Timeout + Grace)]
      /\ wait \in [Targets -> 0..LookupTimeout]
  BY BatchAssumption
<1>5. work \in WorkLists  BY NoWorkType
<1> QED  BY <1>1, <1>2, <1>3, <1>4, <1>5 DEF TypeInv, TypeOK, Jobs, Statuses, Healths

\* What a trouble adds to the blame and uses up of the mishaps.
LEMMA BlameType ==
  ASSUME TypeOK, NEW c \in Checks, NEW how, MayEnd(c, how),
         blame' = [blame EXCEPT ![c] = @ \cup ({how} \cap Troubles)],
         mishaps' = IF how \in Troubles THEN mishaps + 1 ELSE mishaps
  PROVE  /\ blame' \in [Checks -> SUBSET (Troubles \cup {"thread"})]
         /\ mishaps' \in 0..MaxMishaps
<1>1. how \in Troubles => mishaps < MaxMishaps
  <2>1. work[c] \in Check  BY WorkType DEF TypeOK
  <2> QED  BY <2>1, EndsAreTheirs DEF MayEnd, TheirEnds
<1>2. mishaps' \in 0..MaxMishaps  BY <1>1, BatchAssumption DEF TypeOK
<1>3. /\ blame \in [Checks -> SUBSET (Troubles \cup {"thread"})]
      /\ {how} \cap Troubles \subseteq Troubles \cup {"thread"}
  BY DEF TypeOK
<1>4. blame' \in [Checks -> SUBSET (Troubles \cup {"thread"})]  BY <1>3
<1> QED  BY <1>2, <1>4

\* A check that goes on or ends.
LEMMA ConcludeType ==
  ASSUME TypeOK, NEW c \in Checks, NEW how, MayEnd(c, how), Conclude(c, how),
         await[c] \in Await
  PROVE  /\ await' \in [Checks -> {"trying", "draining", "reading", "closing", "queued",
                                  "first", "second", "done"}]
         /\ left' \in [Checks -> 0..Timeout]
         /\ status' \in [Checks -> Statuses \cup {"none"}]
         /\ blame' \in [Checks -> SUBSET (Troubles \cup {"thread"})]
         /\ mishaps' \in 0..MaxMishaps
<1>1. Says(c, how) \in Statuses \cup {"draining", "reading", "second"}
  BY DEF Says, Verdict, Icmp, Tcp, Udp, Telnet, Http, Snmp, Ssh, TlsCert, Judge, Statuses
<1>2. /\ blame' \in [Checks -> SUBSET (Troubles \cup {"thread"})]
      /\ mishaps' \in 0..MaxMishaps
  BY BlameType DEF Conclude
<1>3. Timeout \in 0..Timeout  BY BatchAssumption
<1>4. left' \in [Checks -> 0..Timeout]  BY <1>3 DEF Conclude, TypeOK
<1>5. status' \in [Checks -> Statuses \cup {"none"}]  BY DEF Conclude, TypeOK
<1>6. await' \in [Checks -> {"trying", "draining", "reading", "closing", "queued", "first",
                            "second", "done"}]
  BY <1>1 DEF Conclude, TypeOK
<1> QED  BY <1>2, <1>4, <1>5, <1>6

\* The close of a connection may spoil the result, and moves no other check.
LEMMA CloseFrame ==
  ASSUME TypeOK, NEW c \in Checks, NEW how, ConnectionCloses(c, how)
  PROVE  /\ await[c] = "closing" /\ await'[c] = "done"
         /\ \/ status'[c] = status[c]
            \/ status'[c] = "unknown" /\ how = "error"
         /\ \A d \in Checks \ {c} : await'[d] = await[d] /\ status'[d] = status[d]
         /\ \A d \in Checks : blame[d] \subseteq blame'[d]
         /\ how \in Troubles => how \in blame'[c]
         /\ UNCHANGED <<phase, round, work, dns, left, outer, seen, executor, looking, health>>
  BY DEF ConnectionCloses, TypeOK

LEMMA BusyShrinks ==
  ASSUME TypeInv, NEW job
  PROVE  /\ busy \ {job} \subseteq Jobs /\ IsFiniteSet(busy \ {job})
         /\ Cardinality(busy \ {job}) <= Threads
<1>1. /\ IsFiniteSet(busy \ {job}) /\ Cardinality(busy \ {job}) <= Cardinality(busy)
      /\ Cardinality(busy \ {job}) \in Nat /\ Cardinality(busy) \in Nat
  BY FS_Subset, FS_CardinalityType DEF TypeInv
<1>2. Threads \in Nat /\ Cardinality(busy) <= Threads
  BY BatchAssumption DEF TypeInv, TypeOK
<1>3. busy \ {job} \subseteq Jobs  BY DEF TypeInv, TypeOK, Jobs
<1> QED  BY <1>1, <1>2, <1>3

LEMMA CountDownType ==
  ASSUME NEW N \in Nat, NEW n \in 0..N PROVE CountDown(n) \in 0..N
  BY DEF CountDown

\* The executor, the only part of the state that is not a plain function.
QueueType == queue \in Seq(Jobs)
BusyType == busy \subseteq Jobs /\ IsFiniteSet(busy) /\ Cardinality(busy) <= Threads

LEMMA QueueTypeStep ==
  ASSUME TypeInv, [Next]_vars PROVE QueueType'
<1>0. TypeOK /\ queue \in Seq(Jobs)  BY DEF TypeInv, TypeOK, Jobs
<1>1. CASE UNCHANGED queue  BY <1>0, <1>1 DEF QueueType
<1>2. \A job : Without(job) \in Seq(Jobs)  BY <1>0, WithoutProperties
<1>3. CASE Fetch
  <2>1. PICK s \in Seq(Jobs) : queue' = queue \o s  BY <1>0, <1>3, FetchQueues
  <2>2. queue \o s \in Seq(Jobs)  BY <1>0, ConcatProperties
  <2> QED  BY <2>1, <2>2 DEF QueueType
<1>4. CASE ThreadTakes
  <2>1. queue # <<>> /\ queue' = Tail(queue)  BY <1>4 DEF ThreadTakes
  <2> QED  BY <1>0, <2>1, TailIsPart DEF QueueType
<1>5. ASSUME NEW t \in Targets, LookupStarts(t) PROVE QueueType'
  <2>1. CASE dns = "system"
    <3>1. round \in 1..MaxRounds
      BY <1>5, BatchAssumption DEF LookupStarts, TypeInv, TypeOK
    <3>2. Job(t) \in Jobs  BY <3>1 DEF Job, Jobs
    <3>3. queue' = Append(queue, Job(t))  BY <1>5, <2>1 DEF LookupStarts
    <3> QED  BY <1>0, <3>2, <3>3, AppendProperties DEF QueueType
  <2>2. CASE dns # "system"  BY <1>1, <1>5, <2>2 DEF LookupStarts
  <2> QED  BY <2>1, <2>2
<1>6. ASSUME NEW c \in Checks, ReadTimesOut(c) PROVE QueueType'
  BY <1>2, <1>6 DEF ReadTimesOut, QueueType
<1>7. ASSUME NEW t \in Targets, LookupTimesOut(t) PROVE QueueType'
  BY <1>2, <1>7 DEF LookupTimesOut, QueueType
<1> QED
  BY <1>1, <1>3, <1>4, <1>5, <1>6, <1>7
     DEF Next, vars, AnyEnd, CheckAdvances, ConnectionCloses, HandshakeEnds, OrphanEnds,
         ChecksEnd, LookupAnswered, LookupRaises, Attach, Post, Tick, HealthChanges, Done

LEMMA BusyTypeStep ==
  ASSUME TypeInv, [Next]_vars PROVE BusyType'
<1>0. TypeOK /\ BusyType /\ queue \in Seq(Jobs)
  BY DEF TypeInv, TypeOK, Jobs, BusyType
<1>1. CASE UNCHANGED busy  BY <1>0, <1>1 DEF BusyType
<1>2. CASE \E job : busy' = busy \ {job}  BY <1>2, BusyShrinks DEF BusyType
<1>3. CASE ThreadTakes
  <2>1. /\ queue # <<>> /\ Cardinality(busy) < Threads
        /\ busy' = busy \cup {Head(queue)}
    BY <1>3 DEF ThreadTakes
  <2>2. Head(queue) \in Jobs  BY <1>0, <2>1, TailIsPart
  <2>3. /\ IsFiniteSet(busy')
        /\ Cardinality(busy') \in {Cardinality(busy), Cardinality(busy) + 1}
    BY <1>0, <2>1, FS_AddElement DEF BusyType
  <2>4. Cardinality(busy) \in Nat /\ Threads \in Nat
    BY <1>0, FS_CardinalityType, BatchAssumption DEF BusyType
  <2>5. Cardinality(busy') <= Threads  BY <2>1, <2>3, <2>4
  <2> QED  BY <1>0, <2>1, <2>2, <2>3, <2>5 DEF BusyType
<1>4. ASSUME NEW c \in Checks, NEW how, HandshakeEnds(c, how) PROVE BusyType'
  BY <1>1, <1>2, <1>4 DEF HandshakeEnds
<1> QED
  BY <1>1, <1>2, <1>3, <1>4
     DEF Next, vars, AnyEnd, Fetch, CheckAdvances, ConnectionCloses, ReadTimesOut, OrphanEnds,
         ChecksEnd, LookupStarts, LookupAnswered, LookupTimesOut, LookupRaises, Attach, Post, Tick,
         HealthChanges, Done

LEMMA TypeStep ==
  ASSUME TypeInv, [Next]_vars PROVE TypeInv'
<1>0. TypeOK  BY DEF TypeInv
<1>1. QueueType' /\ BusyType'  BY QueueTypeStep, BusyTypeStep
<1>2. Timeout \in Nat /\ Grace \in Nat /\ LookupTimeout \in Nat /\ MaxRounds \in Nat
      /\ MaxMishaps \in Nat
  BY BatchAssumption
<1> USE <1>0, <1>1 DEF TypeInv, TypeOK, QueueType, BusyType, Jobs
<1>3. CASE UNCHANGED vars  BY <1>3 DEF vars
<1>4. CASE Fetch
  <2>1. round' \in 0..MaxRounds /\ round' # 0  BY <1>2, <1>4 DEF Fetch
  <2>2. /\ left' \in [Checks -> 0..Timeout]
        /\ outer' \in [Checks -> 0..(Timeout + Grace)]
    BY <1>2, <1>4 DEF Fetch
  <2>3. seen' \in [Checks -> SUBSET Healths]
    <3>1. health' \in [Targets -> Healths] /\ work' \in WorkLists
          /\ seen' = [c \in Checks |-> {health'[work'[c].target]}]
      BY <1>4 DEF Fetch
    <3>2. \A c \in Checks : work'[c].target \in Targets  BY <3>1, WorkType
    <3> HIDE <1>0, <1>1 DEF TypeInv, TypeOK
    <3> QED  BY <3>1, <3>2
  <2> QED  BY <1>4, <2>1, <2>2, <2>3 DEF Fetch
<1>5. ASSUME NEW c \in Checks, NEW how, CheckAdvances(c, how) PROVE TypeInv'
  <2>1. await[c] \in Await  BY <1>5 DEF CheckAdvances, Await
  <2> QED  BY <1>5, <2>1, ConcludeType DEF CheckAdvances
<1>19. ASSUME NEW c \in Checks, NEW how, ConnectionCloses(c, how) PROVE TypeInv'
  <2>1. /\ blame' \in [Checks -> SUBSET (Troubles \cup {"thread"})]
        /\ mishaps' \in 0..MaxMishaps
    <3>1. MayEnd(c, how) /\ TypeOK  BY <1>19 DEF ConnectionCloses
    <3> HIDE <1>0, <1>1 DEF TypeInv, TypeOK, QueueType, BusyType, Jobs
    <3> QED  BY <1>19, <3>1, BlameType DEF ConnectionCloses
  <2> QED  BY <1>19, <2>1 DEF ConnectionCloses, Statuses
<1>6. ASSUME NEW c \in Checks, NEW how, HandshakeEnds(c, how) PROVE TypeInv'
  <2>1. await[c] \in Await  BY <1>6 DEF HandshakeEnds, Await
  <2> QED  BY <1>6, <2>1, ConcludeType DEF HandshakeEnds
<1>7. ASSUME NEW c \in Checks, ReadTimesOut(c) PROVE TypeInv'
  BY <1>7 DEF ReadTimesOut, Statuses
<1>8. CASE ThreadTakes
  <2>1. left' = left \/ left' = [left EXCEPT ![Head(queue)[1]] = Timeout]
    <3> HIDE <1>0, <1>1 DEF TypeInv, TypeOK
    <3> QED  BY <1>8 DEF ThreadTakes
  <2>2. left' \in [Checks -> 0..Timeout]
    <3>1. left \in [Checks -> 0..Timeout]  OBVIOUS
    <3>2. Timeout \in 0..Timeout  BY <1>2
    <3> HIDE <1>0, <1>1 DEF TypeInv, TypeOK, QueueType, BusyType, Jobs
    <3> QED  BY <2>1, <3>1, <3>2
  <2> QED  BY <1>8, <2>2 DEF ThreadTakes
<1>9. ASSUME NEW job, OrphanEnds(job) PROVE TypeInv'
  BY <1>9 DEF OrphanEnds
<1>10. CASE ChecksEnd
  <2>1. left' \in [Checks -> 0..Timeout] /\ outer' \in [Checks -> 0..(Timeout + Grace)]
    BY <1>2, <1>10 DEF ChecksEnd, Zero
  <2>2. mishaps' \in 0..MaxMishaps  BY <1>2, <1>10 DEF ChecksEnd, ForgetTargets
  <2> QED  BY <1>10, <2>1, <2>2 DEF ChecksEnd, ForgetTargets, Healths
<1>11. ASSUME NEW t \in Targets, LookupStarts(t) PROVE TypeInv'
  <2>1. wait' \in [Targets -> 0..LookupTimeout]  BY <1>2, <1>11 DEF LookupStarts
  <2> QED  BY <1>11, <2>1 DEF LookupStarts
<1>12. ASSUME NEW t \in Targets, NEW reply \in {"name", "nxdomain", "failure"},
              LookupAnswered(t, reply)
       PROVE  TypeInv'
  BY <1>12 DEF LookupAnswered
<1>13. ASSUME NEW t \in Targets, LookupTimesOut(t) PROVE TypeInv'
  BY <1>13 DEF LookupTimesOut
<1>14. ASSUME NEW t \in Targets, LookupRaises(t) PROVE TypeInv'
  <2>1. mishaps' \in 0..MaxMishaps  BY <1>2, <1>14 DEF LookupRaises
  <2> QED  BY <1>14, <2>1 DEF LookupRaises
<1>15. CASE Attach
  <2>1. ptr' \in [Checks -> {"absent", "empty", "name"}]  BY <1>15 DEF Attach, Found
  <2> QED  BY <1>15, <2>1 DEF Attach
<1>16. CASE Post
  <2>1. wait' \in [Targets -> 0..LookupTimeout] /\ mishaps' \in 0..MaxMishaps
    BY <1>2, <1>16 DEF Post, Zero
  <2> QED  BY <1>16, <2>1, NoWorkType DEF Post, None
<1>17. CASE Tick
  <2>1. left' \in [Checks -> 0..Timeout]  BY <1>2, <1>17, CountDownType DEF Tick
  <2>2. outer' \in [Checks -> 0..(Timeout + Grace)]
    BY <1>2, <1>17, CountDownType DEF Tick
  <2>3. wait' \in [Targets -> 0..LookupTimeout]  BY <1>2, <1>17, CountDownType DEF Tick
  <2>4. blame' \in [Checks -> SUBSET (Troubles \cup {"thread"})]  BY <1>17 DEF Tick
  <2> QED  BY <1>17, <2>1, <2>2, <2>3, <2>4 DEF Tick
<1>18. ASSUME NEW t \in Targets, NEW h \in Healths, HealthChanges(t, h) PROVE TypeInv'
  <2>1. mishaps' \in 0..MaxMishaps  BY <1>2, <1>18 DEF HealthChanges
  <2> QED  BY <1>18, <2>1 DEF HealthChanges
<1> HIDE <1>0, <1>1 DEF TypeInv, TypeOK, QueueType, BusyType, Jobs
<1> QED
  BY <1>3, <1>4, <1>5, <1>6, <1>7, <1>8, <1>9, <1>10, <1>11, <1>12, <1>13, <1>14, <1>15,
     <1>16, <1>17, <1>18, <1>19
     DEF Next, AnyEnd, Done

-----------------------------------------------------------------------------
(* The phases and the queue.                                               *)

PhaseInv ==
  /\ phase # "checking" => \A c \in Checks : await[c] = "done"
  /\ phase = "idle" => \A c \in Checks : status[c] = "none"
  /\ phase \in {"idle", "checking"} => \A t \in Targets : lookup[t] = "none" /\ said[t] = "none"
  /\ phase # "posting" => \A c \in Checks : ptr[c] = "absent"

\* A thread that takes the job of a check of this poll finds it waiting: the job
\* is in the queue once, and is taken out when the check ends.
CurrentCheckJob(job) == job[1] \in Checks /\ job[2] = round

QueueInv ==
  /\ \A i \in DOMAIN queue :
       /\ queue[i][2] <= round
       /\ CurrentCheckJob(queue[i]) => await[queue[i][1]] = "queued"
  /\ \A i, j \in DOMAIN queue : CurrentCheckJob(queue[i]) /\ queue[i] = queue[j] => i = j

LEMMA QueueUndisturbed ==
  ASSUME QueueInv, UNCHANGED <<queue, round>>,
         \A c \in Checks : await[c] = "queued" => await'[c] = "queued"
  PROVE  QueueInv'
  BY DEF QueueInv, CurrentCheckJob

LEMMA QueueShrinks ==
  ASSUME QueueInv, PartOf(queue', queue), round' = round,
         \A i \in DOMAIN queue' :
           CurrentCheckJob(queue'[i]) => await'[queue'[i][1]] = "queued"
  PROVE  QueueInv'
<1>1. PICK at \in [DOMAIN queue' -> DOMAIN queue] :
        /\ \A i \in DOMAIN queue' : queue'[i] = queue[at[i]]
        /\ \A i, j \in DOMAIN queue' : at[i] = at[j] => i = j
  BY DEF PartOf
<1>2. \A i \in DOMAIN queue' : at[i] \in DOMAIN queue  BY <1>1
<1>3. ASSUME NEW i \in DOMAIN queue' PROVE queue'[i][2] <= round'
  BY <1>1, <1>2, <1>3 DEF QueueInv
<1>4. ASSUME NEW i \in DOMAIN queue', NEW j \in DOMAIN queue',
             CurrentCheckJob(queue'[i]), queue'[i] = queue'[j]
      PROVE  i = j
  BY <1>1, <1>2, <1>4 DEF QueueInv
<1> QED  BY <1>3, <1>4 DEF QueueInv, CurrentCheckJob

LEMMA PhaseQueueInit == Init => PhaseInv /\ QueueInv
<1> SUFFICES ASSUME Init PROVE PhaseInv /\ QueueInv
  OBVIOUS
<1>1. DOMAIN queue = {}  BY DEF Init
<1> QED  BY <1>1 DEF Init, PhaseInv, QueueInv, None

\* What the end of an await of c does to the checks.
LEMMA ConcludeFrame ==
  ASSUME TypeOK, NEW c \in Checks, NEW how, Conclude(c, how)
  PROVE  /\ \A d \in Checks \ {c} : await'[d] = await[d] /\ status'[d] = status[d]
         /\ \A d \in Checks : blame[d] \subseteq blame'[d]
         /\ how \in Troubles => how \in blame'[c]
  BY DEF Conclude, TypeOK

\* What a thread does to the checks: one that waited for it is now in it.
LEMMA ThreadTakesFrame ==
  ASSUME TypeOK, QueueInv, ThreadTakes
  PROVE  /\ queue' \in Seq(Jobs) /\ PartOf(queue', queue)
         /\ \/ /\ UNCHANGED await
               /\ \A i \in DOMAIN queue' : CurrentCheckJob(queue'[i]) => queue'[i] # queue[1]
            \/ /\ queue[1] \in Jobs /\ CurrentCheckJob(queue[1])
               /\ await[queue[1][1]] = "queued"
               /\ await' = [await EXCEPT ![queue[1][1]] = "first"]
               /\ \A i \in DOMAIN queue' : queue'[i] # queue[1]
<1>0. queue \in Seq(Jobs) /\ queue # <<>> /\ queue' = Tail(queue)
  BY DEF TypeOK, Jobs, ThreadTakes
<1>1. /\ queue' \in Seq(Jobs) /\ PartOf(queue', queue)
      /\ Head(queue) = queue[1] /\ Head(queue) \in Jobs /\ 1 \in DOMAIN queue
      /\ (\A i, j \in DOMAIN queue : queue[i] = queue[1] /\ queue[j] = queue[1] => i = j) =>
           \A i \in DOMAIN queue' : queue'[i] # queue[1]
  BY <1>0, TailIsPart
<1>2. CASE CurrentCheckJob(queue[1])
  <2>1. \A i \in DOMAIN queue' : queue'[i] # queue[1]
    BY <1>1, <1>2 DEF QueueInv
  <2>2. await' = [await EXCEPT ![queue[1][1]] = "first"]
    BY <1>1, <1>2 DEF ThreadTakes, CurrentCheckJob
  <2> QED  BY <1>1, <1>2, <2>1, <2>2 DEF QueueInv
<1>3. CASE ~CurrentCheckJob(queue[1])
  <2>1. UNCHANGED await  BY <1>1, <1>3 DEF ThreadTakes, CurrentCheckJob
  <2>2. UNCHANGED round  BY DEF ThreadTakes
  <2> QED  BY <1>1, <1>3, <2>1, <2>2 DEF CurrentCheckJob
<1> QED  BY <1>2, <1>3

LEMMA QueueStep ==
  ASSUME TypeInv, QueueInv, PhaseInv, [Next]_vars PROVE QueueInv'
<1>0. TypeOK /\ queue \in Seq(Jobs) /\ await \in [Checks -> Await \cup {"queued", "closing", "done"}]
      /\ round \in Nat
  <2>1. round \in 0..MaxRounds  BY DEF TypeInv, TypeOK
  <2>2. round \in Nat  BY <2>1, BatchAssumption
  <2> QED  BY <2>2 DEF TypeInv, TypeOK, Jobs, Await
<1>1. CASE UNCHANGED <<queue, round, await>>  BY <1>1, QueueUndisturbed
<1>2. CASE Fetch
  <2>1. PICK s \in Seq(Jobs) :
           /\ queue' = queue \o s
           /\ \A i \in DOMAIN s : /\ s[i][1] \in Checks /\ s[i][2] = round'
                                  /\ await'[s[i][1]] = "queued"
           /\ \A i, j \in DOMAIN s : s[i] = s[j] => i = j
    BY <1>0, <1>2, FetchQueues
  <2>2. PICK m \in Nat : m = Len(queue) /\ DOMAIN queue = 1..m  BY <1>0, LenProperties
  <2>3. PICK k \in Nat : k = Len(s) /\ DOMAIN s = 1..k  BY LenProperties
  <2>4. /\ DOMAIN queue' = 1..(m + k)
        /\ \A i \in 1..(m + k) : queue'[i] = IF i <= m THEN queue[i] ELSE s[i - m]
    <3>1. /\ queue' \in Seq(Jobs) /\ Len(queue') = Len(queue) + Len(s)
          /\ \A i \in 1..Len(queue) + Len(s) :
               queue'[i] = IF i <= Len(queue) THEN queue[i] ELSE s[i - Len(queue)]
      BY <1>0, <2>1, ConcatProperties
    <3> QED  BY <2>2, <2>3, <3>1, LenProperties
  <2>5. round' = round + 1  BY <1>2 DEF Fetch
  <2>6. \A i \in 1..(m + k) : \/ i \in 1..m /\ queue'[i] = queue[i]
                              \/ i > m /\ i - m \in 1..k /\ queue'[i] = s[i - m]
    BY <2>4
  <2>7. \A i \in 1..m : queue'[i][2] <= round /\ i \in 1..(m + k)
    BY <2>2, <2>4 DEF QueueInv
  <2>8. ASSUME NEW i \in 1..(m + k), queue'[i][2] = round'
        PROVE  i > m /\ i - m \in 1..k /\ queue'[i] = s[i - m]
    <3>1. CASE i \in 1..m  BY <1>0, <2>5, <2>7, <2>8, <3>1
    <3>2. CASE i \notin 1..m  BY <2>6, <3>2
    <3> QED  BY <3>1, <3>2
  <2>9. ASSUME NEW i \in 1..(m + k) PROVE queue'[i][2] <= round'
    <3>1. CASE i \in 1..m
      <4>1. queue[i][2] \in Nat
        <5>1. queue[i] \in Jobs  BY <1>0, <2>2, <3>1, ElementOfSeq
        <5> QED  BY <5>1 DEF Jobs
      <4> QED  BY <1>0, <2>5, <2>6, <2>7, <3>1, <4>1
    <3>2. CASE i \notin 1..m
      <4>1. queue'[i] = s[i - m] /\ i - m \in DOMAIN s  BY <2>3, <2>6, <3>2
      <4>2. queue'[i][2] = round'  BY <2>1, <4>1
      <4> QED  BY <1>0, <2>5, <4>2
    <3> QED  BY <3>1, <3>2
  <2>10. ASSUME NEW i \in 1..(m + k), queue'[i][2] = round'
         PROVE  await'[queue'[i][1]] = "queued"
    <3>1. queue'[i] = s[i - m] /\ i - m \in DOMAIN s  BY <2>3, <2>8, <2>10
    <3> QED  BY <2>1, <3>1
  <2>11. ASSUME NEW i \in 1..(m + k), NEW j \in 1..(m + k),
                queue'[i][2] = round', queue'[i] = queue'[j]
         PROVE  i = j
    <3>1. /\ i - m \in 1..k /\ j - m \in 1..k
          /\ queue'[i] = s[i - m] /\ queue'[j] = s[j - m]
      BY <2>8, <2>11
    <3>2. i - m = j - m  BY <2>1, <2>3, <2>11, <3>1
    <3> QED  BY <3>2
  <2> QED  BY <2>4, <2>9, <2>10, <2>11 DEF QueueInv, CurrentCheckJob
<1>3. ASSUME NEW c \in Checks, NEW how, CheckAdvances(c, how) PROVE QueueInv'
  <2>1. await[c] # "queued" /\ UNCHANGED <<queue, round>>  BY <1>3 DEF CheckAdvances
  <2> QED  BY <1>0, <1>3, <2>1, ConcludeFrame, QueueUndisturbed DEF CheckAdvances
<1>4. ASSUME NEW c \in Checks, NEW how, HandshakeEnds(c, how) PROVE QueueInv'
  <2>1. await[c] # "queued" /\ UNCHANGED <<queue, round>>  BY <1>4 DEF HandshakeEnds
  <2> QED  BY <1>0, <1>4, <2>1, ConcludeFrame, QueueUndisturbed DEF HandshakeEnds
<1>9. ASSUME NEW c \in Checks, NEW how, ConnectionCloses(c, how) PROVE QueueInv'
  <2>1. UNCHANGED <<queue, round>> /\ \A d \in Checks : await[d] = "queued" => await'[d] = "queued"
    BY <1>0, <1>9, CloseFrame
  <2> QED  BY <2>1, QueueUndisturbed
<1>5. ASSUME NEW c \in Checks, ReadTimesOut(c) PROVE QueueInv'
  <2>1. /\ queue' = Without(Job(c)) /\ round' = round
        /\ await' = [await EXCEPT ![c] = "done"]
    BY <1>5 DEF ReadTimesOut
  <2>2. CurrentCheckJob(Job(c))  BY DEF CurrentCheckJob, Job
  <2>3. \A i, j \in DOMAIN queue : queue[i] = Job(c) /\ queue[j] = Job(c) => i = j
    BY <2>2 DEF QueueInv
  <2>4. /\ queue' \in Seq(Jobs) /\ PartOf(queue', queue)
        /\ \A i \in DOMAIN queue' : queue'[i] # Job(c)
    BY <1>0, <2>1, <2>3, WithoutProperties
  <2>5. ASSUME NEW i \in DOMAIN queue', CurrentCheckJob(queue'[i])
        PROVE  await'[queue'[i][1]] = "queued"
    <3>1. queue'[i] \in Jobs  BY <2>4, ElementOfSeq, LenProperties
    <3>2. queue'[i][1] # c
      BY <2>4, <2>5, <3>1 DEF Jobs, Job, CurrentCheckJob
    <3>3. PICK k \in DOMAIN queue : queue'[i] = queue[k]  BY <2>4 DEF PartOf
    <3> QED  BY <1>0, <2>1, <2>5, <3>2, <3>3 DEF QueueInv, CurrentCheckJob
  <2> QED  BY <2>1, <2>4, <2>5, QueueShrinks
<1>6. CASE ThreadTakes
  <2>1. round' = round  BY <1>6 DEF ThreadTakes
  <2>2. /\ queue' \in Seq(Jobs) /\ PartOf(queue', queue)
        /\ \/ UNCHANGED await
           \/ /\ queue[1] \in Jobs /\ CurrentCheckJob(queue[1])
              /\ await' = [await EXCEPT ![queue[1][1]] = "first"]
              /\ \A i \in DOMAIN queue' : queue'[i] # queue[1]
    BY <1>0, <1>6, ThreadTakesFrame
  <2>3. ASSUME NEW i \in DOMAIN queue', CurrentCheckJob(queue'[i])
        PROVE  await'[queue'[i][1]] = "queued"
    <3>1. queue'[i] \in Jobs  BY <2>2, ElementOfSeq, LenProperties
    <3>2. PICK k \in DOMAIN queue : queue'[i] = queue[k]  BY <2>2 DEF PartOf
    <3>3. await[queue'[i][1]] = "queued"  BY <2>3, <3>2 DEF QueueInv
    <3>4. UNCHANGED await \/ queue'[i][1] # queue[1][1]
      <4>1. ASSUME queue[1] \in Jobs, CurrentCheckJob(queue[1]), queue'[i] # queue[1]
            PROVE  queue'[i][1] # queue[1][1]
        BY <2>3, <3>1, <4>1 DEF Jobs, CurrentCheckJob
      <4> QED  BY <2>2, <4>1
    <3> QED  BY <1>0, <2>2, <2>3, <3>3, <3>4 DEF CurrentCheckJob
  <2> QED  BY <2>1, <2>2, <2>3, QueueShrinks
<1>7. ASSUME NEW t \in Targets, LookupStarts(t) PROVE QueueInv'
  <2>0. UNCHANGED <<round, await>>  BY <1>7 DEF LookupStarts
  <2>1. CASE dns # "system"  BY <1>1, <1>7, <2>0, <2>1 DEF LookupStarts
  <2>2. CASE dns = "system"
    <3>1. queue' = Append(queue, Job(t))  BY <1>7, <2>2 DEF LookupStarts
    <3>2. PICK m \in Nat : m = Len(queue) /\ DOMAIN queue = 1..m  BY <1>0, LenProperties
    <3>3. Job(t)[1] = t /\ Job(t)[2] = round /\ t \notin Checks
      BY BatchAssumption DEF Job
    <3>4. round \in 1..MaxRounds
      BY <1>7, BatchAssumption DEF LookupStarts, TypeInv, TypeOK
    <3>5. Job(t) \in Jobs  BY <3>4 DEF Job, Jobs
    <3>6. /\ DOMAIN queue' = 1..(m + 1) /\ queue'[m + 1] = Job(t)
          /\ \A i \in 1..m : queue'[i] = queue[i]
      <4>1. /\ Append(queue, Job(t)) \in Seq(Jobs)
            /\ Len(Append(queue, Job(t))) = Len(queue) + 1
            /\ \A i \in 1..Len(queue) : Append(queue, Job(t))[i] = queue[i]
            /\ Append(queue, Job(t))[Len(queue) + 1] = Job(t)
        BY <1>0, <3>5, AppendProperties
      <4> QED  BY <3>1, <3>2, <4>1, LenProperties
    <3>7. \A i \in 1..(m + 1) : i \in 1..m \/ i = m + 1  OBVIOUS
    <3>8. \A i \in DOMAIN queue' : CurrentCheckJob(queue'[i]) =>
            i \in DOMAIN queue /\ queue'[i] = queue[i]
      BY <3>2, <3>3, <3>6, <3>7 DEF CurrentCheckJob
    <3>9. \A i \in DOMAIN queue' : queue'[i][2] <= round
      BY <1>0, <3>2, <3>3, <3>6, <3>7 DEF QueueInv
    <3>10. ASSUME NEW i \in DOMAIN queue', NEW j \in DOMAIN queue',
                  CurrentCheckJob(queue'[i]), queue'[i] = queue'[j]
           PROVE  i = j
      <4>1. CurrentCheckJob(queue'[j])  BY <3>10
      <4> QED  BY <3>8, <3>10, <4>1 DEF QueueInv
    <3> QED  BY <2>0, <3>8, <3>9, <3>10 DEF QueueInv, CurrentCheckJob
  <2> QED  BY <2>1, <2>2
<1>8. ASSUME NEW t \in Targets, LookupTimesOut(t) PROVE QueueInv'
  <2>1. queue' = Without(Job(t)) /\ UNCHANGED <<round, await>>
    BY <1>8 DEF LookupTimesOut
  <2>2. PartOf(queue', queue)  BY <1>0, <2>1, WithoutProperties
  <2> QED  BY <2>1, <2>2, QueueShrinks DEF QueueInv, PartOf
<1> QED
  BY <1>1, <1>2, <1>3, <1>4, <1>5, <1>6, <1>7, <1>8, <1>9
     DEF Next, vars, AnyEnd, OrphanEnds, ChecksEnd, LookupAnswered, LookupRaises, Attach,
         Post, Tick, HealthChanges, Done

LEMMA PhaseStep ==
  ASSUME TypeInv, QueueInv, PhaseInv, [Next]_vars PROVE PhaseInv'
<1>0. TypeOK /\ await \in [Checks -> Await \cup {"queued", "closing", "done"}]
  BY DEF TypeInv, TypeOK, Await
<1>1. CASE UNCHANGED vars  BY <1>1 DEF vars, PhaseInv
<1>2. CASE Fetch
  <2>1. phase' = "checking" /\ phase = "idle" /\ UNCHANGED looking
    BY <1>2 DEF Fetch
  <2> QED  BY <2>1 DEF PhaseInv
<1>3. ASSUME NEW c \in Checks, await[c] # "done", UNCHANGED <<phase, looking>>
      PROVE  PhaseInv'
  <2>1. phase = "checking"  BY <1>3 DEF PhaseInv
  <2> QED  BY <1>3, <2>1 DEF PhaseInv
<1>4. ASSUME NEW c \in Checks, NEW how, CheckAdvances(c, how) PROVE PhaseInv'
  BY <1>3, <1>4 DEF CheckAdvances
<1>5. ASSUME NEW c \in Checks, NEW how, HandshakeEnds(c, how) PROVE PhaseInv'
  BY <1>3, <1>5 DEF HandshakeEnds
<1>19. ASSUME NEW c \in Checks, NEW how, ConnectionCloses(c, how) PROVE PhaseInv'
  BY <1>3, <1>19 DEF ConnectionCloses
<1>6. ASSUME NEW c \in Checks, ReadTimesOut(c) PROVE PhaseInv'
  BY <1>3, <1>6 DEF ReadTimesOut, InThread
<1>7. CASE ThreadTakes
  <2>1. UNCHANGED <<phase, status, ptr, said>>  BY <1>7 DEF ThreadTakes
  <2>2. \A t \in Targets : lookup[t] = "none" => lookup'[t] = "none"
    BY <1>0, <1>7 DEF ThreadTakes, TypeOK
  <2>3. \/ UNCHANGED await
        \/ CurrentCheckJob(queue[1]) /\ await[queue[1][1]] = "queued"
    BY <1>0, <1>7, ThreadTakesFrame
  <2>4. UNCHANGED await \/ phase = "checking"
    BY <2>3 DEF PhaseInv, CurrentCheckJob
  <2> QED  BY <2>1, <2>2, <2>4 DEF PhaseInv
<1>8. ASSUME NEW job, OrphanEnds(job) PROVE PhaseInv'
  BY <1>8 DEF OrphanEnds, PhaseInv
<1>9. CASE ChecksEnd
  BY <1>9 DEF ChecksEnd, PhaseInv
<1>10. ASSUME NEW t \in Targets, lookup[t] # "none",
              UNCHANGED <<phase, await, status, ptr>>
       PROVE  PhaseInv'
  BY <1>10 DEF PhaseInv
<1>11. ASSUME NEW t \in Targets, LookupStarts(t) PROVE PhaseInv'
  BY <1>10, <1>11 DEF LookupStarts
<1>12. ASSUME NEW t \in Targets, NEW reply, LookupAnswered(t, reply) PROVE PhaseInv'
  BY <1>10, <1>12 DEF LookupAnswered
<1>13. ASSUME NEW t \in Targets, LookupTimesOut(t) PROVE PhaseInv'
  BY <1>10, <1>13 DEF LookupTimesOut
<1>14. ASSUME NEW t \in Targets, LookupRaises(t) PROVE PhaseInv'
  BY <1>14 DEF LookupRaises, PhaseInv
<1>15. CASE Attach  BY <1>15 DEF Attach, PhaseInv
<1>16. CASE Post  BY <1>16 DEF Post, PhaseInv, None
<1>17. CASE Tick  BY <1>17 DEF Tick, PhaseInv
<1>18. ASSUME NEW t \in Targets, NEW h \in Healths, HealthChanges(t, h) PROVE PhaseInv'
  BY <1>18 DEF HealthChanges, PhaseInv
<1> QED
  BY <1>1, <1>2, <1>4, <1>5, <1>6, <1>7, <1>8, <1>9, <1>11, <1>12, <1>13, <1>14, <1>15,
     <1>16, <1>17, <1>18, <1>19
     DEF Next, AnyEnd, Done

-----------------------------------------------------------------------------
(* What a status rests on.                                                 *)

\* StatusIsEarned, of one check.
Earned(c) == LET k == work[c].kind IN
  /\ status[c] = "down" =>
       \/ seen[c] \cap Unreachable(k) # {}
       \/ blame[c] \cap {"oserror", "thread"} # {}
       \/ k = "http" /\ "blocked" \in blame[c]
       \/ k \in {"http", "snmp", "ssh"} /\ "denying" \in seen[c]
  /\ status[c] \in {"up", "degraded"} => seen[c] \cap Reachable(k) # {}
  /\ status[c] = "up" /\ Expects(work[c]) => seen[c] \cap Satisfying(k) # {}
  /\ status[c] = "unknown" =>
       \/ k = "exec" \/ blame[c] # {}
       \/ k = "udp" /\ seen[c] \cap Silent # {}
       \/ k = "snmp" /\ "wrong" \in seen[c]

\* StatusIsEarned is not inductive: a status is earned by what was seen at
\* earlier awaits too, and a certificate read that times out as a whole by what
\* has held it up - a tick passes only if it waits for a thread or its target
\* is silent.
Evidence(c) ==
  /\ health[work[c].target] \in seen[c]
  /\ IF await[c] = "queued" THEN work[c].kind = "tls_cert"
                            ELSE Knows(work[c], await[c], seen[c])
  /\ work[c].kind = "tls_cert" /\ outer[c] < Timeout + Grace =>
       "thread" \in blame[c] \/ seen[c] \cap Silent # {}

Judged == {"closing", "done"}
CheckInv(c) == Earned(c) /\ (await[c] \notin Judged => Evidence(c))
EvidenceInv == phase = "checking" => \A c \in Checks : CheckInv(c)

\* More seen, and more to blame, leave a check that does not move as it was.
LEMMA CheckUndisturbed ==
  ASSUME NEW c \in Checks, CheckInv(c),
         work' = work, await'[c] = await[c], status'[c] = status[c],
         outer'[c] = outer[c], seen[c] \subseteq seen'[c], blame[c] \subseteq blame'[c],
         await[c] \notin Judged => health'[work[c].target] \in seen'[c]
  PROVE  CheckInv(c)'
<1>1. Earned(c)'  BY DEF CheckInv, Earned
<1>2. ASSUME await[c] \notin Judged PROVE Evidence(c)'
  BY <1>2 DEF CheckInv, Evidence, Knows
<1> QED  BY <1>1, <1>2 DEF CheckInv

\* The end of an await moves its check on to the next, or to an earned status.
LEMMA ConcludeEarns ==
  ASSUME TypeOK, NEW c \in Checks, NEW how, MayEnd(c, how), Conclude(c, how),
         await[c] \in Await, CheckInv(c), UNCHANGED <<work, outer, seen, health>>
  PROVE  CheckInv(c)'
<1>0. /\ work[c] \in Check /\ work[c].target \in Targets /\ work[c].kind \in Kinds
      /\ health[work[c].target] \in Healths
      /\ await \in [Checks -> Await \cup {"queued", "closing", "done"}]
      /\ status \in [Checks -> Statuses \cup {"none"}]
  BY WorkType DEF TypeOK, Await
<1>1. Evidence(c) /\ Earned(c) /\ Knows(work[c], await[c], seen[c])
  BY DEF CheckInv, Evidence, Await, Judged
<1>2. blame[c] \subseteq blame'[c] /\ (how \in Troubles => how \in blame'[c])
  BY ConcludeFrame
<1>3. ASSUME Says(c, how) \in Statuses
      PROVE  status'[c] = Says(c, how) /\ await'[c] \in Judged
  BY <1>0, <1>3 DEF Conclude, Judged
<1>4. CASE how \in Troubles
  <2>1. how = "blocked" => work[c].kind \in {"http", "tls_cert"}
    BY <1>0, <1>4, EndsAreTheirs DEF MayEnd, TheirEnds
  <2>2. \/ Says(c, how) = "unknown"
        \/ Says(c, how) = "down" /\ (how = "oserror" \/ (how = "blocked" /\ work[c].kind = "http"))
    BY <1>0, <1>4, <2>1, TroubleIsNoAnswer DEF Says
  <2>3. status'[c] = Says(c, how) /\ await'[c] \in Judged  BY <1>3, <2>2 DEF Statuses
  <2>4. Earned(c)'  BY <1>2, <1>4, <2>2, <2>3 DEF Earned
  <2> QED  BY <2>3, <2>4 DEF CheckInv
<1>5. CASE how \notin Troubles
  <2>1. how \in Ends(work[c], await[c], health[work[c].target])
    BY <1>5, BatchAssumption DEF MayEnd, TheirEnds
  <2>2. /\ Says(c, how) \in Statuses => Claims(work[c], Says(c, how), seen[c])
        /\ Says(c, how) \notin Statuses =>
             Says(c, how) \in Await \ {"trying", "first"} /\ Knows(work[c], Says(c, how), seen[c])
    BY <1>0, <1>1, <2>1, TargetIsJudged DEF Says, Evidence
  <2>3. CASE Says(c, how) \in Statuses
    <3>1. status'[c] = Says(c, how) /\ await'[c] \in Judged  BY <1>3, <2>3
    <3>2. Claims(work[c], status'[c], seen[c])  BY <2>2, <2>3, <3>1
    <3>3. Earned(c)'  BY <3>2 DEF Earned, Claims, Expects
    <3> QED  BY <3>1, <3>3 DEF CheckInv
  <2>4. CASE Says(c, how) \notin Statuses
    <3>1. status'[c] = status[c] /\ await'[c] = Says(c, how)
      BY <1>0, <2>4 DEF Conclude
    <3>2. Earned(c)'  BY <1>1, <1>2, <3>1 DEF Earned, Expects
    <3>3. Evidence(c)'  BY <1>1, <1>2, <2>2, <2>4, <3>1 DEF Evidence, Await, Knows
    <3> QED  BY <3>2, <3>3 DEF CheckInv
  <2> QED  BY <2>3, <2>4
<1> QED  BY <1>4, <1>5

LEMMA EvidenceInit == Init => EvidenceInv
  BY DEF Init, EvidenceInv

LEMMA EvidenceStep ==
  ASSUME TypeInv, QueueInv, PhaseInv, EvidenceInv, [Next]_vars PROVE EvidenceInv'
<1>0. /\ TypeOK /\ await \in [Checks -> Await \cup {"queued", "closing", "done"}]
      /\ seen \in [Checks -> SUBSET Healths]
  BY DEF TypeInv, TypeOK, Await
<1>00. blame \in [Checks -> SUBSET (Troubles \cup {"thread"})]  BY DEF TypeInv, TypeOK
<1> SUFFICES ASSUME phase' = "checking", NEW d \in Checks PROVE CheckInv(d)'
  BY DEF EvidenceInv
<1>1. CASE UNCHANGED vars
  <2>1. CheckInv(d)  BY <1>1 DEF vars, EvidenceInv
  <2> QED  BY <1>1, <2>1, CheckUndisturbed DEF vars, CheckInv, Evidence
<1>2. CASE Fetch
  <2>1. /\ work' \in WorkLists /\ phase = "idle" /\ status' = status
        /\ await'[d] = IF work'[d].kind = "tls_cert" THEN "queued" ELSE "trying"
        /\ outer'[d] = Timeout + Grace /\ seen'[d] = {health'[work'[d].target]}
    BY <1>2 DEF Fetch
  <2>2. status'[d] = "none"  BY <2>1 DEF PhaseInv
  <2>3. ~(Timeout + Grace < Timeout + Grace)  BY BatchAssumption
  <2>4. Earned(d)'  BY <2>2 DEF Earned
  <2>5. Evidence(d)'  BY <2>1, <2>3 DEF Evidence, Knows
  <2> QED  BY <2>4, <2>5 DEF CheckInv
<1> SUFFICES ASSUME phase = "checking", CheckInv(d) PROVE CheckInv(d)'
  <2>1. CASE phase = "checking"  BY <2>1 DEF EvidenceInv
  <2>2. CASE phase # "checking"
    <3>1. Fetch \/ UNCHANGED phase
      BY <2>2 DEF Next, vars, AnyEnd, CheckAdvances, ConnectionCloses, HandshakeEnds, ReadTimesOut,
                  ThreadTakes, OrphanEnds, ChecksEnd, LookupStarts, LookupAnswered, LookupTimesOut,
                  LookupRaises, Attach, Post, Tick, HealthChanges, Done
    <3> QED  BY <1>2, <2>2, <3>1
  <2> QED  BY <2>1, <2>2
<1>3. await[d] \notin Judged => health[work[d].target] \in seen[d]
  BY DEF CheckInv, Evidence
<1>4. CASE UNCHANGED <<work, await, status, outer, seen, blame, health>>
  BY <1>3, <1>4, CheckUndisturbed
<1>5. ASSUME NEW c \in Checks, NEW how, MayEnd(c, how), Conclude(c, how),
             await[c] \in Await, UNCHANGED <<work, outer, seen, health>>
      PROVE  CheckInv(d)'
  <2>1. CASE d = c  BY <1>0, <1>5, <2>1, ConcludeEarns
  <2>2. CASE d # c
    <3>1. await'[d] = await[d] /\ status'[d] = status[d] /\ blame[d] \subseteq blame'[d]
      BY <1>0, <1>5, <2>2, ConcludeFrame
    <3> QED  BY <1>3, <1>5, <3>1, CheckUndisturbed
  <2> QED  BY <2>1, <2>2
<1>6. ASSUME NEW c \in Checks, NEW how, CheckAdvances(c, how) PROVE CheckInv(d)'
  BY <1>5, <1>6 DEF CheckAdvances, Await
<1>7. ASSUME NEW c \in Checks, NEW how, HandshakeEnds(c, how) PROVE CheckInv(d)'
  BY <1>5, <1>7 DEF HandshakeEnds, Await
<1>13. ASSUME NEW c \in Checks, NEW how, ConnectionCloses(c, how) PROVE CheckInv(d)'
  <2>1. /\ await[c] = "closing" /\ await'[c] = "done"
        /\ status'[c] = status[c] \/ (status'[c] = "unknown" /\ how = "error")
        /\ \A e \in Checks \ {c} : await'[e] = await[e] /\ status'[e] = status[e]
        /\ blame[d] \subseteq blame'[d]
        /\ how \in Troubles => how \in blame'[c]
        /\ UNCHANGED <<work, outer, seen, health>>
    BY <1>0, <1>13, CloseFrame
  <2>2. CASE d # c  BY <1>3, <2>1, <2>2, CheckUndisturbed
  <2>3. CASE d = c
    <3>1. Earned(d)'  BY <2>1, <2>3 DEF CheckInv, Earned, Expects, Troubles
    <3> QED  BY <2>1, <2>3, <3>1 DEF CheckInv, Judged
  <2> QED  BY <2>2, <2>3
<1>8. ASSUME NEW c \in Checks, ReadTimesOut(c) PROVE CheckInv(d)'
  <2>1. /\ await' = [await EXCEPT ![c] = "done"] /\ status' = [status EXCEPT ![c] = "down"]
        /\ await[c] \in InThread /\ outer[c] = 0
        /\ UNCHANGED <<work, outer, seen, blame, health>>
    BY <1>8 DEF ReadTimesOut
  <2>2. CASE d # c
    <3>1. await'[d] = await[d] /\ status'[d] = status[d]  BY <1>0, <2>1, <2>2 DEF TypeOK
    <3> QED  BY <1>3, <2>1, <3>1, CheckUndisturbed
  <2>3. CASE d = c
    <3>1. await'[d] = "done" /\ status'[d] = "down"  BY <1>0, <2>1, <2>3 DEF TypeOK
    <3>2. work[d].kind = "tls_cert"
      BY <2>1, <2>3 DEF CheckInv, Evidence, Knows, InThread, Judged
    <3>3. outer[d] < Timeout + Grace
      <4>1. Timeout \in Nat \ {0} /\ Grace \in Nat  BY BatchAssumption
      <4> QED  BY <2>1, <2>3, <4>1
    <3>4. "thread" \in blame[d] \/ seen[d] \cap Silent # {}
      BY <2>1, <2>3, <3>2, <3>3 DEF CheckInv, Evidence, InThread, Judged
    <3>5. Earned(d)'  BY <2>1, <3>1, <3>2, <3>4 DEF Earned, Unreachable
    <3> QED  BY <3>1, <3>5 DEF CheckInv, Judged
  <2> QED  BY <2>2, <2>3
<1>9. CASE ThreadTakes
  <2>1. UNCHANGED <<work, status, outer, seen, blame, health>>  BY <1>9 DEF ThreadTakes
  <2>2. \/ await'[d] = await[d]
        \/ await[d] = "queued" /\ await'[d] = "first"
    BY <1>0, <1>9, ThreadTakesFrame
  <2>3. CASE await'[d] = await[d]  BY <1>3, <2>1, <2>3, CheckUndisturbed
  <2>4. CASE await[d] = "queued" /\ await'[d] = "first"
    <3>1. Evidence(d) /\ Earned(d) /\ work[d].kind = "tls_cert"
      BY <2>4 DEF CheckInv, Evidence, Judged
    <3>2. Earned(d)'  BY <2>1, <3>1 DEF Earned, Expects
    <3>3. Evidence(d)'  BY <2>1, <2>4, <3>1 DEF Evidence, Knows
    <3> QED  BY <3>2, <3>3 DEF CheckInv
  <2> QED  BY <2>2, <2>3, <2>4
<1>10. CASE Tick
  <2>1. /\ UNCHANGED <<work, await, status, seen, health>> /\ Quiet
        /\ blame'[d] = IF await[d] = "queued" THEN blame[d] \cup {"thread"} ELSE blame[d]
    BY <1>10 DEF Tick
  <2>2. Earned(d)'  BY <2>1 DEF CheckInv, Earned, Expects
  <2>3. ASSUME await[d] \notin Judged, work[d].kind = "tls_cert"
        PROVE  "thread" \in blame'[d] \/ seen[d] \cap Silent # {}
    <3>1. CASE await[d] = "queued"  BY <2>1, <3>1
    <3>2. CASE await[d] # "queued"
      <4>1. await[d] \in {"first", "second"}
        BY <2>3, <3>2 DEF CheckInv, Evidence, Knows
      <4>2. Ends(work[d], await[d], health[work[d].target]) \in {{}, {"timeout"}}
        BY <2>1, <2>3, <4>1 DEF Quiet, TheirEnds
      <4>3. health[work[d].target] \in Healths
        BY <1>0, WorkType DEF TypeOK
      <4>4. health[work[d].target] \in Silent
        BY <2>3, <4>1, <4>2, <4>3 DEF Ends, Service, Different, Denial, Healths, Silent
      <4> QED  BY <1>3, <2>3, <4>4
    <3> QED  BY <3>1, <3>2
  <2>4. ASSUME await[d] \notin Judged PROVE Evidence(d)'
    BY <2>1, <2>3, <2>4 DEF CheckInv, Evidence, Knows
  <2> QED  BY <2>1, <2>2, <2>4 DEF CheckInv
<1>11. ASSUME NEW t \in Targets, NEW h \in Healths, HealthChanges(t, h) PROVE CheckInv(d)'
  <2>1. /\ UNCHANGED <<work, await, status, outer, blame>>
        /\ health' = [health EXCEPT ![t] = h]
        /\ seen'[d] = IF work[d].target = t /\ await[d] \notin Judged
                     THEN seen[d] \cup {h} ELSE seen[d]
    BY <1>11 DEF HealthChanges, Judged
  <2>2. health \in [Targets -> Healths] /\ work[d].target \in Targets
    BY <1>0, WorkType DEF TypeOK
  <2>3. seen[d] \subseteq seen'[d]  BY <2>1
  <2>4. await[d] \notin Judged => health'[work[d].target] \in seen'[d]
    BY <1>3, <2>1, <2>2
  <2> QED  BY <2>1, <2>3, <2>4, CheckUndisturbed
<1>12. CASE ChecksEnd  BY <1>12 DEF ChecksEnd
<1> QED
  BY <1>1, <1>2, <1>4, <1>6, <1>7, <1>8, <1>9, <1>10, <1>11, <1>12, <1>13
     DEF Next, AnyEnd, OrphanEnds, LookupStarts, LookupAnswered, LookupTimesOut,
         LookupRaises, Attach, Post, Done

LEMMA EvidenceMeansEarned == EvidenceInv => StatusIsEarned
  BY DEF EvidenceInv, CheckInv, Earned, Expects, StatusIsEarned

-----------------------------------------------------------------------------
(* What a PTR name rests on.                                               *)

\* The names are those found, and their lookups are over; or there are none.
PtrInv ==
  /\ phase = "looking" => dns \in {"system", "explicit"}
  /\ phase = "posting" =>
       \/ (\A c \in Checks : ptr[c] = "absent") /\ dns # "explicit"
       \/ \A c \in Checks : /\ lookup[work[c].target] = "ended"
                            /\ ptr[c] = Found(work[c].target)

LEMMA PtrInit == Init => PtrInv
  BY DEF Init, PtrInv

LEMMA PtrStep ==
  ASSUME TypeInv, PhaseInv, PtrInv, [Next]_vars PROVE PtrInv'
<1>0. /\ TypeOK /\ \A c \in Checks : work[c].target \in Targets
      /\ lookup \in [Targets -> {"none", "due", "queued", "asking", "ended"}]
      /\ said \in [Targets -> {"none", "name", "nxdomain", "failure", "silence"}]
  BY WorkType DEF TypeInv, TypeOK
<1>1. ASSUME UNCHANGED <<phase, work, dns, ptr>>,
             \A t \in Targets : lookup[t] = "ended" => lookup'[t] = "ended" /\ said'[t] = said[t]
      PROVE  PtrInv'
  BY <1>0, <1>1 DEF PtrInv, Found
<1>2. ASSUME UNCHANGED <<phase, work, dns, looking>> PROVE PtrInv'
  BY <1>1, <1>2
<1>3. CASE Fetch  BY <1>3 DEF Fetch, PtrInv
<1>4. ASSUME NEW c \in Checks, NEW how, CheckAdvances(c, how) PROVE PtrInv'
  BY <1>2, <1>4 DEF CheckAdvances
<1>17. ASSUME NEW c \in Checks, NEW how, ConnectionCloses(c, how) PROVE PtrInv'
  BY <1>2, <1>17 DEF ConnectionCloses
<1>5. ASSUME NEW c \in Checks, NEW how, HandshakeEnds(c, how) PROVE PtrInv'
  BY <1>2, <1>5 DEF HandshakeEnds
<1>6. ASSUME NEW c \in Checks, ReadTimesOut(c) PROVE PtrInv'
  BY <1>2, <1>6 DEF ReadTimesOut
<1>7. CASE ThreadTakes
  <2>1. \A t \in Targets : lookup[t] = "ended" => lookup'[t] = "ended"
    BY <1>0, <1>7 DEF ThreadTakes
  <2> QED  BY <1>1, <1>7, <2>1 DEF ThreadTakes
<1>8. CASE ChecksEnd
  <2>1. UNCHANGED ptr /\ \A c \in Checks : ptr[c] = "absent"
    BY <1>8 DEF ChecksEnd, PhaseInv
  <2> QED  BY <1>8, <2>1 DEF ChecksEnd, PtrInv
<1>9. ASSUME NEW t \in Targets, LookupStarts(t) PROVE PtrInv'
  <2>1. \A u \in Targets : lookup[u] = "ended" => lookup'[u] = "ended"
    BY <1>0, <1>9 DEF LookupStarts
  <2> QED  BY <1>1, <1>9, <2>1 DEF LookupStarts
<1>10. ASSUME NEW t \in Targets, NEW reply, LookupAnswered(t, reply) PROVE PtrInv'
  <2>1. \A u \in Targets :
          lookup[u] = "ended" => lookup'[u] = "ended" /\ said'[u] = said[u]
    BY <1>0, <1>10 DEF LookupAnswered
  <2> QED  BY <1>1, <1>10, <2>1 DEF LookupAnswered
<1>11. ASSUME NEW t \in Targets, LookupTimesOut(t) PROVE PtrInv'
  <2>1. \A u \in Targets :
          lookup[u] = "ended" => lookup'[u] = "ended" /\ said'[u] = said[u]
    BY <1>0, <1>11 DEF LookupTimesOut
  <2> QED  BY <1>1, <1>11, <2>1 DEF LookupTimesOut
<1>12. ASSUME NEW t \in Targets, LookupRaises(t) PROVE PtrInv'
  <2>1. /\ dns' = "system" /\ phase' = "posting"
        /\ \A c \in Checks : ptr'[c] = "absent"
    BY <1>12 DEF LookupRaises, PhaseInv
  <2> QED  BY <2>1 DEF PtrInv
<1>13. CASE Attach
  <2>1. /\ phase' = "posting" /\ UNCHANGED <<work, dns, lookup, said>>
        /\ ptr' = [c \in Checks |-> Found(work[c].target)]
        /\ \A t \in Asked : lookup[t] = "ended"
    BY <1>13 DEF Attach
  <2>2. \A c \in Checks : work[c].target \in Asked  BY DEF Asked
  <2> QED  BY <2>1, <2>2 DEF PtrInv, Found
<1>14. CASE Post  BY <1>14 DEF Post, PtrInv
<1>15. CASE Tick  BY <1>1, <1>15 DEF Tick
<1>16. ASSUME NEW t \in Targets, NEW h \in Healths, HealthChanges(t, h) PROVE PtrInv'
  BY <1>2, <1>16 DEF HealthChanges
<1> QED
  BY <1>2, <1>3, <1>4, <1>5, <1>6, <1>7, <1>8, <1>9, <1>10, <1>11, <1>12, <1>13, <1>14,
     <1>15, <1>16, <1>17
     DEF Next, vars, AnyEnd, OrphanEnds, Done

LEMMA FoundMeansAnswered == PtrInv => PtrIsAnAnswer
  BY DEF PtrInv, PtrIsAnAnswer, Found

-----------------------------------------------------------------------------
(* Nothing is done twice.                                                  *)

PhaseOrder == [checking |-> 1, looking |-> 2, posting |-> 3, idle |-> 4]

\* What is still ahead of a check, a thread or its awaits; of a lookup, the gate,
\* a thread, the answer.
AheadOfCheck ==
  [trying |-> 4, draining |-> 3, reading |-> 2, closing |-> 1,
   queued |-> 3, first |-> 2, second |-> 1, done |-> 0]
AheadOfLookup == [due |-> 3, queued |-> 2, asking |-> 1, ended |-> 0, none |-> 0]

Ahead(x) == IF x \in Checks THEN AheadOfCheck[await[x]] ELSE AheadOfLookup[lookup[x]]
Stays(x) == Ahead(x)' = Ahead(x)

\* No timer goes up, and one goes down.
TimePasses ==
  /\ \A c \in Checks : left'[c] <= left[c] /\ outer'[c] <= outer[c]
  /\ \A t \in Targets : wait'[t] <= wait[t]
  /\ \/ \E c \in Checks : left'[c] < left[c] \/ outer'[c] < outer[c]
     \/ \E t \in Targets : wait'[t] < wait[t]

\* A check that is over keeps its status, a lookup what it has brought.
NothingRevised ==
  /\ \A c \in Checks : await[c] = "done" => status'[c] = status[c]
  /\ \A t \in Targets : lookup[t] = "ended" => said'[t] = said[t]

\* Within a poll each step ends a phase; takes one check or one lookup further and
\* leaves the others where they are; takes a job nobody waits for any more out of
\* the queue or out of its thread; is one more mishap; or uses up time.  So a poll
\* of finitely many checks has finitely many steps, if the targets come and go
\* finitely often.
GoesForward ==
  \/ round' > round
  \/ round' = round /\ PhaseOrder[phase'] > PhaseOrder[phase]
  \/ /\ UNCHANGED <<round, phase>> /\ NothingRevised
     /\ \/ \E x \in Checks \cup Targets :
             /\ Ahead(x)' < Ahead(x)
             /\ \A y \in (Checks \cup Targets) \ {x} : Stays(y)
        \/ /\ \A x \in Checks \cup Targets : Stays(x)
           /\ \/ Len(queue') < Len(queue)
              \/ queue' = queue /\ busy' \subseteq busy /\ busy' # busy
              \/ UNCHANGED executor /\ mishaps' > mishaps
              \/ UNCHANGED <<executor, mishaps>> /\ TimePasses

\* No checker goes back to an await, however one ends.
LEMMA CheckersGoOn ==
  ASSUME NEW check \in Check, NEW a \in Await, NEW hs, Knows(check, a, hs), NEW how
  PROVE  LET v == Verdict(check, a, how) IN
           \/ v \in Statuses
           \/ v = "draining" /\ a = "trying"
           \/ v = "reading" /\ a \in {"trying", "draining"}
           \/ v = "second" /\ a = "first"
<1>0. check.kind \in Kinds /\ check.asks \in Asks  BY DEF Check
<1> USE DEF Knows, Verdict, Await, Statuses, Asks, Judge, Failed, Sending, Expecting
<1>1. CASE check.kind = "icmp"  BY <1>0, <1>1 DEF Icmp
<1>2. CASE check.kind = "tcp"  BY <1>0, <1>2 DEF Tcp
<1>3. CASE check.kind = "udp"  BY <1>0, <1>3 DEF Udp
<1>4. CASE check.kind = "telnet"  BY <1>0, <1>4 DEF Telnet
<1>5. CASE check.kind = "http"  BY <1>0, <1>5 DEF Http
<1>6. CASE check.kind = "snmp"  BY <1>0, <1>6 DEF Snmp
<1>7. CASE check.kind = "ssh"  BY <1>0, <1>7 DEF Ssh
<1>8. CASE check.kind = "tls_cert"  BY <1>0, <1>8 DEF TlsCert
<1>9. CASE check.kind = "exec"  BY <1>0, <1>9
<1> QED  BY <1>0, <1>1, <1>2, <1>3, <1>4, <1>5, <1>6, <1>7, <1>8, <1>9 DEF Kinds

\* One check that moves on is a step forward, and so is one lookup.
LEMMA OneCheckFurther ==
  ASSUME TypeOK, NEW c \in Checks, UNCHANGED <<round, phase, lookup, said>>,
         await[c] # "done", AheadOfCheck[await'[c]] < AheadOfCheck[await[c]],
         \A d \in Checks \ {c} : await'[d] = await[d] /\ status'[d] = status[d]
  PROVE  GoesForward
<1>1. NothingRevised  BY DEF NothingRevised
<1>2. Ahead(c)' < Ahead(c)  BY DEF Ahead
<1>3. \A y \in (Checks \cup Targets) \ {c} : Stays(y)  BY DEF Stays, Ahead
<1> QED  BY <1>1, <1>2, <1>3 DEF GoesForward

LEMMA OneLookupFurther ==
  ASSUME TypeOK, NEW t \in Targets, UNCHANGED <<round, phase, await, status>>,
         lookup[t] # "ended", AheadOfLookup[lookup'[t]] < AheadOfLookup[lookup[t]],
         \A u \in Targets \ {t} : lookup'[u] = lookup[u] /\ said'[u] = said[u]
  PROVE  GoesForward
<1>1. t \notin Checks  BY BatchAssumption
<1>2. NothingRevised  BY DEF NothingRevised
<1>3. Ahead(t)' < Ahead(t)  BY <1>1 DEF Ahead
<1>4. \A y \in (Checks \cup Targets) \ {t} : Stays(y)  BY DEF Stays, Ahead
<1> QED  BY <1>2, <1>3, <1>4 DEF GoesForward

\* The end of an await.
LEMMA ConcludeGoesForward ==
  ASSUME TypeOK, NEW c \in Checks, NEW how, Conclude(c, how), await[c] \in Await,
         CheckInv(c), UNCHANGED <<round, phase, lookup, said>>
  PROVE  GoesForward
<1>1. work[c] \in Check /\ Knows(work[c], await[c], seen[c])
  BY WorkType DEF TypeOK, CheckInv, Evidence, Await, Judged
<1>2. \/ Says(c, how) \in Statuses
      \/ Says(c, how) = "draining" /\ await[c] = "trying"
      \/ Says(c, how) = "reading" /\ await[c] \in {"trying", "draining"}
      \/ Says(c, how) = "second" /\ await[c] = "first"
  BY <1>1, CheckersGoOn DEF Says
<1>3. /\ Says(c, how) \in Statuses =>
           await'[c] = "done" \/ (await'[c] = "closing" /\ work[c].kind \in {"tcp", "telnet"})
      /\ Says(c, how) \notin Statuses => await'[c] = Says(c, how)
  BY DEF Conclude, TypeOK, Closes
<1>4. AheadOfCheck[await'[c]] < AheadOfCheck[await[c]]
  <2>1. CASE await'[c] = "closing"
    <3>1. work[c].kind # "tls_cert" => await[c] \notin {"first", "second"}
      BY <1>1 DEF Knows
    <3>2. Says(c, how) \in Statuses  BY <1>2, <1>3, <2>1
    <3>3. await[c] \in {"trying", "draining", "reading"}
      BY <1>3, <2>1, <3>1, <3>2 DEF Await
    <3> QED  BY <2>1, <3>3 DEF AheadOfCheck
  <2>2. CASE await'[c] # "closing"
    <3>1. \/ await'[c] = "done" /\ await[c] \in Await
          \/ await'[c] = "draining" /\ await[c] = "trying"
          \/ await'[c] = "reading" /\ await[c] \in {"trying", "draining"}
          \/ await'[c] = "second" /\ await[c] = "first"
      BY <1>2, <1>3, <2>2 DEF Statuses
    <3> QED  BY <3>1 DEF AheadOfCheck, Await
  <2> QED  BY <2>1, <2>2
<1>5. \A d \in Checks \ {c} : await'[d] = await[d] /\ status'[d] = status[d]
  BY ConcludeFrame
<1>6. await[c] # "done"  BY DEF Await
<1> QED  BY <1>4, <1>5, <1>6, OneCheckFurther

\* A thread takes the job of a check or a lookup that waits for it, which is then
\* one further, or one that nobody waits for.
LEMMA ThreadGoesForward ==
  ASSUME TypeOK, QueueInv, ThreadTakes
  PROVE  GoesForward
<1>0. /\ queue \in Seq(Jobs) /\ queue # <<>> /\ queue' = Tail(queue)
      /\ UNCHANGED <<round, phase, status, said>>
  BY DEF TypeOK, Jobs, ThreadTakes
<1>1. Head(queue) = queue[1] /\ Head(queue) \in Jobs /\ 1 \in DOMAIN queue
  BY <1>0, TailIsPart
<1> DEFINE x == Head(queue)[1]
<1>2. x \in Checks \/ x \in Targets  BY <1>1 DEF Jobs
<1>3. CASE Head(queue)[2] = round /\ x \in Checks
  <2>1. x \notin Targets  BY <1>3, BatchAssumption
  <2>2. await[x] = "queued"  BY <1>1, <1>3 DEF QueueInv, CurrentCheckJob
  <2>3. await' = [await EXCEPT ![x] = "first"] /\ lookup' = lookup
    BY <1>3, <2>1 DEF ThreadTakes
  <2>4. await'[x] = "first" /\ \A d \in Checks \ {x} : await'[d] = await[d]
    BY <1>3, <2>3 DEF TypeOK
  <2>5. AheadOfCheck[await'[x]] < AheadOfCheck[await[x]]
    BY <2>2, <2>4 DEF AheadOfCheck
  <2> QED  BY <1>0, <1>3, <2>2, <2>3, <2>4, <2>5, OneCheckFurther
<1>4. CASE Head(queue)[2] = round /\ x \in Targets /\ lookup[x] = "queued"
  <2>1. x \notin Checks  BY <1>4, BatchAssumption
  <2>2. await' = await /\ lookup' = [lookup EXCEPT ![x] = "asking"]
    BY <1>4, <2>1 DEF ThreadTakes
  <2>3. lookup'[x] = "asking" /\ \A u \in Targets \ {x} : lookup'[u] = lookup[u]
    BY <1>4, <2>2 DEF TypeOK
  <2>4. AheadOfLookup[lookup'[x]] < AheadOfLookup[lookup[x]]
    BY <1>4, <2>3 DEF AheadOfLookup
  <2> QED  BY <1>0, <1>4, <2>2, <2>3, <2>4, OneLookupFurther
<1>5. CASE /\ ~(Head(queue)[2] = round /\ x \in Checks)
           /\ ~(Head(queue)[2] = round /\ x \in Targets /\ lookup[x] = "queued")
  <2>1. UNCHANGED <<await, lookup>>  BY <1>5 DEF ThreadTakes
  <2>2. Len(queue') < Len(queue)
    <3>1. Len(Tail(queue)) = Len(queue) - 1 /\ Len(queue) \in Nat
      BY <1>0, HeadTailProperties, LenProperties
    <3>2. PICK n \in Nat : n = Len(queue)  BY <3>1
    <3> QED  BY <1>0, <3>1, <3>2
  <2>3. NothingRevised /\ \A y \in Checks \cup Targets : Stays(y)
    BY <1>0, <2>1 DEF NothingRevised, Stays, Ahead
  <2> QED  BY <1>0, <2>2, <2>3 DEF GoesForward
<1> QED  BY <1>2, <1>3, <1>4, <1>5

LEMMA TickGoesForward ==
  ASSUME TypeOK, Tick, ~UNCHANGED vars
  PROVE  GoesForward
<1>0. /\ left \in [Checks -> Nat] /\ outer \in [Checks -> Nat] /\ wait \in [Targets -> Nat]
  BY BatchAssumption DEF TypeOK
<1>1. \A n \in Nat : CountDown(n) <= n /\ (CountDown(n) # n => CountDown(n) < n)
                     /\ (n > 0 => CountDown(n) < n)
  BY DEF CountDown
<1>2. /\ left' = [c \in Checks |-> IF await[c] = "queued" THEN left[c] ELSE CountDown(left[c])]
      /\ outer' = [c \in Checks |-> CountDown(outer[c])]
      /\ wait' = [t \in Targets |-> CountDown(wait[t])]
      /\ blame' = [c \in Checks |-> IF await[c] = "queued" THEN blame[c] \cup {"thread"}
                                                         ELSE blame[c]]
      /\ UNCHANGED <<phase, round, work, dns, await, status, seen, executor, ptr,
                     lookup, said, world>>
      /\ \A c \in Checks : await[c] = "queued" => outer[c] > 0
  BY DEF Tick, Quiet, InThread
<1>3. /\ \A c \in Checks : left'[c] <= left[c] /\ outer'[c] <= outer[c]
      /\ \A t \in Targets : wait'[t] <= wait[t]
  BY <1>0, <1>1, <1>2
<1>4. \/ \E c \in Checks : left'[c] < left[c] \/ outer'[c] < outer[c]
      \/ \E t \in Targets : wait'[t] < wait[t]
  <2>1. CASE \E c \in Checks : await[c] = "queued"  BY <1>0, <1>1, <1>2, <2>1
  <2>2. CASE \A c \in Checks : await[c] # "queued"
    <3>1. blame' = blame  BY <1>2, <2>2 DEF TypeOK
    <3>2. left' # left \/ outer' # outer \/ wait' # wait  BY <1>2, <3>1 DEF vars
    <3>3. CASE left' # left
      <4>1. PICK c \in Checks : left'[c] # left[c]  BY <1>0, <1>2, <3>3
      <4> QED  BY <1>0, <1>1, <1>2, <4>1
    <3>4. CASE outer' # outer
      <4>1. PICK c \in Checks : outer'[c] # outer[c]  BY <1>0, <1>2, <3>4
      <4> QED  BY <1>0, <1>1, <1>2, <4>1
    <3>5. CASE wait' # wait
      <4>1. PICK t \in Targets : wait'[t] # wait[t]  BY <1>0, <1>2, <3>5
      <4> QED  BY <1>0, <1>1, <1>2, <4>1
    <3> QED  BY <3>2, <3>3, <3>4, <3>5
  <2> QED  BY <2>1, <2>2
<1>5. NothingRevised /\ \A y \in Checks \cup Targets : Stays(y)
  BY <1>2 DEF NothingRevised, Stays, Ahead
<1> QED  BY <1>2, <1>3, <1>4, <1>5 DEF GoesForward, TimePasses

-----------------------------------------------------------------------------
(* The theorems.                                                           *)

BatchInv == TypeInv /\ QueueInv /\ PhaseInv /\ EvidenceInv /\ PtrInv

LEMMA BatchInvHolds == Spec => []BatchInv
<1>1. Init => BatchInv
  BY TypeInit, PhaseQueueInit, EvidenceInit, PtrInit DEF BatchInv
<1>2. BatchInv /\ [Next]_vars => BatchInv'
  BY TypeStep, QueueStep, PhaseStep, EvidenceStep, PtrStep DEF BatchInv
<1> QED  BY <1>1, <1>2, PTL DEF Spec

\* The state of a batch keeps its types, and no more threads are busy than the
\* executor has, whatever checks, targets, threads and timeouts there are.
THEOREM BatchTypeCorrect == Spec => []TypeOK
<1>1. BatchInv => TypeOK  BY DEF BatchInv, TypeInv
<1> QED  BY <1>1, BatchInvHolds, PTL

\* A result claims no more than its target has shown while its check ran, and
\* one that is down without a target that could not be reached has one of the
\* causes StatusIsEarned names: for every kind of check and any number of them,
\* with any number of threads and timeouts, whatever the targets do between the
\* awaits (the checkers of danbyte_checks, run_check).
THEOREM StatusesAreEarned == Spec => []StatusIsEarned
<1>1. BatchInv => StatusIsEarned  BY EvidenceMeansEarned DEF BatchInv
<1> QED  BY <1>1, BatchInvHolds, PTL

\* No result is posted with a PTR name, or with the word that there is none,
\* that the lookup of its own target has not brought (resolve_ptrs, attach_ptrs).
THEOREM NamesAreAnswers == Spec => []PtrIsAnAnswer
<1>1. BatchInv => PtrIsAnAnswer  BY FoundMeansAnswered DEF BatchInv
<1> QED  BY <1>1, BatchInvHolds, PTL

\* Each step of a poll ends a phase, takes one check or one lookup further and no
\* other, rids the executor of a job nobody waits for, is a mishap or uses up time;
\* no result is revised, no checker goes back to an await and no lookup is made
\* twice (run_check, resolve_ptrs, the executor).
THEOREM BatchGoesForward == Spec => [][GoesForward]_vars
<1>1. BatchInv /\ [Next]_vars => [GoesForward]_vars
  <2> SUFFICES ASSUME BatchInv, Next, ~UNCHANGED vars PROVE GoesForward
    OBVIOUS
  <2>0. /\ TypeOK /\ TypeInv /\ QueueInv /\ PhaseInv /\ EvidenceInv
        /\ await \in [Checks -> Await \cup {"queued", "closing", "done"}]
        /\ round \in Nat /\ mishaps \in Nat
    <3>1. TypeOK /\ TypeInv /\ QueueInv /\ PhaseInv /\ EvidenceInv
      BY DEF BatchInv, TypeInv
    <3>2. /\ await \in [Checks -> Await \cup {"queued", "closing", "done"}]
          /\ round \in 0..MaxRounds /\ mishaps \in 0..MaxMishaps
      BY <3>1 DEF TypeOK, Await
    <3>3. round \in Nat /\ mishaps \in Nat  BY <3>2, BatchAssumption
    <3> QED  BY <3>1, <3>2, <3>3
  <2>1. CASE Fetch  BY <2>0, <2>1 DEF Fetch, GoesForward
  <2>2. ASSUME NEW c \in Checks, await[c] # "done" PROVE CheckInv(c)
    BY <2>0, <2>2 DEF PhaseInv, EvidenceInv
  <2>3. ASSUME NEW c \in Checks, NEW how, CheckAdvances(c, how) PROVE GoesForward
    <3>1. /\ await[c] \in Await /\ Conclude(c, how)
          /\ UNCHANGED <<round, phase, lookup, said>>
      BY <2>3 DEF CheckAdvances, Await
    <3> QED  BY <2>0, <2>2, <3>1, ConcludeGoesForward DEF Await
  <2>4. ASSUME NEW c \in Checks, NEW how, HandshakeEnds(c, how) PROVE GoesForward
    <3>1. /\ await[c] \in Await /\ Conclude(c, how)
          /\ UNCHANGED <<round, phase, lookup, said>>
      BY <2>4 DEF HandshakeEnds, Await
    <3> QED  BY <2>0, <2>2, <3>1, ConcludeGoesForward DEF Await
  <2>18. ASSUME NEW c \in Checks, NEW how, ConnectionCloses(c, how) PROVE GoesForward
    <3>1. /\ await[c] = "closing" /\ await'[c] = "done"
          /\ \A d \in Checks \ {c} : await'[d] = await[d] /\ status'[d] = status[d]
          /\ UNCHANGED <<round, phase, lookup, said>>
      BY <2>0, <2>18, CloseFrame
    <3>2. AheadOfCheck[await'[c]] < AheadOfCheck[await[c]]  BY <3>1 DEF AheadOfCheck
    <3> QED  BY <2>0, <3>1, <3>2, OneCheckFurther
  <2>5. ASSUME NEW c \in Checks, ReadTimesOut(c) PROVE GoesForward
    <3>1. /\ await'[c] = "done" /\ await[c] \in InThread
          /\ \A d \in Checks \ {c} : await'[d] = await[d] /\ status'[d] = status[d]
          /\ UNCHANGED <<round, phase, lookup, said>>
      BY <2>0, <2>5 DEF ReadTimesOut, TypeOK
    <3>2. AheadOfCheck[await'[c]] < AheadOfCheck[await[c]]
      BY <3>1 DEF AheadOfCheck, InThread
    <3>3. await[c] # "done"  BY <3>1 DEF InThread
    <3> QED  BY <2>0, <3>1, <3>2, <3>3, OneCheckFurther
  <2>6. CASE ThreadTakes  BY <2>0, <2>6, ThreadGoesForward
  <2>7. ASSUME NEW job \in busy, OrphanEnds(job) PROVE GoesForward
    <3>1. /\ queue' = queue /\ busy' \subseteq busy /\ busy' # busy
          /\ UNCHANGED <<round, phase, await, status, lookup, said>>
      BY <2>7 DEF OrphanEnds
    <3>2. NothingRevised /\ \A y \in Checks \cup Targets : Stays(y)
      BY <3>1 DEF NothingRevised, Stays, Ahead
    <3> QED  BY <3>1, <3>2 DEF GoesForward
  <2>8. CASE ChecksEnd
    BY <2>8 DEF ChecksEnd, GoesForward, PhaseOrder
  <2>9. ASSUME NEW t \in Targets, UNCHANGED <<round, phase, await, status>>,
               NEW u \in {"queued", "asking", "ended"},
               lookup' = [lookup EXCEPT ![t] = u],
               AheadOfLookup[u] < AheadOfLookup[lookup[t]],
               \A r \in Targets \ {t} : said'[r] = said[r]
        PROVE  GoesForward
    <3>1. lookup'[t] = u /\ \A r \in Targets \ {t} : lookup'[r] = lookup[r]
      BY <2>0, <2>9 DEF TypeOK
    <3>2. lookup[t] # "ended"  BY <2>9 DEF AheadOfLookup
    <3> QED  BY <2>0, <2>9, <3>1, <3>2, OneLookupFurther
  <2>10. ASSUME NEW t \in Targets, LookupStarts(t) PROVE GoesForward
    <3>1. lookup[t] = "due"  BY <2>10 DEF LookupStarts
    <3>2. AheadOfLookup["queued"] < AheadOfLookup["due"]
          /\ AheadOfLookup["asking"] < AheadOfLookup["due"]
      BY DEF AheadOfLookup
    <3> QED  BY <2>9, <2>10, <3>1, <3>2 DEF LookupStarts
  <2>11. ASSUME NEW t \in Targets, NEW reply, LookupAnswered(t, reply) PROVE GoesForward
    <3>1. lookup[t] = "asking" /\ \A r \in Targets \ {t} : said'[r] = said[r]
      BY <2>0, <2>11 DEF LookupAnswered, TypeOK
    <3>2. AheadOfLookup["ended"] < AheadOfLookup["asking"]  BY DEF AheadOfLookup
    <3> QED  BY <2>9, <2>11, <3>1, <3>2 DEF LookupAnswered
  <2>12. ASSUME NEW t \in Targets, LookupTimesOut(t) PROVE GoesForward
    <3>1. /\ lookup[t] \in {"queued", "asking"}
          /\ \A r \in Targets \ {t} : said'[r] = said[r]
      BY <2>0, <2>12 DEF LookupTimesOut, TypeOK
    <3>2. AheadOfLookup["ended"] < AheadOfLookup[lookup[t]]  BY <3>1 DEF AheadOfLookup
    <3> QED  BY <2>9, <2>12, <3>1, <3>2 DEF LookupTimesOut
  <2>13. ASSUME NEW t \in Targets, LookupRaises(t) PROVE GoesForward
    BY <2>13 DEF LookupRaises, GoesForward, PhaseOrder
  <2>14. CASE Attach  BY <2>14 DEF Attach, GoesForward, PhaseOrder
  <2>15. CASE Post  BY <2>15 DEF Post, GoesForward, PhaseOrder
  <2>16. CASE Tick  BY <2>0, <2>16, TickGoesForward
  <2>17. ASSUME NEW t \in Targets, NEW h \in Healths, HealthChanges(t, h) PROVE GoesForward
    <3>1. /\ mishaps' > mishaps /\ UNCHANGED executor
          /\ UNCHANGED <<round, phase, await, status, lookup, said>>
      BY <2>0, <2>17 DEF HealthChanges
    <3>2. NothingRevised /\ \A y \in Checks \cup Targets : Stays(y)
      BY <3>1 DEF NothingRevised, Stays, Ahead
    <3> QED  BY <3>1, <3>2 DEF GoesForward
  <2> QED
    BY <2>1, <2>3, <2>4, <2>5, <2>6, <2>7, <2>8, <2>10, <2>11, <2>12, <2>13, <2>14, <2>15,
       <2>16, <2>17, <2>18
       DEF Next, AnyEnd, Done
<1> QED  BY <1>1, BatchInvHolds, PTL DEF Spec
=============================================================================
