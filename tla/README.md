# Verification of danbyte-outpost

TLA+ models of the Outpost agent (`src/`), TLC configurations that check them on
small instances, and proofs that TLAPS checks for every instance. Line numbers
below are lines of files under `src/`.

## The system

An Outpost is an agent that sits in a branch network, polls a central core over
HTTPS for work, runs it next to the targets and posts the results. It is one
Python process on one asyncio event loop, started by systemd with
`Restart=always`. It keeps nothing on disk except its own binary.

| part | source | state | operations | correct when |
|---|---|---|---|---|
| main loop | `outpost/run.py` | poll interval, last answer of hello, deadlines of the SNMP, sweep and hello cycles, the lane it started | startup hello; poll (fetch, run, post); SNMP cycle; sweep cycle; periodic hello; start of the lane; shutdown | it goes on polling whatever fails; what the core asks for is run in the same pass; the lane runs if and only if the core offers it |
| fast lane | `outpost/fast.py` | one `_Entry` per sub-minute check, buffer of samples, report in flight, `flush_now`, two deadlines | tick, probe task, flush, refresh, stop | one probe per check at a time; samples reach the core in order, at least once, with a bounded backlog; a change of reachability is not held back |
| self-update | `outpost/updater.py` | the binary, a scratch file | download, write, chmod, replace, exit | a whole binary is installed at every instant; the image that runs is the one installed |
| table walk | `danbyte_checks/snmp_facts.py` 636-799 | cursors, open columns, rows, rows per request, tries | one GETBULK after the other over several columns at once | every value is under its own row and column; complete means the whole table; it ends whatever the agent answers; walks that share a budget keep to it |
| MAC table read | `snmp_facts.py` 641-665, 1247-1580 | budget, `halted`, problems, per-VLAN tasks and their lists | walks of the default context; choice of the VLANs; reads of their contexts, two at a time | it ends within its budget, accounts for every VLAN, and calls itself complete only if nothing is missing |
| SNMP facts | `snmp_facts.py` 176-634, 802-1245 | none between polls | the stages of a poll, their walks; joins of interface, LAG, VLAN, forwarding, LLDP and ARP tables | whichever walks fail, what is reported of an interface, a host or a neighbour is so, and a table that was cut short is not called complete |
| checks of a poll | `outpost/checks.py`, `danbyte_checks/reverse_dns.py` | a batch, the default executor | run each check, look names up, attach them | one bad check does not cost the batch; silence of DNS is not reported as "no name" |
| checkers | `danbyte_checks/{icmp,tcp,udp,telnet,http,snmp,ssh,tls_cert}.py` and helpers | none | `run` | a status says what the target did, `unknown` what the agent could not find out |
| sweep | `danbyte_checks/sweep.py`, `outpost/discover.py` | none | sweep a prefix in shards | a failed shard costs only itself |
| client, config, CLI | `outpost/client.py`, `config.py`, `run.py` 17-106 | none of interest | HTTP calls, arguments | - |

How they interact: the main loop awaits its cycles one after the other and
starts the lane as a task of its own on the same loop; both call the same HTTP
client. The main loop calls the self-update, which ends the process and with it
the lane, whatever the lane has in its buffer. The lane and the poll run checks
through `run_check`; the SNMP cycle calls `fetch_snmp` in a worker thread, and
that reads the MAC table.

What is hard here, and was listed as hazards before any property was written:

* **Interleaving at awaits.** A probe can end while a report is posted, while a
  work list arrives, or after its check has been withdrawn; two MAC-table tasks
  share a budget, an abort list and a lazily read table.
* **Lost answers.** A report that failed may have been ingested, wholly or for
  some checks, and is sent again merged with newer samples.
* **Partial failure.** One `try` block spans several calls (hello and update,
  fetch and post); a failing walk must leave a trace in what the read reports.
* **Crashes.** The process dies between any two system calls of the update, and
  with samples on board.
* **Time.** Deadlines that pass between two awaits, cycles that outlast a poll,
  a probe that outlasts its interval.
* **Threads that stay.** A blocking call that was given up keeps its thread, into
  the next poll if need be, and what is queued behind it waits on its own clock.
* **Bounds.** The cap on samples, the row cap, the cap on VLANs, the abort rule.

## Modules

| module | models |
|---|---|
| `FastLane` | `FastRunner` of `outpost/fast.py` with its probe tasks, the core that answers and restarts of the process |
| `ProbeChannel` | what the lane promises: one at-least-once FIFO per check, trimmed from the front. `FastLane!Channel` is the refinement mapping |
| `FastLaneProofs`, `FastLaneDelivery`, `FastLaneUrgency` | theorems about `FastLane`: types, exclusion; backlog, refinement, order; changes and withdrawn entries |
| `SelfUpdate` | `self_update` call by call |
| `PollLoop` | `_loop` and `_maybe_update` of `outpost/run.py`, composed with `SelfUpdate` (INSTANCE), the core and the service manager |
| `PollLoopProofs` | theorems about `PollLoop` and the update in it |
| `WalkBudget` | `_WalkBudget`: the clock and the row allowance, and what a walk may do with them |
| `BudgetedWalks` | what a reader relies on: walks that share a `WalkBudget` (EXTENDS), each of which brings rows and ends once |
| `TableWalk` | `_walk_columns`, request by request, over agents of several kinds. `TableWalk!Abstract` is the refinement mapping to `BudgetedWalks` |
| `TableWalkProofs` | theorems about `TableWalk`, the refinement among them |
| `MacTableRead` | `_MacTableRead` over `WalkBudget` (EXTENDS): which walks it makes, the tasks, the gate and the abort rule |
| `MacTableReadProofs` | theorems about `MacTableRead` |
| `SnmpTables` | the joins of `snmp_facts.py` as operators over columns, which are functions from row index to value |
| `SnmpFetch` | `fetch_snmp`: its stages and their walks, any of which may end early, and what is reported of the rows that came (`SnmpTables`, EXTENDS); and what the tables of a device have to do with what is true of it |
| `SnmpFetchProofs` | theorems about `SnmpFetch` and the joins of `SnmpTables` |
| `Checkers` | what each kind of check says of an await that ended in a given way: the exception handlers and branches of the eight checkers |
| `CheckBatch` | a poll's batch (`run_check`, `attach_ptrs`, `resolve_ptrs`) over `Checkers` (EXTENDS), with the executor, the resolver and targets that come and go |
| `CheckBatchProofs` | theorems about `CheckBatch` and `Checkers` |
| `MCFastLane`, `MCPollLoop`, `MCTableWalk`, `MCMacTableRead`, `MCSnmpFetch`, `MCCheckBatch` | what TLC instantiates |

**One step is what the code does between two awaits.** asyncio runs nothing else
in between, so this is exactly the granularity at which tasks interleave. An
await that spans several calls with one handler around them (fetch, run and post
of a poll) is one state that ends well or raises. In `FastLane` a probe is
launched and started in one step: `create_task` only queues it, but nothing that
reads or writes its entry can run before the task does.

The walk of a table is modelled three times, each time as far as its reader
depends on it. In `TableWalk` a step is one GETBULK with its answer. In
`MacTableRead`, where walks of several contexts interleave, it is the arrival of
some rows or the end of the walk, which are the two operators of `WalkBudget`;
`TableWalk` implements them (`ImplementsBudgetedWalks`), so what `MacTableRead`
assumes of a walk is shown and not asserted. In `SnmpFetch`, where walks follow
one another, a whole walk is one step that brings the first rows of each column, not
of each the same number, which is what `TableWalk!FirstRowsOfEach` shows of a walk
however it ends.

**Time** is counted in ticks, and a deadline is kept as the number of ticks left
to it, zero once it has passed. The code compares `monotonic()` with an absolute
deadline; only the difference is ever used.

**State.** The variables have the names of the code where TLA+ allows it
(`entries`, `buffer`, `flushNow`, `halted`, `truncated`, `streak`, `aborted`).
`FastLane!posting` is the local variable `buffer` of `flush`, `owesRefresh` and
`pc` are the position of `run`; `obj` holds every `_Entry` object ever made
because a probe task keeps its own after `refresh` has dropped it. `made` and
`clock` number objects and probes so that samples can be told apart, and are
read by no guard but the bounds on them; `fresh`, `served`, `offered`, `cutShort`,
`seen` and `blame` are history and `delivered` belongs to the core: no action
depends on them. Where the code keeps a list whose order decides nothing, or only
which of several equal things comes first, the variable is a set:
`TableWalk!active` (the open columns of a walk; the order of a request is that of
`Columns`). `MacTableRead!waiting` is a set because the order is in it already: the
gate is first in first out and its tasks are made in ascending order, so the lowest
VLAN is at the head.

**Data.** A check is a model value, a sample is which object and which probe it
came from and its status; a release is a number. In `MacTableRead` an SNMP walk is the number of rows it
brought and how it ended; in `TableWalk` a cell is a row index and a column
number, its value left out; in `SnmpFetch` a table is a sequence of rows in OID
order, and what is true of the device (which port is in which aggregate, behind
which port a host is) is written beside the tables it answers with, so that the
properties compare the report with the device and not with the same joins. A check
is its kind, what it asks for beyond an answer (that something is sent or run, that
what comes back is as expected, both, neither), and its target; a target serves,
serves something else, answers and denies (a login, an SNMPv3 user, a chain nobody
vouches for), is mute, refuses, stalls (takes no more of what it is sent, or hands
out a page byte by byte) or is gone. An answer that takes longer than a tick is no
answer. How an await ends is apart from what the checker makes of it: `Checkers!Ends`
says the first, of the target, and may say nothing, so that the await is held;
`Checkers!Verdict` says the second, of the code.

## Runs

| run | what it checks | bounds |
|---|---|---|
| `fastlane` | `OneProbePerEntry`, `ChangeIsUrgent`, `NoOvertaking`, `BoundedBacklog`, `OneStraggler`, `TypeOK`; `ImplementsChannel`; `EventuallyReported`, `KeepsProbing` | one check, whose interval the core names or leaves to the default, two probes, two entries, one restart, cap 1: the check can be withdrawn with a probe in flight and be handed out again, a report can fail with its samples already ingested, and the cap cuts a queue of two. A report that is ingested for some of several checks, and a buffer the lost report did not mention, are left to the theorems, which hold for every set of checks |
| `fastlane_reported` | the documented `DifferenceReportedAtOnce`, which fails | as above |
| `poll_loop` | `AskedIsServed`, `LaneOnlyIfOffered`, `BinaryIsWhole`, `RunsWhatIsInstalled`, `TypeOK`; `KeepsPolling`, `EveryCycleComesRound`, `FastChecksGetALane`, `ReachesGolden` | intervals of 1 to 3 ticks that keep the order of the real ones, two releases, one unexpected death: an update can be interrupted, resumed after a restart and overtaken by a release; a poll can raise before or after its work list is known, so that a request is lost and the loop backs off with it in hand |
| `poll_loop_offered` | the documented `LaneRunsOnceOffered`, which fails | as above |
| `table_walk` | `RowsAreTheTables`, `FirstRowsOfEach`, `RowsAreChargedOnce`, `TypeOK`; `NothingInVain`, `EveryWalkEnds`, `ImplementsBudgetedWalks` | two walks at once of a table with two columns, with a hole or without a first column; agents that speak v2c, speak v1 or repeat themselves; two rows per request, one retry, a deadline of one tick, a row cap of three that two walks of two rows exceed |
| `mac_table` | `VlansAccounted`, `AbortBounded`, `CompleteMeansEveryWalkEnded`, `TypeOK` | five VLANs, four of them within the cap, two at a time, abort after two failures: one more can be in flight at the abort and one is left to be skipped; a deadline of one tick that can fall between any two walks, a row cap of two |
| `mac_table_complete` | the documented `CompleteMeansAllRead`, which fails | two VLANs |
| `snmp_fetch` | `InterfacesAreRight`, `HostsAreWhereTheyAre`, `OnlyHostsAreReported`, `VlanIsRight`, `LocalPortIsRight`, `ArpIsWhatItSays`, `TypeOK` | four devices, each with what makes a join hard (shared FDBs, aggregates that call themselves virtual, no LAG MIB, no bridge port table, logical units over one port and over two, ambiguous names); any two things go wrong, anywhere in the poll, and a walk that ends early does so after any number of rows of each of its columns |
| `snmp_lag` | the documented `BlankMeansNotMember`, which fails | the same devices, one thing goes wrong |
| `check_batch` | `StatusIsEarned`, `PtrIsAnAnswer`, `TypeOK`; `RoundEnds` | two polls of two checks: every kind alone, and two certificate reads side by side, of one target or two; one thread, so that everything that can wait for it does, and a gate that lets both lookups ask for it; timeouts of one tick; one mishap per poll (a target that changes between two awaits, an exception, a refusal by policy). TCP asks for nothing, an answer, or to send and read, Telnet and SSH with and without: every await of every kind is reached, and each await without a limit is held |
| `check_batch_down` | the documented `OnlyTargetsAreDown`, which fails | three certificate reads, one thread, no mishap |
| `check_batch_ptr` | the documented `EmptyMeansNameless`, which fails | two certificate reads, no mishap |

The bounds are enough because what they cut off repeats: a second withdrawn
entry, a third release or a sixth VLAN meets the same guards as the ones before.
For the properties that are proved (below) this is not an argument but a fact.

Deadlock is checked in every run. `FastLane!Stopped` and the `Done` of the other
modules mark the states where the modelled code has returned, so any other state without a step
would be reported; in `mac_table` this is what shows that no task is left waiting
at the gate.

### What the violated runs show

* `fastlane_reported`. `last_class` is compared and set with every probe
  (`fast.py` 112-114), and `flush_now` is cleared before the post is known to
  have arrived (119). After a failed report of a change, the changed state waits
  for the timer although it differs from the last one *reported*, which is what
  the module says it compares with (11-12, 35).
* `poll_loop_offered`. Hello and update share a `try` (`run.py` 158-165). If the
  download fails, `info = {}` also forgets the `fast: true` that hello has just
  brought. Until the next successful hello, 300 s later at the earliest, the
  core expects the lane to probe and it is not running.
* `mac_table_complete`. A VLAN whose turn comes when the time has run out is put
  in `skipped` without `budget.stop()` (`snmp_facts.py` 1515), and a VLAN over
  the cap always is (1449). The read then says `complete`, which the core takes
  as leave to close the MACs it did not see (921). The VLAN name tables (1394) and
  `ifStackTable` (1414) are passed over in the same silence when the time runs out
  just before them; the model lets it run out there too.
* `snmp_lag`. `_walk_column` gives what it has when a walk breaks off
  (`snmp_facts.py` 606-633), and nothing records that it did. If the two walks of
  341-345 fail, every port is reported with `lag_if_index: ""`, which the comment
  at 337-339 and `docs/COMPATIBILITY.md` 90-91 say means "not a member".
* `check_batch_down`. Certificate reads run in the threads of the event loop's
  default executor, `min(32, cpus + 4)` of them, which the whole batch shares with
  lookups (and, for checks of the fast lane, with SNMP and sweep workers). The
  `wait_for` around a read (`tls_cert.py` 380) runs while the read is queued, so
  a few silent targets at the head of the queue turn live ones behind them
  `down`, which `base.py` 13 reserves for "a genuine reachability failure".
  It is not the only way to a `down` without such a failure. `StatusIsEarned` lists
  them all, and for each the run reaches it: an `OSError` of the agent itself; an
  address the agent's own policy refuses (`http.py` 63-68; `tls_cert.py` 399-401 says
  `unknown` of the same thing, with the comment that misconfiguration must not
  masquerade as an outage); an https server whose chain does not verify (`http.py`
  83-84); an SNMPv3 agent that answers that user or digest are wrong (`snmp.py`
  107-109); a command the SSH server refuses to run (`ssh.py` 124, where a refused
  login is `degraded`).
* `check_batch_ptr`. `getnameinfo` raises `gaierror` for a failed resolver as well
  as for a missing name, and `reverse_dns.py` 75-76 takes both for an answer: the
  core is sent `ptr: ""`, which it reads as "this address has no name".

### What the code and its comments disagree about, without a run of its own

Properties of passing runs state these as exceptions. Each exception is a fact about
the code, and is as narrow as it can be.

* `AskedIsServed`: `run.py` 188 says of a "Discover now" that it is acted on "on this
  cycle, not in 10 min". If `post_results` raises (187), the flags that `fetch_work` has
  taken from the core are forgotten (195-198); the property says that this is the only
  way, and that the cycle is then no further away than its own interval.
* `RoundEnds`: `base.py` 9-10 says that a checker never runs longer than `timeout_ms`.
  The timeouts of httpx are for single reads and writes (`http.py` 77-80), `drain`
  (`tcp.py` 52, `telnet.py` 63) and `wait_closed` (`tcp.py` 76, `telnet.py` 89) have
  none: a target that stalls there holds the batch, and with it the main loop, for as
  long as it does. The property says that nothing else can.
* `StatusIsEarned`: `base.py` 11-13, under `check_batch_down` above.
* `OnlyHostsAreReported`: `docs/COMPATIBILITY.md` 108-110 says that only learned entries
  are sent. A row whose status was lost on the way (`snmp_facts.py` 797: the walk broke
  off between two columns) passes the filter although the device calls the address its
  own; the read is then not called complete.
* `VlanIsRight`: the comment at `snmp_facts.py` 1388 says "never a guess". Of a
  `dot1qVlanFdbId` that broke off half way, `map_fdb_vlans` takes an FDB that two VLANs
  share for the FDB of the one it has read. The row then has another VLAN of that FDB,
  and the read is not called complete.
* `LocalPortIsRight`: `_match_interface` (527) wants a unique name, among the rows that
  were read. With names lost, a neighbour may be put on another interface of that name.
* `HostsAreWhereTheyAre` is about reads whose interface tables came whole and whose
  deadline had not passed. Where a column of the interfaces is missing the code maps
  ports with what it has; past the deadline the walk of `ifStackTable` is passed over
  without a trace, and hosts on a logical unit stay there in a read called complete. The
  cause of the second is that of `mac_table_complete`.

### Fairness

* asyncio resumes a task whose await is over, and a sleep ends: weak fairness of
  `Wake`, of the pass and of the cycles.
* Every call of the client has timeouts (30 s, longer for downloads): an await ends,
  with an answer or an exception. So the *end* of an await is weakly fair and its
  *failure* is what is always possible. `FastLane` and `PollLoop` take the same of a
  checker; `CheckBatch` says on which condition that is so (`RoundEnds`).
* The core and the network are not down for ever: a report, a hello, a poll and
  each stage of a download that are tried again and again succeed some day
  (strong fairness). Without it `ReachesGolden` and `EventuallyReported` are
  false, and should be. That `ReachesGolden` needs polls to succeed too is a
  fact about the code: a poll that raises skips the hello of its pass.
* Every SNMP request is answered or times out, in pysnmp: weak fairness of the steps
  of a walk, and nothing of what the steps do. `EveryWalkEnds` then rests on the
  code: by `NothingInVain`, which is proved (`NoRequestIsInVain`), each request
  closes a column, brings a cell, lowers the rows asked for or uses up a try. It needs
  no deadline.
* In `CheckBatch` a thread in the resolver need not come back, a resolver need not
  answer, and a target that stalls need not stop; sockets have timeouts, so a handshake
  does end. `RoundEnds` is therefore what the `wait_for`s and lifetimes achieve, not an
  assumption: the poll ends, or a target stalls for ever on one of the awaits that have
  no limit. Without that second half TLC finds it violated.
* Nothing is assumed of `Stop`, `Dies`, `CoreUpgrades`, `CoreReleases`.

`EveryCycleComesRound` says that the SNMP and sweep cycles come round again and
again, whichever of them fails and however often: each sets its deadline after it is
over, however it ended (`run.py` 200-214), so neither a failure nor a slow cycle
starves the other. It rests on polls that succeed now and then, since a poll that
raises skips the cycles of its pass (195-198).

`MacTableRead` has no liveness property of its own: its steps only ever go forward
(`ReadGoesForward`, proved), so that it ends follows from the absence of deadlock and
from `EveryWalkEnds`. In the same way `BatchGoesForward` is the part of `RoundEnds`
that rests on the code and not on fairness. `SnmpFetch` goes through its stages once,
in the order of the code.

## Proofs

Every safety property that a passing run checks, the two refinements among them,
is a theorem of its specification: the run shows it on the instance of the table
above, the theorem for every value of the constants that the named assumptions
allow. TLC evaluates those assumptions in every run. Two theorems, `ReadGoesForward`
and `BatchGoesForward`, say of every step what no run checks; their `GoesForward` is
defined beside the proof.

| theorem | says | module |
|---|---|---|
| `TypeCorrect` | `Spec => []TypeOK` | `FastLaneProofs` |
| `ProbesAreExclusive` | `Spec => []OneProbePerEntry` | |
| `BacklogIsBounded` | `Spec => []BoundedBacklog` | `FastLaneDelivery` |
| `LaneImplementsChannel` | `Spec => ImplementsChannel` | |
| `SamplesInOrder` | `Spec => []NoOvertaking` | |
| `WithdrawnReportsOnce` | `Spec => []OneStraggler` | `FastLaneUrgency` |
| `ChangesAreReportedAtOnce` | `Spec => []ChangeIsUrgent` | |
| `LoopTypeCorrect` | `Spec => []TypeOK` | `PollLoopProofs` |
| `AlwaysAWholeBinary` | `Spec => []BinaryIsWhole` | |
| `InstalledIsRunning` | `Spec => []RunsWhatIsInstalled` | |
| `LaneIsOffered` | `Spec => []LaneOnlyIfOffered` | |
| `FlagsAreActedOn` | `Spec => []AskedIsServed` | |
| `WalkTypeCorrect` | `Spec => []TypeOK` | `TableWalkProofs` |
| `CompleteIsTheTable` | `Spec => []RowsAreTheTables` | |
| `FirstRowsAreRead` | `Spec => []FirstRowsOfEach` | |
| `CapIsShared` | `Spec => []RowsAreChargedOnce` | |
| `NoRequestIsInVain` | `Spec => NothingInVain` | |
| `WalksShareTheBudget` | `Spec => ImplementsBudgetedWalks` | |
| `MacTableTypeCorrect` | `Spec => []TypeOK` | `MacTableReadProofs` |
| `EveryVlanIsAccountedFor` | `Spec => []VlansAccounted` | |
| `AbortsAreBounded` | `Spec => []AbortBounded` | |
| `NoCutGoesUnreported` | `Spec => []CompleteMeansEveryWalkEnded` | |
| `ReadGoesForward` | `Spec => [][GoesForward]_vars` | |
| `FetchTypeCorrect` | `Spec => []TypeOK` | `SnmpFetchProofs` |
| `InterfacesAreTheDevices` | `Spec => []InterfacesAreRight` | |
| `CompleteIsEveryHost` | `Spec => []HostsAreWhereTheyAre` | |
| `HostsAreNotTheDevice` | `Spec => []OnlyHostsAreReported` | |
| `VlansAreTheDevices` | `Spec => []VlanIsRight` | |
| `LocalPortsAreTheDevices` | `Spec => []LocalPortIsRight` | |
| `ArpIsTheDevices` | `Spec => []ArpIsWhatItSays` | |
| `BatchTypeCorrect` | `Spec => []TypeOK` | `CheckBatchProofs` |
| `StatusesAreEarned` | `Spec => []StatusIsEarned` | |
| `NamesAreAnswers` | `Spec => []PtrIsAnAnswer` | |
| `BatchGoesForward` | `Spec => [][GoesForward]_vars` | |

### What they assume

* `FastLane` (`CheckAssumption`, `PeriodAssumption`, `BoundAssumption`), `PollLoop`
  (`PollAssumption`), `WalkBudget` (`BudgetAssumption`): intervals, caps and bounds
  are numbers, those the code divides or counts down by are not zero.
* `MacTableRead` (`MacAssumption`): finitely many VLANs; a cap, a concurrency and an
  abort threshold of one at least (`snmp_facts.py` 928-929, 1278).
* `TableWalk` (`TableAssumption`): the columns asked for are distinct, rows are
  finitely many and start at 1. `Walks` is any set.
* `CheckBatch` (`BatchAssumption`): finitely many checks and targets; threads,
  gate and timeouts of one at least. What a target of a kind does to an await is
  `Checkers!Ends`, which the statements are therefore about.
* `SnmpFetch` (`FetchAssumption`, `DeviceAssumption`). A statement that a report is
  *true* needs to say what the tables of a device have to do with the device. That
  is `DeviceAssumption`, written about whole tables and without the code's joins:
  no index comes twice in a table; an interface is in the aggregate the LAG MIB or
  an active row of ifStackTable puts it in and in no second one, and in the VLAN its
  bridge ports have (`InterfacesAgree`); an FDB that one VLAN alone uses is of that
  VLAN, and a device without the table that says which numbers its FDBs by VLAN, which
  is what the code takes it to do (`VlansAgree`); the device's own addresses are among those of its
  interfaces, and its ARP entries are valid or not as their type says
  (`AddressesAgree`); a name that one interface alone has on the
  device belongs to the port that goes by it (`NamesAgree`; it is about the names of the
  device, not about those that were read); a host is at the interface of the bridge port its address was
  learned on, or at the one port that interface is a unit of (`HostsAgree`).
  What the theorems then say is about failure: whichever walks broke off,
  wherever, and whichever the code then left out, the report says nothing the
  whole tables do not, and what is called complete has all they say. The four
  devices of `MCSnmpFetch` say by name who is where; TLC checks that
  they meet the assumption.

### Along which argument

Most of the properties are not inductive; what they lack is what a reader of the
code has to know. The strengthened invariants were checked by TLC first.

* **Exclusion** (`ProbeInv`). `refresh` makes an object with the flag down, and
  nothing in `OneProbePerEntry` says that no task holds that object already.
  `EntriesAreNumbered` does: no entry and no task refers to an object beyond `made`.
* **Backlog.** `BoundedBacklog` is about steps: a buffer above the cap was put there by
  a probe, or stays as it is in a step that loses no report; so the step that does lose
  one leaves none above the cap. The work is in the lemma on `Newest` (trimming returns
  the newest `BufferCap` elements), which `ReportFailed` applies to every check.
* **Refinement of the channel** (`DeliveryInv`). The step simulation needs to know
  that a probe that ends is newer than all its entry has pending or delivered,
  since the channel accepts nothing else. `PostingInv`: nothing is in flight outside
  the await of a report, or swapping the buffer would lose samples. `Stamped`: no
  stamp is ahead of the clock, and a probe in flight is ahead of all samples of its
  entry; that no second probe of the entry is in flight is used to keep it.
  `SampleSteps` then sorts every step of the lane into five kinds, and each is a
  step of the channel or a stutter: swapping the buffer is the stutter.
* **Order.** From the same invariant and the same five kinds: a failed report
  keeps a suffix of the queue, an acknowledged one removes a prefix.
* **Withdrawn entries** (`StragglerInv`). One sample at most, *and* none at all
  while a probe of the entry is still in flight. It is kept because a withdrawn
  entry is never probed again and its probe in flight is the only one.
* **Changes** (`UrgencyInv`). `ChangeIsUrgent` compares two samples, the code a
  status with `entry.last`. `LastIsKnown` says that the two are the same thing as
  long as a next probe can still compare itself with it: `last` is what the newest
  sample found, also when that sample is in a report in flight.
* **The image** (`ImageInv`): whole at the path, because what is about to be moved
  there is whole; a process that runs another release is on its way out.
* **The lane is offered** (`LaneInv`): `info` never says more than the core has.
* **The flags of a pass** (`AskedInv`): what was asked for and not yet run is still
  ahead of the await the loop is at, or the loop backs off. Beside it, that a deadline
  is never more than its interval away, since it is set from it after the cycle (`Near`).
* **Walks** (`ReadInv`). `CompleteIsTheTable` needs, of a walk that is still open,
  that no cell lies beyond the last row taken of its column, and that nothing up to
  there was passed over, of a closed column nothing at all.
  `FirstRowsAreRead` needs the same of every column, closed or not, and whatever the
  walk has come to: up to the last row taken, all of it was read (`UpToTheLast`).
  `CapIsShared` counts pairs of walk and row, since two walks may bring the same row:
  what an answer is charged for is apart from all that was charged before
  (`ChargedOnce`).
  `WalksShareTheBudget` maps each request to rows taken or an end of the walk; the
  lemmas on `Cardinality` count the rows an answer adds. `NoRequestIsInVain` needs that
  an open walk has a column left to ask for (`StillAsking`).
* **The MAC table.** `AbortBounded` leaves out that what is in flight at the abort
  may fail as well: `AbortInv` bounds the blame and the flights together. A walk
  that is cut short leaves a trace at once (`TraceInv`), or the task that has its
  failure is still at its `ifStackTable`. `AccountedInv` says that the five places
  of a VLAN are apart.
* **Progress.** `GoesForward` is a lexicographic measure. In a MAC table read: the walk
  of the default context that is pending; then how far each VLAN is, where one step
  moves one VLAN, which needs its places to be apart; then rows and time. In a poll:
  the phase; how far each check and lookup is, which needs to know that a checker
  never leads back to an await (`CheckersGoOn`, with what `Knows` says of the awaits a
  kind of check has) and that a thread takes the job of a check only while that check
  is queued (`QueueInv`); then the executor; then the mishaps; then the timers.
* **A poll** (`FetchInv`): a stage that raised is past, so that its columns stay
  empty, and a walk that ended "ok" has the whole table. From there the properties
  follow by what the joins do to *part* of a column (`PartOf`) and to all of it
  (`AllOf`). `HostsAreWhereTheyAre` needs `CompleteInv` also: a walk that was passed
  over is excused by what will still be so at the end of the poll - the read
  stopped, or there was no need of the walk, because the rows it would have
  been needed for are still what they were (`RowsStay`).
* **A batch** (`EvidenceInv`, `QueueInv`, `PhaseInv`, `PtrInv`). A status rests on
  what was seen at earlier awaits too, so `Evidence` says what each await of each
  kind of check already knows of its target, one that drains or closes its connection
  among them; and a certificate read that times out as a whole was held up by a thread
  or a silent target, since a tick passes for nothing else. Once a check has its
  result, what the target does while the connection is closed is no evidence any more. `QueueInv`: the job of a check is in the queue once, and is not
  there any more when the check is over.

Where numbers are counted down or a least one is chosen, the proofs use the
least-number principle (`Least`, from `WFMin` and `NatLessThanWellFounded`).

### What the proofs changed

Five definitions could not be reasoned about as they stood. The first two were wrong,
the third left open what the code decides, the others were only out of reach.

* `CheckBatch`: a thread that reached the job of a lookup that had been given up
  set the lookup going again. `PtrIsAnAnswer` held on the instance of the run, which
  let one lookup at a time into the executor; it was not provable for two. Now a
  thread works such a job off and nobody hears of it, and the run has a gate of two.
* `SnmpFetch` let a walk that ends early bring the first rows of its table, every
  column up to the same one. What is proved of `TableWalk` is less: the columns of a
  request are answered together but each stops at a row of its own. Now a walk brings
  the first rows of each column, and the properties are proved of those.
* `Checkers` and `SnmpTables!MatchInterface` had `CASE` arms that overlap, whose
  choice TLA+ leaves open; the code tests in order. They are `IF`s in that order now.
* `SnmpTables!ParseLag` joined two functions with the `@@` of TLC, which the provers
  do not know; its domain and its values are written out.
* Where order decides nothing, sequences became sets (`TableWalk!active`,
  `MacTableRead!waiting`): the provers cannot follow a filter over a sequence.

### What stays with TLC

* Liveness: `EventuallyReported`, `KeepsProbing`, `KeepsPolling`,
  `EveryCycleComesRound`, `FastChecksGetALane`, `ReachesGolden`, `EveryWalkEnds`,
  `RoundEnds`. They rest on fairness, and the installed provers have no ENABLED.
* The absence of deadlock, for the same reason.
* What a recursive definition computes for every input. The modules have none:
  TLC and the provers see the same definitions.
* The violations, which are counterexamples and need no proof.

## Not modelled

* The bytes: HTTP, JSON, SNMP encodings, DNS messages, ICMP.
* `_once` and `_check` of `run.py`: one-shot commands without state.
* The decoding of values: octet strings to addresses and text, OIDs to indexes,
  ifType and status numbers to words. Columns of an interface that decide nothing
  (counters, speeds, states, VLAN names), LLDP capabilities, `parse_fdb`.
* Rows of VLAN contexts in `SnmpFetch`, which polls with `mac_vlan_contexts` "off":
  how their reads run is `MacTableRead`, and their rows go through the same filter
  and port mapping. Two rows that differ in nothing reported (`_finish` drops one)
  are one in a set.
* `fetch_oid` and `list_oid_children`, single reads for a person who looks on.
* The sweep (`sweep.py`): shards without shared state. `discover.py` around it is a
  cycle of `PollLoop`.
* In `FastLane`, what a checker does: it is any outcome after any time. That a
  checker returns is a fairness assumption there; `CheckBatch` checks on which
  condition it does (`RoundEnds`).
* What a banner, a page, an SNMP value or a certificate contains, and the validation of
  parameters, which is the core's. Connecting and shaking hands are one await with one
  timer (in SSH and in each of the two handshakes of a certificate read), as are the
  pings of an ICMP check, whose time is a multiple of their number. The address policy and the parsing of host keys are functions
  without state.
* Small things that change nothing that is checked: the 0.01 s a walk waits at least
  when its deadline has passed (`snmp_facts.py` 736), the line printed before `_exit`
  (`updater.py` 45), the name `if<index>` of an interface without one, and interface
  rows that only a column left out here would show.
* Work lists whose targets are all empty, and two checks with one `state_id`.
* SNMP and sweep workers in the executor: the main loop never runs them beside a
  batch. Beside a probe of the fast lane they add to the queue that
  `check_batch_down` shows.
* An exception that escapes a MAC-table task (`run` turns it into a problem) and
  an exception that is not an `Exception`.
* More than one process: a second agent with the same token is another system.

## Plan

What is left:

1. Action properties of the lane that are not stated yet: what a refresh may do to a
   probe in flight, what a retry may do to a report; and the steps of `SnmpFetch` and
   of a pass of `PollLoop` as steps forward, as those of the walks, the MAC table and
   the batch are.
2. `TlsRead`: what the two handshakes of a certificate read say of one another, and
   the leaf that cannot be parsed (`tls_cert.py` 303, 323), the two hazards listed
   without a property that a model could reach.

That the walks of `MacTableRead` are those of `BudgetedWalks` stays in the text: both
are written with the operators of `WalkBudget`, and a refinement mapping from one to
the other would need to remember how many rows each walk brought, which a read does
not.
