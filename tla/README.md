# A verification of pyraftkv

`pyraftkv` is a key-value store replicated with Raft: Python processes that elect
a leader, replicate a log of commands over HTTP, apply what a majority holds,
keep their state in JSON files, compact their logs into snapshots and hand over
leadership at shutdown. This directory holds TLA+ modules translated from that
code (all line numbers are those of `src/src/pyraftkv`), the TLC configurations
that check them on small clusters, and theorems about them that TLAPS proves for
clusters of any size.

    tlc -workers 2 -config MCRaft_snapshot_crash.cfg MCRaft
    tlc -workers 2 -config RaftCatchUp_catch_up.cfg RaftCatchUp
    tlapm RaftElectionProofs.tla
    tlapm RaftSafetyProofs.tla

`PROJECT.json` lists the components, the runs, the source lines behind every
definition, a wrong form of the code that each property catches, the findings,
the hazards and the theorems.

## 1. The system

### Components, their state and operations

| component | state | operations | what makes it correct |
|---|---|---|---|
| `RaftLog` (`raft/log.py`) | base index and term, retained entries | append, get, `term_at`, `entries_from`, truncate, compact, install boundary | indexes stay contiguous across the base; nothing below it is asked for |
| `RaftState`, `ElectionTracker`, `vote.py`, `ElectionTimer` | term, vote, role, leader hint, commit and applied index, votes received | start an election, grant or refuse a vote, count one, follow a leader | one vote per term, one leader per term, never forgotten by a crash |
| `LeaderReplication`, `replication.py`, `commit.py` | `next_index`, `match_index` per follower | record success or failure, advance the commit index; accept, truncate, append | logs match; what is committed is never replaced |
| `RaftNode` (`raft/node.py`) | all of the above, three locks, worker futures, transfer state, read lease | recovery, four RPC handlers, `tick`, follower workers, `replicate_log`, `submit_commands`, `linearizable_get`, `transfer_leadership`, `create_snapshot` | every answer follows the write it depends on; an answer to an old question changes nothing |
| `state_machine.py`, `KVStore` | a map | apply, snapshot, restore | every store is the committed history applied in order |
| `RaftPersistence` | `raft-state.json`, the `raft-log.json` journal, `raft-snapshot.json` | atomic replacement, journal appends, load and replay | what a crash leaves loads as what the node last acted on or a step of the write that was cut, or is refused |
| `RaftCommandProcessor` | bounded queue, worker thread, futures | start, stop, submit, batch | every submission is answered; `stop` returns |
| `StorageEngine`, `WAL`, `SnapshotStore` | a map, a log of operations, a snapshot (one process, no Raft) | put, delete, snapshot, recover | recovery rebuilds what was acknowledged |
| HTTP transport and routes | a connection pool | one call, 0.2 s timeout, `TransportError` | a call that failed may still be handled |
| `InMemoryTransport` | links, drops, gates | the same calls with injected faults | test double: every fault it injects is one of HTTP's |
| runtime (`runtime.py`) | background task | one tick or replication round at a time, start-up, shutdown | the loop survives exceptions; shutdown hands over leadership |
| cluster API, status, observer, metrics | none that matters to consensus | | |

### How they interact

One process runs three kinds of threads. The background task calls `tick` or
`replicate_log` every 50 ms. HTTP handlers of `api/raft.py` run the four RPC
handlers in a thread pool. The command processor's thread calls
`submit_commands`, and the shutdown path calls `transfer_leadership`. All of
them meet in `RaftNode`, under `_raft_lock`. The lock is released while a call
is on the network, so what was read before a call can be out of date when the
answer is looked at; `_replication_lock` keeps replication rounds and a
leadership transfer apart. Nodes share nothing but calls. Each node's files are
written inside the critical sections, several of them in sequence, so that a
crash can fall between two writes.

### What is hard

* Interleaving: votes and answers arrive after the role or the term of the node
  that asked has changed (`node.py:769`, `node.py:928`).
* Ordering: a call given up after 0.2 s can be handled later, after newer ones
  (`http.py:85`).
* Crashes between the journal, the snapshot and the state file (`node.py:383`,
  `:471`, `:586`), and between a write and the answer that depends on it.
* Long sequences: several leaders, each with a part of the log; a follower that
  compacted further than its leader; a deposed leader that is re-elected.
* Boundaries: the base of a compacted log, `next_index` at 1, empty suffixes.
* Reads: an answer counts for a confirmation only if the question was asked after
  it began (`node.py:1257`), and a new leader does not know yet what is committed.
* Progress: a worker that outlives its round, calls that fail again and again, a
  follower that crashed, diverged or compacted (`node.py:1025`, `replication.py:38`).
* A write that fails half-way and leaves the process running (`node.py:471`).

`PROJECT.json` lists each hazard at its line, with the properties aimed at it or
why there is none.

## 2. The model

### Modules

| module | what it is |
|---|---|
| `RaftLog` | `raft/log.py`, the up-to-date test of `vote.py` and the repair of `replication.py` as operators on a log `[base, bterm, entries]`; `JournalPrefixes`, the logs a crash in the middle of a journal write leaves |
| `Raft` | the cluster: the variables below, 29 actions, the properties |
| `MCRaft` | sub-specifications and symmetry for TLC |
| `RaftReads` | `confirm_read_quorum`, the read lease and `linearizable_get`, on top of `Raft` |
| `MCRaftReads` | sub-specifications and symmetry for TLC |
| `RaftCatchUp` | one leader that stays: rounds of `replicate_log`, their workers and their fairness, on top of `Raft` |
| `DurableLog` | what `Raft` takes the journal to be: a log that changes with the one in memory |
| `RaftJournal` | `raft-log.json` line by line, as `persistence.py` writes, cuts, replays and migrates it |
| `RaftLogProofs` | lemmas about the log operators, and logs as functions of all indexes (`Unfolds`) |
| `RaftElectionProofs` | types, durability, votes, leaders, and what roles say of the past |
| `RaftSafetyProofs` | the inductive invariant behind everything the logs promise (`SafetyInv`) |
| `RaftTheoremProofs` | the theorems that follow: logs, commitment, crashes, stores, answers, transfers |
| `RaftReadsProofs` | the cluster with reads implements the one without; what reads see |
| `RaftJournalProofs` | the journal implements `DurableLog` |
| `CommandProcessor` | `raft/command_processor.py`: its queue, writer threads, callers, and threads in `stop` |
| `CommandProcessorProofs` | its types, and that a stop leaves nothing behind |
| `DurableMap` | what the standalone engine promises: a map, written atomically |
| `StorageEngine` | `storage/engine.py` with `wal.py`, `snapshot.py` and `store.py`: requests in several steps, crashes, recovery |
| `MCStorageEngine` | the engine with requests that overlap in any way, a snapshot only beside none, and two history variables: what appends behind torn records destroyed, and the last requests of each key |
| `StorageEngineProofs` | what restarts give, and when the engine implements `DurableMap` |

`RaftReads` and `RaftCatchUp` extend `Raft`: their steps are its actions with what
the worker or the reader keeps, and neither changes a guard of `Raft`. `RaftJournal`
stands under it: `Raft` writes a log to `disk` at once, or leaves one of
`JournalPrefixes` when it crashes, which is `DurableLog`, and `RaftJournal`
implements `DurableLog` with `durable <- Load(file)`.
`CommandProcessor` meets `Raft` in one call: `SubmitBatch` is where `Submit` and
`SubmitReturns` of `Raft` happen, and only that the call ends matters to the
queue. `StorageEngine` is a program of its own (`api/app.py`), without Raft.

### State of `Raft`

`state`, `log`, `snapshot`, `store`, `replication`, `transfer_term` and `pending`
hold the memory of each process; `disk` its three files; `up` the processes that
run; `rpcs` the calls on the network. `pending` is the local variable `entries`
of a `submit_commands` that has not returned, `transfer_term` the local term of a
`transfer_leadership`. The votes of `ElectionTracker` are a field of `state`.
While a process is down the variables of its memory show what loading its files
would give. `elected`, `committed` and `acked` are history: they are written and
read by no guard, only by properties.

### Steps of `Raft`

A step is one critical section under `_raft_lock` with every write to disk made
inside it, so that a handler is one action with all it does: adopt the term,
check, change the log, persist, apply, clear the replication record, answer. A
call is three steps (`Call`, the handler, the look at the answer), and its record
stays in `rpcs` between them, as `"sent"`, `"answered"`, or `"late"` when the
caller has given up and the request may still arrive.

| code | actions |
|---|---|
| `tick`, first half; per response | `StartElection`; `RecordVote`, `VoteFromNewerTerm`, `VoteAfterElection` |
| `handle_request_vote` | `HandleRequestVote` |
| `_replicate_to_follower`, before and after the call | `SendToFollower`; `AnswerToLeader`, `AnswerFromNewerTerm`, `AnswerAfterLeadership` |
| `handle_append_entries` | `HandleAppendEntries` |
| `handle_install_snapshot` | `HandleInstallSnapshot`, `RejectSnapshot` |
| `replicate_log`, its end | `AdvanceCommit` |
| `submit_commands`, its two critical sections | `Submit`, `SubmitReturns` |
| `transfer_leadership`, `handle_timeout_now` | `BeginTransfer`, `SendTimeoutNow`, `TransferAnswered`, `AbortTransfer`; `HandleTimeoutNow` |
| `create_snapshot` | `CreateSnapshot` |
| the process dies, at rest or between two writes | `Crash`, `CrashInAppendEntries`, `CrashInInstallSnapshot`, `CrashInCreateSnapshot`, `CrashInSubmit` |
| `RaftNode.__init__` | `Restart`, enabled when it would not raise |
| `TransportError` at the caller; a request that never arrives | `CallFails`; `LateRequestLost` |

### Reads

`lease` is `_last_read_quorum_term` with the moment of its confirmation; `reading`
holds the locals of `_confirm_read_quorum`: its term, the followers whose worker
is of an earlier round (`stale`, not in `fresh_futures`), those that confirmed and
those that failed. `since` is history: how much was committed and how much had
been acknowledged when the confirmation began.

| code | actions |
|---|---|
| `_confirm_read_quorum`, up to its loop | `BeginConfirm`: drops the lease, creates the replication record if there is none |
| `_replicate_to_follower` in a worker | `WorkerSends`, `WorkerAnswered` (it ends when the follower is `Informed`), `WorkerOvertaken` |
| `fresh_futures` when a worker is done | `Collect`: a stale one makes room for a fresh one and does not count |
| a quorum in an unchanged term | `ConfirmReturns` |
| `ReadQuorumError` | `ConfirmFails` |
| `_has_valid_read_lease`, `linearizable_get` | `CanServe`: a read changes nothing, so the properties look at the store whenever one could be served |

A node that loses leadership keeps the term of its lease in the code; it is never
valid again, because terms grow, and `KeepLeases` drops it. `_replication_lock` is
the guard of `BeginConfirm` and `CommitStep`.

### Catching up

`RaftCatchUp` starts where `Chief` has just been elected, in one of three
situations that `Raft` reaches: nobody wrote before (`Fresh`), `Laggard` has an
entry of a leader nobody else followed (`Diverged`), or `Chief` has committed
without it (`Behind`). `workers` are the followers with a future in
`_replication_futures` that is not done. `Round` is the end of one `replicate_log`,
which advances the commit index, and the beginning of the next, which starts a
worker for every follower that has none. `WorkerFails` is a `TransportError`.
Only `Laggard` crashes, compacts and misses calls; there is no other election.

### The journal

`file` is the lines of `raft-log.json`: append, truncate and snapshot records, or
the array of the previous format; `complete` says whether the last line has its
newline. An append writes the records of `_persist_log_change` (`Write`). A
process that dies in it leaves any number of them, and perhaps a part of the next
(`Garbled`), or all of it but the newline (`DieInWrite`). The next append is glued
to such a line (`Appended`), and `Load` refuses the file where `load_log` raises.
`Replace` is `os.replace`. `Start` is `load_log` in `__init__`, with the migration.
`WriteFails`, in `FaultySpec` only, is the same interruption with a process that
goes on, and with what it already did to its memory.

### `CommandProcessor` and `StorageEngine`

A step of `CommandProcessor` is a critical section under `_lifecycle_lock`, an
operation of the queue, or a call of `submit_commands`: `Start`, `Submit`; the
three parts of `stop`, `Stop`, `PutSentinel` (waits for room with the lock held,
which `LockFree` says to the others) and `StopReturns` (the join, without it); and
the writer's loop, `TakeFirst`, `TakeMore`, `CloseBatch`, `SubmitBatch`. A writer
that has ended is used again for a new one, once nobody joins it.

A request to `StorageEngine` is `Begin` (with what `delete` checks), `Log`,
`Store`; `create_snapshot` is `Capture`, `Save`, `Truncate`. The log is a sequence
of lines, a line an operation or `Broken`, and the last one may lack its newline:
`CrashInAppend` leaves any part of a record, and `Appended` puts the next one
behind it. The `os.replace` that ends `SnapshotStore.save` is atomic, and so is the
truncation. `Recovered` is what `_recover` would load now: the saved map with, for
each key, the last operation of the log, which is what applying them in order gives.

### Abstractions

* Time. Any node that does not lead may start an election whenever its previous
  `tick` is over, any call may time out. Every run of the code is among these. The
  lease of 0.5 s may last as long as its term and may be over at any moment: what
  is promised of reads rests on no duration. What another leader commits while a
  lease lasts is beyond that promise (hazard at `node.py:1331`).
* In `Raft` and `RaftReads` a worker is the freedom to send whenever none of its
  calls is outstanding, and the commit that ends a round may happen at any moment.
  The rounds themselves, and workers that outlive them, are in `RaftCatchUp`.
* `ReadNext` has elections, replication, writes, reads and late answers. Nodes of
  `RaftReads` do not crash, compact, install snapshots or hand over leadership, and
  calls do not fail: one that does takes its follower out of a confirmation, which
  then fails as one does whose answers are late.
* Commands are records over small sets of keys and values. Serialization is left
  out: both ends of the JSON code rebuild the same record. The entries of
  `RaftJournal` carry any commands; its runs use one, which is only copied.
* In `Raft` a journal write is whole or cut after a record, and so it is in
  `RaftCatchUp`. A record that is cut in the middle makes `load_log` raise
  (`persistence.py:516`), and `__init__` with it (`node.py:101`): that node stays
  down, which for the others is a crash without a restart. That such a file never
  loads as another log is what `RaftJournal` adds; that a node can restart is
  therefore said only for journals of whole records.
* `transfer_leadership` picks the follower that is furthest ahead among those
  that answered; the model allows any follower that has the whole log.
* Disk writes succeed or the process dies, except for appends to the journal in
  `FaultySpec`.
* Calls are never duplicated: an HTTP request without retry is handled at most
  once.

### Fairness

`FairSpec` of `CommandProcessor` is weakly fair to each writer (`Run`): it waits at most
`batch_wait_seconds` for a batch, and `submit_commands` returns or raises within
the time limit of its replication round. It is weakly fair to `PutSentinel` and
`StopReturns`: with the lock held nobody else puts anything into the queue, and a
`join` of a dead thread returns. Nothing makes callers submit or owners start and
stop.

`CatchUpFairness` of `RaftCatchUp`: rounds follow one another for ever, because
`raft_background_loop` catches every exception and a round waits no longer than
its deadline (weak fairness of `Round`); a worker that is between two calls sends
the next, because its thread runs (weak fairness of `WorkerSends`, per follower).
Calls may fail for ever, but not all of them: of the requests to a follower
infinitely many are handled if infinitely many could be, and of its answers
infinitely many arrive (strong fairness per follower; weak fairness would say
nothing, as `WorkerFails` disables both). Nothing is assumed of clients, of
compaction, of crashes or restarts: the property speaks of followers that stay up
from some moment on.

## 3. What is checked

### The cluster

`MaxTerm` bounds elections, `MaxIndex` log positions, `MaxBatch` the commands of
one `submit_commands`, `MaxCalls` the calls under way in the cluster, `MaxLate`
the requests whose caller gave up, `MaxReads` the confirmations under way. A bound
only disables steps. All runs use three nodes, where a majority can miss one, and
all but `catch_up`, which names two of them, symmetry over them: no definition
tells nodes apart. The runs keep the groups of steps their question
needs (`MCRaft`, `MCRaftReads`). Deadlock is not checked in them: at its bounds a
cluster has nothing left to do, and the code has no state in which it is done.

| run | steps | bounds that matter | properties |
|---|---|---|---|
| `replication` | elections, replication, writes | 3 terms, 2 slots, batches of 2 | `LeaderCompleteness`, `ElectableHasCommitted`, `LogMatching`, `CommittedAgree`, `AnswersInTermAreTrue` |
| `snapshot_crash` | and compaction, installation, crashes at every write | 2 terms, 1 slot | `TypeOK`, `RestartsFromWholeRecords`, `AppliedInOrder`, `ElectionSafety`, `DurableBeforeAnswer`, `LeaderTermCoversLog`, `VoteSticky`, `CommitNeverDecreases` |
| `snapshots` | compaction, installation, no crashes | 2 terms, 3 slots, commands that do not commute | `StateMachineSafety`, `WorkerNeverRaises` |
| `transfer` | leadership transfer, losses | 2 terms, 1 slot, 1 late | `TransferTargetCaughtUp`, `MatchIndexTruthful` |
| `reads` | elections, replication, writes, reads | 2 terms, 2 slots, 3 calls, 1 read | `ReadTypeOK`, `ReadsSeeCommitted` |
| `catch_up` | rounds and workers of one leader; failed calls, crashes, compaction | 3 terms, 2 slots | `LogMatching`, `CatchesUpUnlessStranded` |
| `journal` | writes, rewrites, crashes in both, migration | 3 terms, 3 entries, 4 lines | `ReadableUnlessCut`, `ImplementsDurableLog` |
| `lost_write` | clients that wait for their answers | 3 terms, 1 slot | `AckedIsCommitted`, violated |
| `stale_read` | as `reads`, with clients that wait | 2 terms, 1 slot | `ReadsSeeAcknowledged`, violated |
| `failed_write` | as `journal`, and appends that fail | as `journal` | `SurvivesFailedWrites`, violated |

Why the bounds are enough for the question. A double vote needs one term and a
restart. A conflicting suffix longer than one entry needs two slots; a compacted
boundary with entries kept above it needs two, and three let those entries
conflict; a crash inside a handler needs one entry to be half written. Counting
replicas of an entry of an earlier term does harm only in the fourth term (the
scenario Raft's authors call figure 8: a second leader in between, the first one
again, and then the second again). `ElectableHasCommitted` sees it in the third,
because it speaks of who could be elected and not of who is. Reads need three
calls: an election takes two beside the one whose answer a confirmation finds under
way; two of the three may replicate, and reads begin once something is committed,
since before that there is nothing to miss. In the journal a truncation with two entries behind it
fills three lines, and a fourth is glued to what a crash left of them. Each
property has a mutant in `PROJECT.json`, a wrong form of one definition that the
same run catches at the same bounds, which is the evidence that the case it
speaks of occurs.

In runs without `SubmitReturns` a node submits one batch in its life (until a
restart): the log is filled by batches of several leaders instead.

What the properties say:

* `ElectionSafety`, `VoteSticky`: at most one leader per term, over all terms
  there ever were; a vote is never taken back.
* `LogMatching`, `CommittedAgree`, `LeaderCompleteness`, `ElectableHasCommitted`:
  logs that share a term at an index share the past; what any node takes for
  committed is what some leader committed there; later leaders, and whoever could
  become one now, have it.
* `StateMachineSafety`: every store, and the map inside every snapshot, is the
  committed history applied in order.
* `AppliedInOrder`, `CommitNeverDecreases`, `RestartsFromWholeRecords`,
  `DurableBeforeAnswer`, `LeaderTermCoversLog`: crashes. When no journal record
  was cut in the middle, `__init__` accepts the files that a crash left (with a
  record that was cut it raises, see `ReadableUnlessCut` below); nothing committed
  is forgotten; a leader never has
  entries of a term beyond its own, although a crash between the journal and the
  state file leaves a follower with such entries.
* `MatchIndexTruthful`, `WorkerNeverRaises`: late answers never make the leader
  believe more than its follower has, nor ask its log for what was compacted. The
  first speaks of what can be counted for a commit: up to an entry of the leader's
  own term, until a later leader is elected. Below such an entry the record may be
  wrong (finding 4), and after the election the follower may have been repaired.
* `TransferTargetCaughtUp`: what the leader checked before `TimeoutNow` still
  holds when it arrives, under the same two conditions: a leader that has written
  in its term, and no later one.
* `AnswersInTermAreTrue`: a success that would be reported now, in the term of the
  submission, is about an entry that is committed.
* `ReadsSeeCommitted`: a leader that has committed in its own term serves nothing
  older than what was committed anywhere when its confirmation began, whoever was
  elected since. It is a relation between a read and the past of all nodes, and
  rests on the counting of fresh workers and on the check of the term at the end.
* `CatchesUpUnlessStranded`: as long as the leader stays, every follower that stays
  up is brought up to date again and again, whatever it missed, refused or forgot.
  The exception is `Stranded`: a follower that learned the commit index while its
  answers were lost may compact entries the leader still asks about. `term_at` of
  the previous index is then `None` and it rejects every request
  (`replication.py:38`). The leader lowers `next_index` to its floor and sends
  again at once; or, if it has compacted less, sends an older snapshot, which is
  acknowledged and not installed. On the in-memory transport this repeats tens of
  thousands of times a second, and the next write never arrives. Nothing in the
  program calls `create_snapshot` by itself, so it takes an embedding program that
  compacts its followers. `CatchesUp` is the property without the exception, which
  the same configuration violates.
* `ImplementsDurableLog`, `ReadableUnlessCut`: after every write the file loads as
  the log in memory; after a crash it loads as a log that a crash of `Raft` may
  leave, or `load_log` refuses it. A file in which no append was cut is never
  refused. Even a record that lacks only its newline is loaded once, and the
  append behind it makes the file unreadable: the node then does not start, and
  never with another log.

### The command processor and the engine

| run | what may happen | bounds | properties |
|---|---|---|---|
| `lifecycle` | everything, deadlock checked | 2 callers, 3 threads that start and stop, 3 writers, queue and batch of 2 | `TypeOK`, `StoppedIsDrained`, `EveryCallerAnswered`, `StopsReturn` |
| `engine` | requests that overlap, on one key too; crashes anywhere, appends behind torn records; snapshots between requests | 2 threads, 2 keys, 2 values, 3 lines | `TypeOK`, `AcknowledgedSurvives`, `RestartReplays`, `ImplementsDurableMap` |

Three threads in `stop` and three writers are what it takes for two writers to
swap their sentinels while a third is started; two commands fill both the queue and
a batch, so that `stop` waits for room and a sentinel ends a batch that is not
empty. `StoppedIsDrained` and `EveryCallerAnswered` hold in spite of the swap.
`StopsReturn` needs its premise, that the processor stays stopped: the writer a
`stop` joins may have lost its sentinel to another and go on until the next `stop`.

The engine promises that a restart gives what was acknowledged and that its files
move by one atomic write at a time. Two things the code does not prevent spoil
this. The run lets both happen, and the properties say what is left:

* An append behind a torn record. `WAL.replay` ignores an incomplete last line
  (`wal.py:51`) and leaves it in the file, and `_append` (`wal.py:33`) writes behind
  it: the acknowledged operation is lost by the next start, and with it the
  record that lacked only its newline. After one more append the broken line is
  in the middle, and the start after that raises `WALCorruptionError`. The history
  variable `lost` holds the keys of the records destroyed in this way since the
  log was truncated. `AcknowledgedSurvives` excepts these keys, and a log that can
  no longer be replayed; `RestartReplays` says that there is no such log while
  `lost` is empty, however often appends were cut.
* Requests that overlap on one key. `put` (`engine.py:37`) holds no lock across the
  log and the memory, and FastAPI serves requests in threads: two puts of a key in
  opposite orders in both make a restart return a value memory had overwritten.
  `latest` holds, for each key, the value of its last request, or of all those
  that overlapped. `AcknowledgedSurvives` says that memory and a restart each give
  one of these: never an older value, and no other key is disturbed. Where no
  requests overlapped there is one value, so the two agree.

`ImplementsDurableMap` is in force while neither has happened (`Intact`), and again
once a truncation has removed what was destroyed and later requests for the key
are alone; in between `DurableMap` allows anything. Both hazards stand in
`PROJECT.json` without a property that forbids them, because the code does not.

Two keys are needed to tell an atomic write from a lost log, three lines for a
broken line in the middle. Deadlock is not checked: at `MaxLines` nothing more is
written, and an engine whose log is broken in the middle never starts.
`create_snapshot` is called by nothing but tests, so the run does not put it beside
a request. A write that fails while the process goes on is not modelled here.

### Findings

1. `submit_commands` compares indexes when its replication round is over
   (`node.py:1553`). `lost_write` shows the run in which the leader is deposed
   while it waits, another leader overwrites and commits the same index, and the
   first one is re-elected: it reports success for an entry that is gone, where
   `docs/raft.md:64` says that a successful client write means the leader
   committed that entry. `AnswersInTermAreTrue` is the promise the code does keep.
2. `_confirm_read_quorum` ends with what the leader knows to be committed
   (`node.py:1298`). A new leader has the acknowledged writes of its predecessor in
   its log, but does not know that they are committed until it commits one of its
   own term, and nothing makes it wait for that. `stale_read` shows a read that
   misses an acknowledged write, where `README.md:199` says that the API does not
   silently return stale local state as authoritative. `ReadsSeeCommitted` is the
   promise the code does keep.
3. `handle_append_entries` changes the log in memory before the file
   (`node.py:471`). `failed_write` shows a write that raises after a conflicting
   entry was replaced: memory keeps the new one, the file has the old one. A retry
   of the request finds nothing to write and succeeds, and the next entry is
   appended behind the old one. A restart loads this mixture: an entry this node
   has acknowledged is gone, and two logs agree on a term but not on the past.
   `docs/raft.md:152` says that normal appends flush and fsync before replication
   can treat them as durable. The same sequence on the code itself (one
   `RaftPersistenceError` between four `AppendEntries`) gives the same log.
4. `handle_timeout_now` steps a leader that hears of a newer term down
   (`node.py:649`) and, unlike every other handler that does, leaves
   `self.replication` in place. `_initialize_leader_replication` (`node.py:830`)
   creates a record only if there is none. A node that is elected again before
   another request clears the record leads with the `match_index` and `next_index`
   of its older term, where `README.md:1009` says that the leader tracks the highest
   index known to be replicated on each follower: in between, other leaders may
   have replaced what those indexes were about. The proof of `MatchIndexTruthful`
   failed at this point; with five nodes TLC replays the sequence. It takes five
   (the followers that elect the node again must not be those that were
   overwritten), beyond what a run of this project covers, so none reports it. It
   does no harm to what is committed: a record of an older term ends below the
   first entry of the new one, and only entries of the leader's own term are
   counted (`leader.py:130`). `MatchIndexTruthful` is stated for those entries and
   proved with the stale records included.

## 4. What is proved

Every invariant and every action property that a passing run checks, and both
refinements, are theorems; `catch_up`, whose `LogMatching` is that of a start in
the middle of an execution, and liveness are the exceptions. Theorems about `Raft`
are about `Spec`, with every action, those about `RaftReads` about `ReadSpec`, whose
steps section 2 lists (no crashes, snapshots, transfers or losses), for every
finite non-empty set of nodes and every value of the bounds
(`NodeAssumption`, `BoundAssumption`, `ReadsAssumption`). What `Spec` leaves out they
do not cover either: `RestartsFromWholeRecordsHolds` is about journals without a
record that was cut in the middle.

| module | theorem | states |
|---|---|---|
| `RaftElectionProofs` | `TypeCorrect`, `Durability`, `VotesStick`, `OneLeaderPerTerm` | `TypeOK`, `DurableBeforeAnswer`, `VoteSticky`, `ElectionSafety` |
| `RaftTheoremProofs` | `LogMatchingHolds`, `CommittedAgreeHolds`, `LeaderCompletenessHolds`, `ElectableHasCommittedHolds` | `LogMatching`, `CommittedAgree`, `LeaderCompleteness`, `ElectableHasCommitted` |
| | `LeaderTermCoversLogHolds`, `AppliedInOrderHolds`, `RestartsFromWholeRecordsHolds`, `CommitsNeverDecrease` | `LeaderTermCoversLog`, `AppliedInOrder`, `RestartsFromWholeRecords`, `CommitNeverDecreases` |
| | `StateMachineSafetyHolds`, `WorkerNeverRaisesHolds`, `MatchIndexTruthfulHolds` | `StateMachineSafety`, `WorkerNeverRaises`, `MatchIndexTruthful` |
| | `AnswersInTermAreTrueHolds`, `TransferTargetCaughtUpHolds` | `AnswersInTermAreTrue`, `TransferTargetCaughtUp` |
| `RaftReadsProofs` | `ReadsImplementRaft`, with `OneReaderPerTerm` and `ReadsSeeDurableState` | `ReadSpec => Spec` |
| | `ReadTypesHold`, `ReadsSeeCommittedHolds` | `ReadTypeOK`, `ReadsSeeCommitted` |
| `RaftJournalProofs` | `ReadableUnlessCutHolds`, `JournalImplementsDurableLog` | `ReadableUnlessCut`, `ImplementsDurableLog` |
| `CommandProcessorProofs` | `ProcessorTypeCorrect`, `StoppedDrained` | `TypeOK`, `StoppedIsDrained` |
| `StorageEngineProofs` | `EngineTypesHold`, `AcknowledgedSurvivesHolds`, `RestartReplaysHolds`, `EngineImplementsDurableMap` | `TypeOK`, `AcknowledgedSurvives`, `RestartReplays`, `ImplementsDurableMap` |

*Types.* `TypeOK` is not inductive: a slice of a log has entries only between the
base and the last index. `TypeInv` adds that what was applied covers the base
(`AppliedAboveBase`), that no base, snapshot or commit index, in a node or in a
request, is beyond the history some leader committed (`WithinHistory`), and that
the files are the image of the memory they are loaded into (`Durable`), which is
`DurableBeforeAnswer` extended to processes that are down. Every step writes the
variables of at most one node; `NodeUpdate` and `StateUpdate` reduce the
invariant to facts about the new values, and one lemma per action supplies them.

*Elections.* A leader is made of answers sent earlier, by voters that may have
moved on or crashed since, so the invariant speaks of the *evidence* of a vote: a
granting answer on the network, or a vote a candidate counted. `ElectionInv` says
that a voter supports what it left evidence for or has left that term
(`EvidenceSupported`), that it left none for two candidates of a term
(`EvidenceUnique`), and that behind every leader there ever was stands a quorum
whose members left no evidence for another (`ElectedBacked`). `Lawful` is all
that matters of a step: votes stick, new evidence is a new vote, a new leader has
a quorum of evidence. `LawfulKeepsElectionInv` is the argument (two quorums share
a voter); `StepLawful` shows every action lawful, most of them because they are
`Quiet`. It uses `Durable`: a restart that forgot a vote would break `Sticks`.
`RoleInv` adds what a role says of the past: only a node elected in a term leads
or sends anything but votes in it.

*Logs.* The variables do not hold enough to say why a log is right: compaction
drops entries, a deposed leader's log is overwritten, an acknowledgement is
forgotten with the call. `Remembered` therefore says that three functions exist:
`L`, for each term the log its leader wrote, for ever; `F`, for each node its log
from the first entry, compacted part included (`Unfolds` ties it to `log`); and
`K`, for each node and term how far it acknowledged that term's leader. They play
the part of history variables, without one in the model: a step proves
`Remembered'` by naming the new functions. Of them the invariant says:

* every entry stands on the log of the leader of its term, in the logs of nodes and
  of leaders (`Traceable`), and terms grow along a log (`Sorted`). `LogMatching` is
  two uses of `Traceable`;
* what was acknowledged is there until a later leader is elected (`AcksHere`), and
  after that an entry of the leader's own term stays, unless it is `Dead`: a quorum
  has left the term without acknowledging it, so that it can never be chosen
  (`AcksKept`, `LeadersKeep`). An entry is `Chosen` when a quorum acknowledged it;
  chosen and dead exclude each other, because two quorums share a node;
* a candidate has all that its voters acknowledged (`VotersCovered`), which is what
  the comparison of last terms and indexes in `vote.py` is for, and why a new leader
  inherits every chosen entry;
* what a node takes for committed, and what its snapshot ends with, is chosen
  (`CommitChosen`, `SnapshotChosen`), and so is all of `committed` (`History`);
* each request describes the log of the leader that sent it (`AppendOK`,
  `InstallOK`, `VoteOK`), each answer something acknowledged (`AnswerOK`), and the
  progress record of a leader bounds nothing it may count beyond what was
  acknowledged (`Progress`): the part that stale records (finding 4) had to be
  kept apart from;
* a crash between the journal and the state file leaves entries of a term the node
  has not reached. `AheadBarred` says that a quorum then keeps it from winning an
  election before that term. Without it `LeaderTermCoversLog` and the sorting of
  a new leader's log do not follow.

`Grows` and its lemmas are the argument, over functions alone: leaders' logs only
grow, a node acknowledges what it has, and a log changes by growing or by taking
over a prefix of a leader's. One lemma per action shows that it is such a step.
TLC cannot enumerate `Remembered` (functions on `Nat`); its consequences are the
invariants of `replication`, `snapshot_crash`, `snapshots` and `transfer`.

*Stores.* `StoreInv`: the store of a node that runs, its snapshot, and each
snapshot on the network are `ApplyEntries` of as much of `committed` as their
index says. `CommittedAgree` and `AppliedInOrder` turn the entries a step applies
into those of `committed`. That `ApplyEntries` over a sequence in two parts is the
second after the first is proved from its last-writer definition.

*Answers and transfers.* `PendingKept`: what a `submit_commands` that has not
returned wrote is in the log of its term's leader. While that node leads in that
term this is its own log, and the commit index it compares with is chosen, so the
success it would report is true. `TransferInv`: while a transfer goes on the log
of its leader does not grow, so the target chosen with all of it keeps all of it.

*Reads.* Every step of `RaftReads` is one of `Raft` or leaves its variables alone,
except that `_confirm_read_quorum` calls `_initialize_leader_replication`. That
creates nothing, because a leader of two nodes or more has its record
(`LeaderHasRecord`, an invariant of `Spec` by `StepRecord`): becoming leader and
creating it are one critical section, and what removes it also ends the
leadership. It follows that the `RuntimeError` of `replicate_log` and
`_confirm_read_quorum` is never raised.

What reads see rests on `Shielded`: if anything was committed by a later leader
when a confirmation began, a quorum has left the reader's term, and none of its
members can count for it: it has not been counted, and an answer of it that is
under way from before belongs to a stale worker (`Refuses`). Such a confirmation
can not gather a quorum. So a lease promises only what leaders up to its term
committed (`LeaseKnown`), and of that a leader which has committed in its own
term knows everything: nobody else commits in that term (`OwnCommits`), and what
earlier leaders committed is below.

*The journal.* `JournalInv`: while the process runs its file loads as its log or
is refused, and a file that is refused or lacks its newline was cut. `Load` is a
recursive function over the lines, so appending one is one more `Read`
(`RaftJournalProofs` proves the defining equation from the recursion). Of an append
some records are in the file: `Reached` is the log they lead to, one truncation
and then entry by entry, and it is one of `JournalPrefixes`.

*The engine.* `EngineInv`: a value a request is writing is among the latest of its
key (`Named`); so is what memory has for a key nobody works on (`InMemory`), and
what the log has once an operation of the last requests is in it, unless an append
behind a torn record destroyed it (`OnDisk`); a copy is current while nothing is
served (`Copied`); only the last line may be broken, as long as nothing was
destroyed (`Sound`). `RecoverAppended` and `RecoverDestroyed` say what one more
line, or the loss of the last one, changes of what recovery gives. The theorems
are about `EngineSpec`; their exceptions are those of section 3.
`EngineInv` and `JournalInv` were model-checked on `engine` and `journal`.

*Stops.* `StoppedIsDrained` says nothing while a `stop` is under way. `Balance`
does: the writers that have not taken a sentinel are as many as the sentinels in
the queue, the threads waiting to put one, and the writer in `_thread` together.
Which writer takes which sentinel does not matter to it, so the swap the code
allows does no harm. Once nothing is left to put or to join, the queue ends with a
sentinel nobody alive would take (`SentinelLast`), so it is empty; what a caller
waits for is in the queue or in a batch (`NobodyForgotten`), so nobody waits.

*Assumptions.* The proofs use those the modules name, and nothing else: nodes,
keys and threads are finite where they are counted, bounds are natural numbers,
`Unreadable` and `Absent` are no log and no value.

*Only model-checked:* liveness (`CatchesUpUnlessStranded`, `EveryCallerAnswered`,
`StopsReturn`), which the prover has no rules for, and `LogMatching` of
`RaftCatchUp`, which begins in three situations that `Raft` reaches and not in its
initial state.

## 5. Not modelled, and what would come next

Not modelled:

* Writes of `raft-state.json` and `raft-snapshot.json` that fail while the process
  goes on (`node.py:942`), and the cluster around a node whose append failed
  (`node.py:1535`): `RaftJournal` has one process.
* Durations: the 0.5 s of the lease and of elections.
* The order of start-up and shutdown in `runtime.py` and `cli.py`, the JSON encoding
  of calls, `close` and `set_observer` of `RaftNode`.
* The cluster HTTP API (maps exceptions to status codes), status, observer and
  metrics (read-only), the in-memory transport (its faults are those of `Raft`'s
  calls), benchmarks and scripts.

Worth doing next, in this order:

1. `Raft` with writes that fail: what a leader may count of itself, and a vote
   whose term was adopted in memory only.
2. `ReplicatedLog`, an abstract specification (a growing sequence of chosen
   entries and prefixes learned of it), implemented by `Raft` through
   `committed`, and a register on top of it that `RaftReads` implements once a
   leader has committed in its term.
3. Proofs: that refinement, which `SafetyInv` is strong enough for; the steps of
   `RaftCatchUp` as steps of `Raft`, which would carry every invariant over to it.
