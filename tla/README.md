# TxVis in TLA+

TxVis watches the transaction manager (Narayana) of one or more JBoss AS 7
servers. On every server a monitor follows `server.log`, recognises the lines
that the transaction manager writes, and records what they tell in a database
that the monitors of all servers share. Web pages and plugins read it.

This directory holds a model of that program: TLA+ modules, TLC configurations
that check them on small instances, and theorems proved with TLAPS for every
instance. Paths below are relative to `src/`;
`core/…` stands for `txvis-core/src/main/java/org/jboss/narayana/txvis/…`.

Run a model with `tlc -config <name>.cfg <MC module>` and a proof with
`tlapm <module>.tla`.

## 1. The system

```
 server.log ──Tailer──▶ LogParser ──▶ PackageFilter ──▶ 12 handlers (regexps)
   (one per node; LogMonitorBean, StartupServiceBean)        │ first match
                                                             ▼
                                                      HandlerService
                                                             │ begin / commit
 monitors of other nodes ──▶  one shared database  ◀─────────┘
                                   │  DAOs (read)
                    plugins (WedgedTx, RMRollback) · web models (lists, graph)
```

A monitor is one thread: commons-io's `Tailer` reads a line, `LogParser` gives
it to the first handler whose pattern fits, and the handler calls one method of
`HandlerService`. The method opens its own database transactions
(resource-local, isolation `READ_UNCOMMITTED`,
`txvis-core/src/main/resources/META-INF/txvis-ds.xml:28`), and an
`@AroundInvoke` interceptor (`HandlerService:617`) swallows every exception.
Nothing but the database is shared by two monitors.

### Inventory

| Component | State | Operations | Hard | What makes it correct |
|---|---|---|---|---|
| `HandlerService`, hierarchy (`begin`, `checkIfParent`, `associateThreadWithRequestId`, `handleRequest`, `createHierarchy`, `cleanup`) | `threadReqMap` of the service; the tables `RequestRecord`, `Transaction`, `Transaction_Hierarchy` | a request line of the caller and a Begin line of the callee meet through a request record, and parent and subordinate are linked | monitors of all nodes interleave between query and commit; stale snapshots of the bag of subordinates; failures and restarts; phantom removal | links are exactly the calls; the two ends meet once; nothing is left behind; only phantoms go |
| `HandlerService`, recording (all other methods) with the entities `Transaction`, `ParticipantRecord`, `Event`, `ResourceManager` | status, end time, events, participants with their votes | one method per kind of line | lines lost, repeated and out of order; several rows of one transaction; replays of phase two; insert race on `ResourceManager` | status, end time and events agree; phase two only after phase one |
| Recording and the transaction manager it watches | the coordinator's decision (external) against the rows | lines are written before what they speak of happens, and read any time later | crash of server or monitor, recovery, heuristic ends, lagging reader | what is shown lags but is never wrong and never taken back |
| Line handlers, `Configuration`, `LogParser`, `PackageFilter` | none but the ordered list of handlers | a line selects a handler and its groups | order of the handlers, overlapping patterns | each line reaches the handler meant for it |
| `LogMonitorBean`, `StartupServiceBean` | the `Tailer`, the file | `start`, `stop`, `setFile`, `isRunning` | asynchronous `start`; the Tailer ends by itself; deployments one after the other | no line is read twice; a stopped Tailer ends |
| Plugins (`PluginService`, `WedgedTxPlugin`, `RMRollbackPlugin`) | each plugin's set of issues | `scanForIssues`, `getIssues` | integer thresholds; equality of issues; rows change during a scan; scan and fetch are two calls | an issue is reported when and only when it is there |
| `IssueParserBean` (session) | the issues a session shows | fetch, keep, parse | issue objects are shared by sessions and parsed in place | what is shown is parsed and current |
| `TransactionInfoBean`, `GraphPlotterBean` (request) | the root of a hierarchy, breadcrumbs, the json of the graph | walks up and down the hierarchy | monitors link branches and record votes between two queries | the page shows the branch asked for, and nothing that was not so |
| `TransactionListBean` (session) | filter, list | set the filter, query | requests of one session share the fields | the list fits the filter |
| `txlist.xhtml` | what a window shows | poll every five seconds; choose a filter | answers overtake each other or get lost; nothing is rendered of an empty table | the windows come to show what is recorded |
| `txinfo.xhtml`, `infoviz-graph.js`, JIT's Spacetree (vendored) | the graph, its levels, the stage of its animation, the labels | `init()` on load and whenever the modal is shown | two animations over the same labels | every participant is drawn in its colour, with a label |
| Timestamps (`JbossAS8AbstractHandler:132`, `Event.compareTo`, `Transaction.getDuration`) | – | time of day joined with the date of the reading | midnight | durations are not negative |
| DAOs | – | queries, each in an entity manager of its own | – | – |
| `LoggingInterceptor`, `TransactionReaperHandler` | – | logging; the reaper handler is not configured | – | – |
| `txvis.js`, demonstrators, tests, sample logs | – | no page includes `txvis.js`; the others say what is expected | – | – |

`PROJECT.json` has the same list with the sources and a status for each, and,
under `hazards`, every place where the code is hard to test.

## 2. The modules

| Module | Models | Notes |
|---|---|---|
| `Hierarchy` | the monitors of several nodes and the shared tables, split at every access to the database | core, section 3 |
| `Rendezvous` | abstract: the two ends of a request meet exactly once | implemented by `Hierarchy` (`RendezvousSpec`) |
| `Forest` | abstract: a branch comes once, is linked once, keeps its link, and goes only if it has done nothing | implemented by `Hierarchy` (`ForestSpec`); the environment of `TxGraph` |
| `HierarchyProofs` | theorems about `Hierarchy`, `Rendezvous` and `Forest`: whatever fails; and what becomes of each call when nothing does | section 11 |
| `Recorder` | what one monitor records of the transactions of its node, one step per line | section 4 |
| `RecorderProofs` | theorems about `Recorder` | section 11 |
| `Commitment` | a coordinator (external) that logs, a Tailer that lags, and `Recorder` as the handler of each line | section 5; composes `Recorder` by `INSTANCE` |
| `CommitmentProofs`, `CommitmentVoteProofs` | theorems about `Commitment`, `Verdict` and `Ballot` | section 11 |
| `Verdict` | abstract: a shown verdict lags but is true and final | implemented by `Commitment` (`VerdictSpec`) |
| `Ballot` | abstract: how the record of a participant may change | implemented by `Commitment` (`BallotSpec`); the environment of `TxGraph` |
| `LogMonitor` | deployments of the monitor: `start()`, `stop()`, the Tailer (external) and the log it follows | section 6 |
| `LogMonitorProofs` | theorems about `LogMonitor` | section 11 |
| `Spacetree` | pure: what the scripts and JIT make of a tree: graph, levels, colours, lines | used by `TxGraph` |
| `TxGraph` | a request for the page of a transaction, beside the monitors that record it, and the browser that draws it | section 7; composes `Forest` and `Ballot` by `INSTANCE` |
| `TxGraphProofs` | theorems about `TxGraph` and `Spacetree` | section 11 |
| `Issues` | the plugins and the sessions that show their issues | section 8 |
| `IssuesProofs` | theorems about `Issues` | section 11 |
| `TxList` | windows with the list, their timer and the bean of the session | section 9 |
| `TxListProofs` | theorems about `TxList` | section 11 |
| `MCHierarchy`, `MCRecorder`, `MCCommitment`, `MCLogMonitor`, `MCTxGraph`, `MCIssues` | logs, shapes, bounds and symmetry for TLC | |

Definitions named *Variant with a bug* are not part of any specification: each
is what a definition of the model would be after a plausible slip in the code,
and `PROJECT.json` says which property catches it.

## 3. The hierarchy (`Hierarchy`)

When node *p* sends a request to node *s* inside a transaction, *p*'s log has a
`send_request` line, *s*'s log a `receive_request` line and then, on the same
thread, a `Begin` line with the same transaction uid. The monitors of *p* and
*s* know nothing of each other. The one that comes first inserts a
`RequestRecord`; the other finds it, links the two rows and removes it.

| State | In the code |
|---|---|
| `next[n]` | the Tailer's position in the log of `n` |
| `pc[n]`, `job[n]` | where a handler is, and its local variables |
| `threadReqMap[n]` | the field `HandlerService.threadReqMap` |
| `txs`, `enlisted` | rows of `Transaction`; those with a participant |
| `links` | rows of the join table `Transaction_Hierarchy` |
| `requests` | rows of `RequestRecord` |

| Action | In `HandlerService` |
|---|---|
| `Begin` | `begin` (52-71): the row is committed first, then the association of the thread is taken and `handleRequest` entered |
| `CheckIfParent`, `AssociateThread` | `checkIfParent`, `associateThreadWithRequestId` |
| `Find`, `Insert`, `Refind` | `handleRequest` (222-258): look, insert, and on a violated key look again |
| `Load`, `CommitHierarchy` | `createHierarchy` (260-283): read both rows and the bag of subordinates; `setParent`, remove the record and commit |
| `CheckPhantom`, `RemovePhantom` | `cleanup` (551-562), which a line of `get_status` that tells of a committed transaction starts: the check outside the database transaction, the removal inside |
| `Enlist` | as far as `cleanup` depends on it |
| `Fail` | a later query or commit of a handler fails; `intercept` swallows it |
| `LoseLine` | the first database transaction of a handler fails: the line has no effect. `Lossy` says for which lines; whether `Begin` is one of them matters (section 11) |
| `Restart` | a monitor stops anywhere and begins at the end of the file with an empty `threadReqMap` |

**A database access is a step, everything between two is one step.** Local code
cannot be seen by another monitor; what is read is kept in `job` and may be
stale by the next step. Under `READ_UNCOMMITTED` a commit with its flush is a
single visible step. Partial visibility inside one flush is not modelled.

**A Begin on a thread that received a request serves it.** That is how the logs
are read (`ServingLine`): the last line that binds the thread is the
`receive_request`. It is a fact about the transaction manager, which creates the
subordinate on the thread that runs the request, and not one of `src/`.

**The log is a constant.** A monitor may lag arbitrarily, so each order in which
lines are written and read is also an order in which complete logs are read.

**What is taken from Hibernate** (not in `src/`): the bag
`Transaction.subordinates` with its `@JoinTable` and no index column is
rewritten as a whole when it changes — its rows are deleted, unless it was
loaded empty, and every element in memory is inserted; `Subordinate_id` is
unique (a one-to-many join table) and both columns are foreign keys; removing a
row that is already gone fails the commit; a failed commit leaves nothing
behind, in the database or in the persistence context (that a rollback empties).
These are the guards of `CommitHierarchy` and `RemovePhantom`.

**Two abstractions.** `Rendezvous` says what becomes of a request when nothing
fails. `Forest` says what a page may rely on whatever fails, restarts or is
removed: a branch comes once, or its Begin line is never read (`Miss`); a link is
that of a call, comes when both rows are there, and goes with its branch only; a
branch that has a participant or a subordinate stays. `Hierarchy` maps to it by
`Recorded` (a row whose line is still to be read is to come, one whose line was
read is there or gone), `LinkedUnder` and `Callers`.

## 4. The recording (`Recorder`)

Only the node's own monitor writes the rows of a node's transactions, one line
at a time, so that one handler is one step. `tx[u]` is the row (status, whether
the end time is set, events in order, participants in order), `rows[u]` how
many rows with that uid there are: `begin` looks for none, and with two rows
every later query throws, so that each further line is lost (`Lost`).

- `SetStatus` is `Transaction.setStatus` (159-177), `AfterSetStatus`
  `HandlerService.setStatus` (189-200): a phase two line for what is not
  `PREPARE` is recorded as `REPLAY_PHASE2` and changes no status.
- `AfterEnd` is `end`: the result of `BasicAction.End()` becomes a status and an event.
- `Enlist` has the race of `retrieveOrCreateResourceManager` (602-615) with the
  monitors of other nodes, which share the table: it may cost the participant.
- The database transaction of a refused insert is left open when the entity
  manager is closed (`intercept` does not roll back): whether the resource
  manager's row survives is left open too (`InsertManager`).
- `ChangeHierarchy` stands for the monitors of other nodes that link a row or
  undo the link, which `cleanup` looks at.
- A participant is found by name (`ByName`, JTA) or by `rmuid` (`ByRmUid`, JTS);
  a name that occurs twice loses the line.
- Timestamps are reduced to whether the end time is set, events to their type
  and entity.

- Each handler of `core/logparsing/as8/handlers` is an operator of its name on a
  `Line` (the handler's pattern, and the groups it captures); `Handle` is the
  list in `Configuration.LOG_HANDLERS`. `JTSInterpositionHandler`, the twelfth,
  writes none of these rows and is in `Hierarchy`.

`StatusTold` joins the two things the page of a transaction shows beside each
other: the status of a row is what the last event of the transaction itself tells
of. A replay of phase two and a failed prepare tell of no status; the events of
JTS resources have the same types and another entity, and tell of none either.

`HandlerServiceTest` asserts `COMMIT` of a `phase2Commit` right after `begin`
(108-118), and `PHASE_TWO_ABORT` of a `phase2Abort` (144-154). The code does
neither, see section 10.

`Recorder`'s own `Next` lets every line follow every other: that is what is left
of the transaction manager's order after losses, repetitions and restarts, and
the strongest setting for what must hold whatever is read.

## 5. The recording and what it is about (`Commitment`)

The coordinator is external: it is modelled from the lines the handlers in
`core/logparsing/as8/handlers` expect and from the sample logs in `etc/logs`.
It begins, enlists, prepares one resource after the other, decides, ends, may
leave a transaction in doubt, and recovers it. Each step writes its lines to
`log`; `ReadLine` takes the first one and gives it to `Recorder`'s `Handle`.
`Redeploy` loses the unread lines, `Crash` loses them and the undecided work.
`gap` remembers that lines may be missing. Some versions of the transaction
manager log the result of `End()` and some do not: `EndLogged`.

A server has one transaction service, chosen in `Init` (`service`). They log
different lines (`Wording`) at the same steps:

- *JTA*: `XAResourceRecord` when a resource is enlisted, `topLevelPrepare`
  before it is asked, `XAException` when it refuses. Nothing of the second phase.
- *JTS*: `enlistResource` with a uid of its own, `topLevel` before any call to a
  resource, `doResult` with the outcome after it, and an exception before that.
  In the second phase (`SecondPhase`) each resource is called in the order of
  the list, and any of them may throw. A client may ask for the status of what
  it has committed (`GetStatus`), and that starts `cleanup`.

Left out: resource lines of a JTS commit in one phase, votes of read-only
resources, and a resource enlisted twice by one transaction: of its votes
neither is recorded (`Recorder` has it), so that no statement about votes holds.

`EndTimed` relates status and end time, which are not written together: the line
that starts the last phase sets both, that of `End()` sets the status and no end
time (`HandlerService:147-172`). As long as no line was lost, a final status has
its end time; when only the line of `End()` is read it has none, and the duration
goes on growing (`Transaction:317-319`).

`Verdict` is what a reader may rely on. Its `Forget` is the one thing by which a
verdict goes: `cleanup` removes a committed transaction of which no participant
is recorded. `Ballot` is the same for a participant: its record comes once and
stays, its vote is recorded once and then changes only to a refusal that comes
with an exception, an exception stays, and no vote to commit follows one.
`RecordOf` maps the rows of `Commitment` to it.

## 6. The life of a monitor (`LogMonitor`)

| State | In the code |
|---|---|
| `logFile[d]`, `tailer[d]` | the fields of `LogMonitorBean` in deployment `d` |
| `at[c]` | where the invocation `c` of the asynchronous `start()` is: queued by the container, between the test of the field and the assignment (`create`), between the assignment and `tailer.run()` (`run`), in the Tailer, in the catch block, returned |
| `startup[d]` | where `setup()` and `tearDown()` of `StartupServiceBean` are; `stop()` is three steps: test, `tailer.stop()`, reset |
| `runs[c]`, `flag[c]`, `position[c]` | the Tailer that `c` runs, its flag, how far it has read |
| `present`, `written`, `handled` | the log of the server, and the lines given to `LogParser` |

The bean's READ lock lets `stop()` between any two steps of `start()`. The
Tailer is external: it opens the file at its end (`true` at
`LogMonitorBean:68`), reads while its flag is up, and gives any exception to
`LogParser.handle(Exception)`, which logs it; then `run()` returns. Exceptions
come from `LogParser.fileNotFound()` and from a handler. The catch block of
`start()` is therefore reached only when `stop()` resets the field between the
assignment and `tailer.run()`, by a null pointer. `flag[c]` is taken down by
`stop()` alone: what a Tailer does to it when it ends is never read.

`NoLineTwice` has an exception, and the code needs it: when `tearDown()` comes
before `start()` has set the field, or right after, a Tailer begins that nobody
will stop (`Outlives`), and it reads beside the one of the next deployment. How
likely that is depends on the container, which may also drop the invocation
(`Drop`) or refuse the call to a service that is torn down (`Caught`).

The Tailer can end by itself while the field stays set, so that `isRunning()` is
true, `start()` and `setFile()` refuse and nothing is read any more, whatever
the javadoc at `LogMonitorBean:115-118` says. The model has these steps.

## 7. The page of a transaction (`TxGraph`, `Spacetree`)

| State | In the code |
|---|---|
| `row`, `subordinates`, `participants` | the rows of one distributed transaction; the monitors change them as `Forest` and `Ballot` say (`Monitor`) |
| `step`, `asked` | the request for `txinfo.jsf` and its parameter: `txid`, or `txuid` (`NoBranch`) |
| `crumbs` | what `TransactionInfoBean.getReverseHierarchy()` walks |
| `top`, `pending`, `loaded` | `GraphPlotterBean.tx` and the eager collections of it and all below |
| `json` | the argument of `init()` in the page |
| `plots[i]` | the i-th Spacetree: its graph, the stage of its animation, what its canvas shows |
| `labels[x]` | the label element with the id of node `x` |

| Action | In the code |
|---|---|
| `Ask`, `InitInfo` | the request; `TransactionInfoBean.init()` and the breadcrumbs |
| `FindAsked`, `FindTop` | the two queries of `GraphPlotterBean.init()` |
| `Load` | the query for the collections of one entity |
| `OpenPage` | `getJsonGraph()` and `populate()`, and `init()` when the page has come |
| `ShowModal` | `init()` again, when the modal is shown (`txinfo.xhtml:215`) |
| `Contract`, `Move`, `Expand`, `Finish` | the stages of the click on the root; `Expand` is a frame of the last one |

Every query is a step, since each call of `DataAccessObject` has an entity
manager of its own and eager collections come one query after the other; the
monitors record between any two. The page is asked for once: what a second
request would see is what a later first one sees.

The monitors are not modelled a second time: their steps are those of `Forest`
and `Ballot`, which `Hierarchy` and `Commitment` are proved to implement. What is
proved of the page holds for these monitors with all their interleavings,
failures and restarts, under the hypotheses of `ForestImplemented`: a branch
calls two others at most (with three, links may be lost again, `HierarchyStar`),
and `begin` does not fail to commit its row. A branch is enlisted in `Forest`
when it has its first record in `Ballot` (`Enlisted`). The two proofs stand side
by side: each speaks of some of the columns, and that a line is handled by one
monitor in one step joins them here.

`Spacetree` is pure. Adjacencies have no direction, so that what is below a node
is computed from the distances to the root, nodes of one id are one node with the
data of the first, and the last assignment to a colour wins. `init()` runs first
while the modal is hidden: that Spacetree has a canvas without size, which hides
the labels it places, and the next one uses the same label elements. Only the
root is ever clicked, so that no line is highlighted, and the globals that
`infoviz-graph.js:7-22` sets are read by nothing.

Resource managers are shared by name over all nodes, and the name is the id of a
node of the graph (`GraphPlotterBean:122`): participants of one name in several
branches are one node. `ParticipantsPlotted` and `PictureTrue` say what holds all
the same: the node is there with a line from one of these branches and the colour
of a record of one of them, and each line joins a branch and what it called or
enlisted. That every participant has the line and the colour of its own record is
false as soon as two branches share a resource manager (section 10). If a branch
is farther from the root than the node it shares, the node counts as above it, so
that a line may be drawn from the resource to the branch (`TrueLine`, either way
round).

The bag of subordinates has no order in the table, so that it is a set here, and
`populate()` goes through it in some order. The calls form a finite tree
(`CallsAssumption`): a branch begins after the one that calls it. What the walks
of the code do with a hierarchy that is none is the matter of `LinksAreCalls`
(section 3).

## 8. Issues (`Issues`)

A request for the list page calls `scanForIssues()` and then `getIssues()`;
`PluginService` is a singleton, so that calls exclude each other (`lock`), but
not the two of one request. In a scan the plugins run one after the other and
the monitors go on recording (`FindWedged`, `CountTx`, `FindRollback` are steps).
`heap` has the issue objects, which the plugins, and every session that has
fetched them, share; `Collect` drops what nobody knows any more. A session
parses those it does not have yet (`ParseRead`, `ParseWrite`: the body is
replaced by what was made of it), and adds them to its own (`Answer`).

Two issues are equal if title and cause are (`Issue:88`), so that `retainAll`
and `removeAll` keep one object of two equal ones: `Keep`, `Retained`. A set of
new issues takes one of several equal ones (`Distinct`). The records of a
resource manager are taken in the order in which they were inserted. The
threshold is `totalTx / 100 * THRESHOLD` in integers, as in the code; it is zero
below a hundred transactions, whatever the text of the issue says of 5%. A
session has one request at a time, and does not expire.

A transaction is `wedged` if the plugin's test is true of it: its status is
`PREPARE` (`prepared`), and `getDuration()` is over a minute, which counts from
`begin` (`old`). The query and the test of what it returns are one step: the age
only grows in between. The text of the issue says that the transaction *has been
in status prepare* for that long, which is another claim, and false of one that
worked for a minute and has just prepared: `ShownCurrent` is of the test.
`Prepare`, `LeavePrepare` and `Age` are the lines and the time that change it.

A session parses what is new to it, and the object may have been parsed for
another session, or is just being parsed: `heap[o].body` counts how often.

`due` is a history variable: which transactions were wedged at some time, and all
the time, since the request came.

## 9. The list (`TxList`)

The timer sends a poll whether or not the last was answered: each window has some
connections, whose answers come in any order, or fail. A poll is answered with
menu and table and replaces both; a choice of the filter is answered with the
table, and only a table that is there can be replaced, by one that was rendered
(`Update`). All requests of a session are served at the same time on the fields
of one bean, and every access to a field is a step: `CheckFilter` and
`QueryTransactions` read the filter twice, `SetTransactionsList` and
`GetTransactionsList` write and read the list. The page asks the bean twice, for
`rendered` (`txlist.xhtml:45`) and for `value` (43), and each time `filter()`
runs: `Rendered` leaves the table out if the first list is empty, and what the
table holds is the second, which may be another one, or empty. (How often JSF
evaluates `rendered` is its own affair; once is the least, and more would repeat
the same steps.) JSF sends one request of its own at a time.

`PageSettles` is of the end, `TablesWereTrue` of every moment on the way: a table
may be old or of another window's filter, but it is the result of one query, and
no row of it has a status that was not recorded.

## 10. What is checked

| Run | Instance | Shows |
|---|---|---|
| `HierarchyCalls` | 3 nodes, 3 calls, two of them by one parent, nested; threads used again; no failure | `NoOrphanRecord`, `HierarchyEstablished` (fair), and that `Hierarchy` implements `Rendezvous` |
| `HierarchyFaults` | the same with work and status queries, 2 failures (of anything but the row of `begin`), 2 restarts | `LinksAreCalls`: links may be missing, none is wrong; `OnlyPhantomsRemoved`; that `Hierarchy` implements `Forest`; and, in the behaviours without failure, `WorkIsLinked`: branches that worked are linked whatever `cleanup` removes |
| `HierarchyStar` | one parent, 3 subordinates, no failure | **violation** of `HierarchyComplete` |
| `Recorder` | 1 transaction, 2 resources, 1 JTS uid, 6 events | `StatusTold` for every sequence of lines |
| `Commitment` | 1 transaction, 2 resources, JTA (2 restarts, 2 repeated recoveries) or JTS (1 restart), lagging reader | `NoFalseBlame`, `VotesExplained`, `StatusCurrent`, `EndTimed`, `EndShown` (fair), and that `Commitment` implements `Verdict` and `Ballot` |
| `CommitmentJTS` | 1 transaction, 2 resources, JTS | **violation** of `RollbackCaused` |
| `LogMonitor` | 2 deployments with 2 starts each, 3 lines, 1 renaming | `NoLineTwice`, `StopEnds` (fair) |
| `TxGraph` | 3 branches in a row, the first and the last with a resource of one name; the modal shown once | `AskedShown`, `ParticipantsPlotted`, `PictureTrue`, `LabelsSettle` (fair) |
| `TxGraphRoot` | 3 branches in a row | **violation** of `RootPlotted` |
| `Issues` | 1 transaction, 2 resource managers, 2 sessions, 4 objects, 1 batch of 100 others | `ShownParsed`, `ShownCurrent` |
| `IssuesReported` | 2 transactions, 2 resource managers, 1 session, batches of 90 others | **violation** of `ThresholdReported` |
| `TxList` | 1 transaction, 1 window with 2 connections, 2 choices | `TablesWereTrue`, `PageSettles` (fair) |

### Bounds, and why they are enough

- *Hierarchy.* Two monitors meet over one request; a third is what it takes for
  a commit to come between another's load and commit, and a parent with two
  calls is the least that has two writers of one bag. A parent with two calls
  loses nothing (the first rewrite starts from an empty bag and deletes
  nothing), one with three does: hence `HierarchyStar`. A second transaction on
  a thread that served a request before is what a stale association needs. Two
  failures and two restarts let both ends of one request fail. The theorems
  `LinksAreCallsCorrect` and `OnlyPhantomsRemovedCorrect` have no bound.
- *Recorder.* Handlers act on one row and read no other (but for the unique
  `rmuid`), so that one transaction suffices; six events reach every status
  from every other, a replay and an end. The theorems have no bound.
- *Commitment.* Two resources are the least with a second phase: one can be
  prepared when the other refuses, and one be asked while the other has not
  been. Two restarts hit both the first run of phase two and its recovery.
  `MaxUnread` is how far the server gets ahead of the monitor: with four
  unread lines a whole phase is unread when the next begins. `MaxRestarts` and
  `MaxReplays` are given by service, since the JTS writes three times the lines.
  `MaxEvents` is not reached: the coordinator's own steps bound the lines.
- *LogMonitor.* Two deployments are what it takes to read a line twice; a
  deployment starts twice at most, since only its one `tearDown()` can lead to
  the catch block. Three lines leave room before, between and after. The theorem
  `NoLineTwiceCorrect` has no bound.
- *TxGraph.* Three branches in a row are the least in which one that is linked
  has another above or below it that is not; every smaller hierarchy is there
  before the third begins. The two that share a name are not neighbours, so that
  the node they share is nearer to the root than one of them. `infoviz-graph.js`
  shows 30 levels; `LevelsToShow` is 3, which is all there are, so that TLC does
  not meet the cut; the theorems hold for every value of it.
- *Issues.* Two sessions, each with its scan and fetch, are what sharing needs.
  Two resource managers of one first transaction have equal issues. Each of the
  two causes can be held in an old object and a new one. `MIN_NUMBER` is 0 here
  (3 in the code), so that one record is enough for an issue to come, and the
  batch of 100 lifts the threshold to 5, so that it goes. In `IssuesReported` a
  threshold is met with `MIN_NUMBER` 1 and two records. Objects, sessions and
  transactions are interchangeable: `MCSymmetry` (the run has no liveness).
- *TxList.* With two connections a poll overtakes a poll, or the answer to a
  choice; two choices are the least in which one is undone by the answer to the
  other. A second window would differ from the first only in its menu and table.

`CHECK_DEADLOCK FALSE` stands where the modelled part may stop: the logs of
`Hierarchy` are finite, `Recorder` stops when the room for events is used up,
the server of `Commitment` after its last transaction, that of `LogMonitor` after
its last deployment, the page of `TxGraph` when it is drawn and nothing is left
to be recorded. In `Issues` a scan waits when there is no free object. `TxList`,
whose timer never stops, is checked for deadlock.

### Fairness

- `HierarchyEstablished` assumes weak fairness of each monitor, `EndShown` of
  `ReadLine`: the `Tailer` thread polls its file for ever (`LogMonitorBean:68-70`)
  and a handler always returns, since no lock is waited for. Nothing is assumed
  of the coordinator, of failures or of restarts. That the Tailer can end by
  itself is a hazard of its own (section 6).
- `StopEnds` assumes it of the threads that run `start()` and a Tailer, and of
  `tearDown()` once it has begun: no step of them waits for a lock.
- `LabelsSettle` assumes that the container answers and that the browser's
  timers run (`Respond`, `Animate`), not that the monitors or the user go on.
- `PageSettles` assumes that the timer runs, the server answers and no answer is
  under way for ever, all weakly; and, strongly, that not every poll of a window
  fails. With a server that answers none nothing could settle.

### Violations

1. **A link is lost for good** (`HierarchyStar`, `HierarchyComplete`).
   `Transaction.java:67-72` says that the join table "eliminates the need for
   any kind of database locking while monitoring a distributed transaction
   across multiple nodes". With three calls of a parent one monitor rewrites the
   bag from a copy loaded before another monitor's commit: a unique key is
   violated, the exception swallowed, and the record stays, or a row of the
   other is deleted.
2. **A commit that is counted as a rollback** (`CommitmentJTS`,
   `RollbackCaused`). `RMRollbackPlugin.java:85-89` says that "rollbacks were
   caused in transactions" that `causedRollback()` found by their having an
   exception. With the JTS exceptions of the second phase are recorded too
   (`JTSResourceExceptionHandler:14` captures the phase, and nothing reads it):
   a resource that throws while a commit is carried out is counted.
3. **No root to plot** (`TxGraphRoot`, `RootPlotted`). "Ensure we have the root
   transaction", says `GraphPlotterBean.java:72`, and asks for the row of the
   txuid without a parent. As long as any other branch is recorded and not
   linked yet there are two, the answer is null and `populate()` fails.
4. **One issue for two resource managers** (`IssuesReported`,
   `ThresholdReported`). The threshold is one "at which to report an issue"
   (`RMRollbackPlugin.java:22-25`). The title has no place for the name that
   `:81` puts in, so that issues of two resource managers are equal if their
   first exceptions were in one transaction: one is never reported.

Further disagreements of the code with its tests, comments and texts, met while
modelling and described here instead of by a run of their own:

- *Phase two without phase one.* `HandlerServiceTest.java:108-118` and `:144-154`
  call `begin` and then `phase2Commit` or `phase2Abort`, and assert the status
  `COMMIT` or `PHASE_TWO_ABORT` and an event `COMMIT` or `ABORT`.
  `HandlerService.java:190-196` (`AfterSetStatus`) takes either for a replay
  unless the status is `PREPARE`: the status stays `IN_FLIGHT`, and the event is
  `REPLAY_PHASE2`. Both tests contradict the code they test.
- *Linked under a caller it never had.* "Check to see if this is a subordinate
  transaction", says `HandlerService.java:58` of a look at the association of the
  thread. If the row of the transaction that served the request cannot be
  committed (`:55`), the association is still there, and the next transaction of
  the thread, which may serve nobody, is taken for the subordinate. If it calls
  the node of that caller, the hierarchy can become a cycle, and the walk of
  `TransactionInfoBean` (65) has no end. `LinksAreCalls` excludes both, and takes
  it that `begin` can commit (`"Begin" \notin Lossy`).
- *One node for two participants.* "Populate this transaction's participants"
  (`GraphPlotterBean.java:120`) uses the JNDI name as the id of the node: the
  participants of two branches that share a resource manager are one node, with
  the data of the first. One that refused can be shown as one that voted to
  commit, or the other way round; `ParticipantsPlotted` says what remains true.
- *Stuck in prepare since it began.* The issue says that a transaction "has been
  in status prepare longer than" a minute (`WedgedTxPlugin.java:21-22`); the test
  (`:50-51`) is its age since `begin`, so that one that worked for a minute is
  reported as soon as it prepares. `ShownCurrent` is of the test.
- *Parsed twice.* "Don't parse any issues a second time."
  (`IssueParserBean.java:47`) leaves out the issues of the session; the objects
  are shared, and every further session parses what the first has made of the
  body again.
- `CentralisedAS8IntegrationTest:60` counts two events of each participant, and a
  JTA participant has one; the javadoc of `isRunning()` (section 6); the 5% in the
  text of an issue (section 8).

## 11. What is proved

Without bounds on nodes, logs, transactions, failures, restarts, deployments,
lines, sessions or objects:

| Theorem | States |
|---|---|
| `HierarchyProofs!TypeCorrect` | `Spec => []TypeOK` |
| `HierarchyProofs!LinksAreCallsCorrect` | `CallsUnique /\ "Begin" \notin Lossy => (Spec => []LinksAreCalls)` |
| `HierarchyProofs!OnlyPhantomsRemovedCorrect` | `Spec => OnlyPhantomsRemoved` |
| `HierarchyProofs!ForestImplemented` | `CallsUnique /\ BeginsOnce /\ TwoCallsAtMost /\ "Begin" \notin Lossy => (Spec => ForestSpec)` |
| `HierarchyProofs!RendezvousImplemented` | `LogsInOrder /\ FewCalls /\ NoneMayGo /\ MaxFailures = 0 /\ MaxRestarts = 0 => (Spec => RendezvousSpec)` |
| `HierarchyProofs!NoOrphanRecordCorrect` | `LogsInOrder /\ FewCalls /\ NoneMayGo /\ EveryCallAnswered => (Spec => [](Smooth => NoOrphanRecord))` |
| `HierarchyProofs!HierarchyCompleteCorrect` | `LogsInOrder /\ FewCalls /\ NoneMayGo => (Spec => [](Smooth => HierarchyComplete))` |
| `HierarchyProofs!WorkIsLinkedCorrect` | `LogsInOrder /\ FewCalls => (Spec => []WorkIsLinked)` |
| `RecorderProofs!TypeCorrect` | `Spec => []TypeOK` |
| `RecorderProofs!StatusToldCorrect` | `Spec => []StatusTold` |
| `CommitmentProofs!TypeCorrect` | `Spec => []TypeOK` |
| `CommitmentProofs!StatusCurrentCorrect` | `Spec => []StatusCurrent` |
| `CommitmentProofs!EndTimedCorrect` | `Spec => []EndTimed` |
| `CommitmentProofs!VerdictImplemented` | `Spec => VerdictSpec` |
| `CommitmentVoteProofs!NoFalseBlameCorrect` | `Spec => []NoFalseBlame` |
| `CommitmentVoteProofs!VotesExplainedCorrect` | `Spec => []VotesExplained` |
| `CommitmentVoteProofs!BallotImplemented` | `Spec => BallotSpec` |
| `LogMonitorProofs!TypeCorrect` | `Spec => []TypeOK` |
| `LogMonitorProofs!NoLineTwiceCorrect` | `Spec => []NoLineTwice` |
| `IssuesProofs!TypeCorrect` | `Spec => []TypeOK` |
| `IssuesProofs!ShownParsedCorrect` | `Spec => []ShownParsed` |
| `IssuesProofs!ShownCurrentCorrect` | `Spec => []ShownCurrent` |
| `TxGraphProofs!TypeCorrect` | `Spec => []TypeOK` |
| `TxGraphProofs!AskedShownCorrect` | `Spec => []AskedShown` |
| `TxGraphProofs!PictureTrueCorrect` | `Spec => []PictureTrue` |
| `TxGraphProofs!ParticipantsPlottedCorrect` | `Spec => []ParticipantsPlotted` |
| `TxListProofs!TypeCorrect` | `Spec => []TypeOK` |
| `TxListProofs!TablesWereTrueCorrect` | `Spec => []TablesWereTrue` |

*Hierarchy.* `LinksAreCallsCorrect` has two hypotheses. `CallsUnique`: a request
is logged once by its sender and begins one subordinate; without it two rows
could answer for one request. `"Begin" \notin Lossy`: `begin` does not fail to
commit its own row. It cannot be done without: such a failure leaves the
association of the thread (`HandlerService:59` is not reached), the next
transaction begun on the thread takes it, and is linked under the sender of the
old request if that has a branch of it. `LinksAreCalls` alone is not inductive:
whether `CommitHierarchy` may link what is in `job` depends on where that came
from. The invariant `IInv` adds what each piece of state remembers of the logs:
`ThreadsInv`, a thread's association is the last `receive_request` of that
thread before `next`, or nothing; `RecordsInv`, a record was left by the sender
of its request or by the branch begun in its service; `JobInv`, the same of the
arguments of a running handler, of the record it found and of the rows it
loaded, and that the snapshot of the bag consists of links that were calls. A
restart moves `next` and clears the association, a failure clears `job`: both
are steps of the proof. Each action has a lemma, and each lemma one step for
each part it disturbs.

`OnlyPhantomsRemovedCorrect` needs `PhantomsIdle`: what `cleanup` has found
without participants stays so until it is removed, though the check is outside
the database transaction, since rows are enlisted by the monitor of their own
node and that is the one in `cleanup`. Links may come meanwhile, and the foreign
key refuses the removal then.

*Hierarchy, no link is taken back.* `ForestImplemented` keeps the hypotheses of
`LinksAreCallsCorrect` and adds two. `BeginsOnce`: a node begins its branch of a
transaction once, so that the uid finds one row. `TwoCallsAtMost`: with a third
call the rewrite of the bag deletes a link that a commit of another monitor has
added since the bag was loaded, which is what `HierarchyStar` shows. `GInv` is
what the rows know of the lines: a row that is there was begun by a line that was
read (`RowsRead`), what is enlisted or linked is there (`RowsHeld`), and the bag
that a handler is about to write is still that of the table, but for branches that
are gone (`HandlersRead`). The hard step is again `CommitHierarchy`, now with
failures around it: with two calls at most, a bag that was not loaded empty has
got nothing since but the branch of the handler itself (one loaded empty deletes
nothing), and the foreign key refuses the commit if one of it has gone, so that rewriting the bag adds the one link and drops
none (`CommitAdds`, `CommitLinks`). A failure writes
nothing; a restart is `Miss` of the branches whose lines are passed over
(`RestartMisses`); a removal takes the links of the row along, which `PInv` allows
(`RemovalGrows`).

*Hierarchy, every call.* What becomes of a call when nothing fails and no
monitor restarts (`Smooth`) depends on the logs. `LogsInOrder` says that a
request is logged once by its sender and begins one subordinate (`CallsUnique`),
that a node begins its branch of a transaction once (`BeginsOnce`), and that a
request is sent in a transaction its sender has begun (`SentWithin`): so
transaction managers log. The other hypotheses mark where the code stops being
right, and each has a counterexample:

- `FewCalls`: a branch calls two others at most. With three a link is lost for
  good: `HierarchyStar`. And one at most if that one may be removed by
  `cleanup` (`MayGo`: its status is queried before it has a participant): if the
  branch goes while a handler has loaded the bag with it, the bag cannot be
  written, the exception is swallowed, and the link of the other, which worked,
  is lost. TLC finds that behaviour with two calls in one transaction, of
  branches one of which is queried without having enlisted anything.
- `NoneMayGo`: otherwise a branch that is linked may go, and its link with it.
- `EveryCallAnswered`: a request that nobody serves leaves its record.

`CInv` says of each call where its two ends are, an end being a line that a
monitor has handled (`EndDone`). `WaitingInv`: a record was left by an end that is
done, there is one at most of each request, and an end that is done has its
record there unless the other end is done too. `LinksInv`: a link is that of a
call both of whose ends are done and whose record is gone, and with both ends done
the link is there or one of the rows is not. `HandlerInv`: a handler that goes on
to link has found the record of the other end, and its snapshot of the bag are
calls that were settled. `RowsInv` is of the rows: which are there follows from the
lines read, but for those that may go, and `cleanup` is about to remove only
such. `ServingKnown`: a thread that is to serve a request is known to.
The hard step is `CommitHierarchy`. The bag may have changed since it was loaded;
with few calls the other elements of the snapshot are settled and stay
(`Siblings`), so that nothing but a row that is gone refuses the commit
(`CommitWhenThere`), and rewriting the bag loses no link (`CommitGrows`): here
`FewCalls` is used. `RendezvousImplemented` maps an insert to the arrival of an
end (`InsertArrives`), the commit to the meeting of both (`CommitMeets`) and all
other steps to stutters.

*Recorder.* `StatusTold` speaks of each row alone, and so does the invariant:
`RowInv(t)` says that `t` is typed and that its status is what its last telling
event tells of (`Told`). Lemmas show that each operator on a row preserves it: an
event that tells nothing leaves the last telling one where it is
(`AddEventKeeps`), and one that tells of the row's new status becomes the last
(`AddEventTells`). `setStatus` and `end` change the status first and add the event
after, so that only the two together preserve `RowInv` (`SetStatusKeeps`,
`AfterEndKeeps`). That the events of resources tell nothing rests on
`RecorderAssumption`: no resource is named like the node. The theorem then has one
short step for each handler.

*Commitment.* The properties relate the coordinator, the lines it has written and
the monitor has not read, and the rows. The reader lags by any number of lines,
so that the invariant has to say what unread lines will make of the rows. Of each
transaction: `CoordInv`, what the coordinator decided, how it ended and how its
resources answered go with its stage; `LineInv`, what an unread line tells is true
of the coordinator, for good; `OrderInv`, a line that begins a transaction is
before all others, and one that prepares it before those that tell of its end;
`RowInv`, a row shows nothing but what was decided or how the transaction ended;
`ProgressInv`, unless lines were lost, what makes a status wrong is still unread.
Each step of the coordinator has a lemma about what it writes, `ReadLine` one for
each handler. `VerdictImplemented` maps the decision and the end of the
coordinator to `Decide` and `End`, `ReadLine` to `ShowDecision`, `ShowEnd`,
`Enlist`, `Forget` or a stutter, and all else to stutters. What a replay of phase
two says is the decision, which does not change, so that it takes no verdict back.

`EndTimed` needs the order of the lines (`TimeInv`): unless lines were lost, one
that starts the last phase is between any `prepare` and the line of `End()`, so
that the latter finds the end time there. That a phase one abort and a one-phase
commit precede it is in `ProgressInv` and `OrderInv` already.

The votes have an invariant of their own on top (`VInv`), of each transaction and
resource: of the unread votes the last is what is expected and one against is true
(`VoteLines`); an unread enlistment comes before the votes and once
(`EnlistLines`); a resource has one participant at most, what that is blamed for is
true, and as long as nothing is lost, what makes its vote wrong is unread
(`ParticipantTrue`). First and last lines are found as least elements of sets of
positions (`LeastNat`), since the induction theorems of the library are out of
reach; so is what `FlattenSeq` returns (`FlattenSeqType`).

`BallotImplemented` needs more of the lines than what they say at the end: that no
unread line would take back what is recorded. `BInv` says, of each transaction and
resource, that unread votes are at most one, or with the JTA a `topLevelPrepare`
and the refusal after it, that no vote to commit is behind an exception
(`BallotLines`), and how the record goes with what is still unread: while a vote
is unread its record has none, a resource that is still to be asked has no unread
vote, and none has thrown while the coordinator may still ask. Then each line is a
step of `Ballot` for its resource or a stutter, also when the participant is not
found, because its enlistment was lost.

*LogMonitor.* In a deployment the invocations of `start()` are a chain, each
asked for by the catch block of the one before, and one of them at most runs a
Tailer (`ChainInv`, `RunsInv`). A deployment begins when all before it are torn
down (`StartupInv`), so that no flag goes down after that: either the Tailer of
the earlier one has been told to stop and has read only what was written before
the later one opened the log (`HandledInv`, `OrderInv`), or it is missed for good
and outlives its deployment. The steps that neither read nor open share one
lemma (`QuietStep`).

*Issues.* The argument is about who holds what: a scan puts new issues only where
nobody holds an object (`FoundKeeps`), no object in use has been collected
(`Alive`), the body being written belongs to an object its session holds
(`ParsingHeld`), and what a session has taken off its list is parsed or being
parsed (`TakenParsed`). `ShownCurrent` follows the request: as long as it is being
answered what is wedged lies between the two sets of `due` (`WedgedDue`), so that
the scan of any session makes the plugin's issues true for it (`ScannedTrue`), and
what the session has, under its own objects or new ones, tells the same
(`HeldTrue`), since objects keep title and cause as long as somebody knows them
(`StepKeepsKeys`). For the types, how often an object is parsed is bounded by
`Over`, the sessions that have parsed it or never will: the body that is there,
and each that was read to be replaced, counts no more of them
(`BodiesCounted`), and a session does not come back, because a plugin that has
dropped an object never gets it back, and a session that has it keeps it as long
as the plugin does (`ScanCounted`, `FetchCounted`).

*The page.* `AskedShown` is about queries between which the monitors go on. When
the root is found, the rows that are wanted and those above them are fixed as a set
`old` (all rows begun by then, which are linked up to the root if that was the only
one without a parent; the branch that was asked for, if it was the root itself).
`OldCovered` follows that set: every row of `old` that is still there is linked to one of
`old`, and is in the entity of that one, or that one is still to be loaded, or
nothing loaded refers to it yet. Links that come meanwhile add nothing to what is
needed; `cleanup` takes only what has nothing below it. When nothing is pending, a
topmost row of `old` that the page lacks contradicts this (`OldShown`).

The json is a recursive function, and what it makes is stated without recursion:
`PageTree`, its nodes are the root and, for every branch in it, one for each
participant and each subordinate the page has. It is proved by looking at a lowest
branch for which it fails (`PopulateStep`, `RestStands`, `JsonTree`).

A branch has one way down from the root of the page, a name may have several. The
levels that JIT computes are at most the length of any path to the root
(`PathLengths`, which `Height` gives for a page, `JsonPaths`), every node but the
root has a neighbour on a level above, and neighbours are at most one level apart
(`LevelsAre`, by induction over the steps of the search, as a least counterexample:
`WithinEnds`, `LevelsWithin`). So a node of the name `r` is drawn wherever one of
its branches is within reach, and the neighbour above it is a branch with a
participant of that name, since participants have no other neighbours
(`NeighboursAre`); its data are those of one of these participants (`DataIs`).
`Kept` says what the database does not take back: participants, exceptions, and
links between rows that are there. From these follow `PictureTrue` and, with
`HeightBound` (a branch is not farther below the root of the page than it has
callers), `ParticipantsPlotted`, whatever resources branches share.

The steps of the monitors enter by one lemma (`MonitorWrites`), which says what a
step of `Forest` or `Ballot` may do to the three tables.

*The list.* Three places hold a table on its way: the bean, a request and a
window. `TInv` says of each that it was true when it was read; since a transaction
never returns to an earlier status, it stays so, and copies keep it, however the
requests of a session overtake each other on the fields of the bean.

The inductive invariants were checked with TLC on the instances of the runs
before they were proved.

TLC evaluates the assumptions on the constants in every run of their module.

*Only model-checked:* everything about liveness (`HierarchyEstablished`,
`EndShown`, `StopEnds`, `LabelsSettle`, `PageSettles`), which the prover does not
treat. Every invariant, action property and abstract specification that a passing
run checks is also a theorem.

## 12. Not modelled

- *Regular expressions, `PackageFilter` and the order of the handlers.* Which
  line matches which pattern is a matter of text and of single lines; the models
  begin with a line that has found its handler.
- *Dates.* A line has a time of day and gets the date of its reading, so that
  around midnight durations can be negative. Nothing but the value depends on it,
  except the minute of `WedgedTxPlugin`, which in `Issues` may be over at any time.
- *`GenericDAOBean` and the DAOs above it*: only tests call them. The queries of
  the pages are in `TxGraph` and `TxList`.
- *Hibernate and MySQL* beyond the facts of section 3; in particular what
  `READ_UNCOMMITTED` shows of half a flush.
- *JIT* beyond what the page of a transaction uses; geometry, styles, Bootstrap.
- *`txvis.js`*, which no page includes; `LoggingInterceptor`, which only logs;
  `TransactionReaperHandler`, which is not configured; demonstrators, tests and
  packaging.
- *`PluginService.setup` and `tearDown`*: a list is filled once, and timers are
  cancelled that nobody creates (the `@Schedule` is commented out).
