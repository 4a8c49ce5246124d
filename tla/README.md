# TLA+ verification of QtOpcUaManager

QtOpcUaManager is a Qt 6 desktop client for OPC UA servers with a studio and a
runtime for small servers of its own. This directory holds TLA+ modules
translated from its C++ sources, TLC configurations that check them on small
instances, and TLAPS proofs of the results that hold for every value of the
constants. `PROJECT.json` maps every definition to the lines it models.

## The system

```
 QML forms ──calls──▶ OpcUaManager (GUI thread) ──queued calls──▶ OpcUaService (worker thread)
     ▲                  mirrors, reconnect run   ◀─queued signals─   operation state, lists, timers
     └──properties──────────┘    ▲                                        │ posted lambdas, queued signals
                                 │ applyProject / clearRuntimeState       ▼
                            ProjectManager                        QOpcUaClient + backend plugin
```

| Component | State it keeps | Operations | Hard behaviour | What makes it correct |
|---|---|---|---|---|
| `OpcUaService` session core (`core/opcuaservice.cpp`) | backend, client, operation state, pending flags, two timers, server and endpoint lists, endpoint cache | discover, look up endpoints, connect, disconnect, select backend / authentication | answers that are late, refused, duplicated or never come; signals of a deleted client; every callback is queued | a busy request is pending and timed; lists show the latest request; the session flag is real; a wait ends |
| `OpcUaManager` facade (`qmlapi/opcuamanager.cpp`) | mirrors of the service, reconnect stage and target, stored connection | `apply*` slots, `connectToLast`, password, form calls | decides on mirrors that lag; the user outruns the signals | mirrors lag only by queued signals; a run ends; the captured connection is the project's |
| `ProjectManager` (`qmlapi/projectmanager.cpp`) | open project, unsaved mark, recent list, settings | new, open, save, save-as, close, remove, migrate | writes that fail, files that vanish, sessions that change the project by themselves | the mark says what the file holds; the list keeps its order; no other file is overwritten |
| Application shell (`app/main.cpp`, `qml/Main.qml`) | prompts, deferred action, open dialog | guards, prompts, dialogs, closing, start | a second request while a prompt is open; a queued quit; a crash | no work lost unasked, also when the program ends |
| `UpdateController` (`app/updatecontroller.cpp`) | status, latest release, reply under way | check, install, open page | replies that fail, time out or carry nothing | a check ends; an offer is newer |
| Browse / read / write / subscribe of the service | monitored nodes, handlers per write | browse, read, write, subscribe, refresh | results per node id, two writes at once | the table's nodes are watched; every selection is answered |
| `OpcUaModel` tree | items, fetch state, reveal path | fetch, reveal, expand, clear | answers after the item is gone | a fetching item has a request in flight |
| `NetworkScanner`, `NetworkScanController`, `IpRange` | targets, probes, query queue, current query; texts and settings of the dialog | start, cancel; parse, suggest, remember | pool of asynchronous probes, timeouts racing answers; 32-bit limits | a scan finishes once, with every target decided; what is scanned is what was meant |
| `CloneBrowser`, `StructuredNodeReader` | work nodes, pending counts | start, results | refusals, partial answers, caps, timeout | reported exactly once, whole unless it says otherwise |
| `ServerRuntimeController` + `runtime/` process | process, output, endpoint, counters | start, stop, kill, crash handling | READY racing stop and exit; blocking waits | what is shown is the process's |
| `RuleEngine`, `SimulationEngine`, certificate stores (`runtime/`) | values, timers of delayed actions, counters, PKI | client writes, ticks, delayed actions, trusting | rules that write what other rules watch | a write settles; copies follow; no certificate is lost |
| Server project (`serverproject/`, `runtime/projectbuilder.cpp`) and its editor (`qmlapi/serverstudio.cpp`) | nodes, types, rules, security, files | add, remove, move, rename, clone, import, export, validate | references between parts after edits | no dangling reference; what is accepted is served; files lose nothing |
| Data access and trend models, `DataViewFilterModel` | rows, order, samples | insert, update, sort, filter, edit, plot | rows named by position while values re-sort them; bounded histories | the row meant is the row reached; curves are true |
| Node database, logs, formatting, themes, locales | presentation and I/O | | | see *Not modelled* |

## Modules

| Module | Models | Built on |
|---|---|---|
| `OpcUaService` | the service's connection core, against an arbitrary GUI | |
| `OpcUaManager` | the facade, the reconnect run and project switching | EXTENDS `OpcUaService`; checked to implement its `Spec` |
| `NetworkScan` | what a scan promises (abstract) | |
| `NetworkScanner` | the scanner in full | `Scan == INSTANCE NetworkScan`; checked to implement `ScanSpec` |
| `ScanInput` | the parsers of ranges and ports, the suggested networks, the dialog and the settings it keeps | |
| `BrowseTree` | the lazy trees, the routing of browse ids, the service's chunked enrichment | |
| `ServerRuntime` | the supervised runtime process and its controller | |
| `ServerStudio` | the studio's project, its file, snapshot and restarts | EXTENDS `ServerRuntime` |
| `ServerProject` | a server project as data: validator, files, clone, and what the runtime builds of it | |
| `ProjectEditor` | every edit of the studio, its files, and the check before a start | EXTENDS `ServerProject` |
| `RuntimeEngines` | rules, simulation and certificates of the running server | EXTENDS `ServerProject` |
| `NodeService` | subscriptions, reads and writes inside the service | |
| `DataView` | the data-access table, trend curves and node panels of the facade | EXTENDS `NodeService` |
| `DataTable` | the table as it is sorted, filtered, selected and edited under live updates | |
| `TrendModel` | sample histories and the curves drawn from them | |
| `CloneBrowser` | the walk that assembles a server's subtree for a clone | |
| `StructuredNodeReader` | the walk that assembles a node's value for the View panel | |
| `ProjectManager` | the client's projects, their files, the recent list and the first start | |
| `AppShell` | the window's guards, prompts and dialogs; start, end and crash | EXTENDS `ProjectManager` |
| `UpdateController` | the check for updates | |
| `*_proofs` | theorems about the module they are named for; `CloneBrowser_proofs` also about `StructuredNodeReader` and `ProjectEditor`, `NetworkScanner_proofs` also about `ScanInput`, `DataView_proofs` also about `TrendModel` and `DataTable`, `ServerStudio_proofs` about `RuntimeEngines`, `AppShell_proofs` about `UpdateController` | EXTEND it |
| `MC*` | instances and bounds | EXTEND the modules they instantiate |

### How the code's concurrency appears

The GUI thread, the worker thread and the backend are interleaved at the grain
of one delivered event: a slot runs to completion, so it is one action, and
everything it posts goes to the end of a FIFO. `OpcUaService` has two of them,
`inbox` (commands from the GUI, lambdas the service posts to the client, the
client's own queued signals: they share the worker's event queue) and `toGui`.
A deleted client (`setBackend`) leaves its queued *lambdas* undelivered, because
their receiver is gone, and its queued *signals* delivered, because their
receiver is the service; `Task.from` remembers which client a lambda is for. A
Qt timer is a Boolean; its timeout may fire at any moment while it is set.

`OpcUaService` — a list is abstracted to the URL whose request produced it,
which is exactly what staleness is about; the certificate files either
validate or do not, chosen at each use. `AnswersRedundantDisconnect` says
whether a client already disconnected announces it once more when asked; both
values are run, because the code depends on it.

`OpcUaManager` — each QML call, each slot the service's signals are connected
to, and each stage of the reconnect run is an action. `asked` is a history
variable: the project that was active when the facade last asked for a
connection. The part of `ProjectManager` that meets the live service (open,
close, `applyProject`, `clearRuntimeState`) is here, with its order of calls.

`NetworkScanner` — probes, the query queue, the one current query with its
timer, the client and the retired clients (blocked by a request nobody waits for
any more). A target is a model value, `SameAddress` groups the ports of one
address. `NetworkScan` knows only the phase and each target's outcome: it
finishes exactly when the last outcome is final, and no outcome is taken back.

`BrowseTree` — the two trees number their requests independently; the facade
maps its own browse ids back to a model and its number; the service reads a
browse result's attributes in chunks, and a failed read does not say which nodes
it was for, so it concerns every enrichment under way. A row is named by its node, so
the hierarchy is a tree: a node that a server shows in two places would have two
rows in the code. The tree's
disconnect on a project switch is merged with the end of the session.

`ServerRuntime`, `ServerStudio` — the process, its unread output, the
controller, and the two blocking waits (`waitForFinished`) during which only
the process and its output advance; `after` is what the studio does when the wait
returns. A project's content is a number that grows with each edit, `since` the
contents the studio has held since the runtime was started.

`NodeService`, `DataView` — the session is one step of the client here, its
establishment being `OpcUaService`'s subject. A live value is abstracted to the
server it came from, so that a value of an earlier session is visible as such.
`contested` records node ids of which rows of two servers exist; the code keys
subscriptions by node id alone and cannot tell them apart, so `RowsWatched`
exempts them. `InOrder` says whether the backend answers reads in the order
asked: with `FALSE`, `SelectionIsAnswered` fails, because the decode failure of an
older read discards the structured reader of a newer one. The runs use `TRUE`,
and the property claims no more than that.

`CloneBrowser` — `m_visited` admits a node id once, so a work node is its id, and
the server's references are one of `Graphs`, chosen at the start. A request may
be refused at once, answered late, in parts, with an error, or never; answers
that arrive between the report and the deferred deletion are still handled.
`finalizeNode()`'s recursion upwards is the set of ancestors that wait for
nothing but the one below them. A walk that ends at its timeout reports what
it has without marking it truncated: `WholeSubtree` is about walks that end by
themselves.

`StructuredNodeReader` — beside the clone's walk, but without a visited set, so a
node of the reader is the path that leads to it and a cyclic server is cut by the
caps only. A value is abstracted to how it is classified. Elements of one index
come in any order, as `std::sort()` may leave them.

`ScanInput` — addresses of `AddressBits` bits and octets of `OctetBits`, so that
prefixes 0, all but one and all, the top of the address space and the largest
range fit the instance. A text is the form it is read as and its numbers;
the removal of blanks and labels is left out. `ScanIsWhatWasMeant` compares what
is started with a reading of the text that does no arithmetic of the width.

`ServerProject`, `ProjectEditor` — a node id is its namespace, its path of names and
the suffix that made it unique. A document is what the other side reads of it:
writing and reading are operators, not the identity (NodeSet2 keeps no rules, no
simulation and no security). A start is one step from the validator to the exit
code or the built server; the life of the process is `ServerStudio`'s.

`RuntimeEngines` — one thread: `fired` (actions of the rules being run, in the order of the
rules) and `due` (simulated variables of a tick, in the order of the project) are what the
call stack still has to do, and nothing else happens before both are empty. Timers are a
sequence by the time that is left; a unit of time is long enough for the loop to handle all
that is due. A simulated value is coerced as its type does it; one that its type does not
hold, whose conversion is undefined in C++, is left out.

`DataTable` — a view is the sequence of table rows it shows; a live value
re-sorts it, so that the position a menu or an editor kept can come to mean
another row. `sent` remembers the last write or removal with the row that was
meant. `TrendModel` — times are small numbers, the wall clock may be set back,
and a curve is a sequence of points, stepped for a boolean node and sloped for any other.

`ProjectManager`, `AppShell` — a state is one record, and every operation maps it to
the next, because one handler of Main.qml runs several of them. Writes fail at
will, files vanish or break, a session starts and a layout is sampled at any
moment, the program crashes and starts again on what is on disk. `waived` is a
history variable: whether the user chose Discard on the way to what is open.

`UpdateController` — an answer is a release's version and page, or nothing; whether
the Maintenance Tool exists, starts, or a page opens is chosen at each use.

Several runs hold two or three components that do not interact: a variable
`part` or `side` chooses one for the whole behaviour, and a step of it leaves the
others alone. They share a run because each is small; no property relates them.

## Runs

| Run | Instance | What it shows |
|---|---|---|
| `manager` | 2 projects, 2 URLs, 1 backend, a password prompt, the local runtime's connection, 2 user actions at any moment | `BusyIsWatched`: a busy request is pending and timed; `ListsAnswerLatestRequest`: lists belong to the latest request; `MirrorsFollow`; `SessionBelievedIsReal`, with every wait for a session able to end; the composition implements the service's `Spec` |
| `manager_live` | 1 project, 2 backends, 3 user actions taken when the queues are empty, a client that does not repeat its disconnection | `ReconnectEnds`, `ServiceSettles` |
| `discovery` | scanner: 3 targets, 2 of one address, 2 probes at a time, a cancel or a second scan at any moment, 6 clients. Dialog: every range text over 4-bit addresses, lists of up to two ports texts, two interfaces, one restart. Trees: root – A – {B, C}, A enriched in 2 chunks, 3 fetches, 2 sessions, 2 user actions, both together 3 but for an expansion under a reveal left over | `ClientServesCurrent`, `CountersMatchRows`, `ImplementsScan`, `ScanEnds`; `ScanIsWhatWasMeant`; `FetchingIsAnswered`, `SearchFlagsLoaded`, `RevealWaits` |
| `studio` | studio: 2 paths and the temporary file, 2 edits, 2 starts, 3 saves. Engines: four projects (rules in a cycle; delayed and immediate copies; simulated values that trigger; refused writes on a strict server), 3 client writes, 2 certificates, 1 restart | `EndedIsClean`, `ServesWhatWasStarted`, `StopEnds`; `DrivenAsDesigned`, `WritesSettle`, `OfferedIsKept` |
| `data_view` | session: 2 servers with the same 2 node ids, 4 user actions, 1 write, 1 queued value at a time. Table: 2 rows, 2 values, a filter. Trend: 3 samples, a window of 2, 4 ticks | `RowsWatched`, `ValuesOfThisSession`, `SelectionIsAnswered`; `RowsMeantAreReached`; `CurvesAreTrue` |
| `clone` | walk: every server of four nodes (A below the root, W not), 2 of them variables, cycles and shared nodes included, and two of six nodes; node cap 4, depth cap 3. Reader: three shapes, depth cap 2, node cap 5. Editor: 2 edits of every kind, two servers, four foreign documents: a complete one, one with a node below an id it lacks and the editor can make, a circle of parents, a node that is its own parent | `ReportedOnce`, `WholeSubtree`, `WalkEnds`; `ValueTreeIsWhole`; `EditsKeepReferences`, `AcceptedServes`, `FilesKeepTheProject` |
| `desktop` | shell: 2 files, one in two spellings, a path that is gone, a recent list of 2, 1 edit, 2 starts. Update: 6 releases around version 1.2 | `RecentsInOrder`, `SavedMeansInFile`, `NothingLostUnasked`; `OfferedIsNewer`, `UpdateCheckEnds` |

Types are the first conjuncts of one invariant of each run (`ManagerTypeOK`,
`TypeOK` in `CountersMatchRows`, `RowsWatched`, `EndedIsClean`, `WholeSubtree` and
their like), so that they are checked with what rests on them.
`SessionBelievedIsReal`, `SelectionIsAnswered`, `WholeSubtree` and `DrivenAsDesigned`
are likewise conjunctions of parts that belong together; each part has a comment
of its own.

Five runs end in a counterexample, each of something the code's own comments say
(the quotes are under `findings`):

- `manager_switch`: a project opened while another's session is being
  established does not disconnect it, because the mirror does not say connected
  yet; the session then becomes the stored connection of the new project.
- `manager_backend`: `setBackend()` deletes the client, whose queued
  `connected()` still sets `m_clientConnected`.
- `studio_stale`: edits made while the runtime starts are not marked as needing
  a restart.
- `data_view_writes`: two writes on one monitored node have a handler each on the one
  object; the first answer runs one of them, which disconnects both, so it is reported
  once and the refusal of the second write never.
- `desktop_discard`: after Discard on the way out the project keeps its mark, so
  the close that `Qt.quit()` asks of the window is refused and the prompt comes back: the
  program never ends by Discard.

### Why the bounds are enough

The errors these properties are about need two requests whose answers cross, or
two owners of one object, and one event that ends the session between. Two
URLs, backends, projects, servers and nodes give each request a rival; three
commands (or user actions) are a request, its rival and something that
interrupts them; the third scan target makes the pool refill and the second of
one address makes the queue hold two queries. Two sessions make an answer of the
first arrive in the second. Every counter that could grow without end is bounded
in a guard: `MaxCommands`, `MaxUserSteps`, `MaxFetches`, `MaxSessions`, `MaxUser`, `MaxTurns`,
`MaxScans`, `MaxEdits`, `MaxStarts`, `MaxSaves`, `MaxWrites`, `MaxSignals`,
`MaxRestarts`, `MaxRuns`, `MaxClock`; in `DataView` the first read counts double and
a project found open at the start counts as one action. `MaxParallel`, `MaxNodes`, `MaxDepth`, `MaxReadNodes`,
`MaxReadDepth`, `MaximumSamples`, `MaxRecent`, `MaxAddresses` and `MaxPorts` are limits of the code
itself, small enough to be met. Deadlock is
not checked: an application nobody uses any more rests, and the bounds end the
runs.

### Fairness

- `OpcUaManager.Fairness`: both event loops go on, a timer that was started
  fires, and the client ends each connect and disconnect with some state. The
  last is an assumption on the library: the service has no timeout of its own for
  either. FindServers and GetEndpoints may stay unanswered for ever, and the user
  owes nothing.
- `CloneBrowser.Spec`: the walk's timer fires. No server owes an answer.
- `MCDiscovery.MCFairness`: each probe ends (its own timer) and the query's
  timer fires. No server owes an answer.
- `ServerRuntime.RuntimeFairness` with `CallReturns`: the end of a dead process is
  noticed, the graceful timeout fires, a killed process ends, a blocking wait
  returns. Nothing is assumed of a runtime that was asked to stop.
- `RuntimeEngines.EngineFairness`: the event loop goes on with the call it is in.
- `UpdateController.UpdateFairness`: a request for the release ends, because it has a
  transfer timeout (`updatecontroller.cpp:241`).

## Proofs

For every set of URLs, backends and authentication modes, any GUI and any
length of run, with only `ServiceAssumption` (the bad URL and `None` are not
URLs, supported modes are modes):

- `ServiceTypes` — `Spec => []TypeOK`. One lemma per group of actions. `TypeOK`
  is inductive as it stands, because it includes the two facts the handlers
  rely on: a pending request names a real URL, and so does what the backend has.
- `WatchedAlways` — `Spec => []BusyIsWatched`. Inductive as it stands: pending
  flag and timer change together in every handler, and the operation state is
  left whenever a flag is cleared.
- `ListsAlwaysLatest` — `Spec => []ListsAnswerLatestRequest`. Inductive as it
  stands: a new request empties the list in the step that changes the URL, and an
  answer is taken only for that URL.
- `ManagerUsesService`, `ManagerKeepsService` — `OpcUaManager`'s `ManagerSpec => Spec`,
  and so the two invariants above in the composed system, whatever the facade does:
  a step of the facade posts commands (`OpcUaService`'s `Gui` action) or is a stutter
  of the service.
- `ManagerTypes`, `MirrorsAlwaysFollow` — `ManagerSpec => []ManagerTypeOK` and
  `=> []MirrorsFollow`: the mirrors are the service's state but for the signals still
  queued, at every length of the queue and in any interleaving. Each action of the
  service gets a lemma naming the signals it emits, and that *those* carry the state
  before it to the state after it (`Announces`): a handler that changed a value
  without its signal, or emitted it before the change, would fail there. Then one
  lemma says that signals may be applied in two portions, which is what a delivery
  does. `MirrorsFollow` is not inductive by itself; `ManagerInv` adds that the
  inbox holds only messages the service can have posted (a fetch's only once its
  URL is remembered, a join's only once its endpoint is), that a new signal is
  one of the declared ones, and that a reconnect run waiting for a password knows
  its target. From `ServiceAssumption` and `ManagerAssumption`.
- `SessionAlwaysReal` — `ManagerSpec => []SessionBelievedIsReal`, for one backend and a
  client that answers a disconnect also when it has no session. Both are hypotheses of
  the theorem, because the property needs them: with a second backend `manager_backend`
  refutes it, and without the answer TLC finds a disconnect that waits for ever (no run
  keeps that one: whether the library answers is outside this code). `SessionInv` looks
  at the inbox: whatever the flag says, while the client is disconnected a queued
  `connected()` has a `disconnected()` behind it, and the reverse while it is connected
  (`After`); and a wait has a client at work, news of one queued, or a disconnect that
  will be answered. What a step does to the queue is always to take one message and
  append some (`Moves`), and lemmas of their own say what that does to `After` and `Some`.
- `WalkReportedOnce` — `CloneBrowser`'s `Spec => []ReportedOnce`, on every server
  and for all caps, from `WalkAssumption`. The invariant adds that the root has a
  work node once the walk runs, without which a browse answer could settle a root
  that was never started; one lemma says what `emitResult()` does to the count, one
  that settling a set of nodes keeps the invariant, and each handler cites them.
- `WholeSubtreeReported` — `CloneBrowser`'s `Spec => []WholeSubtree`, on every server
  and for all caps. `WalkInv`: the work nodes form a tree (`TreeOK`), each waits for
  exactly the children that are open (`Exact`), and a node whose browse was answered has
  all its references among the work nodes, unless the walk says otherwise (`Browsed`).
  Two lemmas carry it. `SettleExact` is about `finalizeNode()`: settling a node and
  each ancestor for which it was the last keeps every count exact, because the settled
  ancestors are a connected piece of one chain. `RootSettlesAll`: with exact counts a
  settled root leaves nothing open, for an open node highest in the tree would have a
  parent that waits for it, hence is open and higher. This is where the tree is
  finite and well-founded, and it needs no recursion.
- `ValueTreeAlwaysWhole` — `StructuredNodeReader`'s `ReaderSpec => []ValueTreeIsWhole`, for
  any shape of the server, required attributes and caps, from `ReaderAssumption` (a server
  names a member once, and only structures and arrays have members). The same two lemmas
  serve the reader: paths are a tree whose ancestors are prefixes (`PathsAreTree`), which
  is what makes a cyclic server harmless to it. `ReaderInv` adds what is known of each node
  (`Known`): unless something was missed, its kind once it was classified, its members
  once it was browsed, in the order of their index.
- `EndsAreClean`, `ServesNothingOlder` — `StudioSpec => []EndedIsClean` and
  `=> []ServesWhatWasStarted`, from `StudioAssumption` (the temporary file is none of
  the user's). `EndedIsClean` needs that a process which does not serve yet has
  written nothing and inherited nothing, and that without an executable there is
  never a process: a restart after a kill that timed out meets the old process.
  `ServesWhatWasStarted` needs the file followed from the start to the load: what
  the process will load is among the contents since its start, because whatever is
  written to a file meanwhile is the project's, which is among them too.
- `ClientAlwaysServesCurrent` — `NetworkScanner`'s `Spec => []ClientServesCurrent`,
  for any targets and number of clients, from `ScannerAssumption`. Inductive with
  the types of what the clients work on. One lemma is about `queryNext()`, which
  five handlers end with: between two queries exactly the retired clients work.
  It also shows that `Stale` is never true: the scanner's check of the request's
  URL is a second line of defence behind the retirement of blocked clients.
- `CountersAlwaysMatch`, `ScannerImplementsScan` — `Spec => []CountersMatchRows` and
  `Spec => ImplementsScan`: the scanner with its clients, lost and late answers
  implements `NetworkScan`, in which each target is probed once. The counters follow
  from cardinalities (each handler moves one target between the sets they count); the
  refinement needs the clients' invariant, because a step of a client that serves
  an old request must map to a stutter.
- `ScanIsAlwaysWhatWasMeant` — `ScanInput`'s `InputSpec => []ScanIsWhatWasMeant`, for addresses
  and octets of any width and any limits, from `InputAssumption` (what is typed are addresses
  and numbers, an IPv4 prefix is at most the width, the default ports are acceptable, and a
  scan may cover one octet's addresses). The invariant is plain: the errors are
  those of the fields, what is remembered was accepted, what was asked is of what
  is remembered. The work is in the operators. A range text is refused and means nothing, or
  is expanded between two addresses and means those in between (`RangeIsMeant`), which
  needs that networks tile the addresses (`Network`, `Block`) and nest (`BlockInBlock`), and
  that the count before the expansion does not wrap (`ExpandIs`). Ports are read part by
  part: each keeps that the list holds the ports meant so far, once, or that the
  error was due (`PartParsed`). `TargetsAre` counts the pairs by division with remainder.
  The library's induction takes an operator and cannot be used; the lemmas `UpTo`,
  `MadeUpTo` and `MadeForAll` do its work with sets and functions, from the
  well-foundedness of `<` on `Nat`, and so reach powers of two and the loops over ports,
  parts and interfaces, which are recursive functions.
- `SessionAlwaysStaged`, `ValuesAlwaysOfThisSession`, `RowsAlwaysWatched` — `DataView`'s
  `Spec => [](Types /\ SessionInv)`, `=> []ValuesOfThisSession` and `=> []RowsWatched`,
  for any nodes, servers, intervals, project files and numbers of actions, and for
  event queues of any length, from `NodeServiceAssumption` (node ids, servers, intervals
  and requests are not `None`; 0 is an interval; finitely many nodes) and
  `StoredRowsAssumption` (a file names a node of a server once and holds no values).
  Everything rests on what may stand in the two queues between a command
  and its signal. `SessionInv` says at which of five stages the session is:
  not asked for, asked for, opening, failed, or open with the news of its begin at
  place `i` of the signals and of its end at place `j` (`Framed`; 0 when the one has
  arrived, past the end when the other is to come), every queued value lying between
  the two. From it follows that a value the facade takes up is of the session it believes
  in. `WatchInv` follows the commands: running all those under way (`Leads`)
  turns what the service watches of a node into what its row wants (`Wanted`). An action on
  the table has to append commands that lead from the old rows' wish to the new rows'
  (`TableStep`); a removal from the highest index down, a retune that drops the
  item first, and a node that two rows name and one gives up, are where that is not
  evident. A new session meets no subscription left in the queue, and nothing
  watched; that is part of the stage `Open`.
- `SelectionAlwaysAnswered` — `InOrder => (Spec => []SelectionIsAnswered)`. `PanelInv`: each
  request under way, as command, read, reader or signal, is for the selected node unless a
  later one superseded it (`Meant`). `AnswerInv`: requests for values are
  commanded, sent and decoded in the order of their ids, so that a reader is never replaced
  by an older one; and while a panel's last request is unanswered one of the four holds it, or
  the end of its session is on the way. `InOrder` is needed in one lemma, `AnswersFound`,
  and `ShownIsSelected` does not depend on it.
- `FetchingAlwaysAnswered`, `RevealAlwaysWaits`, `SearchAlwaysFlagsLoaded` —
  `BrowseTree`'s `TreeSpec => []FetchingIsAnswered`, `=> []RevealWaits` and
  `=> []SearchFlagsLoaded`, for
  any address space, number of chunks, searches, paths and sessions, with no bound on
  fetches, from `TreeAssumption` (the hierarchy is a tree, methods have no children, a
  search matches nodes, paths are not empty). `Inv` has three layers. `ModelOK` is about
  one tree: what is pending and what is shown as fetching correspond one for one, rows
  hang below fetched rows, and exactly the loaded matches are flagged; each
  operation of the model keeps it. `Linked` is about both trees, the routing table and the
  ids under way: an id is the manager's own, an answer to a request still pending is
  about the node asked for, and every pending request has an id that will be answered or
  the end of the session is queued. It takes the trees, the table and the ids as
  arguments, so that an answer settles in three separate steps (take the answer, settle
  the request, route the reveal's next fetch). `RevealFits` says what a reveal over a present
  tree waits for. `FetchingIsAnswered` is not inductive: a failed read moves every
  enrichment on, and only because each then waits for a read of its own or has sent its
  children (`ReadOn`) does none lose its answer. That a fetching node's children are not
  loaded yet is the one place that needs the tree: with a cycle a fetching row could
  turn up below itself (`KidsAreNew`).
- `CurvesAlwaysTrue` — `TrendModel`'s `TrendSpec => []CurvesAreTrue`, for any nodes,
  values, window, sample cap and length of the clock, from `TrendAssumption` (finitely many
  values). `CurvesAreTrue` speaks of what is drawn, so it is not inductive: a pause
  ends, and samples outside the window come back into it. `TrendInv` speaks of all samples
  kept: they are in order, and until the next one each is what the node reported
  (`Remembers`), whatever was trimmed before. That the curve, which is cut one
  sample before the window and prolonged to its right edge, then shows the same is a
  theorem about one state, for stepped and sloped curves alike: each point is at the level
  reported then, and the last point at or before an instant has the level reported at it.
  A stepped curve keeps that level up to the next report, so it shows what the node
  reported and nothing else; a sloped one runs straight to the next sample, through values
  the node never had, and no more is claimed of it between its samples. Once the clock
  is set back only order and range are claimed.
- `RowsAlwaysReached` — `DataTable`'s `GridSpec => RowsMeantAreReached`, for any nodes, values,
  filters and number of updates (`GridAssumption`: finitely many nodes). `GridInv` says that a
  node has one row, that what is shown exists, and that an open editor's row is still the one
  it was opened for: while it is open no step moves rows, only what is shown of them. The
  removal goes through the places from the last on, and `ShortSoFar` says what is left
  after each of them: the rows before it untouched and first, then those not selected.
  Removed from the first place on, each row would move the places still to be removed.
- `OfferedNeverLost` — `EngineSpec => []OfferedIsKept`. The invariant covers the list
  read at the start as well: what it accepts is stored nowhere else.
- `AlwaysDrivenAsDesigned` — `EngineSpec => []DrivenAsDesigned`, for any project in which an
  id means one node (`ServedAssumption`: the runtime refuses another before it serves). Of
  a copying action that is the only writer of its target, `EngineInv` says where the last
  value of its trigger is (`Following`): with an action still to perform, or with the last of the
  timers for the target, or in the target with no timer left. The step that matters is a new timer:
  none for the target has more time left than it gets, so it comes after all of them,
  and no copy overtakes a later one. That a copy is taken at all needs the
  types of trigger and target to agree on the wire, which is why an enumeration declared with
  another type is among the projects TLC runs. For the simulation (`Ranged`) a counter stays
  in its range.
- `NoReferenceIsLeft`, `AcceptedAlwaysServes`, `FilesAlwaysKeepTheProject` — `EditorSpec =>
  EditsKeepReferences`, `=> []AcceptedServes` and `=> []FilesKeepTheProject`, for any ids,
  names, paths and documents and any number of edits. `EditorInv` says what all three rest
  on: the lists are lists, a node has the fields of its kind and no others (`NodeOk`), an
  action has a known mode, each file is a project without the literals no action uses
  (`Trim`), and a project without the unsaved mark is, so trimmed, the one in its file. Each
  edit has a lemma saying that it keeps `ProjectOk`, leaves `References` whole and, where
  parents lead to the top from every node (`Rooted`), keeps them doing so; removing a node
  needs that the ids left are exactly those not below it. `ReferencesShow` says that
  without a missing parent this is what the tree of the editor shows (`ShowsAll`), so an edit
  hides a node only where a circle of parents did before, or where a document left out
  a parent and a new node takes its id. Serving is about one state: a snapshot reads back as
  `Trim(project)`, which is valid and builds if and only if the project does, and a valid
  project builds if and only if no ids clash on the server and no parents lead round in
  a circle (`ValidBuilds`): the nodes the builder's loop leaves over have their parents
  among themselves (`AllCreated`). The loops that go down the tree are the operator
  `Hanging`, the least set closed under the links, which is what a loop that ends when
  nothing is added computes; filters are the function `Keep`. Two assumptions, on shapes
  only: a clone reports a list of nodes with ids (`CloneAssumption`), and a foreign document
  is lists of types and elements with ids (`DocumentAssumption`). Its parents may be
  missing, lead in a circle, or be the node itself.
- `OfferedAlwaysNewer` — `UpdateSpec => []OfferedIsNewer`, from `VersionAssumption` (versions
  are sequences of numbers). The comparison chooses the first place that differs;
  that there is one follows from the well-foundedness of `<` on `Nat`.
- `SavedAlwaysInFile`, `RecentsAlwaysInOrder`, `WorkNeverLostUnasked` — `AppShell`'s
  `Spec => []SavedMeansInFile`, `=> []RecentsInOrder` and `=> NothingLostUnasked`,
  for any files, servers, layouts and number of recent entries, with settings written by
  this program or by none (`ShellAssumption`: `loadRecentProjects()` neither drops
  duplicates nor shortens). `ShellInv` ties three places together: the open project heads
  the list, and without the mark its work is in its file (`Sound`); an open dialog or a
  deferred request that would replace the project is there only once its loss is waived,
  none is open, or its work is in its file (`MayGo`); and the stored list is the shown
  one, or a crash would bring an older one back. Without `MayGo`
  `NothingLostUnasked` is not provable: the step that loses work is dialogs away
  from the answer that allowed it. Each operation of `ProjectManager` has a lemma
  saying that it keeps `Sound`; the end of the program is one more step that gives up the
  work, and a crash the only one that may; `addRecent()` keeps keys unique and the length
  bounded through `OfOtherFiles`.

Each follows the usual pattern: the initial states satisfy it, one step keeps it (a
case for every action), and PTL joins the two. What each excludes is what the
mutants put back, e.g. a timer stopped without its flag.

Only model-checked: the properties under fairness (`ReconnectEnds`, `ServiceSettles`,
`ScanEnds`, `StopEnds`, `WritesSettle`, `WalkEnds`, `UpdateCheckEnds`): liveness is outside
the prover's reach. What the five runs that expect a violation check is not a theorem.

## Not modelled

- CSV export, the clipboard, column widths, zoom, themes, locales, help and fonts;
  logs, value formatting and highlighting: presentation, on which no other part
  depends.
- Endpoint addresses and value texts: formatting and parsing of single strings.
- The node database beyond its one-time migration into a project: one SQL statement
  per operation.
- Of the trees, the ticks of monitored nodes and the snapshot for a clone; of a
  server project, users, texts and initial values: only what another part
  depends on is kept.
- A client deleted by `setBackend()` under a running walk or read.
- Real time: a timer may fire at any moment after it is started, so what depends
  on one duration being longer than another is not decided here
  (`RuntimeEngines` and `TrendModel` count ticks of one clock).

Properties the code does not have are not claimed. Where a comment promises one, a run shows
it (above). The others, each met while modelling:

- *Session and data.* A reveal interrupted by a disconnect stays active until a
  later fetch (`RevealWaits` exempts it). Answers to writes are lost with the
  object an unsubscribe deletes. A project switch does not clear the View panel.
  Rows of two servers with one node id share values and subscriptions
  (`dataaccessmodel.cpp:399`).
- *Table and trend.* The row menu keeps the view row and resolves it when an entry is
  chosen (`BsNodeDataView.qml:887`, `539`), so its entry may open the editor of another row,
  which names the row it edits. `rangeFor()` ignores samples older than the
  window, so a value unchanged for longer than the window is not drawn, although
  `trendmodel.h:104` says it is extended; a clock set back drops samples. Only booleans
  are drawn in steps: the slopes of all others show values that were never reported.
- *Desktop.* One slot holds the deferred action, so the window's button overwrites
  the request a prompt was opened for. The guard runs before the file dialog: a
  connection or layout captured while it is open is lost unasked, and a layout not yet
  sampled lands in the next project. A first copy of the old settings that fails
  is never tried again.
- *Clone.* A walk that times out reports what it has as a success, not marked
  truncated (`clonebrowser.cpp:66`); the answer of a clone replaces whatever project is
  open by then.
- *Server project.* The validator accepts two kinds of project that the builder refuses
  with exit 8, although `tests/unit/tst_serverprojectnodeset.cpp:125` speaks of "runnable":
  a clone that keeps its ids and contains the `Server` object, and nodes whose parents
  lead round in a circle (`serverprojectvalidator.cpp:100` checks only that a parent exists).
  An imported or opened file brings the circle, or a node added under the id that a
  partial import lacks closes it; the tree does not show what is in it. `AcceptedServes` says that
  there is no third kind. Removing an enumeration
  detaches the variables of the first type of that name and removes all. Ids are made
  unique per kind only. Two namespaces of one URI become one at runtime. Removing a
  node also removes every rule that has no action.
- *Engines.* Simulated writes fire rules although `ruleengine.h:86` speaks of external
  writes only. Rules and simulation write an enumeration variable with its declared
  type, so the server refuses it silently, although `serverprojectdata.h:183` says that type
  is ignored. A counter with a negative step leaves its range
  (`SimulatedInRange` exempts it).
- *Certificates.* `trustRejectedCertificate()` removes a trusted copy before a move
  that may fail: the certificate is then untrusted again, not lost.

## Plan

Done, in this order: the service, facade and project switching with their proofs;
the scanner; the trees; the runtime and studio; the data view; the clone's walk
with its proof; the scan dialog; the server project with its editor; the runtime's
engines; the table and the trend; the structured reader; the project manager with
the shell; the update check; the proofs of the studio, the scanner's clients, the
certificates and the offers; the proofs of the facade's
mirrors, of the scanner's counters and refinement, and of the desktop's files and
prompts; the proofs of the data view, of the trend and of the trees; the proofs of the
session against the client's, of the reports of the walks and the readers, of
what the runtime's engines write, of the editor's edits and files, of the sorted
table and of the scan dialog's texts. What would come next: the studio's process and
its project editor composed, edits by kind while the server runs, instead of one
content number.
