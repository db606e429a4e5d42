# TrustSight Harness: TLA+ specifications

The harness measures TrustSight, a static analyser of PKGBUILD changes. Campaigns
generate diffs, run each through a pinned TrustSight in a worker process, judge the
report, and publish what got past it; a regression gate replays every recorded
bypass. What makes the harness correct is that its numbers mean what they say: a
verdict belongs to the declared environment, a find is counted once, a cell is closed
on evidence, a bypass that was recorded stays replayable. These modules state that
about the code and check it.

Paths below are relative to the root of the repository, `src/` in `PROJECT.json`.

## 1. The system

| component | state it keeps | operations | hard behaviour | what makes it correct |
|---|---|---|---|---|
| campaign loop, `harness/campaign.py` | attempts, archive of the run, dedup sets, cells filled | adopt the instrument, gate a diff, restore and canary, analyse, judge, record, minimise, stop, publish | failures between any two steps, a configuration reload, the order of the gates | verdicts of the declared instrument; finds counted once; nothing published by a refused run |
| judge, `harness/judge.py`, `status.py` | none | report to status | the order of its tests | more evidence never makes a bypass; the gate reads it as the campaign does |
| archive, `harness/archive.py` | `archive.json`: cells with observations, duplicates, patch status | observe, note duplicate, set patch status, merge, save | concurrent writers, kills, repeated merges | no update lost, no observation twice, one atomic merge |
| recorder and known bypasses, `harness/recorder.py`, `dedup.py`, `sweep.py` | `record.json`, `evidence.jsonl` per campaign | truncate, append, write; index every record | overlapping and repeated runs, kills, upgrades | a record names what its evidence holds; origins do not drift |
| regression gate, `harness/regression.py`, `regression_cache.py` | cache file, archive patch statuses | preflight, hash sources, replay, retry, cache, compact, update cells | edits of the sources, degraded replays, pool deaths, kills | rows answer for the installed sources; nothing retired on a gap |
| runner, `harness/runner.py`, `analysis_worker.py`, `portal.py` | session, lock, watchdog, worker process | analyse, restore, rebind, restart | threads, crashes, hangs, deadlines | a reply answers its own request, under its environment; every call ends |
| network, `harness/net.py` | in-memory and on-disk ledger of request times | acquire, save, fetch, retry | threads, processes, kills, torn or unwritable ledger | caps and budgets hold; every fetch ends |
| worker pool, `harness/pool.py`, `pool_worker.py`, `sandbox.py` | worker processes | spawn, batch, read, reap | one death discards every result | no partial result is used |
| environment, `harness/environment.py` | TrustSight's configuration and database | load, bind, restore, canary, fingerprint | a cached connection, copies that fail half way, files of earlier runs, drift during a run | what is measured is what was declared; drift is refused |
| minimiser, `harness/minimize.py` | none | ddmin with a budget of oracle calls, the re-check around it | budget, a failing analysis | the result is still a bypass of its cell, and minimal if the budget allowed |
| MCP server, `harness/mcp/server.py` | job table, analysis lock, the paths of the process | start, finish, expire, evict and poll jobs; the other tools' analyses | deadlines racing answers, abandoned threads, tools that take no lock | a job ends once and always; nobody measures another's environment |
| validators, `validators/` | none | parse, prove a chain, check constraints | string algorithms over shell text | a refused diff is never charged |
| generators, `generators/` | money spent, cursor | produce a diff | cost ceiling, failures | the ceiling holds |
| matrix, coverage, audits, statistics | none | pure passes over archive and records | what an empty or cold reading may claim | agree with the archive and with each other |
| false-positive reports, `fp_triage.py`, `fp_report.py`, `fp_fix.py` | a directory per day: reports, reproducers, `triage.json` | gather, merge, write, verify | several files per report, kills, a verifier without the lock | the mapping names what is there; nothing is forgotten |
| false-positive fixes, `fp_agent*.py`, `code_fixes.py` | a temporary tree | check a verdict, gate fixes, apply, roll back, render | a killed `git apply`, fixes that meet in a file | what is published is what is listed |
| peers, `harness/feed.py`, `aur.py` | snapshot cache | query, download | limits on untrusted answers | cached text is the text of its version |
| command line, configuration, scripts | none | parse, render | - | - |

Interactions. A *sweep* runs campaigns as processes. A *campaign* owns a `Runner`,
reads every `record.json` at its start, and at its end replaces its own record and
merges its cells into the shared `archive.json`. The *gate* reads records and evidence
of all campaigns, replays them in its own `Runner` or in a *pool*, and writes patch
statuses into the same archive. The *MCP server* starts both as jobs in threads of one
process, whose TrustSight paths are global and change hands under one lock. *Peers* share one rate-limit ledger between threads and processes.
Threads talk to a worker over one pair of pipes; everything else goes through files.

## 2. The modules

A mapped definition names its lines in `PROJECT.json`; constants that stand for
code outside the repository (TrustSight, the kernel, the clock) are marked external.
An MC module gives the constants of its module small values; a `_proofs` module holds
its theorems.

**Judge, JudgeWalk.** `Verdict` is `judge()` with its tests in order, over a report of
findings with their severities, gaps and score; `PatchStatus` and `GateState` are
the readings `patch_verification` and `_classify` make of it. JudgeWalk's steps add
one piece of evidence to a report, so that an action property compares a report with
one that says more.

**Measure, Measure_proofs.** One instrument over a run of measurements, from
`load_environment` to the judge. A database is a file and the connection a second
reference to it: `Clear` closes the one and unlinks the other, `Seed`, `Copy` and
`Import` refill it and may stop half way, `Analyze` records what it finds (`sees`) and
leaves its observations there. `Bind` may find any earlier configuration in the
directory and leaves or overwrites its threshold (`Applied`). The report then accretes
evidence as in JudgeWalk, which Measure extends, until `Check` looks at its threshold and
fingerprint. A report may leave out either (`shown`): without a threshold there is nothing to
compare (`Disagrees`), and without a fingerprint it has none, which a run that declared or
adopted one refuses. `vouched` is history: a report that says both has passed in this run.
`Reload` and `Restart` are the world.

**Probe, Readings, Matrix.** The pure passes, as operators. Probe is
what a rule probe fires, misses and records (`_run_probe`, `_run_artifact_probe`).
Readings is the layer audit, the warm replay of a record's bypasses and the coverage
report. Matrix extends Grid with the state of a cell, a row and a release, the difference
of two matrices, and the map a generator is prompted with. They have no state, so they
are proved about (in `Measure_proofs`) and not run.

**AurCache.** `AurClient.pkgbuild` by several threads and processes over one cache
directory, with the AUR as an actor: `Ask`, `LookUp`, `Fetch`, the two halves of the
`write_text` (`Truncate`, `Write`) or a cache that cannot be written (`Uncached`); `Leave` is
an answer taken, an error or a kill, and `Push` the next release. `ReadSnapshot` is what a
tarball is accepted for. Releases are not bounded, so the module is proved about
(in `Measure_proofs`) and not run.

**ServerTools.** What the server does again for a client, as operators over Judge:
`validate_diff` beside `_validate`, `judge_verdict` over a report rebuilt of the parts that
were sent, the calibration suite and `preflight`. Its theorems are in `Measure_proofs`.

**Grid, Grid_proofs.** The cells of an archive as functions from a key to an entry:
`Observe`, `NoteDuplicate`, `SetPatchStatus`, `MergeEntry`, `IsClosed`. Every module
that touches an archive uses it, so a change of the algebra is a change in one place.

**CampaignRun, CampaignRun_proofs.** One call of `run_campaign`. `Boot`, `AdoptCanary`
and `AdoptFingerprint` are its start; an attempt goes through the gates of `_validate`
(`StageOf`, `Validate`, in that order), then `Restore`, `Canary`, `RestoreAgain`,
`Analyze`, `Judge*`, `Minimize`, `FillCells`, `EndAttempt`; the three publications are
three steps. Worker failures, a kill and a reload of TrustSight's configuration may
happen between any two. The database is clean or dirty, the configuration the adopted
one or another; a diff is a model value with the stage it would fail, its cells and
the report it would get.

**AtomicArchive, SharedArchive, SharedArchive_proofs.** `merge_into` by several
processes. A campaign reads the file without the lock when it starts (`Load`), fills a
grid in memory (`Duplicate`, `NoBypass`, `Bypass`), and at its end takes the lock, reads
again, merges and renames (`Acquire`, `ReadBase`, `Save`, `Release`); the gate merges a
grid of patch statuses the same way (`Replay`). A process may be killed anywhere, and
the kernel then drops its lock. AtomicArchive says what the merge promises: a writer
prepares a grid of its own, and the file takes it whole in one step. SharedArchive
implements it with the writer's memory as its pending grid.

**Corpus, Corpus_proofs.** The records and evidence files through several runs. `Start`
indexes the records in sorted order and then empties the campaign's evidence;
`Duplicate`, `Refuse`, `Measure` are the outcomes of an attempt; `OpenRecord` and
`WriteRecord` are the two halves of a `write_text`, which truncates first; `Stop` kills
or aborts; `Upgrade` installs the next TrustSight. `met`, `published` and the field
`measured` of a run are history that no guard reads.

**Gate, Gate_proofs.** `run_regression` with its cache. The sources are a revision that
`Edit` changes at any moment; the worker keeps the revision it imported, the hash is
taken later, and pool workers import later still. `Put` appends and, past the cap,
compacts. `edited` remembers whether the sources changed during the run.

**Runner, Runner_proofs.** Threads call `analyze`, `restart` and `rebind` of one runner under its
lock. A worker is unborn, in setup, live or dead and has an inbox, an outbox and the
environment it is bound to; the watchdog is armed, disarmed, fires and kills as its
own thread; a worker may answer, fail, crash or hang at any point. A
spawn may raise before the clone (`CloneRefused`), during the child's setup (`SetupRefused`)
or after its exec, when the pipes are wrapped (`WrapRefused`); nobody kills the child of the
last two, and `stranded`, which is history, remembers it. The requests are represented by
`analyze`: `restore` and `parity_check` take the same path.

**PacedFetch.** `Fetcher.get` and the limiter under it, for threads in several
processes with one ledger file, which is absent, readable or torn. `grants` is history: the
slots granted within the last window. Its theorems are in `Runner_proofs`. Time is a
discrete clock that advances only when every thread is waiting: idle, queued for the
lock, napping until a moment still ahead, or waiting for its peer. A request waits as long
as its socket operations do: each has the timeout that the deadline left when the request
was sent (`Patience`), at least the floor of a tenth of a second, which this clock rounds up
to one unit, and at most `Reads` of them, redirects and the head's reads included, come
before the code looks at the deadline again, which it does when a chunk of the body arrives
(`Chunk`). `Reads` is httpx's; nothing in the repository bounds it. What takes no time in the
model (a read or a write of the ledger) takes little in the code; what takes time is explicit.

**Ddmin.** The minimiser and `_minimize` around it. A pipeline is the set
of those sets of change lines it accepts. `Begin` is `minimize` up to the search; the
steps of the search are one oracle call each (`Reduce`, `Reject`, `Raise`) or the end of
a pass (`NextPass`, `OneLeft`, `BudgetOut`), with the slice that is dropped (`Rest`) and
the complement that is asked about (`Victim`) kept apart as the code keeps them; then the
re-check (`Unreduced`, `Confirm`, `Refute`, `RaiseInCheck`). `asked` is history: the
calls that were really made, beside the ones the code counts. Its theorems are in
`CampaignRun_proofs`.

**Jobs, Server_proofs.** The server's jobs and the other tools' calls as actors of one process. A job
has a status, a timer and a thread (`CreateArmed`, `StartThread`, `CreateRefused` and
`NoThread` for a process out of threads); `Finish` is whichever of worker and timer comes
first, under the table's lock, and `Settle` writes the remaining fields, so that a poll
(`Look`, `AnswerPoll`, without the lock) can read between them. An analysis points the
process's paths (`Point`), writes there (`Fill`, `Load`) and may raise or never return;
`strayed` remembers a write that reached another's directory.

**FpReport.** Several authors of reports of one day, and a verifier. An author asks with
verdicts, evidence and perhaps a reproducer (`Ask`), takes the lock or times out, merges
with what is registered (`Merge`, refusing changed evidence or an unsettled entry with a
reproducer), and replaces report, reproducer and mapping one after the other; `Break`
kills it between any two. `Open`, `ReadFiles`, `List` and `Analyse` are `verify_report`,
which takes no lock. Its theorems are in `Server_proofs`.

**Evidence, FixTree.** Evidence is what a snapshot says of a finding, with three values
for recipes that cannot all be read. FixTree goes from verdicts (`Fp`, `Tp`, `Uncertain`)
through the rendering of one pull request to the gate of its fixes (`Gate`, caps and
collisions in the code's order) and the temporary tree: `Applies`, `Fails` and `Killed`,
which leaves any of its files written or removed, are one `git apply` each. A file's
content is what the checkout had of it, if anything, and the sequence of fixes in it; a fix
may create files and delete files it does not name, and a later one may create a deleted
file again, from nothing. Their theorems are in `Server_proofs`.

**Listing.** What is kept of a list and what a list adds up to, for the job table and the
accepted fixes: recursive functions of a set and of a function, because nothing can be
proved here of a fold or a selection that takes an operator.

## 3. What is checked

Passing runs (sizes with the given configuration):

| run | instance | states | shows |
|---|---|---|---|
| CampaignRun | 3 attempts, 8 diffs, 1 reload, 2 faults | 209 008 | seven invariants of a run, from the verdict's environment to the published files |
| JudgeWalk | module Measure: 7 environment blocks, 2 rules, 3 severities, 2 gaps, 3 scores and thresholds, reports that say all, some or nothing of their configuration, 1 restart | 5 529 444 | analyses find the declared database; a bypass is one the tool left unflagged; evidence never hides a bypass |
| Corpus | 2 campaigns, 2 diffs, 3 versions, 4 runs, 1 kill | 2 193 426 | records are replayable, measured bypasses stay, finds are counted once, origins do not drift |
| Gate | 3 items, 2 cells, 3 revisions (2 with one label), 3 runs, 1 kill | 725 061 | rows and hits answer for the installed sources; nothing is retired on a gap |
| SharedArchive | 2 campaigns, one run twice and one that cannot name shapes, the gate with 2 bypasses of one cell, 1 kill | 352 599 | no update is lost, merges are atomic and finish, provenance is kept |
| Runner | 2 threads, 2 environments, 3 calls | 571 825 | replies, environments, deadlines and workers belong together; a stranded child is never used; every call ends |
| PacedFetch | 3 threads in 2 processes, window 3, limit 2, 2 calls of up to 3 attempts, socket timeout 2 and 2 reads, 2 kills | 155 850 | the cap holds; only a request in flight outlasts a budget, and by how much; every fetch ends |
| Ddmin | every pipeline over 4 lines, every two-cause one over 5, budget 9, 1 failure | 500 842 | a reduction is accepted, and 1-minimal if not cut short |
| Jobs | 3 jobs, 2 at a time, a table of 2, 1 call of any tool | 568 381 | one outcome per job and always one; environments do not mix under the lock; the table forgets the oldest |
| FpReport | 2 authors, 3 reports, 2 packages of an alert and one of them in a later alert, 1 kill | 2 450 152 | the mapping holds, nothing is forgotten, a verification misses nothing |
| FixTree | 2 verdicts of up to 2 of 7 fixes, 4 files, caps of 2 files and 3 lines | 238 683 | the published files are the checkout's with the listed fixes; the caps hold across packages |

The type invariants of CampaignRun, SharedArchive, Corpus, Gate, Ddmin, Runner, PacedFetch,
FpReport, Jobs and FixTree are proved and left out of the runs, as are
`StopHonoured`, `SpendIsTrue` and the grid lemmas, which are proved for every instance.

Why the bounds are enough. The campaign's eight diffs are two that are the same
measurement, two that share the unshaped cell under different chains, one that fills two
cells, two known bypasses (of the installed and of another version), and one that does
not parse; three attempts let a first claim what a second repeats after a failure, with
one to spare. Two campaigns are the fewest that overlap; four runs
are a find, its rediscovery, the rediscovery of that, and an overlapping run. Three
revisions are the fewest that let a cache hold one that is neither current nor
previous; two of them share the version label. Two threads are the fewest
that can read each other's reply, and three calls let one follow a timeout and a
respawn. A window with two slots of three units makes the third slot wait, which the
retries of two calls ask for, with one thread in another process to share the ledger but not
the lock; a budget as long as the socket timeout ends inside a request of two reads. Four lines
pass through the granularities two and four and five through two, four and five, with
chunks that do not divide the length; a budget of nine ends some searches and not others.
The environment blocks are every database state, with a seed that matches, one that does
not and none, a snapshot that fits and one that does not, and a block that accumulates;
scores and thresholds straddle the declared threshold, and one restart finds what a
killed run left. Three jobs over a table of two evict, and two running ones queue for
the lock beside a tool that takes it or not. Two packages split from one base share
evidence, and a package in two alerts shares its reproducer's file; three reports are a
pair that races and one that follows. Of the seven fixes some
meet in a file, one deletes another's file and creates its own, one creates the deleted file
again, two together exceed the line cap, one names a path that may not change and one is
refused by the format.

What the invariants carry. `CapHolds` speaks of ledgers that were neither torn nor
unwritable nor written by two processes at once (`spoiled`): the code documents
degraded pacing for the first two and does not lock the file against the third.
`BudgetHolds` excepts the thread that queued on the in-process lock, which no deadline
covers, and allows the one request in flight to outlast the budget by `Longest`, the socket
operations between two looks at the deadline; a peer that drips the head of a response makes
that as long as httpx lets it. `BypassIsUnflagged` speaks of reports that say their threshold,
and of the others in a run in which an earlier report vouched for the configuration; in the
rest a report without a threshold has nothing to compare (`environment.py:399-400`,
`tests/test_environment.py:329-336`), and the tool may have flagged what is judged a bypass.
`NoOrphans` excepts the children that a raising spawn leaves (`stranded`), and says that they
are never bound, asked or made a session. `PublishedIsListed` excepts files that are not UTF-8,
which are dropped while their fix stays listed; a listed fix's deletions are not published,
and a file created again starts from nothing.
`RowsAnswerTheirQuestion` speaks of runs during which nothing was edited.
`CountedOnce` speaks of campaigns that did not overlap. `OwnBindings` excepts the tools
that take no lock, `MeasuredFromDeclared` campaigns that accumulate, and
`VerifiedMissesNone` a reproducer registered for a second alert after the mapping was
read. Each exception is a window the code has open; it is named in the property, not
hidden in the model.

One run ends in a violation: it states what the repository says and the code does not do
(`findings` in `PROJECT.json` quotes both). `UnwritableLedgerStillPaces`: after a failed
save the next acquire loads the old ledger over the timestamps it held in memory
(`harness/net.py:190`).

Divergences between code and its docs, tests or comments, and behaviour a reader would not
expect, met while modelling; the models take the code's side. In campaigns and archive:

* a campaign merges back a patch status older than the gate's decision (`archive.py:131`;
  line 128 gives the gate the last word);
* running a campaign again at the same version drops its own bypasses from record and
  evidence (`campaign.py:788`; `tests/test_regression_gate.py:73-74`);
* the compacted cache can stay above its cap, and is then refused by every later run
  (`regression_cache.py:175` and 147-148; 29-31);
* a verified cell stays closed at every later version (`archive.py:250`), while
  `docs/reference/campaign-config.md:156-158` says that a new version reopens it;
* the re-check of a minimised diff is outside the `try` of the search, so a validator that
  raises there ends the campaign (`campaign.py:894`; the docstring at 857-858 says that a
  failure of minimisation never fails a run), and it is one analysis more than
  `minimize.py:116-117` and `tests/test_minimize.py:7-8` allow ("bounds the extra analyses
  exactly"); the spend of a minimisation that is dropped is not recorded at all
  (`campaign.py:392-395`);
* a known bypass can still be skipped by the semantic and saturation gates
  (`harness/campaign.py:834`; `dedup.py:119-121` says it is never skipped);
* a run can finish above the abort rate, which is only tested on an error
  (`campaign.py:732`), and a harness failure in restore or canary is no attempt but
  ends the run (`campaign.py:220`; `docs/reference/statuses.md:26`);
* the gate's merge clears the degraded mark of a campaign's cell (`archive.py:137`);
* a kill between the record and the shared grid leaves cells nobody merges later
  (`campaign.py:454`);
* of two bypasses of one cell the last decides (`regression.py:411`,
  `regression.py:337-338`), and an edit between the worker's import and the hash
  caches a verdict under the wrong hash (`regression_cache.py:1`);
* a probe's "bypass" is a rule that stayed silent, whatever the tool's verdict, while
  `layer_audit.py:11-12` reads a bypass as UNFLAGGED; the record of a probe whose every cell
  failed lists no missing rule, and probes have no abort rate.

In the readings:

* a cell that is merely saturated is drawn as closed, and its row as hardened, and a cell
  created by a duplicate as open (`matrix.py:46`, `matrix.py:5-6`); a bypass confirmed on
  a patched cell leaves it closed at every version (theorem `PatchedCellStaysClosed`);
* `matrix_diff` counts a cell that was saturated at another version among the new bypasses
  and names no cell that vanished; a degraded cell that is saturated is closed in the
  prompt map and unresolved in the matrix;
* `confirmed_full` of a warm replay is always empty, since no build lane ever runs
  (theorem `NothingIsConfirmedWithoutTheLane`), and the replay compares neither canary nor
  fingerprint; an accumulating but empty database counts as warm;
* the coverage report counts rules the contract does not have as targeted (theorem
  `CoverageAccounts`).

In the instrument and its peers:

* a declared seed or snapshot is never imported when the environment accumulates
  (`environment.py:269`), and a threshold left in the directory by an earlier run is not reset
  when the declared one is the default: the run is then refused, not mismeasured;
* a dead worker is replaced after the request that finds it dead has failed
  (`runner.py:354`, `runner.py:385`);
* the limiter's cap is one of the process once two processes overlap
  (`net.py:144-145`), and time spent queueing on its lock is not charged to the
  deadline;
* "an operation can never outlast its budget" (`net.py:111-116`), but a request can: the
  deadline's rest is the timeout of each phase, hop and read (`net.py:331-338`), never less
  than a tenth of a second, and the deadline is looked at only after a chunk (`net.py:263-265`);
* a report without a threshold passes whatever the tool flags at (`environment.py:399-400`),
  while the docstring at 388-396 says that the disagreement is refused on every attempt;
* a child whose setup, exec or pipes fail after the clone is left alive
  (`runner.py:285-295`): the spawn's deadline is disarmed and no session knows its pid;
* a package pushed between the index request and the snapshot request is cached under the
  version before it (`aur.py:344`); `LabelsAreNeverOlder` says that it is never the other way.

In the server and the false-positive pipeline:

* `benign` and a serial `sweep` take no analysis lock and may move the paths under a job that
  holds it (`mcp/server.py:1756`; lines 118-122 say that every tool that analyses takes it);
* a poll between the two writes of a finish answers `completed` without the result, and a
  job whose thread or timer could not be started stays "running" for ever and keeps its slot;
* `judge_verdict` reads a score, findings or gaps that were left out as none
  (`mcp/server.py:639`; its docstring at 606 says that they must be there), so that a caller
  who omits them is told of a bypass; `validate_diff` judges a recipe by its hunks where a
  campaign has the whole of it (`mcp/server.py:546`, `campaign.py:803`); a shallow `preflight`
  can be ok where calibration fails (`mcp/server.py:1675`);
* a reproducer written before a kill is registered nowhere and makes every verification of
  its day refuse (`fp_report.py`, `fp_fix.py`);
* a second fix identical to an accepted one is dropped without a rejection, a `git apply`
  killed after it removed a file makes the rollback raise (`code_fixes.py:420`), a changed file
  that is not UTF-8 is dropped and rejected by its path while the fix stays in the list the
  pull request shows (`code_fixes.py:430-443`), files a fix deletes are no targets, so that
  the deletion is made in the temporary tree and not published, and the renderer does not
  look at `verified`.

Every property of a passing run has a mutant: a plausible bug in one mapped definition
that makes the run fail on that property.

**Fairness.** `SharedArchive`: a process that waits for the lock, or holds it, is
scheduled; weak fairness is enough because the others run finitely often, and nothing is
assumed of kills or of the start of runs. `Runner`: caller
threads, the watchdog's firing and its kill; *nothing* is assumed of a worker, which
may hang for ever, and that is the point. `CloneIsPrompt` says that the clone itself,
not the setup after it, publishes the pid before the deadline: the code can only kill
a pid it knows (`harness/sandbox.py:209`). `PacedFetch`: as long as some thread or the
clock can step, one of them does; `time.sleep` returns and a request comes back or
times out. `Jobs`: a finish that can happen does, which is the timer thread waking at
its deadline (a positive one: `HARNESS_MCP_JOB_TIMEOUT_S` of zero arms no timer) and the
worker's last statement; nothing is assumed of an analysis or of the analysis lock.
FpReport, FixTree, Measure, Corpus, Gate, Ddmin and CampaignRun state safety only and
need none.

## 4. What is proved

For every value of the constants that satisfies the named assumption of its module (finite
sets of campaigns, a saturation that is a positive number, and the like), and without bounds
on the number of steps:

* `Measure_proofs`: `DeclaredForever`, `BypassForever` and `EvidenceForever`, the three
  properties of the JudgeWalk run, for every block, directory and history of kills and
  reloads. The invariant (`Restored`) says at each step of a restore what TrustSight would
  read if it opened the database now, through its connection or by name: nothing that an
  earlier analysis wrote, and the part of the declared content restored so far.
  For the second (`Vouches`): once a report that says all has passed, the run's fingerprint is
  that of the judge's own configuration, and every report judged later was made under it.
  `VerdictIsMonotone` and `ReadingsAgree` are about the judge alone: of two reports the one
  that says more is a bypass only if the other is, and campaign and gate read a status
  alike. Of the server's tools: `ToolValidatesAlike` (validate_diff and a campaign agree
  where the generator supplied no whole recipe), `DefaultsErrTowardsCaught` and
  `PartsNeverCatch` (what judge_verdict assumes of a caller that says less: no expectation
  or mode gap never makes a bypass, an omitted part of the report never catches one).
  Of the readings: `WarmingNeverBlinds` and `NothingIsConfirmedWithoutTheLane` of the audits;
  `CoverageAccounts` of the coverage report; `DiffIsComplete`, `PatchedCellStaysClosed` and `PromptMapAgrees` of
  the matrix; `ProbeVerdictIsTheCells` and `ProbeRecordAnswers` of the probes;
  `MisclassifiedIsCertain` of the evidence: what a recipe hides never decides. Of the
  snapshot cache, `LabelsAreNeverOlder` (what is answered under a version is of that version
  or a later one; the invariant says the same of every cached label, caller and write in
  flight) and `SnapshotIsWhole`.
* `Grid_proofs`: the typing of the cell algebra: observing, noting a duplicate, merging and
  slicing turn grids into grids. Both archives' proofs rest on it.
* `CampaignRun_proofs`: `TypeCorrect` and the seven invariants of the run.
  - `Reproducible`: a verdict recorded is one of a clean database because at every point of
    an attempt where it matters the database is known to be clean. The strengthening
    (`Measured`) says that the analysis starts from the declared database and that until it
    is judged the report in memory is the diff's own.
  - `FindsCountOnce`: every find has passed the hash gate, and the attempt in flight, which
    has passed it too, is none of them yet (`FindsSeen`); with that each new line extends
    the recorder's three lists together (`CountedOnce`).
  - `EveryCellEarned`, for a run whose archive names no earlier run of the same campaign at
    the installed version (`FreshStart`: a run started again cannot tell its own
    observations from its predecessor's). The invariant (`EarnedInv`) is an equivalence: an
    observation of this run is in a cell's entry exactly when the trace it names is a bypass
    that fills the cell.
  - `AnalysedOncePerKey`: the counters of the semantic gate are cardinalities of sets of
    traces, and an admission claims at least one new key before its line is written
    (`KeysInv`).
  - `SaturationKept`, for an archive that starts below the saturation (`StartsBelow`): the
    room that the saturation gate saw in a cell is still there when the attempt it let
    through turns out to be a bypass (`Room`).
  - `StopIsHonoured` needs `BelowStop`: an attempt in flight was generated below the
    declared count. `RefusalsPublishNothing` and `FinishedWhole`: only the last three steps
    of a run publish (`RefusedEarly`), one after the other from a memory that no step
    changes any more (`Published`).
  - Of the minimiser, `SearchTypeCorrect`, `Accepted`, `Minimal` and `SpendCounted`, for
    every diff, pipeline and budget. `RestIsTheComplement` shows that the slice dropped is
    the one asked about, `ChunkBounds` that a pass has chunks of at least one line, and of
    exactly one when the granularity has reached the length; the invariant `Searched` says
    that such a pass has found each line behind it to be needed.
* `SharedArchive_proofs`: `TypeCorrect`, `Kept` (no merge removes an observation, lowers a
  duplicate count or grows a representative) and `MergeIsAtomic` (`Spec => AtomicSpec`). The
  invariant (`Locked`) is that whoever is between `Acquire` and `Release` holds the lock,
  and that what it read is still what the file says. `FinishedStays`: what a campaign holds
  in memory from its merge on is in the file (`Finished`), which only grows.
  `ProvenanceKept`, for files that start with every observation once (`OnceAtStart`): a
  merge takes over the count of an observation only when the file does not have it, so the
  invariant (`Provenance`) is that what a memory counts twice, and what it holds of an
  earlier run under a number the run has yet to reach, the file has already.
* `Corpus_proofs`: `TypeCorrect`; `Replayable` and `MeasuredStays`, from one invariant
  (`Saved`): what a run has in memory is already in its evidence, which only the campaign's
  own runs write; `NoDoubleCount`, from `Counting`: of two runs that never overlapped the
  later has the earlier's finds in its index, and what it finds is outside its index;
  `OriginTraced`, from `Traced`: every origin on disk and in memory is a published find,
  older than the run that rediscovered it (the hash gate supplies the strict inequality).
* `Gate_proofs`: `TypeCorrect`; `RowsAnswer`, whose invariant follows a verdict from the
  sources the worker imported to the row and the cache line that carry it;
  `NothingRetiredOnAGap`, since only a complete analysis is classified as closed and only
  such rows verify a cell.
* `Runner_proofs`, of the analyser: `RepliesAreMine`, `AnsweredThere`, `NothingLeftRunning`
  and `DeadlinesHitTheirOwn`, from one invariant (`RunnerInv`). `Pipes`: at most one line is
  under way, the request or the answer of the call that reads from that worker. `Claimed`: a live worker
  is the session's, or a call has just spawned it, or its spawn raised; `Young` and `Strands`:
  one that has not started, or was stranded, is bound to nothing and was asked nothing. `Bound`: the session's worker
  is bound to the runner's environment, which `rebind` sets first, or the request that will
  bind it is still to be answered. `OwnDeadlines`: a deadline, armed or firing, belongs to
  the call that holds the lock. `Staged` is what each line of a call knows.
* `Runner_proofs`, of the fetches: `BudgetKept`, since no pause a call chooses outlives its
  deadline, a request sent or a chunk taken within it is waited for no longer than `Longest`
  past it (`InBudget`), and time passes only in a pause, a request or the queue; and
  `CapKept` with the ledger undamaged. Its invariant (`CapInv`) says who holds each limiter
  (`HoldsLimiter`), that only one thread is between reading and writing the ledger, that
  outside that section the file says of the last window what was granted in it
  (`LedgerTells`), that the pause of the thread inside ends when the window has room
  (`Closing`), and that what it then saves is the window with its own slot (`Saving`). The
  lemmas on sequences say that the aged prefix exists and is unique, and that dropping now
  and again later is dropping later (`RecentTwice`), which is why a limiter that slept
  agrees with one that did not.
* `Server_proofs`, of the reports: `TypeCorrect`, `MappingNamesFiles`,
  `NothingRegisteredIsMissed` and `ReportsForgetNothing`. The author under the lock plans
  the mapping as it is with what its request brings (`Planned`), and at each of its three
  replacements the files that the next one will name are there (`Staged`); what the verifier
  listed is registered in the mapping that it had read (`Surveyed`). Of the jobs:
  `FirstOutcomeStands` and `BindingsAreOwn`. What a poll was told is the outcome the job has
  (`ToldAsIs`), which no later finish overwrites; every tool but the benign one is inside
  under the lock (`Guarded`), and from its bind to its last use of the paths it finds its
  own environment or that of a tool that takes no lock (`Pointed`). `OldestForgotten` needs
  that the table has no repetitions and stays within its bounds (`TableHolds`): fewer jobs run
  than the table holds, so a full one has an ended job; the one that finished first is among
  those dropped, and a job that is kept has more finishes before it than one that is dropped.
* `Server_proofs`, of the pull request: `RenderingTyped`, `PullRequestIsItsFixes` and
  `PullRequestWithinCaps`, for alerts of finitely many packages and diffs of finitely many
  files. The accepted fixes meet in no file, keep the caps and name only allowed files
  (`GateHolds`), and those that are listed are, with those still queued, a part of them
  (`ListHolds`, `QueueHolds`). With that each file of the temporary tree is gone or holds what the
  checkout has of it, unless a listed fix deleted that (`Based`), and the listed fixes that
  name it (`TreeHolds`): a fix that applies extends files that no listed
  fix names, and after one that fails or is killed the files are what they were.
* The lemmas on lists behind both (`FilteredMore`, `TotalOfMore`, `AppendDistinct`,
  `TotalOfRest` and others) unroll a recursive function. The induction they need is one over
  the set of indices at which a statement holds (`Counting`), a well-founded argument that
  names a set where the library's induction theorems take an operator.

The three assumptions on what a run starts from (`FreshStart`, `StartsBelow`, `OnceAtStart`)
are hypotheses of their theorems and hold of the instances TLC checks, where they are
evaluated (`StartAssumption`). What FpReport assumes of the names of files is that
reproducers are named apart from reports.

Model-checked only: the liveness properties `MergesFinish`, `EveryCallEnds`, `EveryFetchEnds`
and `EveryJobEnds`, which are outside the prover. Every invariant and action property that a passing run checks
is proved. `UnwritableLedgerStillPaces` is false.

## 5. Not modelled

The text level: shell parsing and behavioural validation (`validators/`), how generators
and the language model produce diffs and what they cost, diff parsing, redaction,
rendering, YAML and command-line parsing, `introspect.py`: string algorithms, or sequential
input and output without state of their own. Statistics, which are floating-point
arithmetic. The pool's scheduling of batches. The MCP server's tools that only read. The
false-positive pipeline's calls of a language model and of git's transport, the
`environment.yml` it writes, and the ownership and size checks on its files. The benign
corpus scan, the feed client's queries, the checks of a response.

Within modelled parts: stray output of a worker that shifts replies, the
kill of a process group already reaped, a portal shared by several runners, file
descriptors left by a refused spawn, a clock set backwards, legacy evidence without
the analysed text, a torn last line of evidence, the baseline comparison of the gate's
report, a patch that renames a file and carries its content to another, a probe refused by the
canary or the fingerprint (which leaves no trace and no record). The lines a fix adds are
those the code counts. `PROJECT.json` lists every hazard, those no property covers with the
reason.

## 6. Plan

Built, in order of importance: Judge, Grid, CampaignRun, SharedArchive with
AtomicArchive, Runner, PacedFetch, Corpus, Gate, Ddmin, Jobs, FpReport, FixTree with
Evidence and Listing, Measure, Probe, Readings, Matrix, ServerTools, AurCache; and the
proofs of all of them. Next:

1. The cost ceiling of the LLM generator (`generators/llm.py`), beside the stop rules.
2. The pool's batches, as a refinement of Gate's `Fail`.

## 7. Running

    tlc -workers 2 -config Corpus.cfg MCCorpus
    tlapm Corpus_proofs.tla

Each run of `PROJECT.json` names its module and configuration. Runs take from two
seconds to about two minutes; the proofs, about 10 800 obligations, some twenty-five
minutes together.
