# ICIL competition orchestrator: a TLA+ development

This directory specifies the orchestrator's core - what it promises about its queue, its duels and
its published record - and checks it: TLC on small instances, TLAPS for every value of the
constants. Source paths are relative to `src/icil_orchestrator/` unless they say otherwise.

## 1. The system

An orchestrator keeps a competition's crown. Submissions wait in a queue per track; each is duelled
against the track's king; the verdict is appended, signed, to an append-only store that readers
verify for themselves. One process at a time holds the store (`store_lock`): the daemon for its
whole life, or a duel run by hand. Beside it, `queue add`/`remove` and the intake change the queue
file under its own lock. Everything survives on disk, and any process may be killed at any point.

| Component | State it keeps | Operations | Talks to | Hard part |
|---|---|---|---|---|
| Challenger queue (`queue.py`) | `queue.json`: entries, the duel in progress, the block counter | add, offer, remove, pop, take, put_back, start, finish, claim/advance/set block | daemon, command line, intake | users interleave between a look and a take; an entry re-added while its duel runs |
| Result store (`store/writer.py`) | signed index parts, `head.json`, event files, media, touched files | write_event, append, repair_tail, rebuild_head, write_queue, put_media | duel lifecycle | a kill inside a line, between line and head; a stale head |
| Duel lifecycle (`duel/orchestrate.py`, `ids.py`) | one run directory per event id: request, prompts, sides, outcome | record_request, run, publish, republish | store, sides, runtimes, mirror, live frames | resuming at any stage, at most one record, the crown moving meanwhile |
| Daemon (`daemon.py`) | tracks it has given up on | step, resume, baseline genesis | queue, lifecycle, store | kills between three writes; a duel kept in progress for ever |
| Command line (`cli.py`) | - | duel by hand, queue, store, submission, benchmarks | all | numbering duels from the same counter as the daemon |
| Sides and prompts (`duel/side.py`, `duel/materialize.py`) | `results.jsonl`, the prompt manifest, unit directories | run_side, materialize_units, attribute | benchmarks, runtimes, ledger | torn lines, budgets, who is to blame for a void unit |
| Scoring (`duel/score.py`) | - | too_void, paired_outcome, verdict | lifecycle | exact thresholds |
| Orphans (`duel/orphans.py`) | a ledger of process groups per unit | started, ended, reap | sides, runtimes | pids reused, order of kills |
| Policy runtimes (`duel/runtime.py`, `local_runtime.py`, `docker_runtime.py`) | a served policy | fetch, prepare, serve, reap | policy protocol, containers | telling a policy that ended from one that was ended |
| Policy protocol (`packages/icil-policy`) | one session | hello, reset, prompt, act, close | benchmark and submission | deadlines against late replies, hang-ups |
| Intake (`admin.py`) | connection slots, limits | submit, publish | queue, daemon | snapshots published from threads, retried requests |
| Live frames (`live.py`), mirror (`store/mirror.py`) | last frame sent; nothing | post; push | dashboard; the Hub | deadlines; pushes that fail, restarts |
| Store verification (`store/verify.py`), records, canonical JSON (`store/records.py`, `canon.py`, `rng.py`) | - | verify, sign | store | must agree with the writer |
| Submissions (`submissions/`), benchmarks (`benchmarks/`) | fetched trees, images, containers, subprocesses | fetch, check, build, run | Hub, Docker | mostly I/O; time-outs and kills of subprocesses |
| Duel specification (`spec.py`) | one JSON file | load, validate | all | none: no state |

What makes the core correct:

- **queue**: a submission waits once; nobody is overtaken but by a stale duel put back; an entry
  that leaves the queue for a duel is decided, failed, or back;
- **store**: lines numbered 1, 2, 3, never dropped or changed; the head never says what no line
  says; the event file on disk is the one its record signs;
- **lifecycle and daemon**: each duel recorded once, against the king the duels before it crowned;
  what a run directory decided stands; a declared baseline takes the empty throne first; a duel in
  progress ends;
- **sides and scoring**: both sides of a published duel were played from the same prompts and are
  scored on the same units, so the crown is the one their paired outcomes give;
- **policy session**: an answer is the answer to the call just made; a side is charged only with
  what its own policy did; no call outlives its deadline, no server its client - or, where the
  policy holds the interpreter, its unit;
- **what a kill leaves**: whoever starts next ends it; what is not theirs is ended in the two cases
  only where a number was given again (below); no attempt at a unit runs beside an earlier one or
  reads its result;
- **intake**: slots are given back once; the published snapshot never goes back and never misses a
  change its own process made; a request ends though the mirror hangs.

## 2. Modules

`DuelIds` names things: a submission is a model value, an event id the tuple its hash is taken of
(block, challenger, king), so two ids are equal exactly when their hashes' inputs are.

`ChallengerQueue` (queue.py). `entries`, `inProgress` and `block` are the file's three fields. Every
mutation runs under `_locked` and ends in one atomic save, so each is one action. `Without` drops
the one entry of a key where the code filters all of them; `UniqueKeys` makes the two equal. `pop`
and `advance_block` are called by nobody in `src/` and are modelled with the rest.

`ResultStore` (store/writer.py), for one track. `index` is the whole lines, parts joined: `part_of`
only names the file a line is in. `tail` is what a stopped `os.write` left, by where it was cut:
inside the body, inside the signature, or only before the newline - the three cases the readers
(`iter_index`: what parses before the tab) and the repair (`_is_signed_line`) tell apart. `append`
is three actions, one per durable write (repair, line, head), with the index lock held across them
in `appending`; `rebuild_head` is two. `AbandonAppend` is a kill or an exception at any point in
between. `StoreNext` lets any writer do any of it in any order, provided the event is not published
already (`Unpublished`), which the lifecycle checks.

`CrownLineage` is what a reader is promised, with no queue, file or fault in it: a lineage that only
grows, each duel in it once, each against the king the ones before it crowned.

`Orchestration` (daemon.py, cli.py, duel/orchestrate.py) composes the queue and the store with the
processes that hold the store. `owner` is who has `store_lock`, `pc` where that process is, `req`
the duel it runs, `runs` the run directories, `throne` the daemon's `stalled` set for this track. A
step is at most one durable write, so a kill can come between any two:

| `pc` | code |
|---|---|
| `step`, `drop`, `ask`, `take`, `seat`, `number`, `start` | `Daemon.step`, `_resume`, `_baseline_genesis` |
| `run`, `look` | `Orchestrator.run` up to `_check_crown` |
| `play` | `_run` up to `_publish`: refused, void, failed, unavailable or played |
| `publish`, `append`, `line`, `head`, `outcome` | `_publish` and `Store.append` |
| `rebuild`, `rehead`, `redecide` | `_republished` and `Store.rebuild_head` |
| `settle`, `failed`, `moved` | what `Daemon._run` or `_duel` does with the result |

`Kill` ends the owner anywhere; `PublishFails` is a write raising inside `_run`'s `try`;
`StepCrashes` one raising outside it. The queue's other users (`QueueUsers`) interleave everywhere.

`DuelUnits` (duel/materialize.py, duel/side.py, and `_run`, `_evaluate`, `_merge` of
duel/orchestrate.py) opens the `play` step for one duel. `manifest` and `results` are the JSON-lines
files a duel resumes from: `lines` is what parses, `tail` how a stopped append left the end (cut, or
whole without its newline); `Appended` puts the next line where the code does, onto that tail.
`prompts` and `rows` are the process's own view, rebuilt at each run from the files. A prompt is the
number of the materialization that made its file, since no two of them hash alike, and `left` is
what lies in a side's unit directory. `orphans` are benchmarks whose orchestrator was killed; they
may write there until reaped.

| `pc` | code |
|---|---|
| `fetch` | `reap_orphans`, fetching and checking in `_run` |
| `materialize`, `prompted` | `materialize_units`; `prompted` is before `_append` |
| `evaluate`, `result` | `_evaluate` and `run_side`'s loop; `result` is before `_append` |
| `playing`, `ended` | `_play` and `run_unit`: before and after the benchmark ends |
| `over` | `outcome.json` written; how a record is published is `Orchestration`'s |

Whether time is left, how a policy ended and whether a benchmark wrote a result are choices. The
start of a benchmark and its ledger entry are one step, and a reap finds every group it should:
`Orphans` says when that is so.

`Score` (duel/score.py) is pure: `Average` over the skills that have a rate (`Total` adds them up),
`CrownMoves`, `PairedOutcome`, `Tally`. Rates are exact fractions; the code's floats are given `SCORE_EPSILON` for
a margin met exactly, which exact fractions do not need. `DuelVerdict` extends `DuelUnits` with it:
whatever rows a duel publishes, whichever units each side won and however units fall into skills,
the crown decided from each side's averages is the one `MarginMet` gives from the paired outcomes.

`StoreVerify` (store/verify.py) extends `ResultStore` with the check a reader runs: the errors it
reports of the index, the events and the head, as a set. A torn line has lost its signature or its
newline; signatures, hashes and schemas hold of whatever was written whole.

`PolicySession` is one unit against one served policy. It has the orchestrator (`unit`, `verdict`:
duel/side.py and the two runtimes), the server's session thread and its hang-up watch (`server`,
`watch`: icil_policy/serve.py), the benchmark's client and its deadline timer (`client`, `conn`,
`timer`, `late`: icil_policy/client.py), and the socket between them (`requests`, `replies`,
`shut`). A message carries its call's number, which the wire does not, so that the abstract
specification `PolicyCalls` can say what is promised: each call is answered by the reply to that
very call or lost, and after a lost one nothing is answered. `reasons` records what the policy did
wrong; `ChargedFairly` relates it to the verdict. `stuck` is a policy whose native code holds the
interpreter (serve.py:24-25): no thread of its server runs again, and its server ends when the
orchestrator ends the unit.

`Intake` (admin.py, with the parts of daemon.py, orchestrate.py, writer.py, mirror.py and cli.py
that publish a queue) extends `ChallengerQueue`. The states of the queue file are numbered
(`change`); a snapshot is the number of the state it shows. A publisher - a request's thread, the
daemon's loop, the command line - asks, takes the snapshot, writes it and touches the file in four
steps, under `Daemon._publishing` or the store's lock. `conn` is each connection's thread, `loop`
the daemon's step up to the push, `behind` the files the mirror lacks, `touched` and `loop.carried`
what the daemon knows of them. `served` says whether the intake runs in the daemon or apart.

`Orphans` (duel/orphans.py, with duel/local_runtime.py, benchmarks/subprocess_runner.py and
duel/side.py) is the process groups of one unit. `procs` are processes with pid, start and group,
strangers included; any leader may start one more process in its group, which may outlive it. A pid
is given again once neither a process nor a group has it and its parent has waited for it: `waited`
and `seen` are the places of `at` where the orchestrator has, and has not killed the group yet
(`proc.wait`, `process.poll`). `born` stands for start times. `unit.ledger` is `pids.json`; `at` is
how far the attempt is, each durable or visible step of it by itself.

`PolicyContainers` (submissions/container.py, docker.py, duel/docker_runtime.py, submissions/check.py)
is the same question for containers: processes in pid namespaces start containers with owner labels,
each at a shared directory with a tmpfs on it. The orchestrator's directories are fresh ones; a
submission check uses the one under its `--work`. Every docker and mount command may fail, and a
preparation may raise before its mount or after it (container.py:337-363); nothing is released then,
since `bounded` is set only when it returns (465, 543).

`Survivors` puts the two beside each other: with the local runtime a killed orchestrator leaves
process groups, with the docker runtime containers, and neither reaper reads what the other ends, so
a behaviour has one or the other.

A definition whose comment begins `Slip:` is not part of the model. It is a plausible mistake in the
definition that follows it, kept to show that each property notices one.

`MC*` modules only bound the state and declare symmetry. The `*_proofs` modules hold the proofs (section 4).

## 3. Runs

| Run | Question | Bounds |
|---|---|---|
| `daemon` | the daemon alone implements `CrownLineage`; its head is current whenever it is idle | 2 submissions, 3 blocks, 2 kills, all cuts: a genesis, a duel and a third duel behind a kill of each |
| `all_faults` | with duels by hand and writes that raise, over the real callers of the queue and the store: no submission waits twice or is overtaken, none with a request on disk is dropped, lines numbered and kept, one record per event, its event file, the crown; the reader's check reports just the stores that are not healed | 2 submissions (one to overtake, one overtaken), 2 blocks, 2 faults, all cuts: a torn line after a stale head, twice |
| `settles` | a duel in progress ends, under fairness; the declared baseline is first; the daemon and duels by hand share counter and directories | 2 submissions, one the baseline and one duelled by hand too, 2 sizes (so that two requests differ in nothing else), 3 blocks (a genesis and two duels of one challenger), 1 kill anywhere |
| `units` | one duel resumed after kills: published rows complete, void for both or neither, played from the recorded prompts, no orphan's result read; the crown as the paired outcomes give it; always decided | 2 units (one may be void), 2 sides, 2 kills (the second in what the first made a rerun), result lines cut, prompts written over; units of one skill and of a skill each, margins 1 and 75 points (met by any win, and only by a clean one) |
| `intake` | requests, the loop and the command line publish one queue | 1 submission at 2 sizes (queued, reported, refused and taken), 2 connections for 2 slots, 2 submissions or operator's changes, 2 faults: a request during a push that fails, under a kill |
| `session` | one policy's session, the policy doing anything at any point | 3 calls (one lost, one after it, one before), every kind of message, docker runtime (whose ends include the local one's) |
| `survivors` | what a kill leaves running, with either runtime | groups: 3 pids (a policy, a benchmark and what they or a stranger start; or a stranger given the number of either, and what it starts), each given twice, 2 attempts, 2 accidents; containers: an orchestrator and a check, 2 namespaces of 2 pids, each given twice, 3 containers, 2 mishaps (a kill and a failed command, or two of either) |

`MaxBlock` bounds the duels asked for, `MaxFaults`, `MaxAccidents` and `MaxMishaps` the kills, boots and
failed writes or commands of one behaviour, `MaxRequests` what is sent to the intake or typed by an
operator, `MaxCalls` a session's calls, `MaxBorn` and `MaxStarts` how often a pid is given; the queue
itself is bounded by its keys. Two submissions suffice where a king and a challenger do;
permuting them is a symmetry of the specification where no baseline is declared and the command
line may run either.

**Fairness** (`FairSpec`). A process that holds the store keeps running (`WF` of the loop, of the
duel's steps and of the command's end). The daemon's start is strongly fair: a duel by hand can
take the store between two tries, but not for ever. Playing is strongly fair for the daemon only:
`HarnessUnavailable` leaves the duel in progress and the next step resumes it, and the harness is
assumed not to be away at every try. Nothing is assumed of the command line, of other users of the
queue, or of the number of faults beyond its bound. `DuelUnits` makes the same three assumptions of
its one duel: it is run again, the harness is not always away, and a step of the process that runs
it happens (every subprocess has a timeout, so waiting for one ends).

`Intake` assumes that threads run and that a request ends by its deadline; nothing of the push,
which may hang for ever, nor of the daemon's start. `PolicySession` assumes that the client's call,
and the timer run, which are threads of the benchmark's process, and that a living orchestrator stops
a benchmark at its timeout and ends the unit after it. The session's thread and the watch are threads
of the policy's own process: their actions are disabled for good once the policy holds the interpreter
(`stuck`), which it may do at any point, so their fairness says something only of a policy that does
not. Nothing is assumed of the policy's code or of the benchmark. Ending a unit takes its server away;
a `docker rm` that fails is `PolicyContainers`' matter. `Survivors` states safety only.

`daemon`, `all_faults` and the others where a process can always be restarted are checked for
deadlock; where the bounds end a behaviour (every call made, the unit judged, the duel decided, no
request left) the configuration says `CHECK_DEADLOCK FALSE`.

**Runs that end in a violation.** Each states what the repository says and shows the order of steps
in which the code does otherwise.

- `former_king`: README: "A duel is never published against a king who no longer holds the crown".
  A duel by hand is killed after its line and before its head (writer.py:302-316). It is not in the
  queue's `in_progress`, so nothing rebuilds the head; the next duel faces, and publishes against,
  the former king. For the daemon alone the property holds (`daemon`: a duel in progress is
  resumed first and heals the head), as does the refinement.
- `torn_signature`: orchestrate.py: `outcome.json` says "published (with the record)". A line torn
  inside its signature parses before the tab, so `_published` takes it for the record; the repair in
  `rebuild_head` drops it; the outcome says published and the index has nothing.
- `entry_lost`: daemon.py: a stale duel's "challenger's entry goes back to the head of the queue". A
  kill between `move_aside` and `put_back` leaves a duel in progress with no request, which the next
  daemon finishes.
- `prompt_remade`: materialize.py: "Both sides then run from those same files". A line appended to a
  manifest that ends in a torn line is lost with it; the duel goes on with its prompt, and after
  another stop makes the prompt again. Results already recorded stand, from the prompt before: with a
  kill between the sides the king plays another demonstration than the challenger, and the published
  sha256 is that of one of the two. The `units` run therefore tears result lines only, and shows that
  there the same append costs a unit played twice (against side.py's "a unit that finished is never
  run twice") but no property of what is published.

- `stranger_killed`: orphans.py:20: "A process group is killed only while it is still the one
  recorded". `_still_recorded` takes a group without a leader for the recorded one (133-136),
  because a group's number is not given again while it has a member. But the recorded group may have
  ended entirely while no orchestrator ran, and its number be another program's, which forked and
  whose leader then ended - as a program that becomes a daemon does. The next start kills the child.
  The boot and the leader's start time are compared, so it takes the same boot, the same number and
  a leader that has ended; `survivors` shows that those are the reaper's only wrong kills.

Three more orders of steps that the model allows and a reader of the code may not expect. A store
write that raises after the line ends in `DuelFailed` ("Nothing is published", orchestrate.py:32-33)
though the record is published, and the daemon finishes the entry with the head behind. A block
asked for by hand is handed out again for a duel that was refused or void there (cli.py:451-456).
Between the look and the take an entry may be re-added at the back, at another size: it is taken
from there, and the duel fought at the size seen first (daemon.py:125-143).

## 4. Proofs

Every invariant and every action property that a passing run checks, and both refinements, are also
theorems, in eight modules: for any submissions, sizes, blocks, units, skills, calls, connections,
pids, containers, kills and failed writes. Each `*_proofs` module states an inductive invariant,
shows that the initial states have it and that each action keeps it, and reads the properties off it.

Assumptions on constants, each beside its constants in the module that declares them: null is no
other value (`NoneAssumption`, `MarkAssumption`, parts of others); lines are torn in the three ways
listed (`CutsAssumption`); the writers are the daemon and the command line, a spec has a size, a
declared baseline is a submission (`OrchestrationAssumption`); a duel has at least one unit and its
sides are the challenger's and, unless it is a genesis, the king's (`UnitsAssumption`); a unit has a
skill, a margin is in percent (`VerdictAssumption`); there are finitely many connections, named
otherwise than the loop and the command line, and a slot (`IntakeAssumption`); finitely many pids,
0 not one of them (`OrphansAssumption`); finitely many programs (`ContainersAssumption`); one of two
runtimes (`SessionAssumption`). The bounds need only be numbers.

Five theorems have a hypothesis besides, which a violating run shows to be needed:

| Theorem | Under | Without it |
|---|---|---|
| `PublishesALineage`, `AgainstTheHolder`, `HeadIsHealed` | `DaemonAlone`: nobody runs duels by hand, and no write raises | `former_king` |
| `SaidPublishedIs` | no line is cut inside its signature | `torn_signature` |
| `PlayedFromOnePrompt` | no kill cuts a line of the manifest | `prompt_remade` |

A write that raises is in `DaemonAlone` because the daemon then finishes the entry with the head
behind. The `units` run checks `SamePrompt` under the same restriction as the theorem.

### Queue, store and duel lifecycle

`ChallengerQueue_proofs`. `QueueInv`, the type invariant with `UniqueKeys`, is inductive: `Without`
leaves a queue of typed, distinct entries in which the key does not wait (`WithoutKeeps`), so an
entry put behind it (`OneBehind`) or in front of it (`OneInFront`) is the only one of its key.
`QueueTypeCorrect`, `OneEntryPerKey` and, since each operation keeps the order of those who stay,
`NobodyIsOvertaken` follow.

`ResultStore_proofs`. `SeqContiguous` and `HeadBacked` are not inductive: they need to know of the
record on its way. `StoreInv` adds `AppendInv`: a torn line carries the number after the last whole
one, no line is torn while someone appends, and the record being appended is either numbered next
(before its line) or a line (before its head). `RepairedLines` says what the repair leaves.
`EventInv` adds the events: `PendingInv` says that a record on its way, or torn where it can still
be read, is of an event no line is of, made from the file on disk. `StoreTypeCorrect`,
`NumberedInOrder`, `HeadIsOfALine`, `LinesAreKept` and `EventFilesAreKept` follow, and
`HealedStoreVerifies`: of all the errors verify.py can report, such a store at rest has at most the
torn line and the head that is behind, and reports either exactly when it is there.

`Orchestration_proofs` lifts both to the whole. `OrchInv` joins the two invariants with what each
process knows where it is (`ProcInv`): who holds the store, that the index lock is held exactly
between an append's or a rebuild's writes, and by the store's owner (`LockInv`), and that what
`_published` and `_check_crown` found still holds when the record is made (`PublishInv`). With it,
every step is a step of the queue or leaves it alone, and the same for the store (`UsesQueue`,
`UsesStore`), so the theorems above hold of the composition (`WaitsFairly`, `StoreStaysSound`); the
guard `Unpublished` that `StoreSpec` asks of its callers is what the lifecycle is shown to provide.
Then:

- `RecordedOnce`, `RecordsMatchFiles`, `RunsItsOwnRequest`, `OrchTypeCorrect`: conjuncts of `OrchInv`;
- `RecordedAgainstHolder`: a new line is a record on its way or a torn one completed (`NewLine`);
  either names the king the head names, which is the holder if the head is current. It is an action
  property: with a head left behind by a kill it says nothing, which is `former_king`;
- `BaselineIsFirst`, from `GenesisInv`: every genesis in a run directory, a request or a record on
  its way is the baseline's, and the first line is written under an empty head, so it is one.

`Lineage_proofs` goes on where `OrchInv` is not enough, because the argument is about numbers or
about the past.

- `RunsInv` is how blocks are numbered: what is decided or marked has a block the counter has given
  out (`CountedInv`), what is asked for has the next one until its mark or its number is written
  (`NumberedInv`), so a fresh request is never of a decided duel, and what is run was not decided or
  is this very request's (`UndecidedInv`). `DecidedStaysDecided` and `RecordedIsNotDropped` follow,
  whoever runs duels and whatever fails.
- Under `DaemonAlone`, `DaemonInv` ties the duel that is run to the one marked in progress. `LagInv`
  says that the head is current, or behind by the line of that duel, which has no outcome yet, while
  the daemon is where it resumes, finds the line and rebuilds; `TailInv` the same of a torn line that
  can be read. So the only way on is through the rebuild (`HealingSteps`), and at rest the head is
  current (`HeadIsHealed`). Every line is then written against the holder (`AgainstTheHolder`), and
  the index, with a last line that only lost its newline counted as there, takes `CrownLineage`'s
  steps (`PublishesALineage`).
- `SaidPublishedIs`: once the body and the signature of a line are there together, a line found by
  `_published` is one the repair keeps (`RecordedInv`).

### One duel

`DuelUnits_proofs`. `UnitsInv` adds to the types where the loops are (`ControlInv`), that a side's
file has one line per unit that parses, so that the last one is the only one (`LinesInv`), and that
the rows in memory agree with the files for every unit a side is done with (`RowsInv`).
`CountedForBoth` follows. `PromptInv` adds what a result was played from: the prompt the manifest has
for the unit, unless that became void (`FromRecord`), what is in a unit's directory was made from its
file as it is (`PlayingInv`), and a prompt is only ever added where there is none or a void one
(`ManifestInv`); the last needs the manifest's end to be whole.

`CrownIsThePairs` is about data: sums and averages over sets of any size. `Total` of score.py's
averages is a fold, and the proof goes by a least counterexample (`LeastNumber`) rather than by
induction, for which the library's theorems would need an operator as parameter. `TotalsTogether`:
over any finite set of skills whose rates have the same denominators, the sums of the king's rates,
of the challenger's and of the paired differences come out over one denominator, so their order can
be compared by numerators; `RatedOnTheSame` and `TalliedTogether`: in each skill, wins less losses are
the challenger's successes less the king's, given that both sides have a score wherever a unit counts
- which is `CountedForBoth`. `MarginTogether` and `CrownTogether` finish it for any margin.

### Policy session

`PolicySession_proofs`. `FlowInv`: while the connection is open at most one request or reply is
anywhere - on the socket, in the policy's hands or on its way back - and it is the last call's own.
It fails as soon as the client could send a second call before the first is answered or lost, which
is why it is stated with the client's state. `DialInv` orders what precedes the first call.
`BlameInv` carries the cause of every lost call, error and early end to the verdict. From these come
`NoneBlamedForOthers`, `NobodyCutOff` (an action property) and `SessionImplementsCalls`: each step of
the session, its two threads, its timer and its client is a step of `PolicyCalls` or none.

### Intake

`Intake_proofs`. The queue part is `QueueInv` again (`IntakeUsesQueue`, `IntakeWaitsFairly`). What
holds of the snapshots rests on the locks: `_publishing` among the daemon's threads, the store's lock
between processes, the intake's own lock from an entry queued to its answer (`DaemonLocks`,
`OtherLocks`, `ThreadLocks`). Together (`OneHolds`) one publisher at most is between its snapshot and
its write, so a snapshot about to be written is no older than the one there (`SnapshotsInv`), and
`queue.json` never goes back (`NeverGoesBack`). A change of the daemon's that is not shown has a
publisher yet to show it, hence `OwnChangesShown`. `MirrorInv` is `NothingForgotten` with what makes
it inductive: the record's files are remembered from the moment the duel is one that no restart would
resume. `SlotsAreHeld` counts the slots by the connections that have one.

### What a kill leaves

`Survivors_proofs` proves the two halves apart and joins them. For process groups, `OursInv` says
that a ledger's entry of this boot names a process that was started and is no stranger, though its
pid may be another's by now; `NotedInv` that whatever is noted and runs is in the ledger and, while a
reaper is at work, among what it has still to end; `OwnInv` and `HeldInv` that the pid and the group
the orchestrator holds are nobody else's until it has waited for the leader. `OneAttemptPlays` and
`OwnResultRead` follow. `StrangersAreLeft` says of every step of the orchestrator that a stranger it
ends is in one of two places: a group of this boot's ledger that has lost its leader (`LooksLeft`), or
one whose leader was waited for a moment ago (`WaitedFor`). Both can be reached: the first is
`stranger_killed`; the theorem is that there is no third. For containers, `NamesInv` says that a name is given once and that a program's container is
its own, `ProcessesInv` and `OwnersInv` that no process to come has the identity a label carries, and
`ReapersInv` that what a reaper owes is of a process that ended; `OrphansAreGone` and `ServedAreLeft`
follow. `MountsAreBounded` counts: a program has one directory in hand at most (`HandHoldsOne`), so a
step leaves one tmpfs at most to nobody, and only a kill, a failed command or a failed preparation
does (`LeftByMishap`); every step of those is counted in `mishaps`.

## 5. What is only model-checked, and what is not modelled

Left to TLC, because TLAPS cannot state a step of them: liveness under fairness, which needs
`ENABLED`. These are `DuelSettles`, `DuelDecided`, `RequestsEnd`, `CallsEnd` and `ServerEnds`. The
violating runs are TLC's too. Nothing else that a passing run checks is without a theorem.

What the newer modules take for granted:

- `PolicySession`: the policy does not write to the server's own socket; the client authenticates or
  does not, in one step; of time, only the order in which deadlines pass. serve.py's idle timeout
  (1800 s) is longer than a unit may take (600 s in the specification the repository ships), so only
  a client whose orchestrator was killed is idle for as long.
- `Intake`: one track (tracks share the slots and the locks, which the model keeps, and no queue).
  What the Hub says of a submission and what HTTP parsing makes of a request are choices. A duel is
  only open, recorded or decided.
- `Orphans`: checking that a group is the one recorded and killing it is one step, and SIGKILL takes
  effect at once (the code waits up to `KILL_WAIT_S`); no kill is refused by permissions. A process
  that leaves its group (`setsid`) is nobody's in the code and is left out: what a policy or a
  benchmark detaches that way, no reaper finds. A group has two processes at most, of one kind.
- `PolicyContainers`: the orchestrator is root, so that shared directories are tmpfs mounts; the
  machine does not reboot. A container's labels carry no boot id, as the ledger's entries do, so
  after a boot a process with the same pid and start time would keep a dead container listed.
- `Score`: exact fractions, no `SCORE_EPSILON`.

Not modelled, in the parts that are: the manifest and media of the store; the round-robin over
tracks; back-off delays; records of the kinds `king_after` allows but nothing appends (succession,
vacancy, checkpoint); two duels whose ids collide; a short `os.write` that does not raise; a queue
file that cannot be read (refused by the code); a side's budget, which a run may exhaust at any unit;
fetching, building and checking a submission; the benchmarks' plugins and health check; the mirror's
`replace_all` and `mirror_store`, which an operator runs by hand.

Not modelled at all: live frames (a view that nothing decided or published reads); the layout of
records, canonical JSON, signatures and seeded draws (functions of data); the duel specification (one
file, validated once).

### What the models showed and no run reports

Each of these is a behaviour of the code that a property had to make room for, or a remark of the
repository that a state of a model does not bear out.

- A duel by hand may be given a block the daemon recorded a request for and never took (its entry was
  removed meanwhile). They share that block, never a run directory, unless they are the same duel.
- The deadline's timer can be past its last check when `cancel` comes (client.py:262-265): the call
  is answered, and the socket is shut under the next one, which is lost though the policy was on
  time. `ImplementsCalls` allows it; the unit is then charged to the policy, so `reasons` counts it
  as a deadline that passed.
- A benchmark's request that a session refuses (before hello, or malformed) is answered as an error
  and ends as a failure of the policy's side: `ChargedFairly` says so. A policy that ends its process
  with status 0 in the middle of a call voids the unit, if the benchmark names no cause.
- A process group runs before the ledger names it (local_runtime.py:213-228,
  subprocess_runner.py:200-216). A kill in between, or a ledger write that fails (it is only logged),
  leaves a group that no reaper finds and that may still write into the unit, against orphans.py:18,
  "nothing an orphan wrote is ever read as the unit's result". `OneAttemptAtATime` and
  `ReadsOwnResult` hold but for that gap (`noted`, `gap`).
- cli.py:183-184 leaves a queue's snapshot to the daemon, "which rewrites it every cycle anyway", and
  verify.py:289 says the same. The daemon publishes a snapshot when it starts and when it changes the
  queue: while it is idle, a `queue remove` of the last entry stays unpublished. `ShowsOwnChanges` is
  therefore about the daemon's own changes.
- A push that failed is retried with the next one, unless the daemon ends first: the set of touched
  files is in memory, so a decided duel's files are then forgotten (`unpushed`, which
  `NothingForgotten` excepts: the next push does not carry them); one whose outcome was
  not written is resumed and touched again. A snapshot that the intake published waits for the
  loop's next push.
- A publication that raises after a duel was taken leaves the snapshot as it was until the duel ends.
- A kill between the mount and `docker run` or between `docker rm` and the unmount, an unmount that
  fails, and a preparation that raises after its mount (a `chmod`, `chown` or `unlink` that fails,
  container.py:351-362: `bounded` is never set, so `close` releases nothing) leave a tmpfs that no
  label names. "The next start unmounts them" (547; 417 says the same) is true of a check started
  again at its `--work`, not of a duel, whose directory is a fresh `mkdtemp` (docker_runtime.py:188).
  What is true is `MountsBounded`: one tmpfs of `SHARED_DIR_BYTES` for each kill or failure.
- `killpg` comes after `wait` or `poll` has reaped the leader (subprocess_runner.py:218 and 230,
  local_runtime.py:271 and 280). If nothing else is in the group, its number is free in between; a
  program given it is killed with the unit. `StrangersLeft` names that window (`WaitedFor`).
- A policy whose native code holds the interpreter outlives its client, against "no server outlives
  its client" (serve.py:20) and as serve.py:24-25 says. Its unit ends it; if the orchestrator was
  killed too, the next start's reaper does (`ServerEnds`).
- An fsync that raises once the line is written (writer.py:303) skips the touch of the index part: the
  duel fails, and the mirror lacks the line until another append touches that part (`RecordFails`).
- A reaper removes an orphan and unmounts its directory in two steps. If a submission check is started
  at the same `--work` directory in between, the unmount takes the tmpfs from under its live
  container. `ServedStay` leaves out `Checks` for that reason; a duel's directories are never shared.

## 6. Plan

The modules planned at first are written, but for live frames, and what their runs check of safety is
proved. What is left:

1. `DuelUnits`: an abstract specification - a unit is settled once, by a result of each side or as
   void for both - that the resumed duel implements, as `Orchestration` does `CrownLineage`; kills
   that make a rerun are what it would have to allow.
2. `DaemonAlone` asks for no write that raises. A weaker hypothesis would name the writes that may:
   all but the one between a line and its head.
3. `RecordedIsNotDropped` starts where the request is on disk: what is lost at most before that
   (`entry_lost`), as a property of its own.
4. Live frames: a post that is still being sent when its deadline passes (live.py:239), and the other
   two hazards that no property covers, a short `os.write` (store/writer.py:302) and a side's budget
   that interrupted units do not count against (duel/side.py:220).

Each component gets one passing run with several properties rather than a run per property, and a
violating run only for a disagreement with the repository's own words.
