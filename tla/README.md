# A TLA+ verification project for runtime2

runtime2 is a trading runtime for spot exchanges. It evaluates closed bars into
signals, intents and reports, and, in its restricted-live mode, follows the
account of a real Binance user: it listens to the private stream, repairs what
the stream loses by signed REST queries, and lets fills change the portfolio
only when it is sure of them. It does not submit orders there; orders on the
testnet are placed by a separate rehearsal script. What can go wrong is
therefore a wrong picture: of the account, of what a past run left in a file,
of what a rehearsal has shown. That is what this project is about.

## 1. Inventory

| Part | State it keeps | Operations | Talks to | Module |
|---|---|---|---|---|
| Private transport (`exchanges/binance/private_transport.py`) | open connections, queued messages and a subscription per connection | open, subscribe, read, close | the venue's WS API; request-weight tracker | `PrivateSession` |
| Stream client and payload source (`private_stream_client.py`, `restricted_live_transport.py`) | the session (connection, expiry, last message), counters, last health | poll: watchdog, rollover, read, reconnect, bootstrap | transport; the gate, which polls it | `PrivateSession` |
| Payload translator (`private_payload_translator.py`) | none | raw payload to order state, fill, account snapshot | the gate | `RestrictedLive` |
| Reconciliation service and coordinator (`reconciliation.py`, `reconciliation_coordinator.py`) | none between passes | classify expected against seen orders; lookup rounds; order states | order client; state store | `RestrictedLive`, `RecoveryStore` |
| Order client and lookup transport (`order_client.py`) | last query health | one signed query per lookup | the venue's REST API; request-weight tracker | `RestrictedLive` |
| Reconciliation state store (`storage/reconciliation_state.py`) | one JSON file: unresolved and manual-attention orders, numbered attempts, gap flag | load, register lookups, persist workflow | the file system | `RecoveryStore` |
| Portfolio gate (`live_portfolio_gate.py`) and live translator (`portfolio/live.py`) | none between passes | one pass: poll, reconcile, refuse or translate and mutate | all of the above | `RestrictedLive` |
| Soak loop (`monitoring/restricted_live_soak.py`) and campaign | portfolio, remembered fill ids, counters, last gate result | repeat the cycle, decide when to stop | runner, gate, exchange health | `SoakLoop`, `RestrictedLive` |
| Runner and quality gate (`runtime/restricted_live_runner.py`, `data_quality.py`, `bar_close_validator.py`) | a context | one cycle, refused early or through the gate | gate, persistence | `SoakLoop`, `OfflineRuns` |
| Exchange health (`monitoring/exchange_health.py`) | none | fold stream, reconciliation, clock and query health into one state | loops, runner | `SoakLoop`, `ScenarioCampaign` |
| Failure-injection and disruption campaigns (`monitoring/restricted_live_failure_injection.py`, `reconciliation_disruption.py`) | a directory per scenario, with a state file that outlives the run | play scripted payloads and lookups, pass a verdict | gate or reconciliation service, store | `ScenarioCampaign` |
| Rehearsal scripts (soak script, `run_broader_action_windows.py`, `run_testnet_event_action_driver.py`, `build_runtime2_gate_artifacts.py`, exercise harness) | files named after the run id | run a session, run windows, place and cancel an order, judge the evidence | each other, through files only | `GateEvidence` |
| Report-only and paper runners, replay harness (`runtime/*.py`) | the paper portfolio, carried along | cycles, sessions, parity replays | strategies, risk, paper execution, reporting storage | `OfflineRuns` |
| Launcher and dry run (`scripts/runtime2_rehearsal.py`, `dry_run_runtime2.py`, `config/rehearsal.py`) | a directory per run id | preflight, launch, verdict | runners | `OfflineRuns` |
| Paper execution and portfolio (`execution/*.py`, `portfolio/paper.py`), risk, strategies | none | signals, risk, intents, simulated orders and fills, books | runners | `PaperCycle` |
| Clock sync (`clock_sync.py`), request weight (`throttling.py`), private-transport soak, account bootstrap, market data, features, Upbit stub, reference adapters | see `PROJECT.json` | | | not modelled |

Hard behaviours: two sources of truth (stream and REST) that describe different
moments of one order; a loop that must remember what it applied across passes
but loses its memory in a crash; files that outlive the process, some appended
and some overwritten, and are used again by the next run; connections that are
replaced under the reader; retries that must end; deadlines; processes that know
of each other only what is on disk.

What makes each part correct is stated as its properties in section 9; the
hazards behind them are listed, at their lines, in `PROJECT.json`.

## 2. The restricted-live pass

`RestrictedLive.tla` models one process and its venue. A pass is five steps,
and the venue may move between any two of them:

    idle --Poll--> lookup --(LookupByClientId | LookupByExchangeId | NextRound)*--> EndLookups
         --> [persist --Persist-->] gate
         --RefuseMutation | ReviewFills | ReviewSnapshot | ApplyMutation--> idle or stopped

| Model | Code |
|---|---|
| `Poll` | `poll_private_payloads` returns one payload; `reconcile_with_transports` merges expected and resumed ids and classifies |
| `LookupByClientId`, `LookupByExchangeId`, `NextRound`, `EndLookups` | the rounds of signed queries; each query sees the venue at its own moment; an unexpected order is asked for by client id until that fails to find it finished, and by exchange id from then on (`switched`) |
| `Persist` | `persist_workflow_state`: written before the gate decides |
| `RefuseMutation` | the gate's early returns, in their order: malformed, invalidated, unresolved, clock |
| `ReviewFills`, `ReviewSnapshot`, `ApplyMutation` | `LivePortfolioTranslator.translate` and the mutation |
| `EndPass` | what the surrounding loop remembers, counts and stops on |
| `Restart` | the process dies in any phase; the file survives, the loop starts from the account |
| `Place`, `Execute`, `Cancel`, `ReportAccount` | the venue (external) |
| `Redeliver`, `Garble`, `Reconnect`, `Terminate` | a repeated or unacceptable payload, a silently replaced connection, a failed read |

One action per step of the program is enough because a pass runs in one thread
and shares nothing but the venue and the file.

`FillLedger.tla` says what the portfolio owes to the account without any of
this: an order that executed completely is taken over whole, once, or is left
to an operator. `RestrictedLive` implements it (property `LedgerSpec`) under
`executed <- Executed`, `decided <- Decided`.

The bookkeeping of fill ids is modelled, because which id is remembered decides
whether an execution is counted once: a trade has an id of its own, the fill a
lookup recovers has another one for the whole order. Quantities are naturals;
prices, fees and cash are left out, so the account comparison compares
quantities.

The two ids of an unexpected order have their results filed apart, and the
coordinator judges each id by its own attempts: an order found finished by client
id and missed by exchange id in a later round is pending again
(`LatestAttempts`, `FoundFinished`). That is the state that comes last, and the
one `Persist` and the gate's merge decide by. An execution report always carries a
client id; without one the translator calls it malformed. What becomes of a
lookup payload that has no canonical order state is left to `RecoveryStore`.

## 3. The private-stream session

`PrivateSession.tla` models how the payload source keeps one subscribed
connection alive while it is polled. A poll is a path through `pc`:

    idle --PollUnstarted | PollExpired--> open
    idle --PollTolerant--> idle            (overdue, not acted on: nothing is read)
    idle --PollOverdue--> close --> open
    idle --PollHealthy--> rollover --NoRollover--> read --> idle
                          rollover --Rollover--> close --> open
    open --Open--> subscribe --Subscribe--> await --AwaitResponse--> rollover | read | idle
    open, subscribe, await --Fail--> read (renewal) | open (bootstrap instead) | raised
    read --ReadPayload | ReadTimeout--> idle,  read --ReadFails--> close

| Model | Code |
|---|---|
| `PollUnstarted` ... `PollHealthy`, `Rollover`, `NoRollover` | the watchdog and the rollover check in `poll_private_payloads` |
| `Close`, `Open`, `OpenFails`, `Subscribe`, `SubscribeFails` | `BinancePrivateUserDataTransport` |
| `AwaitOther`, `AwaitFails`, `AwaitResponse` | `_await_response`: messages that are not the answer are queued |
| `Fail` | what `_refresh_session`, `_reconnect` and `_bootstrap_new_session` do with an exception |
| `Established` | what the three ways to a new session do to `last_message_at` and `expires_at` |
| `ReadPayload`, `ReadTimeout`, `ReadFails` | `read_payload` and the poll's use of it |
| `Emit`, `Activate`, `Confirm`, `Refuse`, `Break`, `Die`, `Garble` | the venue and the wire (external) |
| `Tick` | time between two polls |

Ages and deadlines are counted in units of the model, and a poll reads the clock
once, when it starts: what a poll itself takes is part of the time before the
next one. The venue's confirmation, its refusal, a timeout, the lack of request
weight and an event all race in the set-up. A connection that breaks while it is
being set up shows as a timeout or a failed send, so `Break` and `Die` concern
confirmed connections. Connection ids are random in the code; here an id may be
reused once nothing names it.

The two components meet in one place: a poll of `PrivateSession` is the payload
`RestrictedLive` takes. A connection that is silently replaced there is
`Reconnect` here: the events on the way are lost and the pass is told nothing; a
`readError` is `Terminate`.

## 4. The reconciliation store

`RecoveryStore.tla` is about what `RestrictedLive` abstracts of the file: orders
have two ids, lookup results are registered with attempt numbers in one write,
the order lists follow in a second one, each write truncates the file first, and
the process may die anywhere.

    idle --StartPass--> lookup --(LookupByClientId | LookupByExchangeId | NextRound)*--
         --EndLookups--> register --Truncate--> registering --RegisterLookups-->
         persist --Truncate--> persisting --PersistWorkflow--> idle
    idle --CannotLoad--> dead        (a torn file: every later start refuses to run)

| Model | Code |
|---|---|
| `StartPass` | `resume_expected_order_ids`, `build_automatic_recovery_plan`: a resumed id is expected, and asked for as an exchange id |
| `LookupByClientId`, `LookupByExchangeId` | one signed query; by client id first for orders nobody expected, and by exchange id at once when that settles nothing |
| `RegisterLookups`, `NewAttempts` | `register_lookup_results`: known fingerprints keep their number, new ones are numbered on |
| `PersistWorkflow`, `FinalState` | `persist_workflow_state`: the last order state of an id decides |
| `Truncate`, `Crash`, `CannotLoad` | `_write_snapshot` opens the file for writing; `load_snapshot` does not catch what a torn file makes it raise |

A write is two steps: `Truncate` empties the file, `RegisterLookups` or
`PersistWorkflow` fills it with what the process had loaded. While the file is
torn its other fields stand for what the writer still has in memory; a process
that dies there takes them along, and leaves a `TornSnapshot` with no attempts
and no lists, which no later start loads.

## 5. The soak campaign

`SoakLoop.tla` runs a campaign of sessions around a gate that returns any result
`RestrictedLive`'s could: `StartSession`, then per cycle `StartCycle` and one of
`RefuseCycle` (the runner returns early and the recording gate still holds the
result of the cycle before), `CycleRaises` or `Poll`/`RunCycle`; `Record` counts,
`Stop`, `DeadlinePassed`, `Sleep` are the tests in the code's order, `Finish`
writes the summary, `Leave` returns the exit code to the campaign. Inputs are
chosen once for a campaign, because every session is given the same files; the
quality states are computed from them as `RuntimeDataQualityGate` does. A
payload source lives in one session and its counters only rise.

## 6. The scripted campaigns

`ScenarioCampaign.tla` plays the ten scenarios of the failure-injection and
disruption modules as data (`PrivateStreamDisconnect`, ..., `PartialFillReorder`)
through one pass of gate or reconciliation service at a time. A run plays the
scenarios its `--scenario-id` options name, in the script's order, or all of them
(`Requests`, from the constant `Selections`). Their directories
are used again by every run, so the store's file, the appended rows and the
summary of earlier runs, complete or killed, are there when a run starts. Each
scenario has one order and all its payloads are about it, which is why a pass
needs far less here than in `RestrictedLive`.

## 7. The evidence of a rehearsal

`GateEvidence.tla` has the soak script, the scheduler of action windows, the
action driver, the gate builder and the exercise harness as processes over
shared files. Sessions may fail in any phase or be killed between two writes and
started again under the same run id; windows may be late (`LatePolicies`), the
driver's signed calls may be accepted or refused or raise; the builder reads file
after file (`ReadScheduler` ... `ReadReconnects`) and then judges (`FailureClass`,
`Cautions`, `Grade`). A refused request of a driver may name the price band of the
venue among its failure reasons (`PriceBand`), for which the builder cautions even
a SUCCESS window (`priced`). The harness may be refused by its own checks
(`HarnessRefused`), may only prepare the exercise (`HarnessPrepares`, that is
`--prepare-only`: it ends with 0, without a session and with a summary that tells
of none), or runs the soak script as its child (`HarnessStart`, `HarnessReports`);
and all of that again under the same run id. `overlap` says whether it may read while the others write.
Times are reduced to "late or not"; the rows nobody reads are left out.

## 8. The offline modes

`PaperCycle.tla` defines what one decision cycle computes: signals, risk, intents,
the simulated order and fill, the paper portfolio in exact integers.
`OfflineRuns.tla` runs it: paper sessions (`StartSession`, `TakeBar`, the four
writes of a cycle, `CarryPortfolio`, `PersistSessionSummary`), parity replays
(`StartReplay`, `ReplayPaper`, `PersistParity`) and dry runs (`StartDryRun`,
`LaunchRaises`, `LaunchEnds`, `WriteVerdict`), one process at a time, on files
that are appended to (`cycles`, `statuses`, `transitions`, `sessions`, `parity`)
or overwritten (`health`, the verdict). A write is atomic there: each is one
line appended or one small file. What a bar makes a strategy ask for is part of
the bar, because the thresholds over features decide nothing else; a strategy
that sells is the interface's, none of the two in the repository does. The
contracts refuse a negative cash balance or position, so a runner raises
(`Raises`) before it writes; nobody catches that in a session or replay, a dry
run makes it its verdict.

## 9. What is checked

| Run | What it instantiates | What it shows |
|---|---|---|
| `SoakLedger` | the soak loop, two orders, one of two trades; missed lookups, silent reconnects, repeats, crashes | `NoDoubleCredit`; `WholeTradeIsCredited`; the loop implements `FillLedger` (`LedgerSpec`) |
| `SoakProgress` | the soak loop, two single-trade orders, failing lookups, cancellations, fair scheduling | `PassEnds`, `FilledIsCredited` |
| `StoreSafety` | the gate with its snapshot file and any expected orders; missed lookups, failed reads, malformed payloads | `ManualAttentionIsUnresolved`, `NoMutationWhileUnresolved` |
| `SessionFaults` | three connection ids, two events; throttled, refused and timed-out set-ups, broken reads, garbled frames | `SessionIsSubscribed`, `LossIsExplained` |
| `SessionTiming` | regular polls; connections that die, break or cannot be opened | `SilenceIsBounded`, `RenewedInTime`, `NoStrayConnection` |
| `RecoveryFile` | two orders with client ids, one of them with unparsable lookups; any batch, missed lookups, two rounds, crashes inside every write | attempts are unique and survive; resumed ids can be asked for; an operator's order has its failed lookup on file; orders leave only with evidence; converged means settled |
| `SoakCampaign` | two sessions, three kinds of input, four results of a pass, intervals and cycle times of 0 or 1 | counts are of passes; a rate of one tells of convergence; completed is clean; the campaign ends |
| `ScenarioVerdicts` | both scripts, all of their scenarios, each single one or two of them, three runs on the same directories, killed anywhere | `AllScenariosPass`, `SummaryIsRepeatable` |
| `RehearsalVerdict` | two windows, the first with a fill attempt, and refusals by the price band; two sessions, clean or in manual attention; an exercise refused, prepared or run, and started again; every process killed anywhere | what backs a PASS, an exit code, a window's SUCCESS and the 0 of an exercise; manual attention sticks |
| `OfflineModes` | two processes and three bars in all, of eleven kinds; killed anywhere | `SessionIsExplained`, `BooksBalance`, `DriftIsRefusal`, `VerdictIsOnDisk` |
| `DuplicateFill`, `InvalidatedStream` | one order each | the disagreements of section 10 |

`SoakLedger`, `SessionFaults`, `RecoveryFile`, `SoakCampaign`, `RehearsalVerdict`
and `OfflineModes` also check the type invariant of their module. That of
`ScenarioCampaign` is left to its proof (`CampaignTypes`).

Bounds. Two orders are what it takes for one order of a batch to block another's
fill; one or two trades, for a partial trade and a recovered fill to compete.
`MaxRounds` and `MaxAttempts` are the code's own 3, 2 in `RecoveryFile`, where a
second round is what a later state needs to replace an earlier one. `MaxStream`,
the payloads on the wire, is 1 or 2: with 2 a repeat can follow its original and
a later trade can overtake a lookup. `MaxBlocked` is the code's stop criterion; 8
in `SoakProgress`, so that the loop does not stop before lookups had their
chance. Three connections are the session's, the one being set up and one that
was left behind; two events, so that the second can come before the first.
`MaxIdle` is 2 in `SessionFaults`, which lets polls miss the whole rollover
window, and 1 in `SessionTiming`, where the bounds are about a loop that polls
regularly. `RecoveryFile` needs no bound on passes: its state is finite.
Two sessions show what one leaves to the next, in `SoakCampaign` and
`RehearsalVerdict`; three runs of a scripted campaign are one to leave something
behind, one to be killed on it, one to give its verdict all the same. Two
windows let one be skipped, late or killed while another is clean. Scenarios of one
run have directories of their own, so a selection of two stands for the others. Two
processes in `OfflineModes` are a run and the one that finds its files; three
bars are an entry, a second entry at another price or an exit, and one more. Its
prices are multiples of 360000, which divides by every quantity reached and by
the fee, so that integer division is exact, and its cash covers two buys
at the higher price but not three, so that refusals happen too. Each run has the faults
its question is about: cancellations are in `SoakProgress` and not in
`SoakLedger`, because the gate credits what a canceled order executed before, and
`FillLedger` speaks of complete orders. Orders (with equal quantities) and
connections are interchangeable: symmetry is used for safety properties only.

Deadlock is not checked: the programs really stop (for an operator, on an
exception, at the end of their input), the venue really runs out of orders, and
the bounds end the rest.

Fairness. `RestrictedLive!FairSpec` is weak fairness of `Cycle`, the steps of a
pass: the loop is one thread that polls again as long as it has not stopped, and
a signed query returns or raises. The code opens it without a timeout, so that is
an assumption about the network. Nothing is assumed of the venue, and a lookup
may fail every time. `SoakLoop!Spec` assumes weak fairness of the campaign's own
steps in the same sense: one thread, whose calls return or raise.

Limits of the properties. `PassIsBackedByArtifacts` and `ManualAttentionSticks`
say less when the builder overlaps with a session: it asks the directory again
whether a file exists, after it has read it, and can pass a run it has seen half
of. `ConvergedMeansSettled` makes an exception for an order whose lookup payload
has no canonical state: its client-id lookup is filed under the client id, and
the order stays on the resume list although the pass says it converged.
`AttemptsAreStable` and `OrdersLeaveWithEvidence` make an exception for a crash
inside a write, which loses the whole file and stops every later start.
`SilenceIsBounded` bounds the silence after the first message of a session, at
`HeartbeatTimeout + MaxIdle + max(Grace, MaxIdle)`; the watchdog does not look
before that message. `LossIsExplained` allows what a closed connection held to be
lost, also what was read into the queue of early messages. `CompletedIsClean`
tests the last stream state, the one a session that stops for a terminated
stream ends in. `AllScenariosPass` speaks of verdicts: a state file torn by a
kill makes the campaign raise, which is neither a pass nor a failure.
`ExerciseSuccessIsFresh` tells an exercise that was only prepared, and reports no
session, from one that was run. `SummaryIsRepeatable` leaves out the trigger reason, which a leftover changes
from missing updates to a resumed restart. `NoStrayConnection` holds only without
failed set-ups.

## 10. Where the code and its documents disagree

Each run ends in a counterexample; each behaviour was replayed on the Python
classes with scripted transports and is what they do.

- `DuplicateFill`: the failure-injection loop remembers applied fill ids only.
  When a trade displaces a recovered fill of the same order, a repeated payload
  finds the recovered fill fresh and credits the order again. The soak loop
  remembers ignored ids too and does not (`SoakLedger`).
- `InvalidatedStream`: a fill known only from REST is credited by the very pass
  that saw the stream invalidated.

Noted while modelling, without a run of their own:

- The price of the soak's memory: on an order of two trades, a displaced
  recovered fill is remembered as if it had been applied, and the final trade is
  dropped behind APPLIED (hence the single trade in `WholeTradeIsCredited`).
- The gate's merge takes a remaining quantity of zero for the richer value, so a
  partial trade of an expected order is not credited while the order is open.
- The snapshot forgets a recovered order before the gate has decided about its
  fill; if another order blocks the pass, that fill is not looked up again.
- During the grace window polls return without reading, and the reconnect that
  follows drops what was waiting.
- With order submission enabled the gate asks for a clock check nothing feeds.
  (The repository ships with submission disabled.)
- `gap_active`, once set in the file, is read back and persisted by every later
  pass; nothing clears it.
- The quality gate fails a report-only or paper cycle closed on an incomplete
  bar, but only the restricted-live runner asks: the others decide, and the
  paper runner trades, while the context bar is still open.
- A paper cycle's row says that its portfolio transition is persisted, and is
  written before the transition; a run killed in between has the one without the
  other. A cycle without a fill resets the unrealized profit to zero.

## 11. What is proved

`tlapm` checks these for every value of the constants, under the assumptions the
modules declare (finitely many orders, positive quantities and limits, a
rollover window not longer than the lifetime, no connection called `NoConn`,
misses that are not called `open` or `done`, a plan that names each window once,
selections of a campaign's own scenarios (`SelectionsAssumption`),
`PaperAssumption` and `OfflineAssumption` on the sizes and prices of the offline
modes). A further assumption stands in the statement of the theorem.

| Theorem | Statement |
|---|---|
| `RestrictedLiveProofs!TypeCorrect` | `Spec => []TypeOK` |
| `RestrictedLiveProofs!ManualAttentionResumed` | `Spec => []ManualAttentionIsUnresolved` |
| `RestrictedLiveProofs!MutationIsResolved` | `Spec => NoMutationWhileUnresolved` |
| `RestrictedLiveProofs!NoCreditTwice` | `SoakWiring /\ Spec => []NoDoubleCredit` |
| `RestrictedLiveProofs!WholeTradesAreCredited` | `SoakWiring /\ Spec => []WholeTradeIsCredited` |
| `RestrictedLiveProofs!SoakImplementsLedger` | `SoakWiring /\ "cancel" \notin Faults /\ Spec => LedgerSpec` |
| `PrivateSessionProofs!SessionTypeCorrect` | `Spec => []TypeOK` |
| `PrivateSessionProofs!SessionAlwaysSubscribed` | `Spec => []SessionIsSubscribed` |
| `PrivateSessionProofs!SilenceAlwaysBounded` | `Spec => []SilenceIsBounded` |
| `PrivateSessionProofs!RenewalKeepsAhead` | `LeadAssumption => (Spec => []RenewedInTime)` |
| `PrivateSessionProofs!NothingIsLeftBehind` | `LeadAssumption /\ SetupsComplete => (Spec => []NoStrayConnection)` |
| `PrivateSessionProofs!LossAlwaysExplained` | `Spec => LossIsExplained` |
| `RecoveryStoreProofs!StoreTypeCorrect` | `Spec => []TypeOK` |
| `RecoveryStoreProofs!AttemptsNumberedUniquely` | `Spec => []AttemptNumbersAreUnique` |
| `RecoveryStoreProofs!AttemptsNumberedWithoutGap` | `Spec => []NoAttemptNumberIsSkipped` |
| `RecoveryStoreProofs!ResumedIdsCanBeQueried` | `Spec => []ResumeListHoldsExchangeIds` |
| `RecoveryStoreProofs!OperatorSeesTheLookup` | `Spec => []ManualAttentionIsExplained` |
| `RecoveryStoreProofs!AttemptsSurvive` | `Spec => AttemptsAreStable` |
| `RecoveryStoreProofs!NothingIsForgotten` | `Spec => OrdersLeaveWithEvidence` |
| `RecoveryStoreProofs!ConvergenceCanBeTrusted` | `Spec => []ConvergedMeansSettled` |
| `SoakLoopProofs!SoakTypes` | `Spec => []TypeOK` |
| `SoakLoopProofs!CountsTellThePasses` | `Spec => []CountsAreOfPasses` |
| `SoakLoopProofs!RateIsConvergence` | `Spec => []RateTellsConvergence` |
| `SoakLoopProofs!CompletedMeansClean` | `Spec => []CompletedIsClean` |
| `GateEvidenceProofs!EvidenceTypes` | `Spec => []TypeOK` |
| `GateEvidenceProofs!ExitCodes` | `Spec => []ExitCodeTellsEvidence` |
| `GateEvidenceProofs!ExercisesAreFresh` | `Spec => []ExerciseSuccessIsFresh` |
| `GateEvidenceProofs!SuccessesLeaveNoOrder` | `Spec => []SuccessLeavesNoOrder` |
| `GateEvidenceProofs!PassesHaveArtifacts` | `Spec => PassIsBackedByArtifacts` |
| `GateEvidenceProofs!PassesHaveWindows` | `Spec => PassIsBackedByWindows` |
| `GateEvidenceProofs!ManualAttentionFails` | `Spec => ManualAttentionSticks` |
| `ScenarioCampaignProofs!CampaignTypes` | `Spec => []TypeOK` |
| `ScenarioCampaignProofs!ScenariosAlwaysPass` | `Spec => []AllScenariosPass` |
| `ScenarioCampaignProofs!SummariesRepeat` | `Spec => SummaryIsRepeatable` |
| `OfflineRunsProofs!DriftExplained` | `Spec => []DriftIsRefusal` |
| `OfflineRunsProofs!VerdictsAreOnDisk` | `Spec => []VerdictIsOnDisk` |
| `PaperSessionProofs!OfflineTypes` | `Spec => []TypeOK` |
| `PaperSessionProofs!SessionsExplained` | `Spec => []SessionIsExplained` |
| `PaperSessionProofs!SessionsBalance` | `(\E scale : ExactAverages(scale)) => (Spec => []BooksBalance)` |

The assumptions in the statements are about wiring and configuration:

- `SoakWiring`: the loop remembers ignored ids, and the gate has no store and no
  expected orders. That is how `binance_restricted_live_soak.py` builds it: the
  gate gets no store, the runner passes no expected ids. It is needed:
  with a store or an expected order TLC finds an order asked for on which the
  stream is silent, whose recovered fill comes on top of a trade. The ledger is
  refined only where nothing is canceled, because the gate takes over what a
  canceled order executed before and the ledger takes whole orders.
- `LeadAssumption`: what is left of the lifetime when renewal falls due
  outlasts the polls an overdue heartbeat can suspend the renewal for:
  `Lead >= 2 * MaxIdle` and `Lead + 1 >= 2 * MaxIdle + Grace`. The defaults of the
  code leave minutes where a poll takes seconds; `SessionTiming` satisfies it too.
- `SetupsComplete` leaves out the faults that break a set-up half-way (throttled,
  refused, timed out, garbled), after which a connection really is left open.
- `ExactAverages(scale)`: the average price after the k-th bar is an integer. The
  code divides decimals of 28 digits, the model integers; where they part is a
  matter of rounding, which `BooksBalance` is not about. The prices must be
  multiples of `scale[1]`, and each scale large enough to leave multiples of the
  next one when a position is averaged. There is such a scale for any number of
  bars, once prices are counted in small enough units; TLC evaluates it for the
  prices of `OfflineModes` (`MCAverages`). The property fails without it: TLC
  ends in a portfolio that is a rounding apart when the prices do not divide.

### The arguments

*The pass.* `NoMutationWhileUnresolved` is about one step, but the snapshot was
written by an earlier one: `SnapshotDescribesPass` says that, between `Persist`
and the decision, the file holds exactly the orders the workflow of this pass left
pending. The step then needs that an order pending in the workflow is still
unresolved after the gate's own merge (`PendingSurvivesMerge`), whichever of its
two ids was asked for last.

*The credit.* That credited never exceeds filled says too little to be inductive:
a report on the wire may still add to it. `CreditInv` therefore speaks of
units of execution. The portfolio holds a set of units the venue executed, as
large as what is credited, and no report that may still be credited is made of
any of them (`UnitsInv`, `Holds`). Reports of one order are of one trade or of
trades that follow each other (`TradesApart`), so a credited trade leaves the
others creditable; a recovered fill, which is of all units, is remembered with
the trade that displaced it (`DecidedOnce`), so it is never credited beside it.
A crash empties portfolio and memory alike. The refinement maps each step
to a step of the ledger or to a stutter on the strength of the same invariant.

*The session.* `SessionIsSubscribed` is about polls that return, and a poll
changes the session in only one step, `AwaitResponse`. `SessionInv` carries what
that step needs back to its causes: an answer is only ever on the wire of a
confirmed subscription (`AnswersConfirm`), the connection being set up is held and
is not the session's (`SetupIsNew`), so neither a set-up nor a close can disturb a
confirmed session (`SessionIsConfirmed`), and a poll leaves the watchdog only
with a session it holds (`SessionIsHeld`, `SessionExists`). `AnswersConfirm`
speaks of positions in a queue; `AnswerShapes` says what consuming, appending
and garbling do to it. For the bounds in time, `SilenceInv` bounds the silence at
every point of a poll, not only at its end, and `RenewalInv` pays for the
lifetime that tolerant polls let pass with silence, which is bounded already
(`SpentOnSilence`). `StrayInv` says that whatever is held is the session's
or the one being set up. `StreamInv` numbers the events: those on a connection are
consecutive (`Numbered`), and follow what was delivered last unless a
connection was given up in between, which is what `LossIsExplained` asks for.

*The store.* The theorems rest on one invariant, `IInv`. New attempts are
numbered on from the highest number on file by their rank among the outcomes of
the pass, and rank and count meet only if nothing was skipped before:
`HighestIsCount` needs `NoAttemptNumberIsSkipped` as part of the induction, and
`RanksAreAnInterval` shows that the ranks of finitely many new outcomes are
exactly 1 .. n. `AnswersAreOnFile` says that between the two writes every answer
of the pass is on file, which makes an operator's order explained;
`ClientAnswersSettle` says that an answer under a client id is always a settled
one, which keeps client ids off the lists. `NothingIsForgotten` then follows
step by step: the only write that drops an order from the list drops those whose
last state is terminal, and such a state comes from a payload or from an answer
that is on file. A torn file that outlives its process has nothing on it
(`NothingOnFile`). `ConvergenceInv` adds that the pass asks for all it resumed
(`ResumedAreAwaited`, `RequestedAreAsked`) and has an answer for all it asked for
(`AskedAreAnswered`), so a pass that converged has no order left that is not
settled, or not to be parsed.

*The loop.* `SoakInv` says what the loop counts when the gate has returned the
passes so far (`CountsOf`): all of them, or all but the one whose result waits in
`last_result` (`Recorded`). `InputsDecide` is why a result left over from an
earlier cycle is never recorded twice: in a session either every cycle reaches
the gate or none does. The counts are sums over sequences of any length; that
such a sum grows by the last element (`TotalGrows`) is proved from a least
counterexample, because the induction theorems are out of reach.

*The evidence.* `EvidenceInv` has one part per process: what the marker, the
artifacts and the exit code say of each other at each phase of a session
(`SessionInv`), what a driver's legs say of its order (`DriverInv`), what the log
and the results say of the windows behind (`ScheduleInv`), and what the builder
has read so far says of the files, although they may have moved on since
(`BuilderInv`). `CompletedIsOnDisk` is the heart of it: a marker of completion
stands beside the four artifacts of its session until the next one enters its
loop.

*The campaigns.* A scenario may start on any file. `Made` says of each record
which file and which memory it can have been made of: any file at all, except
that a step of a disruption finds the order unresolved if the step before left
it so, and no more remembered than the cycles before applied. That is inductive
(`MadeMore`), and `EveryScenarioPasses` goes through the ten scripts and shows
that all such records pass. For `SummaryIsRepeatable` the invariant says what a
directory keeps: a step's answers are registered under the number they had in
the first run that got so far (`AttemptsInv`, `Kept`), so later runs recognise
them and every summary counts the same (`SummariesInv`). The invariants hold for
any number of runs; the run checks three.

*The offline modes.* `ShapeInv` ties what a process may do next to what runs,
`ReplayInv` says of which bar and of which portfolio the two results of a parity
record are, so its differences come from a refused bar or a missing venue
alone. `DryInv` follows the row of the running dry run from file to file, and
that no file names a run that was not started, so an earlier run never stands in
for it.

`BooksInv` says that what a cycle starts from and ends in are portfolios the
contracts accept. The step that needs an argument is a cycle: its report asks for
one order at most (`OneTrade`), so it simulates one fill at most (`FillsOfBar`),
a sale the position covers or a buy that leaves cash, since `Raises` refuses the
rest. Intents and fills are picked by a fold over signals, which is evaluated
here for one element and for two.

`SessionsIInv` follows a session through its writes: the transitions on file lead
to the portfolio at hand (`Told`), and the cycle rows are one ahead while a cycle
is being persisted, which is the gap a killed run leaves behind. Rows are appended
to files that earlier runs wrote, so the invariant also says that no row names a
run that was not started (`SessionFilesInv`), and that no summary on file loses
what it follows from (`SummariesInv`). What a summary counts are sums and picks
over sequences of any length. `FoldLeft` chooses a function that satisfies an
equation: that there is one (`FoldExists`), that it is the only one (`FoldsAgree`)
and that it goes on from a shorter fold (`FoldGrows`) are shown by a shortest
prefix without it, because the induction theorems are out of reach.

For `BooksBalance` the worth of a portfolio at cost (`Worth`: cash and position
at its average price, less what was realized) falls with every fill by the fee
of a buy and by nothing else (`TradeKeepsWorth`). That takes averages without a
remainder, which `ExactInv` carries along: after the k-th bar the average is a
multiple of `scale[k]` and the position is of two units a bar at most. No sum of
values is needed over the session, only that fees of rows add up
(`FeesPaidGrow`).

### Only model-checked

- `PassEnds`, `FilledIsCredited` and `CampaignEnds` are liveness under
  fairness, which is out of the prover's reach.
- The two runs of section 10 end in counterexamples, so there is nothing to prove.

## 12. What is not modelled

Prices, fees and cash of the live account (decimal arithmetic whose values no
decision of the gate but the account comparison reads); exposures of the paper
portfolio, which follow from its position; signing, HTTP, frames and parsing;
report contents and operator text; the listen-key life cycle, which the soak does
not use; features, and the thresholds strategies apply to them; the market-data
client, the clock's sampling, the request-weight window, the private-transport
soak, stubs, reference adapters, and the scripts that only print. `PROJECT.json`
lists every component with its reason.

## 13. Plan

1. `RequestWeight`: reservation, the venue's counter, the window and the two
   budgets behind one account. Proof: a tracker never grants more than its budget
   in its window.
2. `ClockSync`: samples, midpoint and recalibration over bounded integers.
3. `TransportSoak`: the second loop around `PrivateSession`, with its own stop
   reasons.
