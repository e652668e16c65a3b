# A verification development of atlas-connectors

TLA+ modules, TLC configurations and TLAPS proofs for the ingestion path of
`atlas_connectors`: what becomes of a record between a connector, or the
simulation console, and Core. Paths below are relative to
`src/src/atlas_connectors/` unless they name a document.

## The system

The program reads or fabricates source records, stamps provenance on them
(`source_hash`, the SHA-256 of the raw bytes, is the idempotency key Core dedupes
on) and publishes them through a `PublisherPort`. It persists nothing: all the
state there is lives in a thread between a request and its response, and at
Core.

| part | code | state it keeps | operations |
|---|---|---|---|
| dispatch service | `sim_service/api.py`, `settings.py`, `main.py` | per request: body, settings at admission, generated batch, response | gate, publisher dependency, generate / validate, cap, dry run, build, emit, respond |
| emitter | `sim_service/emitter.py` | loop position and `EmitReport` | `build_canonical_records`, `emit`, `enrich_ground_truth` |
| provenance | `kernel/provenance.py`, `kernel/base.py` | none | `source_hash`, `stamp` |
| HTTP push publisher | `kernel/http_push.py` | one POST in flight per thread | `publish` |
| Pub/Sub publisher | `kernel/publisher.py` | one future per thread; behind it the topic's messages | construct, `publish` |
| runner | `kernel/runner.py` | position in `extract()` | `run_adapter` |
| retry | `kernel/retry.py` | attempt counter | `with_backoff` |
| camt.053 adapter | `adapters/camt053/parser.py` | none | `parse_balances` |
| PSD2 bridge | `adapters/psd2_bridge/client.py` | none | stub |
| simulator CLI | `simulator.py` | loop position | `simulate` |
| generator parameters | `sim_service/generators/base.py` | none | `coerce_params` |
| preset generators | `sim_service/generators/*.py` | batch under construction | `generate` (seven presets) |

How they interact: FastAPI runs each `POST /sim/v1/dispatch` on a thread of its
pool. The thread resolves the gate and the publisher from one read of the
environment, calls a generator (or validates a manual batch) with the Paris date
of that instant, stamps the records and hands them one at a time to
`publisher.publish`, which blocks. Threads share nothing but what they read from
outside and Core's table behind the publisher.

What is hard here: dispatches interleave record by record at Core; settings
change and midnight passes under them; a publisher fails in the middle of a
batch; a POST outlives the client's timeout and lands after the response; the
container dies with every emission it was serving; a broker has the message
while its sender has timed out, and delivers it twice, late or to the dead
letters; poison records sit anywhere in a batch while reports and manifests
speak of positions; a request's parameters may be any JSON. `PROJECT.json` lists
these under `hazards`, each at its line.

What makes each part correct: the emitter's report and manifest name the right
hashes whatever was rejected; the service emits only what gate, cap, mode and
binding allowed at admission, and answers; the HTTP binding tells success,
poison and failure apart so that a report speaks the truth about Core, a rerun
of a run that succeeded adds nothing, and a poison record never stops a stream;
the Pub/Sub binding counts as emitted what the broker has in custody and nothing
else; coercion leaves a generator only values in the schema's bounds, but for a NaN;
a count `run_adapter` returns is the whole of its last extraction - stored over
HTTP, in the broker's custody over Pub/Sub -, no retry lets a record overtake the
one before it, and the retries end. What a preset announces about its batch is
compared with rules written without the generator (a deduper, a matcher, a cockpit,
detection rules, a calendar); where the two disagree a violation run shows it, and
what hangs on random draws alone (the figures of an ingestion batch) is not claimed.

## Modules

The service and what is behind its port:

- `SimRecords` - records, stamping and manifest resolution as operators. A
  payload is an opaque value: only equality of canonical JSON matters.
- `SimService` - the dispatch service as a state machine over a set `Requests`.
  `pc[r]` is the place of the request's thread: `new`, `admitted` (dependencies
  resolved), `emitting` (between two records), `publishing` (inside
  `publish`), `answered`, `killed`. The publisher may return or raise anything.
  The steps between two waits of a thread are one action (no other thread can
  see between them), so `Build` covers generation, cap and stamping. Either
  publisher imports an optional package when it is constructed, which may fail
  (`PublisherConstructible`).
- `CoreTable` - what the bindings share: `rows`, Core's table with its dedupe on
  `source_hash` (external), the poison it refuses, and what a request is to the
  contract (`RunState`, `Offered`: a dispatch that has built its records is a
  run). `RowsTraceable` is stated once for both bindings.
- `HttpPush` - `HttpPushPublisher` behind the port and Core behind the wire.
  `wire[r]` is the last POST of a request or Core's answer; it may outlive the
  request. `faulty` is chosen initially: whether Core and the network ever fail.
- `PubSub` - `PubSubPublisher` behind the port. `client[r]` is what the client
  library does with the last record, `topic[r]` the records the broker took,
  with the deliveries still due. The library, the topic and its push subscription
  are external: the docstring of `PubSubPublisher` says what they do (delivery at
  least once, retried, dead-lettered after a number of attempts), and the library
  repeats a publish on its own, so that a record may be there again at any time
  after it was accepted (`Repeated`: its deliveries start over).
- `IngestionContract` - the abstract specification: runs offer keys, delivery
  is at least once and idempotent, success means all but poison is stored.
  `HttpPush!KeepsContract` is the refinement for Core's table. Over Pub/Sub that
  contract is false - a publish that returned is not yet stored -, and
  `PubSub!KeepsCustody` says what is true instead: with `Poison <- {}` and
  `stored <- Custody` (stored, pending or dead-lettered) the same contract holds.
  `AdapterRun!AttemptsKeepCustody` is the refinement for the adapters, in the same
  weaker sense, since their publisher may be either.

The live adapters:

- `AdapterRun` - a job is `with_backoff` around `run_adapter`; `feeds[j]` has one
  extraction per attempt (so the attempt number is its length), `at[j]` and
  `published[j]` are the loop of the runner, `last[j]` the exception the retry
  holds. `binding` is the publisher of the deployment. Over `http` a publish that
  returns has a row at Core, and poison raises; over `pubsub` it has put the record,
  poison or not, into the hands of the `broker`, which delivers it late, more than
  once, or never. `flight` are the records sent by a publish that has raised or
  died, which may still arrive. What a return means is therefore said of `Taken`:
  rows over HTTP, custody over Pub/Sub. The scheduler that would compose the two
  functions is not in the repository: the composition is the one `retry.py`
  prescribes. An attempt is a run of `IngestionContract`.
- `Camt053` - `parse_balances` as an operator over the statements of a document.

The generators:

- `Params` - `coerce_params`, `_clamp` and `_coerce_window` over the values JSON
  has, as far as they behave differently: numbers and their strings, infinities,
  huge integers, NaN, words, lists, null. Booleans behave as 1 and 0, objects as
  null, and have no values of their own. Numbers are hundredths, so that ratios are
  integers.
- `Batches` - the records and batches the generators share. References that are
  drawn may repeat; the good records of a firewall batch are numbered, that is,
  taken to differ, since their amounts and dates are drawn as well.
- `TotalPresets` - ingestion, consolidation and forecasting, whose batches announce
  totals: flows with drawn references, balances that are rounded to the cent when
  drawn, when converted and when added up, the calendar of a history.
- `Presets` - the state machine of a call: `called`, then `coerced` or `raised`,
  then `generated`. Here too are the four presets whose ground truth names single
  records, as folds over their loops. Random draws are inputs.

`MCSimService`, `MCHttpPush`, `MCPubSub`, `MCAdapterRun` and `MCPresets` are the
small instances; `SimServiceProofs` (with the stamping of `SimRecords`),
`HttpPushProofs`, `PubSubProofs`, `AdapterRunProofs` (with its refinement of the
contract), `IngestionContractProofs`, `ParamsProofs` and `PresetsProofs` hold
theorems and proofs, and `Loops` what they need to know of loops, sequences and
sums. Operators named `Fault...` are the plausible bugs each property must notice;
no specification uses them.

## Runs

| run | asks | result |
|---|---|---|
| `service_dispatch` | Do reports and manifests stay aligned, is only what was sanctioned emitted, are collisions true duplicates, is every dispatch answered, whatever the publisher does? | holds |
| `http_faults` | With a Core that may commit and then fail, answer late or never: are reports true, rows traceable, reruns without effect, and is the contract kept? And with a Core that answers, does a poison record ever stop an emission? | holds; it does not |
| `pubsub_delivery` | With futures that time out, messages that outlive them, repeated publishes, redelivery and dead letters: is what counts as emitted in custody, each record once and in order; are rows traceable; is the custody contract kept? | holds |
| `adapter_faults` | What does a return of a retried job mean behind either binding, over poison, unmapped types, broken extractions, transport faults, late deliveries and kills? Does a record ever overtake the one before it, does a rerun add anything, is custody what the contract keeps, does every job end? | holds |
| `preset_truth` | From the JSON of a request to the batch of all seven presets: does coercion settle, does a call raise only over infinite, huge or NaN numbers, and is what the batches announce of repetitions, totals, histories, anomalies, matches and triggers what a deduper, a detector, a matcher and a cockpit written independently find? | holds |
| `midnight` | Same preset, params and seed, same hashes? (`ARCHITECTURE.md:98`) | violated: the generator also takes the Paris date |
| `transport_failure` | Is a failed emission answered 502? (`http_push.py:20`) | violated: httpx exceptions are not `HttpPushError` |
| `adapter_poison` | Do poison records and malformed files go to a DLQ instead of failing the job? (`parser.py:28`, `retry.py:4`) | violated: the runner catches nothing |
| `shared_document_key` | Is `source_hash` that of the record's payload? (`base.py:38`) | violated: balances of one document share its bytes |
| `anomaly_collision` | Do injected duplicates pass the deduper? (`finhub_anomaly.py:117`) | violated: the eleventh duplicate of ten flows is the first again |
| `coercion_raises` | Do invalid parameters fall back to the default, in the bounds of the schema? (`generators/base.py:107`) | violated: `int()` of an infinity and `float()` of a huge integer raise `OverflowError`, which is not caught; and `_clamp` (`base.py:84`) gives a NaN back |
| `consolidation_entities` | Do the accounts belong to as many entities as announced? (`finhub_consolidation.py:4`) | violated: there are names for five (`base.py:169`), the announcement is the parameter |

Bounds. `service_dispatch`, `http_faults`: two requests, so that two threads
interleave in every way and a retry of the same batch is another request; batches
of up to four records with a repeated payload and a poison one, so that
rejection happens before, at and after a repetition; two days; four settings
(gate open and closed, a cap below and above the batch, bindings with and
without a publisher). Requests share nothing but settings, date and Core's
table, so a third would meet no situation that two do not produce.
`pubsub_delivery`: two dispatches of a batch of an entry, which is poison, and a
flow, or a manual batch of that flow alone, so that messages of two requests
carry one hash and race; `MaxDeliveries` is 2 where the subscription's policy
says five, which has a first, a last and a repeated delivery (57 814 states).
`adapter_faults` (67 586 states): two jobs over the same data, so that one's rows
and late arrivals meet the other's rerun; two attempts (a first, and a last that must
not sleep); three sources (poison behind a good record, one that breaks off, one of
an unmapped type), any of them in any attempt, so that a
source may change in between; transport and broken extractions are retried, the other errors are raised
at once.
`preset_truth` (19 096 states): the schemas of the code with upper bounds and
defaults scaled down; the least baseline and one above, counts on both sides of
the wrap-around of option lists, slices and baselines, ratios that round down, up
and to even, three draws of three values; histories that end on each day of a
year of 365 days, so that every day of a month is the last, and the ends of months of 28,
30 and 31 days are crossed; odd JSON values one parameter at a time, since coercion treats
parameters one by one. `Slices`, `RapidTransfers`, `BaselineFlows`,
`EntitySuffixes`, `FlowsPerAccount` and `Counterparties` have the code's values;
the cap, the retry's default of four attempts and the batch sizes are scaled down.

`CHECK_DEADLOCK FALSE` is set because a service with nothing left to do, a job
that has ended and a generator that has returned really stop.

Fairness. A request's thread and a job's thread run when they can: they wait
only on `publish`, which ends (httpx has a timeout of 10 s, the Pub/Sub result
one of 30 s), and on `time.sleep`. No fairness is assumed of the environment:
settings, midnight and kills may never come. `PoisonNeverBlocks` speaks of the
behaviours in which Core answers (`faulty` is FALSE), which is its question.
Nothing is asked of the broker: that it delivers at all is no property of this
code, and none is stated.

## Proofs

Proved for every value of the constants, from the named assumptions on them
(`TypeOfAssumption`, `DigestAssumption` - SHA-256 over the canonical JSON is taken
to be without collisions -, `ServiceAssumption`, `GeneratorAssumption` - a
generator returns sim-json records -, `PoisonAssumption`, `HttpAssumption`,
`PubSubAssumption`, `AdapterAssumption`, and for the presets `SchemaAssumption`,
`PresetAssumption`, `CallsAssumption` and `SizeAssumption`, see below):

- `StampedCollisionsAreDuplicates`: stamping. Equal hashes are equal records.
- `ServiceInvariant` and its consequences `TypeCorrect`, `ReportStaysAligned`,
  `ManifestIsResolved`, `EmissionIsSanctioned`, `NoAccidentalCollision`. The
  properties are not inductive: `Stages` adds, for each `pc`, what has been
  decided by then (settings, batch, position within it, no status yet).
- `HttpImplementsService`, `PubSubImplementsService`: every step of a binding is a
  step of the service, so those theorems carry over to both.
- `HttpInvariant` adds `WireOK`: a POST on the wire is that of a record its
  request had reached and has not passed with success. From it `ReportsAreTrue`
  and `RowsAreTraceable`.
- `PubInvariant` adds `ClientOK` (what the library holds is the record of a thread
  that waits for it, or has given up on it), `NoneRejected`, `TopicOK` (the topic
  is the batch up to the position, or one before it) and `RowsOK`. From it
  `PubTypeCorrect`, `EmissionStaysInCustody` and `PubRowsAreTraceable`.
- `ContractPromises`: what the contract promises, `SuccessMeansStored` and
  `OnlyOfferedStored`, from `ContractInv`, which adds to them that a run without
  a beginning has offered nothing. Every refinement inherits it.
- `HttpKeepsContract`, `PubSubKeepsCustody`: the two refinements of the service.
  They share `RunsOfService`, which says once what each step of the service is to
  the runs of the contract (a beginning, a success, failures, or nothing); each
  binding adds what becomes of the table. For Pub/Sub the argument is that custody
  is all the topic has ever taken (`CustodyIsTaken`), so a delivery changes
  nothing. `RetriesAddNothing` follows over HTTP.
- `AdapterInvariant` (`Numbered`: attempts are counted by extractions; `Behind`:
  every record behind the position is taken; `AtTheEnd`; and `NoGaps`, which is
  inductive with them), and from it `AdapterTypeCorrect`, `ReturnsAreTrue`,
  `RecordsKeepOrder`, `ReturnsAreFinal`. The argument is that `Taken` only grows:
  a delivery moves a record from the broker to Core, a record that arrives is one
  its attempt had come to.
- `AdapterKeepsCustody`: the third refinement of the contract, for custody. It needs
  `FlightIsOffered`: what is still under way was sent by an attempt that has
  failed since, which is when the contract allows it to arrive.
- `ParamsSettle`: for every sound schema, a coerced value fits its parameter (or is
  the NaN no comparison stops) and coercing it again changes nothing. For a list
  the argument is an induction along the loop that keeps its options.
- The presets: `RunTypeOK`, `RunCoercionSettles`, `RunOrdinaryNeverRaises`,
  `RunFirewallAddsUp`, `RunConsolidationAddsUp`,
  `RunHistoryIsLearnable`, `RunInjectedIsDetected`,
  `RunMatcherLeavesTheMismatched`, `RunTriggersAreTheBurst`: every invariant of
  `preset_truth`, for any schema, calls, draws and sizes.

How the presets are proved. The invariants speak of the last state of a call, so
the inductive invariant is small: `Consistent` says that a call that has been coerced
has the coerced inputs, that one that has been generated has the batch `Generated` makes
of them, and that one that raised had one of two reasons to. What is hard is
`Generated`: loops over loops that append to a batch.

- A loop is `ForRange`, whose value is the last of a chosen sequence of batches
  `run[0]`, ..., `run[n]`. That there is such a sequence, and only one, needs induction,
  and so does what it ends in. Induction in the form the library has it cannot be
  used by these provers (its hypothesis is an operator), so `Loops` goes by sets:
  a set of naturals with zero in it, and with each member below `n` the next one, has
  all up to `n` (`UpTo`, from the least element of the complement). `LoopEnds` is the
  rule for loops that follows: give a set `W[k]` of batches for each `k`, show that
  the start is in `W[0]` and that the body leads from `W[k]` to `W[k + 1]`, and the
  loop ends in `W[n]`.
- Each generator then has its loop invariant, which says what the batch is after
  `k` rounds: `Prefix` (firewall and circuit breaker, whose batches have a closed
  form), `Reconciled`, `Anomalous`, `Ingested`, `Consolidated`, `HappenIn` (the
  slots of a history that happened, in order). `...Batch` is the lemma that the
  generator ends in it, `...InputsOfCall` that the inputs of a call are what it
  asks for, and `...Returned` the two for a state of a call.
- The invariants are read off those shapes. That Core keeps as many records as
  announced is a bijection with positions, pairs of positions, or slots
  (`ImageCardinality`); that the accumulated total is the sum over what Core keeps
  is `SumsAgree`, on sums over finite sets, which do not depend on the order; `RoundTo`
  adds that rounding the total at the end touches nothing else. The
  detection rules need that what is injected stays injected while more is
  appended (`StaysInjected`). A history needs its calendar: `DayOfTheMonth`,
  `MonthBefore` (28 to 31 days earlier, and none in between) and `MonthHasDay`.

What they assume, and why the code justifies it. `SchemaAssumption`: ranges are ranges
of naturals that hold their defaults, and a default list has options only.
`PresetAssumption`: a schema has the parameters its generator reads with the types
it declares them by; counts and windows are at least one; a history has at least 62
days (the code: 90); ratios are at most one where a property says how many of
something there are; defects, mismatches, anomalies and currencies are those the
generators know. `CallsAssumption`: a request holds JSON values, there is a draw, and
the draws of an anomaly's baseline stay within 5% (`finhub_anomaly.py:75`).
`SizeAssumption`: sizes are at least one, the burst fits into two minutes (the
code's eight transfers, 14 seconds apart, do) and the slices into an hour.
TLC evaluates all four on `preset_truth`, where schemas are the code's, scaled down.

Only model-checked: liveness (`DispatchIsAnswered`, `PoisonNeverBlocks`,
`JobEnds`; fairness is out of the prover's reach), and the
violations, which are single behaviours. Every invariant and action property of a
passing run, and every refinement, is proved. That generators return sim-json
records, which `GeneratorAssumption` assumes of the service's batches, is what
`RunTypeOK` says of the seven generators.

## Without a run

One disagreement is in the model and has no run of its own, since one request shows
it: `get_publisher` says that a dry run needs no publisher (`api.py:44`), but it is a
dependency of the endpoint, resolved before `dry_run` is looked at (`api.py:138`), so
a dry run is answered 500 when the publisher cannot be constructed (`Resolve` with
`PublisherConstructible` false).

## Not modelled

- The PSD2 bridge is a stub that raises.
- The simulator CLI is the runner's loop over fabricated records of a canonical
  type, without a retry: a job of `AdapterRun` with one attempt.
- `StdoutPublisher` writes a line; it has no failure the properties speak of.
- pydantic's validation of request bodies (its outcome is the constant
  `Validated`), `GET /presets` and `/health`, trace ids, timestamps, constant
  provenance tags and wording decide nothing the properties speak of. Season and
  noise of a forecast only move an amount.
- The figures an ingestion batch announces. Its references are drawn
  (`connect_ingestion.py:80`) and may repeat, so that Core may keep fewer flows than
  announced; only the kinds of its records and the range of its positions are
  checked (`TypeOK`).
- Whether the broker delivers: `PubSub` says what holds whenever it does.
- Whether a response with a NaN in its ground truth can be rendered (`api.py:184`)
  depends on the FastAPI version, which `pyproject.toml` leaves open.

## Plan

Done, in this order: records and service; HTTP binding and contract; adapter
jobs; labelled presets and their proofs; the Pub/Sub binding; parameters; the
presets with totals; the promises of the contract; proofs of all seven presets and
of parameters that are lists. What is left:

1. `Presets` composed with `SimRecords`, so that a position of the ground truth is
   followed from generator to the manifest of `enrich_ground_truth` in one run.
2. The simulator CLI over `PubSub`'s topic.
3. `GeneratorAssumption` of the service discharged by `RunTypeOK` in that
   composition, so that the manifest's theorems hold of generated batches without it.
