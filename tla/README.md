# lndmon, specified

lndmon connects to an lnd node, turns what the node says into Prometheus
metrics and serves them over HTTP. This directory holds TLA+ modules that model
it, TLC configurations that check them on small instances, and proofs, checked
by TLAPS, of theorems about all of these models for every value of their
constants. Paths in this document are those of the repository (`lndmon.go`,
`collectors/...`); `PROJECT.json` maps every definition to its lines.

## The system

lndmon is one process. `lndmon.go` (`start`) connects to lnd, makes the
exporter, starts it, and then waits once, in a `select`, for a signal or for
one error. `collectors/prometheus.go` makes the collectors, registers them, and
starts the two monitors and the HTTP server. Everything that can go wrong later
is sent to one buffered channel, `errChan`.

| Part | State | Operations | Code |
|---|---|---|---|
| Main goroutine and exporter | where `start` is, quit channels, what it returns | connect, register, start monitors, serve, select, stop | `lndmon.go`, `collectors/prometheus.go` |
| Error channel | up to 8 errors | sends by every goroutine below, one receive by main | `collectors/prometheus.go` |
| Htlc monitor | `activeHtlcs`, a counter and a histogram | subscribe, process an event, stop | `collectors/htlcs_collector.go` |
| Payments monitor | two counters and a histogram, global to the process | subscribe, process a payment, stop | `collectors/payments_collector.go` |
| Channels collector | `closedChannelsCache` under a lock, its refresher | refresh, `Collect` (five calls to lnd, inbound fees) | `collectors/channels_collector.go` |
| State collector | three times and a state under a lock | monitor lnd's state, `Collect` | `collectors/state_collector.go` |
| Chain, peers, info | none | `Collect`: one call, copied to metrics | their files in `collectors/` |
| Graph | none between scrapes; in one, five compilers and two histograms | `Collect`, `Observe`, `Report` | `collectors/graph_collector.go`, `collectors/stats_compiler.go` |
| Wallet | none between scrapes; in one, counts, sum, extremes | `Collect`: three calls, a loop | `collectors/wallet_collector.go` |
| Watchtower client | none between scrapes; in one, sums by tower | `Collect`: one call, a loop | `collectors/wt_client_collector.go` |

How they interact:

- The registry (a library) calls `Collect` on every collector of a scrape, each
  in a goroutine of its own, at any time while the process lives, and several
  scrapes at once. A `Collect` makes calls to lnd; one that fails ends it, and
  sends an error to `errChan`, unless the cause is one that is tolerated.
- Four goroutines live as long as the process or until they fail: the htlc and
  the payments monitor read streams, the state monitor reads lnd's changes of
  state until lnd is active, and the refresher fetches the closed channels every
  ten minutes. Each of them may send an error to `errChan`.
- `Stop` closes a monitor's quit channel and waits for its goroutine, first for
  the htlc monitor and then for the payments monitor. The common `quit` is
  closed by `start` on a signal only, and nobody waits for the state monitor or
  the refresher.
- Scrapes read the counters of the monitors while the monitors update them. Only
  the cache and the state collector's times are under a lock.

What is hard about it, and makes up the hazards of `PROJECT.json`:

- the one receive from a bounded channel with more senders than its buffer has
  places, one of which `Stop` waits for;
- two ways to stop, in any order, at any moment of the start or of the stop;
- streams that end, replay, or stay silent; a restart that forgets what was in
  flight;
- metrics that are put together from several answers, or updated one after the
  other, while what they describe goes on;
- failures between two calls of a `Collect`, and timeouts in two disguises;
- zero as "none", ties in the order of a Go map, empty data sets, a product that
  overflows, fees of either sign.

## The modules

| Module | Models | Instances and proofs |
|---|---|---|
| `Lifecycle` | what a supervisor sees of the process: it starts monitors, stops for one cause, and has none of them alive when a stop has ended | refined by `Exporter` |
| `Exporter` | the whole process: main, `errChan`, four goroutines, the `Collect` calls of scrapes, signal, HTTP server | `MCExporter`, `ExporterProofs` |
| `HtlcMonitor` | the htlc monitor against lnd's log of events | `MCHtlcMonitor`, `HtlcMonitorProofs` |
| `PaymentsMonitor` | the payments monitor against a scrape | `MCPaymentsMonitor`, `PaymentsMonitorProofs` |
| `ChannelsCollector` | channels that live on, one `Collect` with all its calls, the cache and its refresher | `MCChannelsCollector`, `ChannelsCollectorProofs`; implements `Scrape` |
| `InboundFee` | what `Collect` computes at its end: policies, the split, the series | `MCInboundFee`, `InboundFeeProofs` |
| `StateCollector` | how long lnd took to start, on a clock | `MCStateCollector`, `StateCollectorProofs` |
| `Scrape` | the calls of all seven collectors that ask lnd at every scrape | `MCScrape`, `ScrapeProofs`; implemented by the next three and `ChannelsCollector` |
| `GraphCollector` | the graph's loop over policies, the statistics and the histograms it compiles, its calls | `Reports` |
| `WalletCollector` | the loop over the unspent outputs, its calls | `Reports` |
| `WtClientCollector` | the loop over the towers, its call | `Reports` |
| `Reports` | these three side by side, and their properties | `MCReports`, `ScrapeProofs` |
| `SumTheorems` | no code: what the sums of the community modules add up | cited by the proofs |

`Exporter` is the composition: it has every goroutine and every `Collect` call
with all that matters to the others, which is when it sends an error and when
it ends. The other modules each open one of these boxes, and `Scrape` is the
specification of what every `Collect` promises of its calls: what is exported,
in which order, when it stops and when it says so. The four collectors that do
more than copy an answer are shown to implement it, by a refinement mapping from
the place a `Collect` is at to the number of its call. What a module leaves
to another is said in its first comment.

### Exporter and Lifecycle

`main` is the place in `start`, `Start` or `Stop` that the main goroutine is
at, `pc[w]` the place of goroutine `w`. An error is a token; `errChan` counts
those in the buffer, `blocked` the `Collect` calls that are waiting to send
theirs. `MainStep` is the code of `start`, `Start` and `Stop` statement by
statement, `StartFails` its error returns, which do not call `Stop`. On either
way out the deferred `lnd.Close()` comes first (`Close`), which ends the streams
that are open, and then the process exits (`Exit`); what nobody has joined goes on
in between, and may raise errors that nobody receives.
`HtlcFail`, `PaymentsListen`, `StateActive`, `CacheTick` and so on are the
loops of the goroutines, `Send` is a send on `errChan`, which waits for room.
`LoseStream` is lnd ending a stream. The model begins with options that have been
parsed: asked for help, or given options it does not know, the process ends
before it has any state. A Go `select` with several ready cases is a
disjunction: any of them may be taken.

Only one error is received (`TakeError`), so the channel never gets room again
after the stop has begun. Properties: `ErrorConservation`, `NoBlockedSend` (the
exact size of the buffer that is enough), `ExitStatus`,
`ImplementsLifecycle`, and under fairness `ErrorStops`, `SignalStops` and
`StopEnds`. In `Lifecycle` a stop comes to its end (`FinishStop`) only when no
monitor is alive, and none is started after it, so that `ImplementsLifecycle`
says that the connection is never closed under a monitor that was stopped. After a
start that has failed, `Lifecycle` lets the htlc monitor run on until the exit, as
the code does.

### HtlcMonitor

lnd's events are a log that grows; an event's time is its place in it. The
monitor subscribes at the end of the log (`Start`) and reads on. Every event is
one of the code's cases: a forward, a resolution (which counts in one step,
`RecordResolution`, and observes and forgets in a second, `ObserveResolution`,
so that a scrape may see one without the other), an event that is ignored, one
that is not known, one of an unknown type. `Restart` clears the memory and
leaves the log. The properties compare the counters, the histogram and the
tracked htlcs with the part of the log that was read, and with nothing that the
model keeps for the purpose. lnd is assumed to resolve an htlc once and to
replay forwards only of htlcs in flight (`LndForward`, `LndResolve`), and to give
link failures a failure string that is not empty (`HtlcAssumption`). Events that
are ignored or not known come first or after the resolution of their key
(`LndOther`): anywhere else the one changes nothing and the other does what `End`
may do at any point, and the run would be several times as long. There is no
scrape in this module: that one may come between the two steps of a resolution is
a hazard no property of it covers.

### PaymentsMonitor

`CountPayment`, `AddAttempts`, `Observe` are the three updates of
`processPaymentUpdate`. `ScrapeBegins` and `ScrapeReads` are the registry
reading the metrics in any order. The metrics should be what the log adds up to
(`MetricsMatchLog`), and what one scrape reads in different places should be
apart by no more than what happened meanwhile (`ScrapeIsClose`), so that a quiet
scrape agrees with itself. Every payment that lnd finishes while the monitor is
subscribed gets into all three metrics, whatever its status, unless the stream
fails or the process ends (`EveryPaymentIsObserved`).

### ChannelsCollector

`stage` is where each channel is in its life at lnd: pending, open, waiting for
its closing transaction, closed by force with outputs to wait for, closed.
`Collect` makes its five calls and reads the cache between the last two
(`Following` is their order), while channels go on; the refresher fetches, locks
and writes. One `Collect` stands for all, since they share only the cache, which
they do not write. No open channel may fall between the calls
(`NoOpenChannelLost`), what stands still is exported exactly, in the list it
belongs to (`QuietChannelsExact`), the cache never loses a channel
(`CacheGrows`), and a channel that closes gets there in the end
(`ClosedIsCounted`). A call that fails leaves what was exported before and sends
an error, but for a late `GetInfo`, as `Scrape` has it (`ImplementsScrape`).

### InboundFee

`GetRemotePolicies` with its error `NotOurChannel`, `SendShard` (one iteration
of `approximateInboundFee`), `ExportFee` (an amount is covered, on with its
double) and `NoLiquidity`. `Best` is the set of channels that the code may pick
for some order of the Go map. Fees per satoshi are compared as fractions
instead of `float64`; integer division is that of Go, and the product of an
amount and a rate wraps around (`Wrap`), which takes the highest rate a peer may
announce and a channel of some twenty bitcoin. The fee may then be anything, even
negative, and `NearOptimal` is about products that fit (`ProductsFit`); the split
and the series are right all the same, as the other properties say of every
state. A policy that is `nil` is
dropped like one that is disabled, and the model has only the latter. The module
assumes of what lnd answers that there are finitely many channels, that balances
are natural numbers and fees integers. `SeriesIsComplete` says by doubling
(`AmountAt`) which amounts are exported.

### StateCollector

A clock (`Tick`) and everything else within its instants. lnd reports its
present state first and then its changes (`Subscribe`, `LndAdvances`). The lock
makes `Record` and `Collect` atomic; the instant between the receive makes `Record` and `Collect` atomic; the instant between the receive of a state
and its recording is there. What is exported is not all that a reader might take
it for: the first part ends no earlier than lnd is unlocked, and both together no
earlier than it is active (`Truthful`), but the connection may be made so late that
the second part alone is less than lnd took from the one to the other.
`EndIsRecorded` is about an lnd that becomes active after the program has started;
for one that was active before, a comment wants no metric at all, and
`NoMetricIfLate` shows there is one.

### Scrape

Each `Collect` as the list of its calls, each with the causes on which it
returns without an error and the descriptors it exports; `Begin`, `Answered`
and `Failed` are the control that all of them share. lnd may be down, come
back, and have another configuration then. A timeout is the client's, or the
server's, which arrives as text. `Arriving` gives for each cause the error as a
collector gets it (the context error in its chain, the code, the parts of its
text), and `IsDeadlineExceeded` and `IsInactive` recognize it there as the code
does. The properties go by the cause instead: what they tolerate has to be
recognized, and what they do not tolerate must not be, though it may have the
same text (`innerDeadline`, `unreachable`).

### GraphCollector, WalletCollector, WtClientCollector

The collectors that compute something, each from its first call to its last.
Their properties compare what is exported with lnd's answer, which the model
keeps for the time of a `Collect`; `Begin` starts the next one, with fresh
variables as in the code.

`GraphCollector`: nil policies are skipped (`SkipNil`), the others observed by
the compiler and, if they have the record of the inbound fee, by the two
histograms (`ObservePolicy`). The five compilers of the code run side by side on
five fields; the model has one. `Sorted` gives what the code's sort puts at a
place without sorting, by counting samples. The average is kept as a fraction,
the median doubled. `ReportIsRight` defines extremes, median and average without sorting;
`InboundFeesAreRight` is that a fee of 0 is in no series and any other in that of
its sign.

`WalletCollector`: `CountUtxo` is one turn of the loop, where 0 stands for no
minimum so far. `UtxosAreRight` says that the order of the outputs does not
matter. It rests on `ValuesAssumption`, that an output is worth something; an
output of 0 would be forgotten as the minimum by the next one.

`WtClientCollector`: the sums are declared within the loop over the towers, so
they begin at 0 for each (`ExportTower`); entries of the list that are nil are
skipped. `BackupsAreRight` is that each tower has the backups of its own
sessions.

## The runs

| Run | Bounds | Shows |
|---|---|---|
| `exporter` | buffer of 3, one failing call, one scrape of 6 collectors, both monitors | all properties of `Exporter` over every interleaving |
| `htlc_log` | two forwards that share channels, one receive, 4 events, restarts | the htlc monitor's memory and metrics are what the log says |
| `payments_scrape` | 2 payments, two statuses, no or two attempts | metrics match, a scrape is consistent up to what happened meanwhile, every payment is observed |
| `channels` | 2 channels in any stages | nothing is lost between the calls; the cache grows and is filled; failures are those of `Scrape` |
| `inbound_fee` | 3 channels of 5 listings and 6 edges, 24-bit integers | the split is possible, complete, close to the cheapest, and found |
| `state` | 5 instants | exported times are final and truthful, and come if lnd was not active before |
| `scrape_gaps` | any 3 of the 7 collectors | gaps are explained, tolerated causes are tolerated |
| `reports` | 3 edges of 4 policies or nil; 4 outputs of 3 values; 3 towers of 2 sessions | statistics, histograms, extremes and sums are right; three collectors implement `Scrape` |
| `error_buffer`, `stop_blocks_on_recv`, `state_late_start`, `inbound_fee_policies` | see below | findings |

Why the bounds are enough:

- `exporter`: with three readers and one failing call there are four errors for
  a buffer of three, so that the buffer is at its limit, and beyond it when no
  error is received; six `Collect` calls are one scrape without the graph. More
  failures or scrapes only add tokens. The theorems hold for every size;
  `error_buffer` uses the code's numbers (8, seven collectors).
- `htlc_log`: a forward, its replay, a resolution and one more event, in any
  order with a restart anywhere, on keys that share the labels of their
  channels. The two forwards are interchangeable, hence the symmetry; no
  liveness is checked there.
- `payments_scrape`: one payment before or while the scrape reads and one more;
  a third would repeat the second.
- `channels`: the properties are about one channel each; the second one makes
  the answers sets. The theorems hold for any set.
- `inbound_fee`: balances of 0, 3 and 8 around a first amount of 2 (so amounts
  2, 4, 8, 16), rates and a base fee that tie for some amounts, channels in one
  answer only, a channel of others. The highest rate and the highest balance
  have a product that does not fit, while those of smaller amounts do.
- `state`: five instants let start, connection, unlocking, activity and a scrape
  fall on different ones, or on the same.
- `scrape_gaps`: collectors share nothing but lnd, so that pairs would do.
- `reports`: odd and even numbers of samples up to six, repeated values, a gap on
  either side of the median; fees of either sign, of 0, and none, base and rate
  with different signs in one policy; outputs in any order; towers without
  sessions and entries that are none between others. The three collectors share
  nothing, so TLC takes one of them at a time.

`CHECK_DEADLOCK FALSE` is said where the system really may stop: `exporter`
(a full buffer), `inbound_fee` (a loop ends), `state` (the clock ends).

Each property has a mutant in `PROJECT.json`: a changed definition, marked as
such in its module, under which TLC finds the property violated.

## Fairness

- `Exporter`: a goroutine that can go on does, which is what the Go scheduler
  gives, and a send with room in the buffer is made. A stream that lnd has ended
  reaches its reader. Each action of a goroutine has a weak fairness of its own.
  Strong fairness is not needed: nothing that is enabled is disabled again by
  others, except sends when the buffer fills up, which `StopEnds` excludes.
  Nothing is assumed of lnd's payments, of signals, of failures or of the
  scraper, nor of the connection to lnd, which waits for the wallet to be
  unlocked (`SignalStops` therefore begins after it).
- `ChannelsCollector`: the ticker ticks, lnd answers or the call fails, the
  goroutine goes on. No fairness for sending the refresher's error, on which the
  process ends.
- `PaymentsMonitor`: what lnd has sent is received, and the three updates of a
  payment follow one another. Nothing is assumed of lnd, of the scraper, or of
  who restarts the process.
- `StateCollector`: the subscription is made, what it has delivered is received
  and recorded. lnd need not become active.
- `InboundFee`: one goroutine that waits for nothing, so `WF_vars(Next)`.

## What the code does and its comments do not say

Four runs find a statement of a comment violated by what the code does:

1. `error_buffer` (`collectors/prometheus.go:103`). The buffer is 8 "so that we
   do not need to consume all errors". There are more senders than that, and a
   failing refresh and every failing scrape send again: when the htlc monitor
   finds the buffer full, `Stop` waits for it for ever.
2. `stop_blocks_on_recv` (`collectors/payments_collector.go:140`). `stop`
   "cancels the payments monitor subscription", but the quit channel is looked
   at only between two payments: `Stop` waits for lnd's next payment.
3. `state_late_start` (`collectors/state_collector.go:83`). No startup time
   "will be emitted" if lndmon starts late. It is: lnd's report of its present
   state is taken for a change.
4. `inbound_fee_policies` (`collectors/channels_collector.go:681`). Both cases
   of `getRemotePolicies` take `Node1Policy`, so that for a channel of which
   this node is the first end its own policy is taken for its peer's.

Read in the code while modelling, and not stated as a run:

- `Stop` is "waiting for all goroutines to exit" (`prometheus.go:219`); it waits
  for the two monitors, as `ImplementsLifecycle` has it. The state monitor, the
  refresher and running `Collect` calls go on while `lnd.Close()` closes the
  connection.
- `Describe` of the channels collector leaves out `numClosedChannels`, which
  `Collect` exports (`channels_collector.go:240` and `:533`).
- `info_collector.go:53` sends an error for every failure of `GetInfo`, timeouts
  included, which the chain and channels collectors tolerate: a slow `GetInfo`
  can end the process all the same. `GapsAreExplained` and
  `ToleratedIsNotRaised` say where it is tolerated.
- `IsDeadlineExceeded` looks for the server's text as lnd's gRPC layer writes it
  (`errors.go:17-19`). A deadline that lnd reports with words of its own before it
  is not recognized, and a late `GetInfo` of that kind ends the process
  (`innerDeadline` of `Scrape`).
- `Report` of no sample (`stats_compiler.go:59`) gives a minimum of
  `math.MaxFloat64` and an average of 0/0; `newStatsCompiler` asks for one
  `Observe` at least, and a graph without policies makes none. `ReportIsRight`
  is about the reports of at least one sample. The average of a wallet without
  outputs is 0/0 as well (`wallet_collector.go:148`), its minimum 0.
- `metrics.md:58` lists `lnd_tx_num_confs`, which no collector exports.
- A failing `ListenAndServe` is logged only: the process goes on without serving
  (`HttpFails`).

## The proofs

`ExporterProofs` proves, for every capacity of the channel, every configuration
of the monitors and any number of failures and `Collect` calls
(`ExporterAssumption`):

- `TypeCorrect`: `Spec => []TypeOK`. `TypeOK` is inductive, one step per action,
  with `MoveType`, `StepType` and `RaiseType` for the goroutines' steps.
- `ErrorsConserved`: `ErrorConservation` needs to know that a reader whose error
  is on its way or done with has raised one, and that none is taken before main
  waits (`Accounted`); `ErrorInv` is the conjunction.
- `SendsDoNotBlock`: from `ErrorInv` by counting. If a send is pending and the
  buffer full, more than `ErrBuf + Taken` errors have been raised, and no more
  than `MaxFailures + Readers` can have been.
- `ExitStatusCorrect`: `QuitInv` says that a closed quit channel means a signal.
- `LifecycleImplemented`: `JoinInv` says that a monitor that has been joined does
  not run again. With it every step of `Exporter` is a step of `Lifecycle` or
  leaves its variables alone. `StopInv` is the conjunction that both theorems use.

`ChannelsCollectorProofs` proves, for any set of channels:

- `TypeCorrect`, with the invariant that the cache and what is about to be
  written to it are closed channels;
- `OpenChannelsAreNotLost`, `QuietChannelsAreExact`: the argument is that a
  channel only goes forward (`Rank`, lemma `Forward`), so one that is in the same
  stage at two moments was there all the time, and one that was open at first and
  is not listed as open has gone on to where the next call looks. `BeganInv`,
  `ListedInv`, `PendingInv` and `ReadInv` say so after each call;
- `CacheNeverShrinks`: from `RefreshInv`, that the answer being written holds
  the cache, since closed channels stay closed and only one goroutine writes.

`ScrapeProofs` proves, for any set of collectors that work side by side
(`CollectorsAssumption`):

- `TypeCorrect`, where `TypeOK` says that a `Collect` that runs has sent no error;
- `GapsHaveReasons`, `ToleratedSendsNoError`: `ExportedInv` says that what a
  `Collect` has exported is exactly what the calls before the one it is at give
  (`Before`), and that one which has ended has failed at some call (`EndedAt`), or
  at none. A gap then tells the call, the call tells which causes are quiet
  (`QuietCalls`), and there are three that have any. Which those are is what the
  code recognizes in the errors that arrive (`OneText`, `TwoTexts`, `Recognized`). Since the invariant is about
  each collector alone, a step of one leaves it of the others (`Unmoved`).

The three collectors that `Reports` brings together are proved right there as
well, for any outputs, towers and policies, and any number of them:

- `UtxosAreRight`: by `WalletInv`, the running count, sum and extremes are those
  of the outputs before the one the loop is at (`WalletExtremes`, `WalletCounts`),
  and what has been exported is what the place in `Collect` tells
  (`WalletPlace`). That 0 may stand for "none yet" rests on `ValuesAssumption`.
- `BackupsAreRight`: by `TowersInv`, the towers before the one the loop is at have
  been exported with their own sums (`TowersExported`), and the sums so far are of
  this tower's sessions (`TowersSums`).
- `ReportIsRight` and `InboundFeesAreRight`: by `GraphInv`, the samples at or below
  each value are as many as the policies seen that have such a value, and their
  sum is the same (`GraphSamples`), so that the compiled statistics are those of
  lnd's answer in whatever order it came; the extremes are values of policies
  (`GraphExtremes`), the two histograms have the fees by their signs
  (`GraphFees`), and the report is made when all policies have been seen
  (`GraphPlace`). The lemmas `GraphKth`, `GraphMiddle` and `GraphMedian` say what
  is in the middle of the sorted samples: one value, or two, with at least half of
  the policies at or below their mean and half at or above it.
- `WalletImplementsScrape`, `TowersImplementScrape`, `GraphImplementsScrape` and
  together `ScrapesImplemented`: under these invariants every step is one of
  `Scrape` or leaves its variables alone. The mapping takes the place in `Collect`
  to the number of a call and to the descriptors that are visible, and for each
  collector there is a lemma for beginning, for an answer and for a failure.

`ChannelsCollectorProofs` has the same of `ChannelsCollector`,
`ScrapeImplemented`; `EmittedInv` says that the metrics of pending channels are
exported by the call that lists them and by no other.

`StateCollectorProofs` proves, for any length of the clock:

- `TypeCorrect`, `MetricIsStable` and `MetricIsTruthful`: each time is written once,
  where the goroutine is tells which of them are known (`TimesInv`), each is not
  before lnd has reached what it stands for (`OrderInv`, from `ReachedInv` and
  `UpdatesInv`, what lnd delivers), and what has been exported is made of the
  final times (`ExportedInv`).

`HtlcMonitorProofs` proves, for any channels, htlcs and length of lnd's log:

- `TypeCorrect`, `ActiveIsRight`, `CountersAreRight`, `HistogramIsRight`,
  `NoKeyLeaks`. The log properties are inductive together, with `LogInv`, which
  is what lnd is assumed to do (an htlc is resolved once, and not forwarded after
  that), `KnownInv` (a monitor that goes on has read no resolution of an unknown
  type) and `ObservingInv` (what is about to be observed is the release of a key
  that is still tracked). The lemmas say what one event more does to the first
  forwards, to the pairs of a forward and its resolution, and to what a label
  counts.

`PaymentsMonitorProofs` proves, for any payments, attempts and scrapes:

- `TypeCorrect`, `MetricsAreRight`, `ScrapesAreClose`. The three metrics are off
  by the payment in process and no other (`BalanceInv`); each value that a scrape
  has read is between what the metric was when the scrape began and what it is
  now (`PaymentsRead`, `AttemptsRead`, `HistogramRead`), and at the beginning the
  histogram was not ahead (`BeganInv`).

`InboundFeeProofs` proves, for any channels, policies, first amount and width of
the integers:

- `TypeCorrect`, `SplitsArePossible`, `SeriesAreComplete`: a channel has what it
  was listed with less its shard (`ShardsInv`), and while something remains to be
  sent every shard has emptied its channel (`EmptiedInv`). Every shard is
  therefore on a channel of its own, what is sent is at most the liquidity, and
  all of it when the loop gives up (`SeriesInv`). Products may overflow.
- `SplitsAreNearOptimal`, for fees that the protocol can express, which are
  unsigned (`FeesAreUnsigned`; of a negative rate the code truncates the product,
  and `FeeOf` would round it down): `FeeInv` says that the fee is that of the
  shards, `CheapInv` that no shard cost more, per satoshi, than the rate of any
  channel that still has something left, since that channel was a candidate. So
  there is a rate `l` (`DividingRate`) at which nothing sent cost more and nothing
  left would cost less. To get from another split to the one that was found,
  amounts are moved over `l` (`Moved`), which saves nothing; summed over the
  channels (`SumsKeepInequality`), only the rounding of the other split is left,
  less than a satoshi a shard (`GreedyIsNear`).

`SumTheorems` is what these rest on. The community modules define a sum by
recursion over the subsets of a finite domain, picking elements by `CHOOSE`.
Induction over data is not available, but a set of sizes has a smallest member
(`SmallestNat`, from the library's theorem on well-founded relations), so the
smallest set for which a statement fails is contradicted instead
(`SmallestSet`). The recursion has one solution (`SolutionExists`,
`SolutionsAgree`), which does not depend on the order (`AnyFirst`), and from there
on sums are changed by one value at a time (`SumOfMore`, `SumOfChanged`), compared
(`SumAtMost`, `SumsKeepInequality`) and counted (`SumOfOnes`).

The types of `Exporter` and `Scrape` are left to these proofs.

Every invariant and action property of the runs that pass is a theorem, and so
are the refinements. Only model-checked: liveness and what rests on fairness,
which is beyond the prover: `ErrorStops`, `SignalStops` and `StopEnds` of
`Exporter`, `ClosedIsCounted` of `ChannelsCollector`, `EndIsRecorded` of
`StateCollector`, `CollectEnds` of `InboundFee` and `EveryPaymentIsObserved` of
`PaymentsMonitor`. Of `LifecycleImplemented` and the `Scrape` refinements the
proofs and the runs show the same, that steps map to steps: no fairness is asked
of a supervisor's or a scrape's view.

## Left out

- What happens in a call that is under way when the connection is closed: it may
  fail, as any call may, and its error stays in the channel.
- Options and their defaults, logging, the dashboards and the deployment: data
  for other programs, and no state. That the options may not parse and the logger
  may fail are the first steps that may fail.
- The HTTP server and the registry are libraries: what they do to lndmon is
  there, descriptors that clash at registration are not.
- Buckets of histograms (count and sum are kept), and values that are copied
  from lnd's answer to a metric.
- Overflow other than that of the product of an amount and a rate: sums of
  amounts and of backups are bounded by the coins and sessions that exist.
- Balances of channels that are being closed, by anchor state, and counts of
  closed channels by their kind: sums of what lnd says, or copies.

## Plan

Written in this order, the most important behaviour first: the process and its
error channel; the monitors and collectors that keep state; the scrapes; the
computations; the proofs, of the same modules in the same order. What may come
next:

1. The safety part of the liveness arguments as theorems: that each step of
   `approximateInboundFee` makes what remains smaller, that a stop only goes on
   to later places. Under the fairness above they are what the liveness
   properties rest on.
2. `Exporter` with the monitors of `HtlcMonitor` and `PaymentsMonitor` in the
   place of their abstract readers, if the instances stay small enough to check.
