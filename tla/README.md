# A TLA+ model of the Subsquid network's p2p layer

The repository is a Rust workspace: `transport` (libp2p behaviours and the actors
built on them), `contract-client` (reads the registry contracts) and `messages`
(protobuf types and their helpers). This project models the parts that keep state
between events, checks them with TLC on small instances, and proves with TLAPS, for every
value of the constants, all the invariants those runs check.

## The system

Every actor is one transport task that owns a libp2p swarm. The task alternates between
swarm events and commands from bounded queues; the user's tasks talk to it only through
those queues. A swarm's behaviour is a tree of `Wrapped` behaviours: each keeps a queue
of pending events, drains it first, then polls its own timers, then its inner behaviour.

| component | state | operations | interacts with | what is hard |
|---|---|---|---|---|
| request client (`request_client.rs`, `wrapped.rs`) | copies of requests, requests waiting per peer, new id -> old id, lookup timers | send, response, failure, connection, timer | libp2p request_response below, an actor above | one retry under a new id while connections, failures and timers interleave; the buffer at its limit |
| gateway actor (`gateway.rs`) | `query_ids`, queues | send_query, responses, timeouts, pings | user, request client, lookups | matching answers of untrusted workers; full queues |
| worker actor (`worker.rs`, `request_server.rs`) | response channels by query id, queues | queries, results, pongs, collected logs | gateways, the worker's executor | repeated queries; lost events; slow executions |
| base behaviour (`base.rs`) | `ongoing_queries`, `outbound_conns`, `probe_timeouts` | find_and_dial, probes, kademlia events, connections | kademlia, swarm, all actors | probes against connections and other dials; lookups that fail |
| allow list (`base.rs`, `bootnode.rs`, `client.rs`) | `registered_nodes`, allowed peers, a read in progress | node updates | contracts over RPC | reads that span changes on chain; partial failure |
| pubsub (`pubsub.rs`) | highest sequence number per topic and publisher | subscribe, publish, validate | gossipsub | reordering, repetition, restarts, rogue publishers |
| task manager (`task_manager.rs`) | tokens, task handles | spawn, periodic tasks, cancel, await_stop, Drop | tokio | random select, missed ticks, tasks that hang |
| bounded queues (`queue.rs`) | a channel and a gauge | try_send, send_lossy, recv | actors | full queues; the gauge races |
| scheduler (`scheduler.rs`) | queues | pongs, probes, pings | request client, base | probe answers from two paths; probes that join another |
| logs: worker's sending (`worker.rs`, `base.rs`), collector (`logs_collector.rs`), observer (`observer.rs`) | queues | bundles, worker and gateway logs, collected numbers | pubsub, request server, users | loss and reordering on both ways; lossy queues; size limits; other publishers |
| messages (`range.rs`, `data_chunk.rs`, `signatures.rs`) | none | range sets, chunk names, signing | all | numeric edges |
| contract client (`client.rs`) | none | epochs, workers, gateways, allocations | RPC | paging, blocks |

The correctness properties of each component are those of the runs below; the hazards
behind them are listed, each at its line, under `hazards` in `PROJECT.json`.

## Modules

`PROJECT.json` maps each definition to the lines it translates. Names follow the source.
Operators called `X_Something` are faults: plausible bugs in `X`, kept next to it, each
of which a property must notice. No specification uses them.

**RequestService** is the abstract promise: an accepted request is resolved once, by the
response to that very request or by a timeout, and stays resolved.

**RequestClient** is `ClientBehaviour` inside `Wrapped`. A request is named by the id of
its first submission, which also stands for its contents; an in-flight submission records
its id, its peer and the request it carries (`call`), so a response that is delivered under
another request's id would show. `original_requests`, `waiting_for_connection`,
`resubmitted_requests` and `lookup_timeouts` are the fields of the source. `FuturesMap` is
modelled by its contract: a set of keys with a capacity, where a removed or fired timer
is gone and no longer counts against the capacity. The crate is external and is not part of
the repository; `LookupArmed`, `PushNeverFails` and `EveryRequestResolved`, and of the scheduler
`ProbesAccounted`, rest on that contract. The source resolves several waiting requests in the order of a `HashSet`; the
model takes any order. The handlers run only when the queue of `Wrapped` is empty, as in
its `poll`; connection events come at any time. `Wrapped::poll` hands out the first event in
the same call that made it; the model lets a connection event come in between, which adds
behaviours and removes none. The fields `sent` and `answers` are history.

The theorems about a component are in a module of their own, `...Proofs`, which extends it
(SchedulerProofs also covers PeerLookup); see Proofs below.

**Gateway** extends RequestClient by the user's handle, the two queues and `query_ids`.
A worker may answer with any query id. The transport task handles a swarm event to
its end, so `poll`, `on_query_event` and `send_lossy` are one action. `EveryQuerySettled` speaks
of the events that are made: a full queue may still drop one before the user reads it.

**PeerLookup** is the lookup and probe part of `BaseBehaviour`. Kademlia reports on a query
several times and then for the last time; the swarm dials for others too. A verdict of a
timer and the dial of a finished lookup leave in the poll that makes them, so the queue of
`Wrapped` holds only the verdicts of connections, which come as swarm events. `owed` is
history: probes scheduled less those reported.

**Scheduler** extends PeerLookup by the scheduler's handle, queues and `SchedulerBehaviour`.
The four outcomes of `try_probe_peer` (connected, under way, scheduled, refused) are four
disjuncts of `probe_peer`. `waiting` is history: peers whose probe was taken up, by a new
timer or by joining one, without a verdict since.

**Logs** composes the worker's sending of logs, the logs collector, the gateway's logs and the
observer. A batch or a bundle is the set of the numbers of its logs, which are sent in the order
of their numbers. Logs have sizes, so that `bundle_messages` makes real bundles and `Publishable`
is the test of gossipsub. `IsBundling` states what the greedy loop leaves: bundles that follow
each other and hold every log that is not too large by itself, each within the limit and closed
only because the next log did not fit. Bundle by bundle that determines one split. The users are external, modelled by the contract
of the events they get: the worker's user keeps its logs until it hears that they are saved
and sends them again; the collector's user saves what it gets and reports the last number up
to which it has all; while it has none of the worker's, its reports hold no number for the worker
(`NoSeqNo`), which makes an event too. In flight are bundles, as a set, and collected numbers, as a sequence in
the order they were published; gossip delivers any of them or loses it, and the window of one
(module Pubsub) refuses what is older than the newest delivered (`StillFresh`). Another peer
publishes logs of its own, logs in the worker's name and numbers in the collector's. The window
of 100 for logs is taken as no limit. Between a gateway and the collector are a queue and a
request client: the model lets a log that was handed over arrive any number of times or never.

**Pubsub** is the validation in `PubsubBehaviour`. The clock counts nanoseconds; honest
publishers start, and restart, at the current time, rogue ones send any number. Nobody is both:
messages are signed, so a number of an honest publisher is one it chose. `publish` is the call at
the publisher's node, as far as this node can see it: a publish that fails there sends nothing.

**Worker** is the query path of the worker: channels, both queues, the executor (any order
of completion, repeated queries executed twice) and requesters that leave. A query without
an id or with a bad signature is dropped with its channel and changes nothing. A channel that
`query_response_channels` does not keep is closed, as dropping a `ResponseChannel` does. `lost`
is history: queries of which a full queue dropped the event of the last request, or refused a
result since; a request whose event is queued starts afresh.

**TaskManager** has tokens, plain and periodic tasks, kept ticks and the bounded join.

**AllowList** has the registries, a read of them in progress (pages pinned to a block, then
the workers) and the update by differences. `BadId` is a gateway id that does not parse.

Each `MC...` module adds what its runs need (PeerLookup runs as it is): an assumption on the bounds, or the
value of a constant (Pubsub).

## Runs

| run | bounds | shows |
|---|---|---|
| RequestClient | 3 peers, buffer of 2, 5 ids | one stage at a time, one own answer, armed lookups, `try_push` never fails, the inductive invariant; refinement of RequestService; every request resolved and delivered |
| Gateway | 2 peers, buffer of 2, 3 ids, 2 query ids, queues of 1 | results match queries; `query_ids` neither leaks nor loses; every query settled |
| Scheduler | 2 peers, 1 probe at a time, 2 verdicts in the queue of `Wrapped`, 2 queries, 2 connections to and 1 from a peer, queues of 1 | a verdict for every probe taken up, each scheduled one reported exactly once, none while connected, "connected" is true, shared lookups |
| PeerLookupOngoing | the same for PeerLookup alone | **violation**: finished lookups stay on record |
| Pubsub | an honest and a rogue publisher, clock to 4, windows 1 and 2 | ordering within the window, windows not poisoned, newest message valid |
| Worker | 2 queries, 3 requests, queues of 2 and 1 | responses to the latest request, no leaked channel, no requester kept waiting unless a queue lost its event or result |
| TaskManager | 1 plain, 2 periodic tasks, 2 kept ticks | shutdown reaches all and ends, self-cancellation is local, cancelled periodic tasks end |
| TaskManagerCancel | 1 plain, 1 periodic task | **violation**: a run after the token was cancelled |
| AllowList | 3 peers, pages of 1, 5 changes, 1 failure | no drift, nobody missed by a read, catches up |
| AllowListPinned | 2 peers, pages of 2 | **violation**: a pinned peer is disallowed |
| Logs | 2 logs of 3 sizes (they share a bundle, need one each, fill one beyond what gossipsub takes, or are too large for any), 1 gateway log, queues of 1 | what is announced is saved, what is collected is its publisher's, numbers never go back, logs settle unless bundles keep being refused |
| LogsOverhead | the same | **violation**: a bundle above the limit of gossipsub |

Why the bounds are enough to reach the hard cases: three peers and a buffer of two put two
lookups and a full buffer side by side with a peer that has none; five ids allow both of two
buffered requests to be retried and followed by a new one. In Gateway two requests can
time out together and one id is left for a retry. One probe slot for two peers reaches the
full set of timers, and two verdicts wait together when a second probe starts and succeeds before
the next poll; an inbound and two outbound connections to the same peer, opened and closed
any number of times, exercise the count. Two logs are enough for a bundle, for numbers that
overtake each other and for a gap; queues of one are full after one event. Windows of one and two are the strict and the lax case
of `keep_last`. With pages of one every registry spans several pages and ends with an
empty one. Each `MC...` module states what its bounds are for as an assumption that TLC
evaluates. Deadlock checking is off only for TaskManager, whose tasks may all have ended.

`SchedulerTypeOK` and `TypeOK` of AllowList also state numeric facts: the connection counts do not
fall below zero, no page is read past the end.

### Fairness

* Request client and gateway: the swarm keeps polling; a timer that is not removed fires; the
  inner behaviour reports on each submission (`with_request_timeout`, dial timeouts). No
  peer has to connect, no user has to send or to read.
* Scheduler: polling and probe timers. Kademlia may never find anything, no peer has to
  connect and the user may stop reading.
* Logs: the transport tasks run, and the users keep reading, sending and reporting. Of what is
  published again and again some gets through: a log that is in bundles infinitely often is
  heard infinitely often, and so are the collected numbers. That is an assumption on gossip,
  which loses some messages and not all, and on queues that are not full every time; single
  messages may always be lost. `LogsSettle` speaks of a log that gossip accepts, like all logs
  before it, since the collector reports numbers without gaps. Its premise is that from some time
  on no batch makes a bundle that gossipsub refuses for its size: otherwise the same bundle is
  refused for ever, which LogsOverhead shows to happen. The run has sizes that make such bundles,
  so it also has the behaviours in which they are made for a while and then no more.
* Worker: the `select!` of the transport task gets to a queued result, and the worker's user reads
  its events and ends every execution. Nobody has to leave or to repeat a query, and pongs,
  collected logs and other queries may keep coming.
* Task manager: joins and timeouts happen, a periodic task's future ends, and a `select!`
  that keeps finding both branches ready takes each of them at some time (strong fairness:
  the choice is random, without `biased`). Plain tasks may hang.
* Allow list: the interval ticks and a read that does not fail proceeds. Failures and
  changes are bounded in number, which stands for "after some time there are no more".

### Disagreements found

1. `base.rs:451`: a lookup that ends without its peer is never removed from
   `ongoing_queries`. The gauge `ongoing_queries` keeps counting it and `find_and_dial`
   does nothing for that peer from then on.
2. `task_manager.rs:69`: a periodic task can run again after it cancelled its token, since
   `select!` is not biased and missed ticks are kept.
3. `bootnode.rs:164` and `base.rs:262`: an explicitly allowed peer that was also registered
   is disallowed when its registration ends, until it registers again or the node restarts.
4. `base.rs:553`: bundles are filled up to the size limit by the sizes of the logs alone. The
   enclosing message counts against the same limit in gossipsub, so a nearly full bundle is
   refused, with a log line, and so is every repetition of it.

## Proofs

Every invariant and action property of the runs is a theorem, and so are three refinements. The
proofs hold for all values of the constants; their assumptions are the `ASSUME`s of the model
modules, which TLC evaluates in each run: sizes, limits and bounds are natural numbers, positive
where the code needs room for one (queues, pages, windows), placeholders such as `NoQuery` are
no real values, a publisher is not honest and rogue at once, a task is not plain and periodic.
In each module there is one lemma per action, or per group of actions with the same argument,
and the theorems follow from one inductive invariant.

| module | theorems | inductive invariant |
|---|---|---|
| RequestClientProofs | `ClientInvariant`, `ClientTyping`, `AnsweredOnce`, `StagesExclusive`, `LookupsArmed`, `PushSucceeds`, `ClientImplementsService` | `ClientInv` |
| GatewayProofs | `GatewayInvariant`, `GatewayTyping`, `ResultsMatch`, `QueryIdsExact`, `GatewayImplementsClient`, `NoQueryLost` | `GatewayInv`, `OwedOrSettled` |
| SchedulerProofs | `BaseInvariant`, `SchedulerImplementsBase`, `SchedulerTyping`, `ProbesUnconnected`, `ProbesReportedOnce`, `LookupsOnRecord`, `ConnectedAnswerTrue`, `NoProbeForgotten` | `BaseInv`, `QueuesOK`, `WaitingHasProbe` |
| PubsubProofs | `PubsubInvariant`, `PubsubTyping`, `WindowsOrdered`, `WindowsNotPoisoned`, `NewestIsAccepted` | `PubsubInv` |
| WorkerProofs | `WorkerInvariant`, `WorkerTyping`, `LastRequestAnswered`, `NoChannelLeak`, `WaiterServed` | `WorkerInv` |
| TaskManagerProofs | `ManagerInvariant`, `ManagerTyping`, `StopReachesAll`, `CancelsAreLocal` | `ManagerInv` |
| AllowListProofs | `AllowInvariant`, `AllowTyping`, `AllowFollows`, `NobodyMissed` | `AllowInv` |
| LogsProofs | `LogsInvariant`, `LogsTyping`, `AnnouncedSaved`, `CollectedAuthentic`, `NumbersAdvance` | `LogsInv` |

**Request client.** None of the safety properties is inductive alone. `OneOwnAnswer` needs that no two
submissions carry the same request (`OneSubmission`), that a submission's books say whose it
is (`InflightInv`), and that an id handed out next is not in use (`FreshIds`). `LookupArmed`
needs that `try_push` succeeds, and that is a counting argument (`LookupHasRoom`): each peer
with a lookup has a waiting request, waiting requests of different peers are different
(`WaitingInv`), the one that just failed is another, and all of them are in
`original_requests`, which `try_send_request` bounds (`BufferBound`). `NoLeak` and `OpenInv`
give the converse directions of `OneStage`. The responses and the second failures share
`ResolveInv`. For the refinement, sends are `Accept` steps, responses, second failures and lookup
timeouts are `Resolve` steps, and everything else leaves the status alone.

**Gateway.** A step of the gateway is a step of the client or leaves it alone
(`GatewayImplementsClient`), so `ClientInv` and the service carry over. `QueryIdsAreOpenRequests`
compares `query_ids` with what the client owes: an open request, or an event in the queue. No step
of the client alone changes what is owed (`ClientKeeps`): resolving turns open into queued, for all
requests of a lookup at once. That needs that queued events are about different, resolved requests
(`QueuedInv`), or an event would take the entry of a request that is still open. For
`ResultMatchesQuery` the request's peer is followed through submission, wait, retry and event
(`SamePeer`, `QueuedInv`), and an entry of `query_ids` is tied to what was asked (`IdsAsked`).
`NoQueryLost` is what safety gives of `EveryQuerySettled`: a query that was sent is owed an event,
was told to the user, or was answered under another query's id.

**Scheduler and base behaviour.** The invariant of the base behaviour has three parts that do not
need each other's details: lookups (ids are fresh, the query on record is the running one),
connections (`outbound_conns` is the number of outbound connections, so decrementing it cannot
fall below zero) and probes. `ProbesAccounted` counts timers and places in the queue; the lemmas on
`Places` say what appending and removing do to that count. The scheduler implements the base
behaviour and so inherits it. `NoProbeForgotten` is about the scheduler only: a probe that joined
another one, or was scheduled, has a timer or a queued verdict.

**Pubsub.** `NewestAccepted` follows from `HonestNumbers`: no one has seen a number of an honest
publisher above the one it is at, and that does not pass the present, which is also why a
restart, at the present time, does not go back. `WindowOrder` needs that what was accepted was
taken into account (`AcceptedSeen`).

**Worker.** The properties are inductive with `ChannelsMade`: channels exist for requests that came
in, and one that is open had no response. `ChannelsNotLeaked` follows a query from the events
queue through its executions to the results queue. `WaiterServed` carries that over to the
requesters: one that waits has its channel on record (`WaitingOnRecord`, which ownership of the
channel gives), so its query is pending or was lost. It is the safety half of
`RequesterAnswered`.

**Task manager.** `HandlesKept` says in whose hands a spawned task is in each phase, `TokensOwned`
who cancelled a token.

**Allow list.** `NoneMissed` needs what the pages read so far have gathered (`PagesGathered`, for a
position that is a multiple of the page size) and that a node which kept its role is in the
pinned block or still a worker (`SteadyKept`). `TypeOK` bounds the page, so none is read past the
end.

**Logs.** Every number on its way, in a queue or in gossip, is at most what is saved
(`NumbersSaved`), and the numbers are in order along that way, from the collector's queue to the
worker's user (`NumbersOrdered`). That the number the collector's user reports exists is proved
from the least number that is not saved (`LastSavedProperties`).

Only model-checked:

* liveness, which depends on fairness: `EveryRequestResolved`, `EveryQuerySettled`,
  `EveryProbeAnswered`, `StopEnds`, `PeriodicTasksEnd`, `CatchesUp`, `LogsSettle`,
  `RequesterAnswered`;
* which bundles `bundle_messages` makes. That a split as `IsBundling` describes exists for every
  batch takes an induction over the batch. The invariants do not depend on it, since they hold for
  any set of bundles of logs; `LogsSettle` does, and TLC checks it.

## Not modelled

Cryptography, protobuf encoding, framing, command lines, key files and start-up (pure I/O
or stateless); identify, autonat, relay and ping (events are only logged or passed on);
epochs and allocations of the contract client (stateless RPC). Range sets and data chunks are
pure functions on messages the protocol has deprecated, which no actor uses. The address cache
only decides whether a dial has an address, and a dial may fail in the model. The gauge
`queue_size` is read by metrics only. The queues of outgoing pings and pongs, which only delay
or refuse, and the state of the scheduler's pong client, which is a RequestClient.

## Plan

Modelled, checked and proved as above. What is left:

1. Proofs: the safety half of the other liveness properties, as `NoProbeForgotten` is for
   `EveryProbeAnswered`, `NoQueryLost` for `EveryQuerySettled` and `WaiterServed` for
   `RequesterAnswered` (for `CatchesUp`: what a read of a
   quiet chain returns); that `IsBundling` has at most one solution.
2. Compositions: Gateway with PeerLookup (what the leaked lookup costs a gateway's
   queries), and Gateway's client against Worker's channels over a lossy network.
