# Specifications of junction-client

TLA+ models of `crates/junction-core` and of the conversions of
`crates/junction-api`: the cache of xDS resources, the task that keeps it in
step with a control plane, the resolver that keeps DNS names in step with DNS,
a request on its way through the client with its retries, the ring that spreads
requests over endpoints, and routes and backends on their way through
Kubernetes and xDS.  TLC checks the models on small instances, TLAPS proves for
every instance each invariant and each action property that a run checks, and that
the ring implements its abstract specification.  Paths below are relative to
the repository; `cache.rs`, `xds.rs`, `dns.rs`, `client.rs`, `load_balancer.rs`,
`endpoints.rs`, `url.rs` and `error.rs` are in `crates/junction-core/src`
(`cache.rs` under `xds/`), `xds/http.rs`, `kube/http.rs` and their neighbours in
`crates/junction-api/src`.

Contents: [the system](#the-system), [inventory](#inventory),
[the modules](#the-modules), [the runs](#the-runs), [fairness](#fairness),
[the proofs](#the-proofs), [where the code and its comments
disagree](#where-the-code-and-its-comments-disagree), [what is not
modelled](#what-is-not-modelled), [plan](#plan).

## The system

A Junction client is a library inside an application.  A request names a URL;
the client finds the route for it, then the backend the route picks, then an
address of the backend.  All three come from xDS, over one incremental ADS
stream that a background task shares between all clients of a process, or, for
the addresses of DNS services, from background threads that resolve names.

```
 request ──> Client ──lookups──> AdsClient ──SubscriptionUpdate (mpsc 10)──> AdsTask
                │                    │                                        │  owns Cache
                │                    └──reads, waits──> CacheReader <─shared──┤
                │                                     (ResourceMap + Notify)  │
                ├──> LoadBalancer                                    ADS stream <──> control plane
                │                                                             │
                └──get_endpoints_await──> StdlibResolver <──subscribe, unsubscribe, set_names
                                            worker threads
```

* A lookup subscribes (a message to the task) and waits for data.  The task
  takes messages and responses in batches.  At the end of a batch it collects
  what is unused, sends the subscription changes and the acks, then tells the
  resolver what DNS names came and went.
* Readers and the writer of the cache share concurrent maps and wake each other
  with `tokio::sync::Notify`; nothing else about the cache is shared.
* The resolver is a mutex around a table, a condition variable for its
  threads and a `Notify` for async callers.  It is shared by all clients and
  the task; its threads hold references to it and stop when only theirs remain.

## Inventory

Status: M modelled, P partly, – not modelled.  `PROJECT.json` lists the same
components, and the hazards line by line.

| component | state | operations | what is hard | what makes it correct | |
|---|---|---|---|---|---|
| Cache, writer half (`cache.rs`) | subscription graph; four resource maps with content, error, version; DNS names to start and stop | subscribe, unsubscribe (also DNS), insert of four types, remove, collect, outgoing changes | parts of an update that fail after others were applied; policies that arrive before or after the cluster they configure, inline or by reference; what the collector sees | what is used is linked and kept, what is unused goes; rejected updates change nothing readers see; policies are applied in every order | M |
| Cache, reader half (`CacheReader`, `ResourceMap::get_await`) | waiters | get_route, get_backend, get_endpoints | register, look, sleep against insert and notify; a route read in two steps | no lost wakeup; a lookup that ends | M |
| Resource parsing (`resources.rs`) | none | from_xds | which content is rejected | | P |
| ADS connection (`xds.rs`) | acks to send, unknown types, DNS updates | connect, handle a batch, outgoing, update_dns | broken streams, late responses, one ack per type in a batch, two receivers of one batch | all that is missing was asked for, nothing unused is, every response is answered unless another of its type overtakes it in its batch, every DNS cluster is resolved | M |
| ADS task (`AdsTask::run`) | channel of updates, backoff | reconnect, shutdown | bounded channels both ways, headers before the first request | lookups are not blocked for ever | P |
| `AdsClient` | sender, cache reader, resolver | get_route, get_backend, get_endpoints | room in the channel before the first look | a lookup of what is in cache does not wait | M |
| DNS resolver (`dns.rs`) | table of names, ports, pins, answers, claims; a count of references | subscribe, unsubscribe, set_names, get_endpoints, await, worker loop, drop | answers that come after their name went; sleeping with and without a timeout; start and stop by counting references | claims have holders, endpoints are current, no thread or caller sleeps through what it waits for, every name is resolved and refreshed | M |
| Load balancers (`load_balancer.rs`) | atomic counter; ring behind a lock | round robin, ring lookup and rebuild, hash of a request | two groups that rebuild the one ring in turn; empty groups; policies of which one may be terminal | a caller gets what it would get alone; like requests stay together; a change moves few | P: the counter is any turn |
| Endpoints (`endpoints.rs`) | history of a request | retry decision | counting attempts and retryable codes | the history is whole, attempts are bounded | M |
| Client (`client.rs`) | per request | resolve_http, report_status, search paths, rule matching, deadline | concurrent lookups under one deadline | first route in order wins; every call comes back | P: not `build` and the dumps |
| `ConfigCache`, `StaticConfig` (`lib.rs`) | static maps | inferred routes and backends, lookups | what is inferred from what | | M |
| URLs, errors, traces | phases and events of a trace | ports, authorities, phases | a phase for every selection of an endpoint | a trace tells the attempts apart | P |
| Names, services, backends, routes (`junction-api`) | none | names to values and back, order and matching of rules | | a name means one thing | P |
| xDS conversions (`junction-api/src/xds`) | none | routes, backends, hash policies, both ways | rules that become several routes and are merged again; defaults; widths | what is decided for a request survives | M |
| Kubernetes conversions (`junction-api/src/kube`) | none | HTTPRoutes, Services and annotations, both ways | rules that are sorted; annotations that are merged | the same, by rank | M |
| CSDS (`xds/csds.rs`), hash, rand | none | dump | | | – |
| typeinfo, code generation, bindings, xtask | none | | | | – |

## The modules

| module | models | lines of it |
|---|---|---|
| `Subscriptions` | `Subscriptions` of `cache.rs`, the graph, an operator per method | `cache.rs:374-577` |
| `CacheState` | `Cache` and `ResourceMap` writes, an operator per method, from caches to caches | `cache.rs:118-300`, `580-1040` |
| `ResourceCache` | state machine over `CacheState`: any call in any order | `cache.rs:600-760` |
| `CacheStateProofs` | what each operator of `CacheState` keeps; both state machines over it rest on this | |
| `ResourceCacheProofs` | theorems about `ResourceCache` | |
| `AdsConnection` | the task that drives `CacheState`, with the server, the stream and what the resolver is told | `xds.rs:281-495`, `530-790` |
| `AdsConnectionProofs` | theorems about `AdsConnection` | |
| `DnsResolver` | the resolver, its threads, its callers | `dns.rs:130-615` |
| `DnsResolverProofs` | theorems about `DnsResolver` | |
| `Indices` | the items of a sequence at some indices: `filter()` | |
| `IndicesProofs` | facts about ranks, orders with ties, chosen items and sequences laid one after the other | |
| `Names`, `RouteApi` | names of hosts, services, backends; routes, what they match, the order of rules | `lib.rs:150-570`, `backend.rs:10-90`, `http.rs` of `junction-api`; `client.rs:726-804` |
| `XdsConversion` | routes, backends and their policies to xDS and back | `xds/http.rs:30-740`, `xds/backend.rs`, `xds/shared.rs` |
| `KubeConversion` | HTTPRoutes and Services, to and from | `kube/http.rs:60-700`, `kube/backend.rs` |
| `Publication` | a route or a backend on its way through both, again and again | |
| `PublicationProofs` | theorems about `Publication`: what routes and backends keep | |
| `HashRing` | endpoint groups; `Ring`: rebuild and pick | `endpoints.rs:138-183`, `load_balancer.rs:169-224` |
| `RequestHash` | `hash_request` | `load_balancer.rs:226-285` |
| `RingHash` | `RingHashLb`: callers that race over one ring | `load_balancer.rs:98-167` |
| `StatelessPick` | abstract: what a balancer without memory promises | |
| `RingHashProofs` | theorems about `RingHash`, its refinement among them | |
| `StaticConfig` | URLs, search paths, static configuration | `url.rs`, `client.rs:806-841`, `lib.rs:72-210` |
| `CacheReader` | lookups against the writer of the maps | `cache.rs:115-284`, `1070-1108`; `xds.rs:189-223` |
| `ClientRequest` | a request: route, rule, backend, endpoints, address, retries, over the two above | `client.rs:229-253`, `349-460`, `556-724`; `endpoints.rs:58-77`; `error.rs:6-148` |
| `ClientRequestProofs` | theorems about its lookups, its search for a route, its states, history and trace | |
| `MC...` | instances | |

`ClientRequest` extends `StaticConfig` (which extends `RouteApi` and `Names`) and
`CacheReader`; `RingHash` extends `HashRing` and `RequestHash`; `Publication` extends
`KubeConversion`, `XdsConversion`, `RouteApi` and `Names`.  `XdsConversion` and
`RequestHash` extend `Indices`.

The operators of `CacheState` are functions from caches to caches, so that
`ResourceCache` can give one to each action and `AdsConnection` can apply them
where the task does; there is one model of the cache, not two.

Operators named `X_Something`, with the comment "Mutated", are variants of `X`
with a plausible mistake.  No specification uses them: putting one in the place
of `X` has to break the property it is paired with in `PROJECT.json`.

### ResourceCache and what it abstracts

`subs` is the petgraph and its indices, `data` the four `ResourceMap`s, `dns`
the two sets of names (a DNS name stands for the cluster it is the name of:
`BackendId::Dns` has both).  An action is one method for one resource: readers
do see the states between the resources of one response.

* The content of a resource keeps what the code branches on: a Listener refers
  to a RouteConfiguration, is a route over a set of clusters, or carries a load
  balancer policy for a cluster; the same for RouteConfigurations; a cluster
  balances by round robin or ring hash; any of them may fail to parse.
* `BadAction` stands for hash policies that do not parse, which only a ring hash
  cluster reads, so whether a policy is valid depends on the cluster in cache.
* Versions are left out: content has one exactly when it is there.  Errors are a
  flag; their text goes to the CSDS dump only.
* Parallel edges of the graph are one pair, and edges have no order; only reachability
  is asked of the graph.  `Reachable` says so by closure, not by a search: it can be
  proved about.
* `reset_refs` (`cache.rs:519-529`) lists the indices of a node's edges and removes
  them one by one, while petgraph moves the last edge of the graph to each index that
  is freed; an index listed for later can then be past the end, and its edge stays.
  Which one depends on the order the model leaves out, so `ResetRefs` may leave any of
  the node's own edges (`stays`, chosen by the action).  That is more than the code
  does: the first edge listed always goes, and so do the others as long as no
  collection disturbs the order; no edge of another node is ever taken.  What is checked
  and proved of the cache holds whichever edges stay.
* Listeners and Clusters are in wildcard mode, as in every build that is not a
  test (`set_wildcard` is `cfg(test)`).

### AdsConnection

`phase` is where `run_connection` is: reconnecting, in `handle_update_batch`, or
delivering what `outgoing()` returned.  `out` and `dnsOut` are that return value.
An action is what happens between two awaits; a batch is any number of
`HandleAdsMessage` and `HandleSubscriptionUpdate` steps followed by `Outgoing`.

* The server is what the delta protocol says it is: a request that names a
  resource, or states its version, subscribes to it; a wildcard request subscribes
  to the type, and outlives the names; a new stream starts from nothing.
* The delay of a request is folded into that of the responses.  A response is
  about one resource: for the cache, one about several is a run of them in one batch; for
  its ack it is one response, rejected if any part of it is.
* A response has a `Nonce`, one that no response without an answer has; `acks` keeps the
  nonce and the verdict of the last response of each type (`SetAck`, `set_ack` of
  `xds.rs:738`), `unknown` one nonce for each response of an unknown type.  `unanswered`
  is what the server still waits for: a request answers the one response it names.
* `overtaken` is a history variable, of which no action depends: the responses without an
  answer that another of their type followed in the batch that handled them.
* A DNS update is delivered after the last request of its batch, and lost with
  the stream when sending one of them fails.
* Of the resolver only the set of names it resolves is kept.

### DnsResolver

An action is one critical section of the mutex, or what a thread or a task does
between two.  `names[n]` is `ResolverState.tasks` and `names` for one name: ports,
pins, endpoints of each port, the claim (`in_flight`), the answer and its age.
`workers[w]` is where a thread is: `waiting` without a timeout, `dozing` with
one, in a lookup, or about to notify after unlocking.  `callers[a]` is a task in
`get_endpoints_await`, from before `notified()` to its return.  `handles` is the
part of the reference count that is not the threads'.

* The clock is the age of each answer, which saturates at `MaxAge`; the code
  compares ages with the interval and with each other, nothing else.
* A thread may be woken for no reason, lookups take any time and may fail, and
  the users call whatever they like whenever they like, within `Targets` and
  `NameSets`.

### Publication and what it abstracts

A name is a sequence of labels, a path a sequence of segments, a regular
expression the set of texts it recognises, a duration a number or the failure of
its conversion.  Every error path of the conversions is there, as `Failed`; what
an error says is not.  `value` is what is under way in `form`; an action is one
conversion.  The meaning of a route is what it decides for a request:
`RouteDecides` by the client's own matching (`client.rs:726-804`), `WireDecides` by
the xDS protocol's, `RankedDecides` by the precedence that `Ord for RouteRule`
documents.  One set of texts, `Recognises`, stands for what a regular expression
recognises at both ends: that the client searches for the expression
(`client.rs:771`, `791`, `800`) while the wire matches the whole text is left out by
construction and listed [below](#where-the-code-and-its-comments-disagree).  `Patched`
stands for `kubectl patch`.

The pools may hold anything of their types but what the conversions are known to
change (the list [below](#where-the-code-and-its-comments-disagree)).  Each exclusion
is a named operator, assumed of the pools and evaluated by TLC:

* `Plain`: no header matcher of a route is one for `:method`.  A route has a field
  for the method, and the documentation of header names says that pseudo-headers are not
  allowed (`http.rs` of the API, 464-466); `xds/http.rs:370` takes one for the method.
* `Expressible`: of a route configuration of others, one exact `:method` at most, domains
  that are a product of hosts and ports, codes of sixteen bits and fewer retries than
  `u32::MAX`, and no route without a match next to one it would be merged with.
* `Legible`: of a request, a valid host, a port, headers that are text and none called
  `:method`.

`TypeOK` says that the conversions never leave these bounds by themselves.  A host
shorter than a wildcard's domain, where the client panics, decides as no match.

### RingHash and what it abstracts

A hash is a number below a bound and xxhash a constant operator, so that the
proofs hold of any hash function; groups are told apart by their hashes
(`HashesTellGroups`), as `RingHashLb` trusts.  The sort of a ring is the place of each
point, the number of points that come no later (`Place`); `RingOf` and `Endpoints` are
functions, evaluated once for each group.  An action is what is done under one hold of the lock, or
between two.  A request without anything to hash may have any hash.  The random
number is drawn once per call, as in the code, so the abstract caller asks with it.

### ClientRequest and what it abstracts

`data` is the four maps of the cache and, for lookups, the resolver's table,
which waits in the same way (`DnsResolver` models it in full).  A lookup is where
it stands in `AdsClient::get_*`, `CacheReader::get_*` and `get_await`: it sends its
subscription, or blocks for room, looks, registers, looks again, sleeps.  The
writer changes one entry at a time and notifies all waiters of its map.

* One request at a time; the others of the program show as messages in the
  channel (`OthersSubscribe`), as entries that come and go, and as the turn of the
  balancers: an address may be any of the group.
* The server may say anything of `Content` whatever was asked for: wildcards
  and other clients make entries come unasked.
* Time is whether the deadline has passed.  `with_deadline` polls the future
  first and looks at the clock only when it waits, so `Timeout` needs the first
  open lookup to be pending.
* A lookup of a name outside `Key` finds no entry (`Present`).
* The trace keeps the phase, and each event with its phase and what it is about: the
  route, the rule and the backend once, then for each try the lookup of the backend,
  that of the endpoints and the address.  A request that fails keeps none.  Panics are
  an outcome of their own.
* `since` is a history variable: the keys whose entry is what it was when the
  request began.

## The runs

All figures are distinct states.

| run | instance | checks |
|---|---|---|
| `cache_route` | a Listener that routes by reference or inline to a cluster with endpoints; a Listener with a policy for it, good or bad; contents that fail; removals (204 k) | `TypeOK`, `DataHasSubscription`, `AddedHasNoData`, `LinkedWhenClean`, `InlinePolicyApplied`, `CollectKeepsWhatIsUsed`, `RejectionKeepsContent` |
| `cache_policy` | a DNS cluster whose policy comes by reference or inline, parses or does not; explicit subscriptions; DNS names that come and go (249 k) | `LinkedWhenClean`, `RejectionKeepsContent` |
| `dns_safe` | two threads, two names, three pairs to subscribe to, two addresses, a waiting task, `set_names` on one name (102 k) | `TypeOK`, `ClaimsAreHeld`, `EndpointsAreCurrent`, `NewNamesAreNoticed`, `SomeoneKeepsTime`, `NoLostWakeup`, `PinnedSurvive` |
| `dns_live` | two threads, three names, time, users that come and go (43 k) | `NewNamesResolve`, `NamesAreRefreshed` |
| `ads_conn` | both kinds of cluster, a Listener that changes what it refers to or is removed, responses of an unknown type, broken streams, subscriptions on and off; two responses in flight, three nonces (994 k, up to renaming nonces) | `TypeOK`, `MissingAreAskedFor`, `NothingLeaked`, `AnsweredUnlessOvertaken`, `DnsClustersResolved` |
| `ads_live` | one Listener, one RouteConfiguration, endpoints on and off, broken streams (1363) | `SubscriptionsAreSent` |
| `publication` | routes of up to three rules of seven, with every kind of match, timeout, retry and backend; routes, clusters and HTTPRoutes of others, malformed ones too; backends of both kinds; four trips (16 k) | `TypeOK`, `MeaningKept`, `RankDecides`, `BackendsAlike`, `TripsSettle` |
| `ring` | two threads, five groups of up to three endpoints in one locality or two, five requests, hashes of three bits of which two fall together (146 k) | `TypeOK`, `OnlyItsOwnMove`, `Affinity`, `Implements` |
| `client_search` | a short name and its full one, one by reference; entries that come, change and go (720 k) | `NoMissedNotify`, `StableRouteWins` |
| `client_retry` | one name by dynamic, half static and static configuration, a backend and endpoints that come and go or are empty, three attempts, a code that is retried and one that is not (121 k) | `TypeOK`, `HistoryIsWhole`, `RequestsEnd` |
| `cache_unused`, `client_warm` | an instance that shows it | see [below](#where-the-code-and-its-comments-disagree) |

Why these bounds are enough.  The cache's decisions are about one resource and what it
refers to or is configured by: one of each type, two Listeners because the one that
routes and the one that configures meet at the same cluster, and two or three contents
each, so that every change of content, of validity and of reference is there, cyclic
references excepted (below).  The resolver's decisions are between names (two for
order, three for starvation), between threads (two: one that sleeps and one that
works) and between ports of a name (two: one with endpoints, one without).  `ads_conn`
has two responses in flight, so that the second may be of the first one's type and
batch, or late: sent before the server was told to forget its name.  Its three nonces are
one more than that, so that a response that was overtaken stays on record while two
others come; the nonces are interchangeable, which the symmetry uses.  It leaves what is
rejected, and endpoints that arrive, to `cache_route` and to the proofs, which hold for
every content.  A conversion looks
at a rule and at most at its neighbour, so three rules show every merge.  The first trip may
read a retry that says nothing (a back-off without an interval), the second reads that as
none, the third may merge rules that are alike by then, so the fourth shows whether it
settled.  The ring's callers meet at one lock, two at a time;
four points for one, two or three endpoints give rings with and without a change of
`Repeats`.  A request follows one route of one name, so two names show the order of a
search; the route by reference is the only lookup with two steps.  `SubsRoom` is 1
where the code has 10: full, not full and room that someone else takes first are all
there.  `Ndots` is 4, so that the short name (no dots) is searched for and the full
one (four) is not.  `PhaseMod` is the width of the phase, far above the attempts made
(the proofs hold for any).  The two contents of `MCClientRequest` split the request at
the point where the route is known: `SearchContent` gives the route every shape and no
backend, `RetryContent` one route and all that comes after.

Deadlock is checked in every run but `publication`, where a way ends: the cache, the
connection, the ring and the client can always go on, and a resolver no user is
left of still has its clock.

`dns_safe` gives `set_names` only names with one port that are subscribed to with
that port: with a second port the wakeup described below is lost.
`ads_conn` starts with subscriptions to endpoints; hosts and backends differ from
them only in what they subscribe to.

## Fairness

* Threads of the resolver are weakly fair, each by itself: the OS runs them, and
  `ToSocketAddrs` returns.  `Tick` is strongly fair: time passes, though it is
  disabled whenever a thread is about to take the lock (which takes no time).
  Users are not fair.  Spurious wakeups are never required.
* The ADS task is weakly fair in each of its steps: it is a tokio task, polled
  as long as its runtime lives, and reconnects for ever.  That `Outgoing` is fair
  assumes that a batch ends; the code ends it when nothing is ready and has no
  bound on it, so a server that never pauses can postpone requests for ever.
* A request is weakly fair in its own steps: whoever awaits it polls it, each poll
  polls every lookup that was woken, and deadlines pass.  `Timeout` is strongly
  fair because each poll that leaves the request waiting looks at the clock: a
  request that is woken again and again, and finds nothing each time, is not
  always waiting, yet does time out.  Nothing is assumed of the ADS task, the
  server, the other requests or the caller.

## The proofs

TLAPS checks the following for every set of resources, names, threads and
callers, every reference between resources, every content the server may send,
every interval and bound.  The assumptions are `DisjointTypes`, `CacheConstants`,
`ConnectionConstants`, `ResolverConstants`, `Sentinels`, `HashConstants`,
`HashesTellGroups`, `CallConstants`, `NameConstants`, `SearchIsAPath` (the search
suffixes are a sequence), `NoneIsNoIndex` and `NoneIsNoAddress` (the absent value is
no number and no address, as `Option` has it), `Bounds` (the room of a channel and the
width of the phase are numbers, the latter not 0), `PointConstants` (points have hashes),
`RequestConstants` of `RingHash` (headers and parameters are finitely many), and those of
`Publication`: `NoneIsApart` (`None` and an error are none of the values of a field),
`TextConstants` (names and regular expressions are text, and the longest service name
is a hostname, as `lib.rs` of the API bounds it), `RouteConstants`, `RequestConstants` and
`BackendConstants` (what is written is of its type, and, for routes and requests, within
the three operators above).  TLC evaluates them in each run.

`ResourceCacheProofs`: `TypeCorrect`, `NothingUntracked` (`DataHasSubscription`),
`AddedAreMissing`, `CleanEntriesLinked`, `CollectionIsSafe`,
`RejectionsChangeNothing` (`RejectionKeepsContent`), `PoliciesApplied`
(`InlinePolicyApplied`).  None of the invariants is inductive alone.  That content has
a subscription needs that the graph holds only nodes and that removals never outlive
the collection that made them; that clean entries are linked needs that a subscription
exists before references start at it and that collection keeps edges between
survivors.  `IInv` conjoins these.  Both hold whichever edges a reset leaves: a
leftover edge lies between nodes, and the references of the new content are added after
the reset.  One lemma per operator of `CacheState` says what it keeps
(`CacheStateProofs`), one per call follows from it.  `CollectionIsSafe` then comes from
the definition of `Reachable`: the reachable nodes are closed under edges and hold the
roots, so a resource a clean survivor refers to, which is an edge away, survives.
`RejectionsChangeNothing` looks at each way a call can leave a new error, and finds the
content of every resource as it was.

`PoliciesApplied` has a hypothesis, `InlineConvention`: a Listener with an inline
policy carries that of the cluster it is named for, and then nothing else does.  That
is what `Backend::to_xds_lb_route_config` publishes; the cache checks neither, and
without it the claim is false (`cache.rs:995-1006`, below).  The contents of
`cache_route` satisfy it. The proof says of every cluster that its policy is the one
of its Listener, but for the Listeners whose policy is on its way through the step,
and follows that set through the order in which the code writes content, references
and errors.

`AdsConnectionProofs`: `TypesKept`, `MissingAsked` (`MissingAreAskedFor`), `NothingLeaks`
(`NothingLeaked`), `ResponsesAnswered` (`AnsweredUnlessOvertaken`), and `DnsResolved`
(`DnsClustersResolved`).  These speak of quiet moments; the invariant says where what
they promise is in between.  `AskedOrPending`: what is missing is asked for, is in the
requests that are still to be sent, or in the changes the graph has collected, in
this batch.  `TrackedOrLeaving`: what the server sends unasked is about to be
cancelled.  `AnswerPending`: a response without an answer was overtaken in its batch, or
is on its way in, or is the one whose nonce its type's ack holds, or waits among those
of unknown type, or is named by a request that is to be sent.  Under them lie what
`CacheStateProofs` gives (`Sound`), that the nodes of the wildcard types stay
(`WildcardNodes`), that a broken connection keeps nothing (`DownIsEmpty`), and that
responses and requests name resources of their type (`IncomingFits`, `RequestsFit`).
`DnsResolved` adds where a DNS name is between the cache and the resolver, and has a
hypothesis, `NoDnsTakenBack`: no user sends `RemoveBackends` or `RemoveEndpoints` for a
DNS name.  There are such updates (`xds.rs:88-90`) and nothing in the crate sends one.

`DnsResolverProofs`: `ResolverTypes`, `ClaimsHeld`, `EndpointsCurrent`,
`NewNamesNoticed`, `TimeIsKept`, `WakeupsArrive` (`NoLostWakeup`), and `PinsSurvive` for
the action property.
`SomeoneKeepsTime` is the interesting one: a thread goes to sleep without a timeout
only if no tracked name has an answer; then every tracked name is new; since none
of the new ones is unclaimed (the thread found no work, and a set of names that is
not empty has a first one) all are claimed; and by `ClaimsAreHeld` a claim has a
thread that is in a lookup, hence not asleep.  So the five invariants are proved
together.  Pins survive since every other step either keeps the record of the
name or, as `set_names`, keeps a set of ports that holds the pins.  `WakeupsArrive`
(no caller sleeps on endpoints that are there, unless a thread is about to wake it)
holds of the behaviours in which `set_names` never tracks one more port of a name that
has its answer (`NoLatePort`); with it, every tracked port of an answered name is
filled (`AllPortsFilled`), so that endpoints appear only in the step of a thread that
goes on to notify.  A late port is the divergence listed below, and the only way in
which a wakeup is lost.

`RingHashProofs`: `TypeCorrect`, `BuiltForItsHash`, `LikeRequestsMeet` and
`Refinement`, that `RingHash` implements `StatelessPick`.  The concrete `UseRing` and
`Rebuild` are the abstract `Reply`, `Miss` is a stutter.  The invariant it needs is
that a ring which bears a group's hash picks as a ring built for that group would; the
delicate case is the ring that was never built, whose hash is 0 and which has no
entries: by `HashesTellGroups` only a group without endpoints has that hash, and of
such a group `nth` gives nothing whatever the index.  `LikeRequestsMeet` follows:
callers with one group and one hash have one answer, which is the part the ring has in
`Affinity`.

`OthersKeepTheirs` (`OnlyItsOwnMove`) is about two rings at once.  `Place` is a bijection
from the points to the indices of the ring, since ranks in a finite linear order are
(`IndicesProofs`); a pick finds the first point, in that order, whose hash is not
below the request's, or the first of all.  Without the endpoints at an address, with as
many points for each of the others, the points that are left keep their hashes and
their order, ties included, because the map of the indices grows; so the first point
that is left is the first there was, unless the one at the address served the request.

`AlikeMeet` (`Affinity`): what `hash_request` hashes for a header is a sorted list of values,
which depends on how often each value occurs and not on the order of the
headers; so policies that see two requests alike contribute alike.  Which policies are
counted is settled by the first terminal one that finds something; that this one is the
same for both is shown from the least policy at which they would part.  What is
combined is then one sequence, and so is what comes of it.

`ClientRequestProofs`: `NothingIsMissed` (`NoMissedNotify`), for every content of the
cache, search path and configuration.  `NoMissedNotify` is inductive once lookups are
known to be lookups: a lookup falls asleep only in the step that has just seen
no entry, after it registered, and a write wakes all that are registered with the
map it changes.

It also has `TheFirstRouteWins` (`StableRouteWins`), for search paths of any length.
The invariant says of every lookup what it can have seen: one that said None speaks
for a name that has had no route all the while, and one that is on its way to a
RouteConfiguration goes to the one the Listener names, if the Listener is as it was.
Writes only take away from what has been held (`Keeps`, `HeldFades`), so what was true
of a name when its lookup answered stays true.  `First` is the least of the lookups
that are open; that there is a least one comes from the well-foundedness of strict
inclusion on finite sets, since induction is out of the prover's reach.

And it has `RequestTypes` and `HistoriesAreWhole` (`HistoryIsWhole`), for any
number of attempts.  The invariant follows the trace through a try: three events find
the route and the backend once, and each attempt adds the lookup of its backend, that
of its endpoints and the address chosen, under the phase of that attempt.  Phases are counted modulo
`PhaseMod` as the `u8` is, so the n-th attempt's phase is n - 1 modulo that, which takes
two facts about remainders.  That every address is one comes from what lookups answer:
a group of some entry the server or the resolver may hold.

`PublicationProofs`: `EveryWayIsTyped` (`TypeOK`), `MeaningSurvives` (`MeaningKept`),
`RankSurvives` (`RankDecides`), `BackendsSurvive` (`BackendsAlike`) and, for the action
property, `TripsEnd` (`TripsSettle`), for every pool of routes, configurations, HTTPRoutes,
backends, clusters, Services and requests.

* *One conversion.*  `RouteWritten`: what a route becomes decides every request on the
  wire as the route did; `RouteRead`: the other way.  Matches first (a route that matches
  by method has the exact header for it), then timeouts, retries and shares, then
  domains, then rules.  A rule of several matches becomes a run of routes with its name
  and action, and neighbours alike in both are read as one rule: the k-th rule
  read is the k-th run, runs cover the routes in their order, and the first rule that
  matches is the one whose run holds the first route that matches.
* *HTTPRoutes.*  A part that is read again is the part that was written, up to
  filters (`Unfiltered`); rules and matches are sorted, which is modelled by rank in a
  weak order (`Less` is transitive, and so is not being less).  The rule `RankedDecides`
  speaks of is unique, and in the sorted list it comes first of those that match.
* *The invariant* (`Inv`): a route on its way is of its type, says no more than a route
  can, and decides every request as `origin` does, by place before it was an
  HTTPRoute and by rank afterwards; an HTTPRoute is the one that was written from
  `last`, or comes from others.
* *Backends.*  Reading inverts writing, or fails: for names (`ServiceReadBack`), for lists
  of hash policies, for policies with the defaults of the wire, for Services (`PatchSays`,
  whatever the Service said before).  A DNS backend whose name ends as those of
  Kubernetes services is read under the name of one, and refused, because a cluster that
  is resolved by DNS is no Kubernetes service's (`DiscoveryMatches`): so no assumption
  about names is needed.  `BackendOnItsWay` says that a backend under way is the last one
  written, in the form it has reached, or comes from others.
* *Trips.*  Runs laid one after the other are the routes they were taken from
  (`GroupedFlat`), and what is read of what a rule wrote is written as it was:
  matches (`MatchBack`), actions (`ActionBack`), rules (`GroupBack`), routes
  (`RouteBack`).  Only retries need care, and the attempt to prove this corrected the
  property, which used to speak of the second trip: a back-off without an interval is
  read as a retry that says nothing, which is written as no retry, which may make a rule
  like its neighbour.  `Settling` follows these stages: after a trip, what is on the wire
  is what a route wrote; after two, its rules are such as are written and read alike
  (`TidyRules`); after three, neighbours differ, and reading what is written gives it back.

Functions defined by recursion, and sequences laid one after the other, are reasoned
about without induction over data: the properties of `FlattenSeq` and of prefix sums are
taken from the least index at which they would fail (`IndicesProofs`).

Only model-checked, and why: the liveness properties `NewNamesResolve`,
`NamesAreRefreshed`, `SubscriptionsAreSent` and `RequestsEnd`.  The back ends express
neither fairness nor `ENABLED`.  They rest on the instances of the runs, and on proved
invariants for their safety half: whoever waits is woken (`NothingIsMissed`,
`WakeupsArrive`), some thread keeps time (`TimeIsKept`), what is missing is asked for or
about to be (`MissingAsked`).

## Where the code and its comments disagree

Each of these was met while modelling.  The first two are kept as runs in which
TLC finds the counterexample.

1. `cache_unused`: a RouteConfiguration update never drops old references
   (`cache.rs:981`), so the clusters it named stay subscribed.
2. `client_warm`: a lookup waits for room in the channel of subscriptions before
   it looks (`xds.rs:192`), and the task reads the channel only while it is
   connected.  Without a connection the channel fills, and requests for what is in
   cache time out, where `client.rs:156-157` says that a request never has to block.

Stated in the modules and found violated, though not run regularly:

* `ResourceCache!RejectionKeepsRefs`: a Listener whose policy is rejected late has
  already lost its references (`cache.rs:801`, `843-849`).
* `ResourceCache!NoStaleRefs`: `reset_refs` can leave an edge (`cache.rs:519-529`; its
  comment has it remove all).  Subscribe to the routing Listener and insert it by
  reference (edge 0); insert the ring hash cluster (edges 1 and 2); unsubscribe and
  collect, which takes the Listener, and edge 2 moves to index 0, so that the cluster's
  edges are listed as 0 and 1; remove the cluster: when index 0 is removed edge 1 moves
  there, and there is no index 1 any more.  The cluster has no content and keeps a
  reference, which may keep what it leads to from being collected.  In the model any
  reset may leave edges, so that TLC shows this in fewer steps.
* `AdsConnection!EveryResponseIsAnswered`: of two responses of a type in one batch the
  ack of the second replaces that of the first (`xds.rs:738`), which gets no answer: a
  nack can be lost.  `AnsweredUnlessOvertaken` says that there is no other such case.
* `DnsResolver!ExitOnlyWhenDropped`: a thread that starts before its sibling exists
  takes the resolver for dropped (`dns.rs:342`, `211-214`).
* `DnsResolver!NamesAreRefreshed` with one thread for three names: `next_name` picks
  the most recently resolved of the names that are due (`dns.rs:478`); with slow
  lookups the oldest is never refreshed.
* `AdsConnection!NamedAreTracked` (`MCAdsConnection!ShrinkingSends`, two responses in
  flight): a late response cancels the request for a resource that was dropped and
  taken up again (`cache.rs:461`).  If the late response takes the resource away, the
  client is left with an entry that says so and a server that was told to forget the
  name; `MissingAreAskedFor` makes room for that case alone.
* `AdsConnection!DnsFollowsCache` (`MCAdsConnection!DnsSends`): a DNS cluster the
  server removed leaves its name in the resolver (`cache.rs:718`).

Without a property of their own, in the dynamic core:

* Dropping the last handle of a resolver wakes no thread (`dns.rs:187-191`); one
  that sleeps without a timeout (`374`) stays, though the documentation
  (`150-151`) has it exit.
* A port that `set_names` tracks after its name was answered has no endpoints
  until the next answer that differs (`dns.rs:584-590`), or until `subscribe` fills
  it (`534`) without waking those who wait (`278`), though `247-248` says that
  they wait for it.
* A broken stream loses the removals of DNS names that `outgoing` took out of the
  cache (`xds.rs:375-382`); the additions come again with `set_names`.
* Every cluster refers to the Listener of its policy (`cache.rs:926`), so a Listener
  of that name with an ordinary route to the cluster closes a cycle, where the
  comment on collection (`548-549`) counts on a DAG.  Collection copes: a cycle goes
  as a whole.
* A policy RouteConfiguration that arrives after its Listener carries a policy
  inline overwrites it (`cache.rs:995-1006`), where the Listener's own comment
  (`818-820`) has the policy come from the Listener.

In the client and the balancers:

* Round robin takes its turn modulo the number of endpoints and panics when there
  are none (`load_balancer.rs:82`), where `client.rs:709-711` expects no endpoint;
  it ignores the addresses tried before (80), where `load_balancer.rs:36` says that
  it skips them.
* A report that is not worth a retry gives the endpoint back as it is
  (`client.rs:416-418`), where the documentation (405-407) promises updated history.
* A route by reference is read in two steps (`cache.rs:1079-1083`): the answer may be
  that of a RouteConfiguration the Listener no longer names, or the reader waits
  for one that is gone until its deadline.
* A fully static client has no endpoints (`lib.rs:195-197`): every `resolve_http` of
  one ends with no reachable endpoints.
* `StaticConfig::get_route` panics on a host shorter than the domain of a wildcard
  (`http.rs` of the API, 67-76: a subtraction of lengths).
* A query without the parameter has the hash of no values (`load_balancer.rs:279-283`),
  where `backend.rs:146-153` of the API says that a missing input has no effect.
* An endpoint that comes or goes can change how many points each of the others has
  (`load_balancer.rs:184`), which moves requests of the others too.
* With the default of five dots, even the full name of a service (four) is searched
  for with every suffix (`client.rs:826`).
* The phase of a trace is a `u8` (`error.rs:26`, `97`): more selections than it can
  count overflow it.  Weights are summed in their own width (`client.rs:628`).
* A timeout is not temporary (`error.rs:174-176`), though the documentation
  (172-173) names one.

In the conversions:

* Names may end in `-` or `.`: the test for the last character (`lib.rs` of the API,
  288 and 344) compares with the length and never holds.  A DNS service whose name
  ends in the suffix of Kubernetes services is read back as one of those (a cluster of
  one is refused, see `BackendsSurvive`); the policy route of a backend may have the
  name of another service.
* xDS: the weight of an only backend is lost; rules that differ only in filters are
  merged, as are neighbours that a trip made equal; a route without a match, merged
  with others, no longer matches anything; an exact `:method` header becomes a
  method; ports without hostnames are lost; domains that are no product become one;
  `u32::MAX` retries overflow (`xds/http.rs:596`), longer codes are cut, a negative
  backoff panics; a regular expression is searched for by the client and matches the
  whole text on the wire.
* Kubernetes: rules are sorted when read, so that their order says nothing; a rule
  that matches everything ranks lowest, but above a header-only one once xDS gave it
  the empty prefix; an HTTPRoute without a name panics; the patch of a DNS backend
  leaves the ports of the Service alone.

## What is not modelled

The end of the ADS task and the flow control of its stream; `Client::build` and the
dumps of the cache; the counter of round robin (its turn is the environment's).
The table of DNS names is a map of `CacheReader` whose lookups no instance makes: it
would repeat those of the endpoints.  CSDS is a dump, `hash.rs` and `rand.rs` are an
operator and a choice.  Parsing of URLs, serialization, the Python and Node bindings,
type information, code generation and developer tasks keep no state.  Liveness and
`ENABLED` are out of the prover's reach.

## Plan

Done, in this order, because everything a client sees goes through the cache:
the graph and the cache with their proofs; the resolver with its proofs; the
connection that drives the one and feeds the other; the conversions that make what
it carries; the ring, with the balancer it implements; the readers of the cache and
a request through the client; then the proofs of the connection, of the client's
search, history and lookups, of the resolver's wakeups, of what requests keep when
endpoints leave, and of what routes and backends keep on their way.

Next:

1. The end of the ADS task, the bounded channel of requests and the headers of the
   stream; deadlock between the two ends.  Hazards `xds.rs:350`, `378`.
2. An abstract specification of a configuration source (each lookup returns what the
   control plane published last, or waits) that `CacheReader` over `CacheState`
   implements; one of the resolver (names to answers) that `DnsResolver` implements.
3. Proofs that the specifications of 2 are implemented, step by step.
4. Conversions outside the pools: what exactly becomes of a route configuration
   that is not `Expressible`, as a property instead of an assumption.
