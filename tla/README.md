# A TLA+ model of ast_redis

ast_redis makes Asterisk servers share their events (device state, message
waiting, pings) through the publish/subscribe channels of a redis server. This
directory models the C code of the repository in TLA+, checks the models with
TLC and proves every safety property that TLC checks, and that the cluster
implements its abstract specification, with TLAPS.

Paths below are relative to the repository. All of it is about the Asterisk 11
build: the other branch (`HAVE_PBX_STASIS_H`) does not compile.

## 1. Inventory

| Part | State it keeps | Operations | Module |
|---|---|---|---|
| `res_redis/res_redis.c` | `event_types[]` with `publish`, `subscribe`, `channelstr`, `sub`; `event_types_lock`, `redis_write_lock`; the servers list and its cursor; `redisPubConn`, `redisSubConn`; the dispatch thread | `load_module`, `unload_module`, the libevent loop and hiredis' callbacks, `ast_event_cb`, `redis ping` | `ResRedis`, `ResRedisProofs` |
| the cluster those servers form | on each server the event cache and queue; in redis the subscriptions | change of a device, dump, subscribe, publish, receive, crash | `RedisCluster`, `StateSharing`, `RedisClusterProofs` |
| `lib/ast_event_message_serializer.c`, conversions | one line of text, one event | `message2json`, `json2message` | `EventSerializer`, `EventSerializerProofs` |
| the same file, event map | type to subscription and callback | `pbx_subscribe`, `pbx_unsubscribe` | `PbxEventMap`, `PbxEventMapProofs` |
| `lib/msq_redis.c` | list of servers, current server, `msq_event_map`, two connections, loop thread | `msq_add_server`, `msq_remove_all_servers`, `msq_set_channel`, `msq_add_subscription`, `msq_start`, `msq_stop`, the event loop, removals | `MsqRedis` (what `res_redis_v1` calls), `MsqLoop`, `MsqLoopProofs`, `MsqLists`, `MsqListsProofs` |
| `res_redis/res_redis_v1.c` | none of its own that is read | load, reload, unload, on `msq_redis` | `ResRedisV1`, `ResRedisV1Proofs` |
| `res_config_redis/res_config_redis.c` | one connection, one lock | connect, reconnect, realtime stubs, load, reload, unload | `ResConfigRedis`, `ResConfigRedisProofs` |
| `cdr_redis/cdr_redis.c`, `lib/ast_stasis_message_serializer.c` | none | none that does anything | not modelled |
| `include/shared.h` | exceptions and names | the results of the conversions | in `EventSerializer`, `MsqRedis` |

How they interact. Asterisk calls `load_module`, which reads the configuration,
dials a server with two non-blocking hiredis connections, starts the dispatch
thread, dumps the event cache to redis and subscribes, for each published type,
with Asterisk (`ast_event_cb`) and with redis (`redis_subscription_cb`).
`ast_event_cb`, on Asterisk's dispatcher thread, serializes an event of this
server and appends a PUBLISH to the output buffer of `redisPubConn`. The dispatch
thread sends both buffers and calls `redis_subscription_cb` for what arrives; that
decodes the message, drops it if it carries this server's EntityID and queues the
event with Asterisk otherwise, which calls `ast_event_cb` again.
`unload_module` unsubscribes, frees the entries, breaks the loop and joins the
thread.

`res_redis_v1.c` is the started replacement of `res_redis.c`: it configures
`msq_redis.c`, calls `msq_start` and does not start the event loop yet. The event map
of the serializer is meant for it too, and has no caller either. So `MsqLoop`,
`MsqLists` and `PbxEventMap` model these functions with any client that keeps to
their headers; they say what the next caller may rely on.

`res_config_redis.c` is a module of its own: Asterisk's threads call its engine, and
what they share is one connection pointer and one recursive mutex.

What is hard. Three threads share `event_types` and two hiredis contexts, which
are not thread safe; half of the accesses to an entry are made after the lock was
released. A non-blocking connection fails after the code that looks for the
failure. hiredis frees a context and the module keeps the pointer. The loop
thread is woken by a flag, a signal and nothing else. Every server hears its own
messages and feeds the others' into the very event system it listens to. The
message buffer is finite and the EntityID is at its end. The locks of `msq_redis.c`
are released where they are taken, the event map is written under a read lock,
and the realtime driver unlocks where it means to lock. `PROJECT.json` lists
these hazards, each at its line, with the properties aimed at it.

What correct means, per part:

- `res_redis`: nothing of the module runs after unload; a callback never uses an
  entry that was freed; a dead redis context is used only if a server really
  failed; load and unload return; what is published reaches redis.
- the cluster: no event storm; nobody holds a state the device never had; no
  server's newest state is overwritten by an echo; a change reaches every
  subscriber; only a change in one known window is lost; an idle cluster agrees,
  but for one combination of an overtaking dump and a crash.
- the serializer: the round trip gives the event back; a server recognises its
  own message; no NULL value is used without one of three known causes.
- `msq_redis`: a bad pointer is used only after a connection was lost; nothing of the
  loop is left when it was stopped; the list of servers holds what was added.
- the event map: no subscription is leaked or freed twice, and every call returns.
- `res_config_redis`: one thread in the critical section; the connection pointer is
  NULL or a context that was established; unload ends.

## 2. Modules

### ResRedis

One server, one module, three threads with a program counter each: `mod`
(load and unload), `loop` (the dispatch thread) and `evt` (Asterisk's dispatcher).
A step is the code between two accesses to state that another thread may change,
so the test of `publish` and the use of `channelstr` in `ast_event_cb` are two
steps, and so are the two halves of hiredis' flush. Actions carry the names of the
C functions; a loop over `event_types` is one step per entry with the index in
`modi`.

| Variable | Code |
|---|---|
| `publish`, `subscribe`, `channelstr`, `sub` | the fields of `event_types[t]`; `channelstr[t]` says that the pointer is valid; `sub[t] = "stale"` is the pointer kept after `ast_event_unsubscribe` |
| `event_types_lock` | write-locked by `mod`; the only read section that spans two steps is `looppc = "match"` |
| `servers`, `curserver` | length of the list and the `strtok_r` token in use |
| `redisConn`, `obuf` | state and output buffer of the two hiredis contexts |
| `event_break`, `signal` | `event_base_loopbreak`'s flag, and whether SIGURG found the loop in `poll` |
| `up`, `redis_subs`, `inbox`, `wire` | redis: servers running, channels subscribed, replies on their way, types PUBLISHed |
| `evq`, `cached`, `produced` | Asterisk: event queue, types with a cached event of this server, bound |
| `fault` | the undefined behaviour that was met: NULL or freed context, freed channel, NULL servers string, a thread id that was never set, an append that met a flush |

A fault ends the behaviour: after a use of freed memory nothing can be said. The
safety properties say which faults cannot happen, and when; the liveness
properties stop claiming anything after one.

`redis_write_lock` has no variable: it is held for one append only, by `mod` or
`evt`, and an append is one step. The dispatch thread never takes it, and that is
what the fault `buffer_race` is about. The two connections are to one server.
hiredis, libevent, redis and Asterisk are external: modelled from how this code
uses them.

### RedisCluster

Several servers, one event type, one device per server, one redis that stays up.
Inside a server the order of `load_module` (dump, then subscribe) is kept, and
messages move from the event queue to the PUBLISH buffer, to redis, to every
subscriber and back. Device states are numbered so that "newer" can be said; the
code only copies them. History variables record what reached redis and in which
window a change was missed. Crashes lose the queues and the cache of the server;
what redis has sent the others stays sent (`reached`). `cutoff` records that a
server crashed with the event of its current state still queued or unpublished.

`StateSharing` is the promise without the machinery: an owner announces states its
device had, redis hands every member the announcements in one common order, and a
server learns of another's device from nothing else, nor of its own from an
announcement. There are no event queues, no PUBLISH buffers and no phases in it.
The refinement mapping of `RedisCluster` (`SS`) takes `version`, `cache`, `rsub` and
`chan` for the four abstract variables; `Implements` is the abstract specification
under this mapping. It allows announcements of older states, because the code does
make them: `NoStaleOverwrite` and `Agreement` say how far.

### EventSerializer

Both conversions, one information element or entry per step. A line is a sequence
of parts (key with colon, value, text without a colon), the units a comma in a
string or the end of the buffer can separate; when the buffer ends inside a part,
every outcome is explored. The fixed 1024 characters become `BufLen` parts.

### MsqRedis and ResRedisV1

`MsqRedis` holds the state of `lib/msq_redis.c` and an operator for each function
that `res_redis_v1.c` calls; `ResRedisV1` extends it with the steps of
`load_module`, `reload` and `unload_module`. One thread runs all of it, so a step is
an option of the configuration, or one entry of the loop in
`_msq_toggle_subscriptions`. The configuration file is not a constant: each option
is chosen when it is read, and a reload may find another file. `current_freed` says
that the node behind `current_server` is gone; `queued` are the SUBSCRIBE commands in
hiredis' buffer. `fault` ends the behaviour, as in `ResRedis`. hiredis frees a context
that is disconnected without pending replies, so reading its error afterwards, as
`_msq_disconnect` does, is the fault `freed_context`.

### MsqLoop

The event loop of `lib/msq_redis.c` next to one client thread that calls `msq_start`,
`msq_start_eventloop`, `msq_publish` and, in either order, `msq_stop` and
`msq_stop_eventloop`. Each look at `current_server` is a step of its own, since nothing
protects it. The loop's thread runs hiredis' callbacks; a connection may be refused
or lost at any time. Contexts are numbered by the dial that made them: only those
of the first are ever attached to the loop, so a change of server dials contexts
that no loop serves. Because the built-in ping is subscribed and has a channel,
`_msq_disconnect` is refused at its first step and changes nothing (see `UnloadSafe`).

### MsqLists

One thread that adds and removes servers and subscriptions in any order. The list
is the sequence of nodes that its pointers lead through, those already freed
included; `wanted` is what the client has asked for. `inner` and `dropped` record the
two uses that the code does not survive.

### PbxEventMap

Any threads in `pbx_subscribe` and `pbx_unsubscribe`, one step per access to an
entry. `pbx_subscribe` calls `ast_event_subscribe_new`, which allocates a
subscription, and never `ast_event_sub_activate`; so `allocated` is memory only, and
Asterisk calls nobody for it. The file's `ast_event_cb` never runs and is not in the
model. Asterisk's dispatcher is, because it read-locks the list of the subscriptions
to a type while it calls those of other modules, and `ast_event_unsubscribe` waits
for that lock with `event_map_lock` held. `event_map_lock` is in the model, although
read locks exclude nobody, because `pbx_subscribe` takes it twice when it calls
`pbx_unsubscribe`. `overlap` records the types for which two calls ran at once.

### ResConfigRedis

Any threads in the engine's functions, and one that loads and unloads. The test of
`redisConn`, the read of its `err` and the assignment after
`redisConnectWithTimeout` are separate steps; `redis_lock` is Asterisk's recursive
mutex, for which an unlock by a thread that is not the owner does nothing.
`store_redis` and `destroy_redis` are the same code and share an action. Asterisk may
unload the module while threads are in it: the source says "needs usecount
semantics defined" and counts nobody.

### MC modules and proof modules

`MCResRedis`, `MCRedisCluster` (with the symmetry of the servers, used in the safety
run only), `MCResConfigRedis`, `MCPbxEventMap`, `MCEventSerializer`, `MCResRedisV1`,
`MCMsqLoop` and `MCMsqLists` are what TLC runs. `ResRedisProofs`,
`ResRedisV1Proofs`, `RedisClusterProofs`, `ResConfigRedisProofs`, `EventSerializerProofs`,
`MsqLoopProofs`, `MsqListsProofs` and `PbxEventMapProofs` extend the component and
`TLAPS` and hold the theorems. `StateSharing` and `MsqRedis` are used by the
specifications proved about there.

Operators with a suffix (`HasNextServer_OneTooMany`, `stop_loop_NoBreak`, ...) are
plausible mistakes in the definition they stand before. Nothing uses them; they
are substituted for it, one at a time, to see that a property notices.

## 3. Runs

| Run | Instance | Shows |
|---|---|---|
| `res_redis_safety` | 2 types and ping, 2 servers, 1 event | `TypeOK`, `QuietAfterUnload`, `ChannelSafe`, `EntryStableInCallback`, `ContextSafeIfHealthy` |
| `res_redis_live` | 1 type and ping, 2 servers, 1 event | `LoadedSubscribes`, `LoadEnds`, `OwnEventPublished`, `UnloadEnds` |
| `res_redis_failover` | 2 servers | violated: `TriedUntilEstablished` |
| `res_redis_flags` | 1 type | violated: `SubscribedAsConfigured` |
| `cluster_safety` | 2 servers, 2 states each, 1 crash | `TypeOK`, `NoEventStorm`, `NothingElseLost`, `Agreement`, `NoStaleOverwrite`, `Implements` |
| `cluster_live` | 2 servers, 2 states each | `ChangeSpreads` |
| `serializer` | up to 3 elements and the EntityID, 8 parts | `TypeOK`, `RoundTrip`, `OwnMessageRecognised`, `NullValueNeedsCause` |
| `res_redis_v1` | 2 types and ping, 2 servers | `TypeOK`, `ServersDistinct`, `UnloadSafe`, `SubscribedIsActive` |
| `msq_loop` | 2 servers | `TypeOK`, `FaultNeedsLoss`, `StopIsFinal`, `LoopEnds` |
| `msq_lists` | 3 servers, 2 types and ping | `TypeOK`, `ListExact`, `FreedOnce` |
| `pbx` | 2 callers, 1 type, 3 subscriptions | `TypeOK`, `SerialIsExact`, `CallsReturn` |
| `config` | 2 threads, 3 contexts | `TypeOK`, `Exclusion`, `StatusHolds`, `FaultNeedsUnload`, `OpenBounded`, `UnloadCompletes` |

What the passing ones say of the code:

- `EntryStableInCallback`, `ChannelSafe`: although `ast_event_cb` reads its entry
  after it has released `event_types_lock` and `cleanup_module` frees entries
  without it, `ast_event_unsubscribe` waits for a running callback, and that is
  enough. Leaving the Asterisk half out of `redis_unsubscribe_from_channels` breaks
  both. `redis_subscription_cb`, on the other hand, does find its
  channel freed, because nothing waits for the dispatch thread before the entries
  are reset; but only then, never while the module is loaded.
- `ContextSafeIfHealthy`: as long as every server dialled stays up, and one is
  listed, no interleaving uses a NULL or freed context.
- `UnloadEnds`: `unload_module` returns except in two situations, both reachable.
  `LockCycle`: it holds `event_types_lock` and waits in `ast_event_unsubscribe` for a
  callback that waits for `event_types_lock`. `LostWakeup`: it waits in
  `pthread_join` for a dispatch thread in `poll`, because SIGURG came between the
  look at the break flag and the poll, or because `event_base_loopbreak` came before
  `event_base_dispatch`, which clears the flag. The property claims that there is
  no third.
- `NoStaleOverwrite` and `NothingElseLost` each name the one window in the load
  sequence that hurts: the dump overtaking queued events, and a change between
  the dump of a type and the subscription to it.
- `Agreement` names a case in which an idle cluster does not agree although redis
  sent everybody the current state. An owner has events 1 and 2 in its queue; its
  dump publishes 2, and `ast_event_cb` publishes 1 after it, so that the others go
  back to 1. They get 2 again with its own event, unless the owner crashes before
  that one is published. There is no other case.
- `TypeOK` of `RedisCluster`: a message names its device by its EntityID alone, and what a
  server keeps of a device outlives the crash of the owner; even so no cache, queue or
  message holds a state that the device has not had. A server that fed what it hears
  to Asterisk under its own EntityID breaks it, as its mutant shows.
- `OwnMessageRecognised`, `NullValueNeedsCause`: an own message is taken for news
  only if the buffer cut it, and the NULL value that `trim_char_bothends`
  dereferences comes from a comma in a string, a raw element or a cut.
- `UnloadSafe`: every reload of `res_redis_v1` frees the server that `current_server`
  points to. `unload_module` does not read it, but only because
  `msq_send_unsubscribe` refuses every type that has a channel: repairing that test
  alone makes the property fail, as its mutant shows. A subscribed type without a
  channel, or no subscribed type at all, leads to the freed memory.
- `SubscribedIsActive`: the loop that stops at the first exception loses nobody as
  long as every subscribed type has a channel and the connection has no error.
- `FaultNeedsLoss`, `StopIsFinal`: without any lock, a client of the event loop is safe
  until a connection is refused or lost. Then `msq_publish` may use a freed context,
  `msq_stop_eventloop` may look for the loop in a server that has none, and the client
  may be moved to another server once, but not twice, after `msq_stop` returned.
- `ListExact`, `FreedOnce`: `_msq_remove_server` is right for the first server only.
- `SerialIsExact`: the read lock around assignments is enough to keep the books (no
  subscription leaked, none freed twice) for a client that does not call for one
  type from two threads at once, and not otherwise. It does not say that events
  arrive. `CallsReturn`: taking the write lock in `pbx_subscribe` is not the remedy,
  as its mutant shows; it would wait for itself in `pbx_unsubscribe`.
- `Exclusion`, `StatusHolds`, `OpenBounded`: the realtime driver's unbalanced unlocks are
  harmless because Asterisk's mutex refuses them, and its unlocked connection
  pointer because a context is checked before it is assigned; what is lost is one
  connection per thread. `FaultNeedsUnload`: an unload in the middle of a store is not
  harmless.

The two violated ones are disagreements between documentation and code, described
under `findings` in `PROJECT.json`: servers are not tried "untill connection is
established" (`conf/res_redis.conf`), and the `subscribe_*_event` options have no effect
of their own. Other places where the models follow the code and not the words
around it, without a run of their own:

- The CLI's `redis ping` ("Send a test ping to the cluster") never leaves the
  server: the ping entry's `publish` is never set, so `Init` of `ResRedis` has it
  `FALSE` and nothing changes it.
- `res_redis_v1` tries the first server only (`msq_start` ignores the result), and
  SUBSCRIBE is given the configured channel with a colon appended, because an empty
  pattern is not a NULL pattern.
- `redis_reconnect` of the realtime driver, where a comment says "everything is still
  ok", keeps a connection that its server has closed: `err` is set by commands, and
  the driver sends none.
- `pbx_subscribe` returns `NO_EXCEPTION` for a subscription that gets no events.
  `ast_event_subscribe_new` (`ast_event_message_serializer.c:64`) only allocates it, as it
  does in `res_redis.c:357` for one that is never activated; a live one comes from
  `ast_event_subscribe`, as in `res_redis.c:537`. What `ast_event_unsubscribe` does to a
  list when it is given a subscription that is on none is Asterisk's, and not
  modelled.

### Bounds

These are the bounds of the runs. The theorems of section 4 have none, so the
bounds matter for the liveness properties only, and for the confidence that the
interesting cases are reachable at all.

- Types: one entry that can be configured, the ping entry that cannot, and for
  the safety run a second one so that a loop over `event_types` has an
  entry before and after the one in use. Entries never influence each other
  except through these loops.
- Servers: two, the least for which "the next server" means something; the list
  may also be shorter or empty, and any subset may be up or die at any time.
- Events: one in the runs of `ResRedis`. An event passes through every thread;
  what a second one adds, order, is the subject of `RedisCluster`.
- Cluster: two servers with two states each, so that an older message can follow
  a newer one, and one crash. A message names one origin and a receiver only
  writes the origin's cache slot, so a third server adds no new kind of conflict.
- Serializer: three elements are enough to put any kind before, between and after
  any other; eight parts make the longest of those events overflow at every
  kind of part.
- `ResRedisV1`: two types before ping, so that the loop over the map can stop
  before, at and after an entry. Options are not bounded: the state is finite
  whatever the length of the files and the number of reloads.
- `MsqLoop`: two servers, so that the second change of server leads back to the
  node that has the loop. Only the two contexts of the first
  dial have callbacks, hence at most three dials (`TypeOK`).
- `MsqLists`: three servers are the least with one in the middle.
- `PbxEventMap`: an overlap takes two callers; the third subscription lets one be left
  behind and both callers still subscribe. Types have entries and subscriptions of
  their own and share only the dispatcher and a lock that excludes nobody, so one
  type is enough.
- `ResConfigRedis`: two threads can connect at once; the third context lets one more
  attempt follow.

### Fairness and termination

`FairSpec` of `ResRedis` asks for weak fairness of each of the three threads, which
an operating system's scheduler provides; libevent serves any ready descriptor.
Nothing is asked of the environment: no event has to happen, no server has to die
or to live, nobody has to unload the module. In `RedisCluster` each server's dispatch
threads and redis' publishing are weakly fair, since redis stays up there; loading,
changes and crashes are not.
`MsqLoop` has weak fairness of the loop's own steps and none of the client or the
servers. In `ResConfigRedis` the threads inside the engine are weakly fair
(`redisConnectWithTimeout` has a timeout), and the unload is strongly fair: others may
take the mutex before it again and again, but a waiting thread gets a mutex that
is free infinitely often. In `PbxEventMap` the callers are strongly fair, since Asterisk's
read-write locks prefer a waiting writer to the next reader of a subscription list;
events and calls are not fair at all.

`CHECK_DEADLOCK FALSE` everywhere, because these systems stop: a module that was
declined or unloaded (`ResRedis`, `ResRedisV1`, `ResConfigRedis`), a client that is done
(`MsqLoop`), a fault, an idle cluster whose bounds are used up, a message
that is decoded. That threads do not wait for each other forever is what
`LoadEnds`, `UnloadEnds`, `LoopEnds`, `CallsReturn` and `UnloadCompletes` say.

## 4. Theorems

`ResRedisProofs` proves, for every `NTypes > 0`, `MaxServers` and `MaxEvents` in `Nat`
(`ConstantsAssumption`, the only assumption):

| Theorem | Statement |
|---|---|
| `TypeCorrect` | `Spec => []TypeOK` |
| `UnloadCorrect` | `Spec => []QuietAfterUnload` |
| `EvtChannelCorrect` | `Spec => []EvtChannelSafe` |
| `ContextCorrect` | `Spec => []ContextSafeIfHealthy` |
| `EntryStable` | `Spec => EntryStableInCallback` |
| `LoopChannelCorrect` | `Spec => []LoopChannelOnlyInCleanup` |
| `ChannelCorrect` | `Spec => []ChannelSafe`, the conjunction of the two about channels |

The first five follow from `Invariance == Spec => []IInv`. None of the properties is inductive:
that `ast_event_cb` finds its channel needs to know that it runs only for a live
subscription (`EvtInv`), that a live subscription is of a published entry, that a
published entry has a channel, and that the unsubscribe loop leaves no live
subscription behind its index (`EntryInv`), which in turn needs to know where the
index is and who holds the lock (`ModInv`). `LoopInv` says when the dispatch thread
exists, `ConnInv` when a context is NULL or freed and what that says of the
servers. There is one lemma per part of `IInv` (`TypeStep`, `ModStep`, `EntryStep`,
`EvtStep`, `LoopStep`, `ConnStep`, `EvtChannelStep`, `ContextStep`) with one step per
action, and frame lemmas for the threads that a part does not depend on. TLC found
`IInv` to hold on the instance of `res_redis_safety` before it was proved.
`LoopChannelCorrect` rests on a second invariant on top of `IInv`, `LoopChannelInv`: while
`redis_subscription_cb` compares names, its entry has one, or unload is past the
unsubscribe loop.

`ResRedisV1Proofs` proves, for every `NEvents > 0` and `MaxServers` in `Nat`
(`MsqAssumption`), `TypeCorrect`, `DistinctCorrect == Spec => []ServersDistinct`,
`UnloadCorrect == Spec => []UnloadSafe` and `ActiveCorrect == Spec => []SubscribedIsActive`.
`UnloadSafe` alone says nothing of the state before the fault; `StopInv` adds that
behind the index of the unsubscribe loop, and when the disconnect is reached, no
subscribed type has a channel. `StartInv` says the same kind of thing of the
subscribe loop: behind its index every subscribed type is active and queued.

`RedisClusterProofs` proves, for any set of servers and any `MaxVersion` and `MaxCrashes`
(`ClusterAssumption`):

| Theorem | Statement |
|---|---|
| `TypeCorrect` | `Spec => []TypeOK` |
| `ImplementsSharing` | `Spec => Implements` |
| `StormFree` | `Spec => []NoEventStorm` |
| `OnlyTheGapLoses` | `Spec => []NothingElseLost` |
| `ReachedAgree` | `Spec => []Agreement` |
| `NoStale` | `Spec => NoStaleOverwrite` |

For the refinement the initial states map to initial states, and every step is a
step of `StateSharing` or leaves its variables alone. The invariant needed (`IInv`) is
`TypeOK`, the conjunct about states the device has had included: without it a message
from a queue could not be announced.

The other four are about what is queued behind what, of which `IInv` says nothing.
`CInv` adds, for each server: an event of its own in its queue is followed by that of
the current state, which is there once (`OwnInv`); what the load sequence has done so
far (`LoadInv`); where the current state of a loaded server is if it was not missed
(`LostInv`); that something older is published after it only while its event is still
to come (`AgainInv`); how often the current state was published and will be
(`StormInv`); and that the queues are in order if no dump overtook events
(`LocalOrder`). For each pair of servers it adds that what one knows, and is sent, of
the other's device is in order too (`PairOrder`), and that a server that redis sent
the current state gets it once more or gets nothing after it, unless the owner's
crash cut that off (`ReachInv`), and that without an overtaking dump it has the state
already, or has only to handle it (`HasInv`). The proofs
do not go through the actions eight times: `ActionEffects`, `LocalSteps` and
`PairSteps` reduce an action to what it does to one server and to one pair, and each
part of `CInv` is shown to be kept by these effects.

`ResConfigRedisProofs` proves, for any finite set of threads and any number of contexts
(`ConfigAssumption`), `TypeCorrect`, `ExclusionCorrect`, `StatusCorrect`, `FaultCorrect` and
`OpenCorrect`. `LockInv` says who holds `redis_lock` and where that thread is, `ConnInv`
that `redisConn` and what a thread has seen of it are established contexts until an
unload; `BoundInv` counts the open contexts together with the threads that are on
their way to make one.

`EventSerializerProofs` proves, for events of any length and buffers of any size
(`SerializerAssumption`), `TypeCorrect`, `RoundTripCorrect`, `OwnRecognised` and
`NullValueCause`. What the two loops compute sounds like an induction over the event,
which the installed provers cannot do; but the loops are steps of the
specification, so the induction is the one over behaviours. `Laid` says that the line
is laid out by offsets, one for the place where the parts of each element begin;
each turn of `message2json` extends the offsets by one element (`EncodeInv`). Each
turn of `json2message` starts at the first part of some element, with those before
it decoded, or behind the first two parts of an element that has more of them
(`DecodeInv`); `DoneInv` is what this comes to at the end.

`MsqLoopProofs` proves, for any number of servers but none (`LoopAssumption`),
`TypeCorrect`, `FaultOnlyAfterLoss` and `StopFinal`. Even the types need an argument: only
the contexts of the first dial are ever watched, and every later dial ends a callback
that frees one of them, so there is at most one dial more than there are freed
contexts (`DialInv`). `PointerInv` says that the server in use has been dialled, or is
being dialled, and `StopInv` which callback may still move on after `msq_stop`.

`MsqListsProofs` proves, for any number of servers and types (`ListsAssumption`),
`TypeCorrect`, `ListIsExact` and `NoDoubleFree`. `Distinct` says that no server is in the list
twice, not even in a freed node: that bounds the list by counting, and makes the
node that `_msq_remove_server` takes from the front the first server the client
wanted. `Subscribed` says that an entry with a callback has a channel that was not
freed.

`PbxEventMapProofs` proves, for any sets of callers, types and subscriptions without
`NULL` (`NullAssumption`), `TypeCorrect` and `SerialExact`. The types need `LockInv`, the depth to
which each caller holds the read lock at each point. `SerialIsExact` speaks of the
moments between calls; `AloneInv` says what is allocated and what the entry holds at
each point inside a call that runs alone, and `Single` that a call runs alone as long as its type
is not in `overlap`.

TLC finds these inductive invariants to hold on the instance of the component's
safety run (for `EventSerializer`, whose invariant quantifies over all offsets, with two
elements and six parts; for `MsqLoop` with one and three servers too), so none of them
is stronger than what is reachable there.

Together these theorems state every invariant and every action property of the
passing runs, and the refinement. Only model-checked is the liveness, since the
prover has no support for fairness and `ENABLED`: `LoadedSubscribes`, `LoadEnds`,
`OwnEventPublished` and `UnloadEnds` of `ResRedis`, `ChangeSpreads` of `RedisCluster`, `LoopEnds`
of `MsqLoop`, `CallsReturn` of `PbxEventMap` and `UnloadCompletes` of `ResConfigRedis`. No module
uses `RECURSIVE` operators, which would take the SMT backend away from a proof.

## 5. Left out

- The stasis build, as above.
- `redis_pong_cb`, `redis_meet_cb` and `redis_unsubscribe_cb`: no reply reaches them.
  `redis_disconnect_cb` reconnects only after a disconnect without error, which nothing
  requests; a lost server gives an error and an early return.
- `reload` (declines, changes nothing) and the CLI commands that only print.
- The bytes of the servers string: the port that carries over from one server
  to the next, and the byte `strcat` writes behind a `strdup`.
- In `MsqRedis`: a failing `calloc`, and the second start inside
  `_msq_connect_to_next_server`, since `msq_start` is called once (`MsqLoop` has the calls
  from the callback). In `MsqLoop`: a failing `pthread_create` or `event_base_new`, which
  returns before anything was started. `msq_find_channel`, `msq_list_servers` and
  `msq_list_subscriptions` change nothing.
- The event map's `ast_event_cb`, which nothing calls: the subscription it is
  registered with is never activated.
- `pbx_publish`, which returns an exception, and the stubs of the realtime driver
  that return a constant.
- A message without EntityID in the cluster model; `ResRedis` has it as origin
  `noeid`.
- Failures of redis in the cluster model; `ResRedis` has them.

## 6. Not modelled

- `cdr_redis/cdr_redis.c` holds a licence and nothing else.
- `lib/ast_stasis_message_serializer.c`: every function returns -1, its bodies are
  commented out, and it does not compile against the header it includes.
- `include/shared.h` beyond the exceptions: texts and logging macros.

## 7. Plan

All components that do anything are modelled, and no safety property of a run is
without a theorem. What is left is the safety part of the liveness claims, as
theorems of their own: that a thread which cannot go on is in one of the situations
the property names (`LockCycle` and `LostWakeup` for `UnloadEnds`), and that somebody else
can go on wherever `CallsReturn` and `UnloadCompletes` have a caller wait for a lock.
