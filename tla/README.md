# rosetta-mq in TLA+

`rosetta-mq` subscribes to topics of an MQTT broker, decodes each message with
the decoder configured for its topic, and publishes the result back to
`{topic}/decoded` (or an error to `{topic}/decode_error`). This directory
models the program, checks the models with TLC on small instances, and proves
their safety with TLAPS for all instances.

Paths such as `engine.rs:82` are relative to `src/src/`. `PROJECT.json` maps
every definition to the lines it stands for.

## 1. Inventory

| Component | State it keeps | Operations | What makes it correct |
|---|---|---|---|
| Topic filters (`topic.rs`) | text, specificity vector | `parse`, `matches`, `cmp` | only valid filters exist; the order among filters that match one topic says which is more specific |
| Decoder registry (`decoder/registry.rs`) | list of (filter, decoder) | `register`, `build`, `resolve` | one winner for each topic, whatever the order of registration; the most specific one |
| Engine (`engine.rs`) | join set, shutdown token, one future per message with a bounded emission channel | `run` (a `select!` loop), `handle_incoming`, `decode_and_publish`, `publish`, `drain` | the concurrency budget; each message's outputs complete, once, in order; an orderly end |
| MQTT client (`client.rs`) | request channel (100), incoming channel (100), event loop | `connect` (spawns the driver task), `subscribe_all` | it keeps polling; it ends when the connection or the engine does |
| main (`main.rs`) | join handles | startup, `select!` on Ctrl+C and driver, cancel, wait | every end of a part leads to the end of the program, and nothing accepted is lost on the way |
| Decoder interface (`decoder/mod.rs`) | none | `decode`, `DecodePublish::resolve` | what the broker retains of the outputs belongs to what it retains of the sources |
| Built-in decoders (`decoder/*.rs`) | compiled schema or template | `from_config`, `decode` | a decoder that cannot be built stops startup; one that cannot decode says so in an error message |
| Configuration, protocol, auth, paths (`config.rs`, `protocol.rs`, `auth.rs`, `util.rs`) | none after startup | load, validate, normalise, build | what is accepted at load works later |
| Connection options and TLS (`client.rs:161-312`) | none after startup | `build_options`, `build_tls_config` | TLS whenever it is asked for; no session with a broker nobody vouches for, unless the check is waived |

### How they interact

```
            broker
   publishes |  ^ outputs
             v  |
        driver task (event loop)          main: Ctrl+C or driver's end
   tx.send   |  ^ takes requests             |  cancel, then await
             v  |                            v
     incoming   request channel  <------- engine
   (bounded)    (bounded)      publish    select! loop + join set of tasks
             |                            task: decoder -> emission channel -> drain half
             +----------------------------^
```

The driver forwards messages and empties the request channel in *one* loop: it
does neither while it waits in `tx.send`. A task does not start its next
publish before the request channel took the last one. The engine receives from
`incoming` only while it has budget. So a full request channel pushes back
through the tasks, the budget and the incoming channel to the driver, which is
the only one that could empty the request channel.

### What is hard here

- **Concurrency:** up to `max_concurrent_decodes` tasks, each with two halves,
  the loop, the driver and main. Three kinds of bounded channel; a cycle of
  waits through two of them.
- **Failure:** a connection lost at any moment, and noticed only by a driver that
  polls; a decoder that fails midway, panics or never returns.
- **Ordering:** outputs of one message against each other and behind an error;
  outputs of different messages; cancellation against intake.
- **Timeouts:** the drain is bounded, and what it abandons stays half-done.
- **Stopping:** the runtime drops what is left when main returns.
- **Restarts:** the program keeps nothing, but the broker retains its outputs and
  sends them back at the next start, together with what it retained of the sources.
- **Selection:** a total order on specificity vectors, of different lengths.

The single hazards are listed in `PROJECT.json`, each at its line.

## 2. Modules

| Module | Contents |
|---|---|
| `TopicFilter` | filters as sequences of levels: `Parse`, `Specificity`, `Matches` (external), Rust's order on `Vec<u8>` |
| `Lookup` | `resolve` on a registry given as a sequence of entries |
| `Registry` | the builder as a state machine; what lookup promises about any registry it can build |
| `RegistryProofs` | theorems about `Registry`: what enters it, and that no two entries tie |
| `LookupProofs` | the order on specificity vectors is total; lookup does not depend on the order of registration and takes a most specific filter |
| `DecodePublish` | what a decoder sends, how it is resolved against the message, and which topics are the program's own |
| `Engine` | the loop, the tasks, the drain; its environment fills `incoming`, empties `requests`, disconnects, cancels |
| `EngineProofs` | the inductive invariant of `Engine` and its theorems |
| `RosettaMqProofs` | the inductive invariant of `RosettaMq`, the proof that it implements `Engine`, and the order of outputs at the broker |
| `RelayProofs` | no feedback, and the proof that `RosettaMq` implements `Relay` |
| `Relay` | abstract: messages heard, decode calls made, outputs published for each in order |
| `RosettaMq` | `Engine` composed with the driver task, main and an echoing broker; fairness, liveness, and the mapping to `Relay` |
| `Decoding` | the built-in decoders: their configurations, and what `decode` sends or returns for a payload |
| `DecoderTests` | the repository's unit tests of `decode`, evaluated against `Decoding` |
| `Retained` | the program, stopped and started, and what its broker retains |
| `RetainedProofs` | the inductive invariant of `Retained` and its theorems |
| `Building` | paths, `from_config` of the decoders, `AuthConfig::build`, over the files of an instance |
| `ConnectionOptions` | the connection table as loaded, what `build_options` and `build_tls_config` make of it, and the brokers that accept it |
| `Startup` | `main` from loading the configuration to the spawn of the engine, with the driver beside it |
| `StartupProofs` | the inductive invariant of `Startup`: what is validated, and what the engine is given |
| `ConnectionProofs` | the types of `Startup`, its connection options and the session they lead to |
| `MCRegistry`, `MCEngine`, `MCRosettaMq`, `MCRetained`, `MCStartup` | instances for TLC; the last one also evaluates the unit tests of `build_options`, `from_config`, `AuthConfig::build` and `normalize` |

```
TopicFilter <- Lookup <- Registry <- Startup        DecodePublish <- Decoding <- Building <- ConnectionOptions <- Startup
Lookup, DecodePublish <- Engine <- RosettaMq -> Relay (INSTANCE)
Lookup, Decoding <- Retained
Registry <- RegistryProofs <- LookupProofs          Startup <- StartupProofs <- ConnectionProofs
Engine <- EngineProofs                              Retained <- RetainedProofs
RosettaMq, EngineProofs <- RosettaMqProofs <- RelayProofs
```

(each extends the one before the arrow).

### State and actions against the code

**Registry.** `entries` is the builder's `Vec`, `built` says that `build`
consumed it. `Register` and `Reject` are one round of the loop at
`main.rs:38-60`: `TopicFilter::parse`, then `register`.

**Engine.** Each action is what one task of the runtime does between two
awaits, or one branch of `select!`.

| State | Code |
|---|---|
| `incoming`, `requests` | the two channels of `client.rs:99-100`; a message is its topic, an output is (task, position in the decode call's outputs) |
| `connected` | the event loop and the sender of `incoming` exist; dropping them fails every publish and, once `incoming` is empty, makes `recv` return `None` |
| `cancelled`, `phase`, `timedOut` | the token, the place of `run`, and whether its drain gave up |
| `tasks[k]` | the k-th `decode_and_publish`: counters of messages sent into the emission channel, received from it, accepted and refused by publish; `stage` is `decoding` (both halves run), `draining` (the decoder returned), `reporting` (the error publish), or how it ended |
| `joinset` | the indices still in the `JoinSet`, finished ones included |

A decoder is a *script*: how many messages a call sends, the topic it names for
them if it names one, and whether it then returns `Ok`, `Err`, panics, or hangs. The set of scripts per decoder is a
constant; the call picks one when it is spawned. A decoder that hangs before
its last message is the same as one whose script ends there.

`Receive` requires that everything received was published: the drain half
awaits `publish` before the next `recv`. `PublishAccepted` waits for room;
`PublishFailed` needs the event loop to be gone. rumqttc's `publish` has one other
error, for a topic with wildcard characters (`mod.rs:228-233`); no such topic is in
a script, so a decoder that names one is not modelled. The shipped decoders name
no topic, and the topic of a message has no wildcards. `DrainTimeout` may happen whenever a task still works, since
time is not modelled. `Abort` is a separate step: dropping a `JoinSet` stops a
task at its next await, and the task may get further before that.

**RosettaMq.** `driver` and `held` are the driver task and the message it
tries to send; `main` is where main waits; `echo` is what the broker will send
back because a subscription covers an output topic; `wire` is a history of
what the event loop wrote to the connection, of which the broker receives a
prefix. `lost` says that the connection is gone: the broker or the network drops it
in any state (`LoseConnection`), and the program learns of it only by an error
of `poll` (`PollError`), so only while the driver polls. `connected`, in contrast, says
that the driver and its event loop exist. The module starts where `main.rs:84` does,
with the registry built and the subscriptions made.

**Startup.** One behaviour is one start of the program (`main.rs:29-82`).

| State | Code |
|---|---|
| `config` | the file; after `LoadOk` the normalised `Config` |
| `step`, `error` | the statement main is at, the error it returned |
| `cursor` | the `[[topic]]` block of the loop at `main.rs:38` or in `subscribe_all` |
| `entries`, `built` | the registry, by the actions of `Registry` |
| `options` | the `MqttOptions`: URL, transport, trust and identity |
| `driver`, `requests`, `waiting` | the task of `Client::connect` and its two channels |
| `asked`, `retained` | what the broker was asked for and has yet to send |

`Load` is `Config::load` with the errors of `validate` in their order;
`FillRegistry` is one round of main's loop, or `build`; `Connect` is auth and
`Client::connect`; `SubscribeAll` is one await of `subscribe_all`, or the spawn
of the engine. `Poll` is the driver. Each lookup main does again after
validation keeps its own error path: a filter is parsed a second time, and a
reference that is missing then is a panic.

The driver starts in `connecting`: the first poll makes the TCP, TLS and MQTT
handshakes, so a wrong certificate shows up only then, while main already
subscribes. `peer` is the broker it reached; which brokers may answer at
host:port is a constant, one for each kind of certificate and one without TLS.

`EngineReady` states what `Engine` and `RosettaMq` take for granted: a
registry without duplicates whose decoders could be built, a positive budget,
and a subscription for every filter.

**Building.** `Disk` maps the paths of the readable files to their contents, by
what the readers can tell of them: a schema has imports and messages, a PEM file
has certificates and keys or cannot be parsed. `ProtobufResult` follows
`from_config`: the schema's own directory first, then the include paths; the
schema compiles if all files in its import closure are found and valid and none
imports itself; the message may be in any of them. `AuthResult` reads the three
files, or the environment.

**ConnectionOptions.** `Loaded` is what `normalize` and serde's defaults make of
the table; `UsesTls`, `Target`, `Transport`, `Trust`, `Roots` and `Identity` are
the choices of `build_options` and `build_tls_config`, `OptionsResults` their
errors in the order of the code. The CA file is parsed only if it is used.
`Accepts` is the handshake: with `NoServerCertVerification` anything goes,
otherwise the issuer of the certificate must be in the root store.
Host name, port and password influence none of this and are left out; a URL path
is a sequence of `/` and names, since only its leading slash and its being empty
matter.

**Decoding.** A payload is what a decoder can tell of it: whether it is UTF-8 or
JSON, whether it is empty, its fields, the protobuf messages it decodes as. A
template is the references it makes, each printed, iterated or tested, and the
four undefined behaviours say which of them may be undefined. `AnswerTo` is the
one publish a message leads to.

**Retained.** `store` is what the broker retains. `Start` is main with its
subscriptions, which are the first requests of a run; `HandleIncoming` and
`DecodeAndPublish` are the engine; `Stop` is any end of a run. Capacities are left
to `RosettaMq`; budget, queues and every interleaving of the copies of a message
are there. The broker sets the retain flag on delivery only for what it had
stored, delivers at QoS 1 at most, and for overlapping subscriptions sends a
message once or once each, as MQTT 3.1.1 allows.

### Abstractions

`Engine` and `RosettaMq` leave payloads, QoS and retain flags to `Retained`.
Packet identifiers and acknowledgements are left out; they do
not decide control flow in `src/`. So is the limit rumqttc puts on unacknowledged
publishes: it would only make the request channel fill sooner. A broker may
drop messages; the model lets other clients publish or not, which covers that
for inputs. Topics starting with `$`, which `#` and `+` do not match, are left out.
`MaxMessages` and `MaxForeign` bound the number of messages; the real program
has no bound.

## 3. Runs

| Run | Question | Result |
|---|---|---|
| `registry` | Is lookup well defined, and does the most specific filter win? | holds |
| `registry_exact` | Does an exact filter always beat a wildcard filter? | **no** |
| `engine` | Budget, channels, completeness, order, orderly drain | holds |
| `intake` | Does cancelling stop intake at once? | **no** |
| `relay` | Does the program implement `Engine!Spec` and the abstract `Relay`; does the broker get each message's outputs in order; is there no feedback? | holds |
| `retained` | Is what the broker retains of the outputs exactly what belongs to the retained sources, over restarts? | holds |
| `progress` | If the messages fit in the pipeline and no decoder hangs, are they all answered, and is a lost connection noticed? Does the program end after Ctrl+C, and after its driver ended? Is order kept with one task? | holds |
| `wedge` | Is every burst answered? | **no** |
| `exit` | Does the broker get everything an orderly drain finished? | **no** |
| `startup` | Does main end in an error or with a complete engine? Does `validate` leave nothing to fail later? Do URL and transport agree for all options, and is the session with a broker that is vouched for or a check that was waived? Does an include path only ever add? | holds |
| `self_signed` | Has `allow_self_signed_certs` no effect when `tls` is `false`? | **no** |
| `startup_wedge` | Does startup always end, whatever the number of filters? | **no** |

### The six disagreements

1. `registry_exact`: on topic `a` the filter `a/#` beats `a`. The vectors are
   `[2]` and `[2, 0]`; `Vec` order puts a proper prefix first, and `max_by_key`
   takes the last maximum. `registry.rs:54-55` and the README say an exact
   match wins. `MostSpecificWins` shows it is the only kind of exception in the
   instance: a filter against itself with `/#` behind it.
2. `wedge`: the driver holds a message and waits for room in `incoming`; the
   request channel is full; every task waits in `publish`; the join set is
   full. None of them can move. It takes `1 + InCap + ReqCap + MaxConcurrent`
   decoded messages (four with every bound one; 301 with the values in the
   code). `BurstAnswered`, in `progress`, says that one message fewer is always
   answered. In this state a lost connection is not noticed either: only `poll`
   reports it, the driver is in `tx.send` for good, and main waits for the driver's
   end or Ctrl+C. Nothing has to go wrong beside the wedge for it: the keep-alive is
   served by `poll` too, and a broker drops a client that is silent. So
   `LostConnectionExits` has the same two conditions as `BurstAnswered`, messages that
   fit (`Fits`) and no decoder that hangs (`~Hung`); without either of them it is
   violated, and `progress` reaches the states that they exclude.
3. `exit`: a task is done when its output is *queued*. main returns after the
   engine's drain, and the runtime drops the driver with the queue.
4. `intake`: `select!` is not biased, so a ready message may win against a
   ready cancellation, repeatedly.
5. `startup_wedge`: `subscribe_all` is awaited before the engine exists. Once
   retained messages of the first filters fill `incoming`, the driver waits in
   `tx.send` and takes no more requests; when the request channel is full too,
   main waits in `subscribe` for ever. It takes `ReqCap + 2` filters (102) and
   more than `InCap` retained messages: the driver takes at least one request
   before it can receive anything. `startup` has `ReqCap + 1` filters at most,
   and always ends.
6. `self_signed`: mTLS turns TLS on although the file says `tls = false`, and
   `build_tls_config` looks at `allow_self_signed_certs` alone. So the broker's
   certificate is not checked, and the CA file of the `auth` table never used, in
   a case where `client.rs:38` and the program's README (line 89) say the flag has
   no effect. `SoundSession` makes an exception for it (`WaivedByMtls`);
   it is the only one.

Remarks without a run:

- `protocol.rs:18` calls the path "Empty by default", `protocol.rs:25` makes it
  `/ws`, as the program's README says.
- With `chainable`, minijinja prints an undefined value as nothing; the
  program's README (line 207) says such a template fails.
- `DecodeError::Chanel` cannot occur: the receiver lives as long as the call.

### Bounds

- *Registry:* all filters of one and two levels over two literals, both
  wildcards and a mixed level, the empty text, and one filter of three levels;
  three entries. Two entries are enough for any clash, the third lets
  a bystander disturb the maximum. Topics of up to three levels reach below `#`.
- *Engine:* two tasks at a time and three messages, so a third task waits for
  the budget of the first two; an emission channel of one with a decoder that
  sends two, so the decoder blocks; a request channel of two, so that two
  outputs of one task are in the queue together. All four ways a call can end.
- *RosettaMq:* capacities of one or two make every channel fill. `progress` and
  `wedge` have one task and one message more than fit (`InCap + ReqCap +
  MaxConcurrent`). So `progress` has wedged states among those it must leave after
  Ctrl+C, and on the way there every state in which all channels are full; its
  decoder answers, fails or hangs, and its subscriptions cover the outputs.
  `relay` has decoders that send to a topic without a decoder, to a topic nobody
  subscribed to, and to a decoded topic; the last one feeds itself for ever, and `MaxMessages` cuts that off after three messages,
  enough for an answer to an answer. In the other runs it is never reached.
- *Retained:* two decoded sources, one under two overlapping filters, whose wider
  one also covers the outputs; text that decodes, bytes that do not, an empty
  payload that clears what is retained, and a template that may render nothing.
  Two runs and three messages: one before, one between and one during a run.
- *Startup:* every configuration of up to two blocks over three filters
  (literal, `#`, invalid) with no decoder, a reference or a literal one, with
  and without the named table, with a budget of 0 or 1; those of two with a
  third, subscribe-only block; for one valid configuration every connection
  table, with eleven kinds of credentials; and twelve decoder configurations, of
  which six cannot be built, each for a reason of its own. Two schemas have one file name in different directories,
  one of them invalid, so the search order matters; every directory with a
  schema is tried as one more include path. Two blocks are what duplicates and "first error" need. `ReqCap` 2,
  `InCap` 1 and two retained messages for a filter make both channels fill.

Deadlock checking is off everywhere: with a bounded number of messages, or
once the program has exited, there is rightly nothing left to do.

### Fairness

`Fairness` in `RosettaMq` is weak fairness of what a running program does by
itself: the loop's branches, each task, the driver's forwarding and polling,
main's two waits. Tokio's scheduler runs every woken task again, `select!`
chooses among ready branches at random, and the event loop serves its socket
and its request channel in turn. A connection that is lost is reported by `poll`: reading
from it fails, or the keep-alive gets no answer (`WF(lost /\ PollError)`). There is
no fairness for a foreign publish, Ctrl+C, the loss itself or any other error of
`poll`. Weak fairness is enough since messages are
finitely many in an instance, so nothing is enabled and disabled for ever.
The drain timeout is fair together with the orderly end of the drain.
`StartupFairness` is the same for startup: each stage of main goes on while it
can, and the driver polls; the connection need not fail (`PollFails` has no
fairness), and a failing step is one of the outcomes of its stage.

### Refinement

`relay` checks two. `Engine`'s `Spec` is a property of `SystemSpec`: every step of
the driver and main is a step of the engine's environment, or none of the
engine's variables change. What is proved of `Engine` therefore holds in the
program, with the driver and main being what the code says they are.

`RelaySpec` is the abstract `Relay` under the mapping `received <- foreign`,
`calls <-` the scripts of the tasks, `published <- wire`: from outside there are
only messages heard, decode calls (never more than messages heard and outputs that
came back on a decoded topic) and each call's outputs, in order, the error last.
Channels, the emission channel, the budget, shutdown and a lost connection are
all stutters of it. It is a safety specification: it does not say that what is
due is published, which `exit` and `wedge` show is not so.

`SystemIsEngine` and `SystemIsRelay` prove both implications for all constants, step
by step; the run shows them on the instance.

## 4. Theorems

All for arbitrary constants that satisfy the named assumptions
(`LevelsAssumption`, `RegistryAssumption`, `EngineAssumption`, `RosettaAssumption`,
`RetainedAssumption`, `BuildingAssumption`, `ConnectionAssumption`,
`StartupAssumption`), which TLC evaluates on every instance. Every safety
property and both refinements that a run checks and finds to hold are proved; the
liveness properties are TLC's.

**RegistryProofs.** `RegistryTypeOK`: `parse` lets only valid filters through,
by the lemma `ParseAcceptsValid`. `RegistryUnambiguous`: if two filters match a
topic and have the same specificity vector, then they have the same levels,
one by one (`SameRankSameLevel`: both literal levels equal the topic's level;
the other ranks have one level each), so they are the same filter; and no two
entries have one filter (`RegistryDistinct`).

**LookupProofs.** `Ord` on `Vec<u8>` is stated with the first position where two
vectors differ (`LexLessAt`); that there is a first one is well-foundedness of
the naturals. From it the order is irreflexive, transitive and total. So a finite
nonempty set of candidates has a greatest one (`WinnerExists`), and since no two
candidates of one topic tie (`RegistryUnambiguous`) it is strictly above the
others (`WinnerStrict`, `WinnerUnique`): the rule of `max_by_key` for ties never
applies. A permutation of the entries permutes the candidates and keeps their
vectors (`PermutedRegistry`), which gives `RegistryOrderIndependent`.

`RegistryMostSpecificWins` takes a filter `f` that loses to `w`. `w` is not `f`
with `#` behind it, so at some fixed level of `w` the rank of `f` is smaller
(`NarrowerLevel`), and there a topic can be changed so that `f` still matches and `w`
does not (`NotNarrower`), unless `f` matches everything. It has two hypotheses
beside the assumptions: `Topics` are all topics, and there are two literals. The
first says what the property is about: over a few topics `+/a` may seem to be inside
`a/+`. Without the second there is no level to change a literal to.

**EngineProofs.** The inductive invariant `EngineInv` has five parts:

- `TypeOK`, with the capacities.
- `AllTasksInv`: the drain half has at most one message in hand, `received` is
  between `Handled` and `Handled + 1`, a task reports only when all its
  messages are handled, and nothing failed while the connection lives. Without
  the last two, `OutputsComplete` says nothing about the step that ends a task.
- `BudgetInv`: until `run` returns, every working task is in the join set. The
  loop compares the join set's size with the limit and never looks at the
  tasks; this is the link between the two. After `run` returns the join set is
  gone, and the number of working tasks can only fall.
- `DrainInv`: a task is aborted only after a timeout, and `run` returned
  without one only when no task works.
- `QueueInv`: what is in the request channel belongs to tasks, and each task's
  part of it is a gapless run of outputs that ends with the last one accepted.
  Its induction needs `AllTasksInv`: the output in hand is number `accepted + 1`
  (`NextInOrder`), in the error case as well.

Each part is preserved by every action of `Next`; one lemma (`TaskUpdate`)
covers what all task steps share: one record is replaced, nothing else of the
tasks changes, and the task was working. From these follow `EngineTypeOK`,
`EngineBudget`, `EngineOutputsComplete`, `EngineDrainedMeansFinished` and
`EngineOutputsInOrder`. `EngineInductive` is the invariant itself.

**RosettaMqProofs.** `SystemInv` adds to `EngineInv`

- `SystemTypeOK`,
- `TopicsInv`: each topic in the pipeline (held, in `incoming`, echoed) is an input
  or an output of ours on a subscribed topic, and tasks are made of inputs.
  Without it the engine's environment might be handed a topic outside `Topics`,
  and the step that forwards it would not be a step of `Engine`;
- `WireInv`: outputs of existing tasks only were written.

`EngineInv` is not proved a second time: a step of the program is a step of the engine
or leaves its variables alone (`SystemStepsEngine`), and `NextEngine` covers both.
That gives `SystemIsEngine`, and with it `SystemKeepsPromises`, the engine's
theorems about the composed program.

The order at the broker speaks of `Sent`, the wire followed by the request channel.
`SentInv` says that the entry at position p is number n of its task if n outputs of
that task are among the first p, and, while connected, that a task has handed over
exactly what is there. The count is what a step preserves: an output of another
task in between changes neither. A lost connection empties the channel and leaves a
prefix of `Sent`, which is why the second part stops there and the first goes on.
`SystemRelayedInOrder` restates the first part. For `SystemSequentialKeepsOrder`,
`SequentialInv` adds that with a budget of one only the last task may be in
flight: a task is spawned only when the join set is empty, and then `BudgetInv` says
that none works.

**RelayProofs.** `FeedbackInv` counts causes: tasks, and the messages that will
become one, wherever they wait (`incoming`, the driver's hand, the echo), are at
most the foreign messages and the outputs written that their decoder
sent to a decoded topic. A message moves from one term to the next, and a term
grows only with a cause. `NoFeedback`, which counts tasks alone, is not inductive. With
`QueueInv` and `SentInv` each step is then one of `Relay`'s or a stutter: spawning
a task is a call, which the count allows, and `PollRequest` is the next output of
its call.

**StartupProofs.** The inductive invariant `StartupInv` has four parts:

- `ConfigInv`: past `LoadOk` every block parses, every reference resolves and
  the budget is positive. `Loaded` changes the connection only, so what
  `validate` saw is what the loops see.
- `EagerlyValidated`, which each failing step keeps because of the first part.
- `RegistryInv`: while the registry is filled, every decoded block before
  `cursor` has its entry, every entry comes from a block and has a decoder that
  could be built, and no filter occurs twice.
- `SubscribeInv`: the blocks before `cursor` are requested as long as the event
  loop lives, whether the request is still queued or was sent.

`StartupEagerlyValidated` is the second part; `StartupEngineReady` follows from
the others at `cursor = Len(config.topics) + 1`.

`StartupIncludesOnlyAdd` is a fact about a disk and a list of include paths. A file
that the paths have is taken from the first of them that has it
(`ProvidedFirst`), and appending one leaves the first where it is, so a file that
was found is found in the same place and imports the same (`SameImports`). A schema
compiles only if all its imports were found, so no file enters its closure
(`SameClosure`), and the same files are checked again (`CompilesGrown`).
A new path in front would not do: it would hide files, which is what the mutant
of `IncludeDirs` does. `BuildResult` of what is in the registry comes from `RegistryInv`.

**ConnectionProofs.** `SessionInv` is `StartupTypeOK` and `ConnectionInv`: after
load the protocol is one of two and the path is empty or starts with `/`; the driver
exists only with options that `build_options` made of the loaded connection without
an error, after `AuthConfig::build` succeeded; a peer is one that accepts these
options. The properties need the middle part: they speak of `options`,
which are made of `config` two steps after it was normalised.
`StartupTypes`, `StartupConsistentConnection` and `StartupSoundSession` follow, the
last one with its exception for mTLS (disagreement 6).

**RetainedProofs.** `RetainedInv` has four parts:

- `StoreInv`: what is retained is not empty, carries the flag and its own topic.
- `FlowInv`: types; only messages of others are decoded, within the budget, and only
  answers to them are published.
- `FreshInv`: a retained message under way to a decoder, or its answer under way to
  the broker, was retained on its source once, and is what is retained there now
  unless that changed in this run. `RetainedFromRetained` is part of it, and needs
  the rest: the answer is stored long after the message that justifies it.
- `MirrorInv`: while the program runs, every retained source is either asked for, or
  delivered, or answered, or mirrored. `MirrorsRetained` looks only at states in which
  nothing is under way, so it is the last case of this one.

`FreshInv` is what makes `MirrorInv` inductive: two answers for one source may be
under way at a time (overlapping subscriptions, `{topic}/decoded` from an
earlier run), and the later one must not undo the earlier. One lemma per action.
`Answer` and `MirrorOf` are all that is used about the decoders: whatever they do,
the answer is on one of two topics (`SameSource`: of one source only) and keeps
the flag.

**Only model-checked.** Liveness under fairness (`BurstAnswered`, `Terminates`,
`DriverEndExits`, `LostConnectionExits`, `StartupEnds`) is out of the prover's reach, and so is
`ENABLED`. What a built-in decoder sends for a payload and which
files a schema needs are evaluated on the instances and against the repository's
unit tests; the proofs hold whatever these definitions yield. The
six disagreements are counterexamples TLC finds.

## 5. Not modelled

Logging and the command line have no behaviour to check. TOML is a step that
succeeds or fails. Of the parts that are modelled, the following is left out:

- `..` in paths is not resolved; protox's rule that a file must not be reachable
  under two names is not modelled.
- Names in certificates, chains of more than one issuer, expiry and signature
  schemes: a certificate has a subject, an issuer and a key. Whether the broker
  speaks MQTT or websocket is not told apart, and the broker may refuse any
  client (`HandshakeFails`).
- Errors with the outcome of one that is modelled: a read error and a TOML error
  (`config.rs:61-70`) are one step; a descriptor pool that refuses what protox
  compiled (`protobuf.rs:78`) stops startup as a compile error does; a message that
  does not serialise to JSON (`protobuf.rs:108-113`) gives an error report as one
  that does not decode.
- A template may also print `dup`, `pkid`, `qos` and `retain` (`template.rs:108-115`).
  In the model they are defined, and the rendering does not depend on their values.
  The answers to two deliveries of one message may differ in the program if a
  template prints them; `MirrorsRetained`, where each message has one answer, is
  not about such a template.
- A decoder that is hung, or slow, in `Retained`: a message may stay in `decoding`
  for ever, since nothing is fair there. Sizes: the packet limit of rumqttc is
  a further reason for `PollError`, which may happen anyway. The time of the
  keep-alive: a connection may be lost at any moment instead.
- QoS 2 and 1 handshakes. An output's QoS is that of its message, and nothing in
  the program depends on it.
- Outputs that outlive their source: clearing or changing a source changes its
  answer at `{topic}/decoded`, but not an older one at `{topic}/decode_error`.
  `MirrorsRetained` is about the answer that is due, so it does not object.
- A SubAck that refuses a filter: no code reacts to it.

## 6. Plan

Done, in this order: `TopicFilter`, `Lookup`, `Registry`; `Engine`; `RosettaMq`;
`ConnectionOptions`, `Startup`; the proofs of `Registry`, `Engine` and
`Startup`; `DecodePublish` with decoders that name topics; `Relay`; `Decoding`,
`Retained`; `Building`, and startup over files and brokers; the proofs of
`RosettaMq` and its two refinements, of lookup, of the connection and of
`Retained`. To come:

1. Facts that tie the modules together: `EngineReady` gives the registry that
   `EngineAssumption` and `RetainedAssumption` ask for.
2. The sufficient condition for startup to end as an invariant: with at most
   `ReqCap + 1` filters no request of `subscribe_all` ever waits for ever.
3. `BurstAnswered` as an invariant: the state `wedge` ends in is out of reach if at most
   `InCap + ReqCap + MaxConcurrent` messages are decoded.
