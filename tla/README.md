# Verification of events-cli

TLA+ models of `events-cli`, the model-checking runs over them, and theorems about
them checked by TLAPS. Paths and line numbers are those of the repository; `PROJECT.json`
maps every definition to the lines it stands for.

## The system

`events-cli` is a command line and a library around one MQTT broker. Producers publish
events (`events emit`, or a program through `EventClient`); a durable subscription is a
record on disk plus a persistent session in the broker; `events watch` drains a session
into a per-host history store and hands its caller a batch and a cursor.

| component | state | operations | interacts with | hard part |
|---|---|---|---|---|
| history store (`history/jsonl.py`) | per subscription: `log.jsonl`, `ids.txt`, `index.bin`, `.lock`; per handle: a cache of `ids.txt` | `append`, `read`, `get`, `list`, recovery, rebuild | every `watch`, `get`, `list` process | several processes, no server; torn writes, crashes between three files, power loss, readers without a lock, stale caches |
| drain (`subs/drain.py`, `subs/session.py`) | inbox, message in hand, batch, cursor | open, subscribe, consume, persist, read back, acknowledge, close | broker session, history store, paho's thread | takeover, redelivery, lost PUBACKs, automatic reconnection, deadlines, poison payloads |
| watch (`cli/_commands/watch.py`) | the caller's cursor | replay history, then drain | drain, history | the cursor must cover both sources |
| subscriptions (`subs/__init__.py`, `subs/registry.py`, `subs/record.py`) | one JSON record per name | add, remove (`--force`), list, show | broker session | two halves written by separate steps; concurrent calls; unanswered CONNECTs |
| event client (`client.py`) | reported state, retained availability | connect, publish, close, callbacks | paho's thread | callbacks racing the caller |
| emit (`cli/_commands/emit.py`) | none; an exit code is all that remains of a run | one publish | client | two bounded waits, a caller who retries, a kill between acceptance and exit |
| topics (`core/topics.py`) | none | map types to topics and back, compile patterns, match filters | all | grammars that must agree |
| envelope, identity (`core/envelope.py`, `core/identity.py`) | none | validate, parse, generate ids | all | grammars and encodings that must agree with the store's, the broker's and JSON's |
| stack (`stack/`, `cli/_commands/stack.py`) | `compose.yaml`, `mosquitto.conf`; docker's container | init, up, down, status, logs | docker, the host's listeners | preflight against a moving host; a killed init; an edited file |

Correctness, component by component: the store is an append-only sequence in which an
event occurs once, and what was answered stays true; a drain loses nothing that the
session queued; a cursor covers what its caller was given; a record and its session agree;
what a publish is answered and what an exit code says is true, and the retained availability
is once things settle; what is accepted can be told, stored and read back; a
pattern hears exactly the types it selects; `list` is the newest events; `up` never vouches
for a broker that is not this stack's, and what its messages tell an operator to do leads
somewhere.

## Modules

| module | models |
|---|---|
| `HistoryStore` | what the store promises: the history grows by new events only, and answers name a place in it |
| `JsonlBackend` | `append()` of any number of processes on one subscription, statement by statement where another process or a crash could see the difference |
| `JsonlPowerLoss` | the same writers, starting from what a power cut left: any prefix of each file, independently (`fsync` off, the default) |
| `JsonlReaders` | `read()` and `get()` beside the writers, without the lock |
| `JsonlDisposable` | the same, and somebody who deletes a sidecar at a quiet moment |
| `JsonlBackendProofs` | the theorems about `JsonlBackend` |
| `JsonlRecoveryProofs` | the theorem about `JsonlPowerLoss`, and what of the commit protocol survives files that disagree |
| `JsonlReadersProofs` | the theorems about `JsonlReaders` and `JsonlDisposable` |
| `Drain` | `watch` and `drain` of any number of callers of one subscription, the broker's session and paho's reconnection, over the history of `HistoryStore` |
| `Subscriptions` | `sub add`, `sub remove` and the opening of a drain on one name, by any number of callers |
| `SubscriptionsProofs` | the theorems about `Subscriptions` |
| `EventClient` | one client: its caller's thread, paho's network thread with the callbacks, the broker's view of the connection and the retained availability |
| `Emit` | `events emit` as a script over `EventClient`, run again by an operator until it exits with 0; or a program of its own that uses the client |
| `EmitProofs` | the theorems about `Emit`, and so about `EventClient` |
| `Envelope` | which payloads are events and every reason why one is not, the wire form, the encoding of ids |
| `Records` | names, registry records, records of the log, and the text of `ids.txt` |
| `Topics` | event types, topics, filters and the matcher, with MQTT's matching as the reference |
| `HistoryList` | `list()` over several subscriptions, with "the newest N" as the reference |
| `Ports` | docker's rendering of published ports, and what `status` and the preflight conclude from it |
| `Algorithms` | one call of an operator of `Topics`, `HistoryList`, `Ports`, `Envelope` or `Records`, and what its result must be |
| `AlgorithmsProofs` | the theorems about `Algorithms` |
| `Stack` | `init`, `up`, `status` and `down` of any number of operators, docker, and a foreign listener |
| `DrainProofs` | the theorems about `Drain` |
| `StackProofs` | the theorems about `Stack` |
| `MC...` | the instances TLC checks: model values and symmetry |

### From code to model

*The store.* `log`, `ids` and `index` are the whole lines and entries of the three files. For the log
and the index a `...Torn` flag says that a fragment follows them, and byte offsets are counts of pieces:
every piece is written by one `write()`, and nobody moves one that has been read. `ids.txt` may be replaced while a
handle remembers an offset into it, and is modelled by the byte: an event is its id, a text over `Byte`; a line is a text;
`idsTorn` holds the bytes of the unfinished line; `offset` counts bytes; and `LinesFrom` and `ReadUpTo` are
what `_read_ids` returns from any offset, one in the middle of a line included. A handle's steps are the statements of `append()`: take the lock, recover the
tail (`RecoverRagged`, `RecoverReset`, `RecoverClean`, `CommitTail`, `TearTail`,
`TruncateLog`), refresh the dedupe map (`Dedupe`, `Rebuild`), answer a repeat, or write log,
ids and index. Each write may tear (`TearLog`, `TearIds`, `TearIndex`), each step may raise
(`Raise` releases the lock, the handle keeps its cache) or be the last (`Crash` releases the
lock and forgets the cache). Subscriptions share no file, so one is modelled. Event
contents and timestamps are not modelled: no decision depends on them, except `list()`'s.

*Readers.* A `read()` is two steps, without the lock: it takes the number of index entries
(`ReadCount`), then reads the entries and the records (`ReadRecords`), while writers go on
between and after. `PagesAreHistory` relies on committed records never being touched, which
`CommittedNeverTouched` states and the proofs establish. A `get()` scans the sidecar
(`GetScan`), fetches the record, and may rebuild the sidecar itself (`GetGather`,
`GetReplace`), again beside the writers.

*Drain.* One action per statement that another party can fall between: `ReplayHistory`,
`Open`, `Subscribe`, `Take`, `Persist`, `ReadBack`, `Ack`, `Skip`, `Stop`, `Close`, `Return`,
and `Fail` for a death or an error at any of them; `PersistRaises` is the error that `append()`
does not declare, for an event it cannot encode (`Unstorable`). `Persist` and `ReplayHistory` use the
abstract history, which `JsonlBackend` implements. The broker's side is what `drain.py`,
`session.py` and `mosquitto.conf` rely on: unacknowledged messages are redelivered in order,
with their packet identifiers, on the next connection of the client id; a CONNECT takes the
session over; PUBACKs on a dead connection are lost; a full queue drops the newest. The
ghost variables `accepted`, `since` and `seen` record what the session has queued and what
each caller holds.

*Subscriptions.* `record` is the registry file, `session` and `filters` the broker's half.
`AddRecord` is `os.link`, `FindRecord` and `Unlink` the two steps of `registry.remove()`.
A SUBSCRIBE is on the `wire` until the broker processes it, as nobody waits for the SUBACK.
`told` counts the adds and removes that succeeded. `alone` is a ghost: no call so far has
started beside another one. The properties that concurrent calls do break are stated for it.

*Event client.* The caller's statements (`Connect`, `ConnectReturns`, `ConnectAgain` on a running
loop, `Publish`, `PublishAndWait`, `PublishRefused`, `Confirm`, `Close`, `CloseAnnounces`,
`CloseDisconnects`, `CloseReturns`) and the network thread's
(`Dial`, `Refused`, `Connack`, `OnConnect`, `Announce`, `OnDisconnect`, `LoopEnds`)
interleave wherever they share `_state` or paho's socket. A callback is split where another
thread can see the difference: `on_connect` sets the state and then announces. paho and
the broker are external: packets of one connection arrive in order or not at all, a QoS 1
message is sent again on every connection until its PUBACK, a QoS 0 message counts as published
once it is written, the will is published when a connection is found dead or taken over.
`announces` and `hot` (the QoS 0 messages) are chosen initially and never change.

*Emit.* `program` says who uses the client: a library's caller, or the script. A run constructs
its client (`Construct`, a new process with a client id of its own), stops waiting for the
connection (`Await`, whether or not there is one), publishes and waits, closes and turns the
answer into an exit code. `Killed` ends a run at any statement: what was on the socket arrives
up to some point. `told` is what the operator knows of each event.

*Envelope and records.* A value is a record whose only field is its kind (`text`, `int`, `object`,
...), a text a sequence of characters told apart as far as the grammars do: a letter, a digit,
`nl`, a control character, a lone surrogate. `FromDict` answers with the set of all problems,
each a path and a code, as `from_dict` collects them. What `data` holds is flat: a function from
the path of every value inside to that value, where an object or an array is only its mark, since its
items have paths of their own (`IsTree`). The recursive walk of `_check_json_value` becomes a set of
paths, those with no bad key on the way and no container at `_MAX_DATA_DEPTH` above them (`Walked`), and
each path reports by itself (`PathProblems`): no step of the walk depends on an earlier one. `RecordFromDict` and `HistoryFromDict`
answer with the record or the kind of error.

*Pure algorithms.* A text is a sequence of segments, and a segment is told apart only as
far as the grammars do: a word, a word followed by a newline (which the `$` of `_TYPE_RE`
lets pass), an illegal segment, one of these that begins with `$`, one with an MQTT character, `*`, the empty one. In
`Topics` a level is again a dotted text, because `topic_to_type` joins levels that may
contain dots. `Algorithms` has one variable, a call, and its initial states are the calls. The walk of `list()` is `Newest`; a record is taken while fewer than
`max` of its type were taken before it, and is new if no record before it has its id, which is what
the loops' counter `taken` and set `seen` say.

*Stack.* `compose` and `conf` are the two files, `torn` between truncation and the end of a
write. The steps of a command are those between which another operator, docker or the
host may act: the two files of `init`, the probe and the identification of the preflight,
`compose up`, its wait, the query of the status. `advice` is the next command that the last
message named (generate it, re-run with `--force`, run `up`, stop the owner of the port, reproduce
docker's command), the command itself if it was killed, or that no message named one; the operator
who follows it is `Follow`, which runs `docker compose` directly (`Reproduce`) and stops whatever
answers on the port (`StopOwner`) where a message says so. An `Address` is what the preflight, the
status and the kernel tell apart: the template's 127.0.0.1:1883, another loopback address, the wildcard,
an address of the LAN, another host port.
docker and the kernel are external: a container takes its port when it starts or fails, and
a broker with a torn `mosquitto.conf` is not healthy. `CarefulEditor` says that nobody edits a
file that an `init` is writing. The volume, `logs` and the wording of messages are left out.

## Runs

| run | asks | bounds |
|---|---|---|
| `jsonl_commit` | Is the commit protocol an append-only history under any interleaving, torn writes, errors and deaths? Is every waiter for the lock served? | 2 processes, 3 events, no bound on faults |
| `jsonl_power` | Does recovery make sense of what a power cut leaves? | 1 process, 3 events, every combination of prefixes |
| `jsonl_disposable` | Are pages and lookups right without a lock, and what of pages and answers survives the deletion of a sidecar? | 2 writers, 1 pager, 1 lookup, 2 ids of 2 bytes, 1 deletion, a log of 3 records |
| `drain_takeover` | Is a takeover lossless, in order, and the cursor monotonic? | 2 callers, 2 events, 1 fault, 1 reconnection |
| `drain_one_caller` | Is the cursor exact, is nothing lost, does everything arrive? | 1 caller, 3 messages, queue of 2, 2 faults, 1 session loss, 1 reconnection |
| `drain_poison` | Does one event that parses and cannot be stored hold up the others? (it does) | 1 caller, 2 events |
| `subs` | Is what callers are told what is on disk; does a sequence of calls with a failure leave record and session in step; is a remove ordered? | 3 callers, 2 filters, 2 faults, 1 drop |
| `client` | Is a confirmed publish taken, an exit code true, a close final, a lasting connection announced; does every `emit` end? | 2 messages, 1 of them QoS 0, 2 drops, 2 lives |
| `algorithms` | Do the pure algorithms compute what they say? | texts, topics and filters of 3 pieces, patterns of 2; 2 histories of 3 records; 2 services with 2 bindings each; payloads with up to 2 keys wrong, each in every way its check knows; every cut of an `ids.txt` of 3 ids; names and records with every edit of one key |
| `stack` | Are edits kept, is "all is well" said of this stack's broker only, do the messages lead out? | 2 operators, 5 endpoints, 1 unasked call, 1 fault, 1 edit, 1 foreign listener |
| `jsonl_power_dedupe`, `client_close` | Each finds a statement of the documentation violated | the smallest that shows it |

Why the bounds are enough: the log is never more than one record ahead of the index
(`Ahead`, which is proved), so three events give a committed prefix, a tail and a
newcomer; two processes give every pair of interleaved actions, and the theorems do the
rest for `JsonlBackend`. In `Drain` two events and an unreadable payload give an order and
something in its way, and every kind of fault occurs with a message in every state of
its journey; the counters are named constants (`MaxFaults`, `MaxLosses`, ...) and appear in
the guards. `drain_takeover` keeps the session (`MaxLosses = 0`), because with a lost
session `NothingLost` does fail (below). Two drops and two lives give the client a
connection before, during and after each call, with the will of an earlier one still to
fire. `drain_one_caller` is the run whose queue of 2 overflows. In `jsonl_disposable` the two ids allow a third record only if
one is stored twice. Three pieces give the algorithms a first, a middle and a last one: they look at one
piece and its end of the sequence at a time, and `_SCAN_CHUNK` is 2, so that `list` crosses a
chunk. In `Stack` one fault can fall at every step, with the other operator at every step.

Symmetry is used in the runs without temporal properties of fairness only; in `jsonl_disposable` it includes the swap of
the two bytes, which swaps the two ids.
Deadlock is checked everywhere: a caller may always call again, and in `Algorithms` a call that
has been answered stays.

### Fairness

`JsonlBackend`: a process that is not interrupted goes on (`WF` of its work and of the
`raise` of a failed one), and the kernel serves the waiters of a `flock` in turn
(`SF` of `Acquire`). No fault and no request is ever forced. `Drain`: the caller polls again
after each call (`docs/contract.md`'s use of the cursor), the process runs, the network
delivers; `Stop` is the deadline, weakly fair because it is absolute. `SF` of `InTime` and
`Take` says that deadlines do not for ever fall before the broker could deliver anything:
the code guarantees none of that for a timeout of a millisecond, and `DEFAULT_DRAIN_TIMEOUT`
is 30 seconds or the caller's choice. `EventClient`: a call that has begun goes on, paho's
thread runs, and the broker notices a dead connection (its keepalive); no new call, and no
end of the drops other than their bound, is assumed, and `OnlineInTheEnd` speaks only of a
client that stays connected. `Emit`: the script goes on (`WF` of `EmitMoves`); both of its waits are
bounded by the code (`_CONNECT_WAIT`, `_CONFIRM_WAIT`), so that `Await` and `Confirm` may answer
"not yet" at any moment and `EmitAnswers` needs no help from the network. `Stack`: a command that runs goes on, an operator does what
the last message said, and docker checks and restarts the container (`compose.yaml`'s
`healthcheck` and `restart: unless-stopped`).

## What the runs show

That hold: `CommittedExact`, `AnswersHold`, `CommittedNeverTouched` and the refinement of
`HistoryStore` for the store; `RecoveryRestores` after a power cut; exact pages without a lock and
numbers that stay, whatever sidecar is deleted; nothing stored twice and answers that hold, as long as no process had read
the `ids.txt` that was deleted; until a deletion, lookups that find what was answered; lossless, ordered takeovers;
a cursor that never rewinds, and covers what a caller was given while it is alone; every
queued event reaches the caller; the registry never tells two callers the same success;
one failure in a sequence of calls never leaves a record whose session is deaf, and a remove
that was not forced drops no record whose session is left; a confirmed QoS 1
publish has been taken by the broker, exit code 0 of `emit` means the same and 1 that nothing was
published, however many runs were killed before; no callback reopens a closed client, and a client
that stays connected ends up announced, whichever will fired late; an accepted event survives its wire
form and its line in the log, a refused one is told every problem whatever else is wrong, `ids.txt` read at any moment of
a write gives every id once, a registered name is one the store takes and leads to its own record; filters, types, `list` and the
status's conclusions agree with their references, the matcher with MQTT but for a leading wildcard on a topic
that begins with `$`; an `init` never overwrites an edit without
`--force`; `up` and `status` say without a warning that all is well only of this stack's healthy broker,
which alone answers at the endpoint they print, unless `compose.yaml` was moved to an endpoint that the exposure
check does not tell from it; and whoever follows the messages ends up with nothing more to do, after a kill, a
torn file or a listener on 127.0.0.1:1883. They do not lead past a broker that has read a torn `mosquitto.conf`,
nor past a listener that only docker meets (`Obstacle`): the hint is then to run docker's own command, which
fails the same way.

Disagreements with the documentation and with the code's own comments (each a run with `expect: violation`, and a finding):

* `jsonl_power_dedupe`: after a power cut a torn line in `ids.txt` swallows the next id;
  a redelivery of that event takes a second sequence.
* `drain_poison`: a lone surrogate in `data` or `source` passes `from_json` and fails in `append()` with a
  `UnicodeEncodeError`, which `_persist` does not translate and nothing acknowledges: every drain
  dies at that message, and what is behind it is never stored, the very thing that skipping and
  acknowledging unreadable payloads is there to prevent.
* `client_close`: `close()` publishes the final `offline` without waiting for it: on a broken
  connection the message is dropped, and a client that reconnects in between announces
  `online` after it. The retained message then says `online` of a client that closed cleanly.

Configurations beside the listed runs show more of the same kind, with the property each
one violates (TLC stops at the first one; a configuration that names several shows each when the
others are left out):

| configuration | module | property | shows |
|---|---|---|---|
| `MCJsonlBeside.cfg` | `MCJsonlDisposable` | `NextWriteRebuilds` | a live handle does not notice that `ids.txt` was deleted and never rebuilds it |
| `MCDrainCursor.cfg` | `MCDrain` | `CursorCovers` | two overlapping watchers: one returns a cursor beyond an event only the other was given; the contract allows one drainer at a time, but a takeover is how a second one is meant to be harmless |
| `MCDrainBeside.cfg` | `MCDrain` | `DrainHears` | only the first CONNACK's `session_present` is looked at: a session lost during a drain comes back empty, and every later drain trusts it |
| `MCSubsBeside.cfg` | `MCSubscriptions` | `SessionMatchesRecord` | the refused one of two concurrent adds has already subscribed the shared session |
| `MCJsonlBeside.cfg` | `MCJsonlDisposable` | `GetFindsCommitted` | `get()` misses a record that recovery has committed and `read()` returns, until a writer rebuilds the sidecar |
| `MCJsonlBeside.cfg` | `MCJsonlDisposable` | `StoredOnce` | `ids.txt` is not disposable to a process that is running (`jsonl.py` 20-21 says it is): a handle has read 2 bytes of it, it is deleted, another process appends a longer id, and the handle reads on in the middle of that line; it then knows as many ids as the log has records, trusts them, and stores the event a second time |
| `MCJsonlBeside.cfg` | `MCJsonlDisposable` | `AppendIdempotent` | one deletion of `ids.txt` between two failed rebuilds: a handle's cache has as many ids as the log and the wrong numbers, and a repeated append answers with another event's sequence |
| `MCDrainBeside.cfg` | `MCDrain` | `NeverSeenTwice` | one `watch` returns an event from history and again from the broker |
| `MCDrainStaleAck.cfg` | `MCDrain` | `NothingLost` | a packet identifier from before a session loss acknowledges a newer message |
| `MCSubsAlone.cfg` | `MCSubscriptions` | `Heard` | a drain creates the session and fails before it subscribes; with `MaxFaults = 0`, an add whose connection drops before its SUBSCRIBE is processed writes its record |
| `MCSubsBeside.cfg` | `MCSubscriptions` | `NoOrphan` | a call that connects between a remove's two halves brings the session back |
| `MCClientBeside.cfg` | `MCEmit` | `ConnectingIsNotConnected` | `connect()` overwrites the `CONNECTED` its own callback has set |
| `MCClientBeside.cfg` | `MCEmit` | `WaitMeansTaken` | a QoS 0 publish that waits is confirmed when it is written to the socket, not when the broker has it |
| `MCEmitTwice.cfg` | `MCEmit` | `SaidOnce` | an `emit` that is not confirmed in time, or killed, may have been heard: its retry says the event again under another id |
| `MCAlgoBeside.cfg` | `MCAlgorithms` | `SidecarReadsExactly` | an id may end in a newline, which takes two lines of `ids.txt` |
| `MCAlgoBeside.cfg` | `MCAlgorithms` | `AcceptedIsStorable` | a lone surrogate is accepted and cannot be encoded |
| `MCAlgoBeside.cfg` | `MCAlgorithms` | `NeverATraceback` | a record whose version is a list or an object raises a `TypeError` instead of a corruption error |
| `MCAlgoBeside.cfg` | `MCAlgorithms` | `ListIsSortedByName` | `sub list` sorts by file name, suffix included: `robot-2` (`robot-2.json`) is listed before `robot` (`robot.json`) |
| `MCAlgoBeside.cfg` | `MCAlgorithms` | `MatcherIsMqttEverywhere` | `filter_matches_topic` says that `#` and `+/...` match `$SYS/...`, which no broker does (MQTT 4.7.2); its docstring claims a broker's semantics for any two strings (`topics.py` 228-236) |
| `MCAlgoBeside.cfg` | `MCAlgorithms` | `TopicsInvert` | a topic with a dot in a level comes back as a type whose topic is another |
| `MCAlgoBeside.cfg` | `MCAlgorithms` | `PlainPatternsAreTypes` | a plain pattern may be longer than a type, or have a newline inside: its filter then matches nothing |
| `MCAlgoBeside.cfg` | `MCAlgorithms` | `ListIsNewest` | with a clock that was set back, `list` is not the newest by order of arrival |
| `MCAlgoBeside.cfg` | `MCAlgorithms` | `StatusIsStrict` | a published range of ports that contains the broker's is not taken for an exposure |
| `MCStackBeside.cfg` | `MCStack` | `RefusedIsForeign` | `up` is refused over its own broker when `docker ps` fails |
| `MCStackBeside.cfg` | `MCStack` | `InitialisedIsWritten` | an `init` killed halfway leaves a directory that counts as initialised |
| `MCStackBeside.cfg` | `MCStack` | `FineIsOursAnywhere` | with `compose.yaml` moved to 127.0.0.2:1883, `[::1]:1883` or 127.0.0.1:2883 and another listener on 127.0.0.1:1883, `status` exits with 0 and prints that listener's endpoint; with 127.0.0.2 or `[::1]`, `up` does too |
| `MCStackBeside.cfg` | `MCStack` | `HintsAlwaysLeadOut` | a broker that has read a torn `mosquitto.conf`, or that meets a listener of its own address, is reproduced for ever |
| `MCStackEdit.cfg` | `MCStack` | `EditsSurvive` | an edit made while `init` writes is overwritten |

`MCAlgoIds.cfg` passes: a later clock gives a later id (`IdsSortByTime`), which is arithmetic, and is
kept beside the listed runs. Its layout has the shape of the code's with smaller fields.

## Proofs

`JsonlBackendProofs` proves, for any sets of events and processes: type correctness,
`AnswersHold`, `CommittedExact`, `CommittedNeverTouched` and `ImplementsHistory`. None of
these is inductive: whether a commit is exact depends on the cache of the process that
makes it, and that on the sidecar another process may have left. The inductive invariant
`IInv` (checked by `jsonl_commit`, proved as `ProtocolInvariant`) has three parts. `ProtocolInv` says: the log is numbered and
without repetition (`LogInv`); `ids.txt` is a prefix of the log's ids (`IdsInv`); a cache is what the first so many lines
of `ids.txt` say, and its offset is the end of the last of them (`CacheInv`), while a torn line in the file keeps it shorter
than the log, which forces the rebuild; only the holder of the lock
is past it (`LockInv`); each step past recovery finds the files in the state it needs
(`PhaseInv`); and what was answered is in the log (`AnswersLogged`). `Ahead` adds that the log is at most one record ahead of
the index, and `AnswersHold` that answers are committed; these two do not survive the deletion of an index, `ProtocolInv` does.
Each action is one lemma. About bytes there are two facts: later lines end later (`EndGrows`), so that reading on from the end
of a line gives whole lines (`ReadOn`) and leaves the offset at the end of one.

Little of `IInv` survives a power cut, or the deletion of an `ids.txt` that a process has read: the sidecar need not be a prefix of the log,
nor a cache of the sidecar. `JsonlRecoveryProofs` proves `RecoveryRestores` from what does:
`RecoveryInv` says only that log and index count from one, that the lock is held by whoever is
past it, and that each step past recovery finds what recovery restores (`Recovered`). It assumes a
finite set of events (`EventAssumption`), because a power cut leaves a log of any of them in any
order and `JsonlPowerLoss` counts them.

`JsonlReadersProofs` proves, for any writers, readers, lookups, events and deletions,
`PagesAreHistory`, `LogDecides` and `FoundWhileWhole`. A page is right because the log and its index
only grow (`WriterKeepsLog`) and the index never describes more than the log has (`Described`). The rest stands on
what a deletion leaves of the protocol, in three layers (`DInv`). Whatever is deleted, log and index count from one, what an
unlocked rebuild gathers is the start of the log, and pages are right (`LInv`, `ReadOK`). While no handle had read an `ids.txt`
that was deleted, `ProtocolInv` still holds (`FootInv`): the handles have nothing in their caches (`DeleteUnread`), so that they
read the next file from its start, find fewer ids than records, and rebuild; and as the file is always the start of the
log, no lookup meets a line that disagrees (`LookupsSound`) and nobody rebuilds without the lock. This is `LogDecides`. Without
the hypothesis it is false (`StoredOnce` in `MCJsonlBeside.cfg`). `FoundWhileWhole` needs that nothing was deleted: then every
answered event is listed in `ids.txt` (`AnsweredListed`), whose lines and count a lookup sees only grow (`WholeInv`,
`LookupsSettled`).

`SubscriptionsProofs` proves, for any callers, filters and bounds, type correctness,
`RegistryCounts` and `RemoveDestroys`. The last needs `AloneInv`: while no call has started
beside another, at most one caller is past `idle`, so that nobody reconnects the session between
the removal of the session and the unlinking of the record. `RecordedIsHeard` is proved for any bounds, its own
hypotheses being one failure and no dropped connection. `HeardInv` says how far the call under way has come
(`Stage`): an add registers a filter only if the session has it or is about to, and a drain that must
subscribe has found its session gone, for which the one failure has been spent. Between calls a
session with a record has the record's filter, and as long as nothing has failed a record has a
session (`Hearing`). With a second failure or a drop, the invariant is false (`MCSubsAlone.cfg`).

`EmitProofs` proves, for any messages and bounds, over any number of runs and connections:
type correctness, `ConfirmedMeansTaken`, `ExitsAreTrue` and `ClosedIsFinal`. The inductive
invariant of the first two is `Delivery`: an unacknowledged message that has not been sent on this
connection stands behind those that have, a message that is neither waiting in paho nor on the
socket has been taken or never was accepted, and the answer of a call that is still waiting depends
on which of these it is. `EmitInv` relates the step of the script to the answer it will turn into an
exit code. `ClosedIsFinal` needs only that a network thread runs no longer than `_loop_started`
says.

The assumptions are those of the modules, on constants only: a marker such as `Nobody`
or `NoHandle` is not a process, an event or a filter; an id of `JsonlBackend` is a text of bytes and not empty (its `IdAssumption`); a page has at least one
record; events are finitely many where a power cut is modelled.

`DrainProofs` proves, for any watchers, events, queue and bounds, type correctness and
`CursorNeverRewinds` (a cursor stays within the history and at or above the one the call started
from: `CursorsIn`); and, with `MaxLosses = 0` as a hypothesis, `NothingLost` and `StoredInOrder`.
Without it packet identifiers start again and the first is false (`MCDrainStaleAck.cfg`). `NothingLost` rests on
`Safe`: identifiers grow along the queue (`MidsGrow`), a message a drain holds is the queued one with
its identifier, if that is still queued (`AllKnown`), and so a PUBACK on its way is for a message
that is stored or is no event (`AcksTrue`). `StoredInOrder` rests on `Ordered`: whatever was accepted
earlier and is not stored stands in front, in the queue (`QueueInOrder`) and in what each drain holds
(`InboxInOrder`, `HandInOrder`), since a drain still holds whatever has been sent on its
connection and is not stored (`SentIsHeld`). This is why it does not matter which drain has the session.
`CursorCovers` is proved with sessions lost, for any number of watchers that drain one at a time
(`OneAtATime`, the contract's "single-drainer semantics", `docs/contract.md` 311; `CursorIsExact`), and
without that hypothesis for a single watcher (`OneCallerIsExact`). `CaughtUp` is the reason: whoever drains
alone has its cursor at the end of the history but for the record it has just stored, so that nothing it
was not handed is ever below the cursor. `MCDrainCursor.cfg` shows two overlapping watchers break it.

`StackProofs` proves, for any operators and bounds, type correctness and `VerdictsAreTrue`, and
`EditsAreKept`: with `CarefulEditor` as a hypothesis, no edit of a compose file is overwritten
(`MCStackEdit.cfg` shows what happens without it). The strengthenings are small: whoever is past the
check for an initialised directory, or was told to reproduce what `up` did there, finds both files again,
and so does a container that restarts (`Ready`); whoever runs a command has not been told the end of it
(`Busy`); a container that runs has no foreign listener on its endpoint (`Bound`); and while
`compose.yaml` is not what `init` writes, an `init` that writes is a forced one that has not touched
it yet (`Careful`). `VerdictsAreTrue` needs of `Address` only that it has no endpoint of a sixth kind; its exception,
`Overlooked`, is what `_preflight.py` 80-82 and 98-99 cannot see, and `MCStackBeside.cfg` shows the theorem is false without it. The bounds are assumed to be natural numbers.

`AlgorithmsProofs` proves what the pure algorithms compute for arguments of any length: `PatternsSelect`,
`MatcherIsMqtt`, `TypesComeBack`, `ListIsNewest` and `StatusIsStrict`. The prover has no induction over data, but
it has least elements: `LeastNat`, from the well-foundedness of `<`, gives the first place at which
a recursive function differs from its closed form, and there is none (`FlattenSingles` for
the joined levels of a topic, `NewestFirst` for the chunks of a log).
`ListIsNewest` rests on `BoundingIsSafe`, the claim of `jsonl.py` 473: a record that its subscription's walk
never reached stands behind `max` records of `max` different events, and so neither it nor a later
record of its event is among the first `max`. The rest counts: in a finite strict order each rank
occurs once (`OrderLists`), sorting lists records by rank, and leaving out what has been seen
lists the earliest record of each event by rank (`UniqueLists`). Its hypothesis is `SteadyClock`, that no log
was written with a clock set back; that of `StatusIsStrict` is `NoRange`, that no published range of ports
contains the broker's. Neither is an assumption of the model: `MCAlgoBeside.cfg` shows what happens without them.
The constants are assumed to be what the code gives them: what was split has at least one piece
(`SplitAssumption`), no word is a wildcard (`WordAssumption`, from `_TYPE_RE`), what begins with `$` is no word
(`DollarAssumption`), a binding is an address and a
positive port (`BindingAssumption`), and a log is numbered from one and has no event twice
(`HistoryAssumption`, which is `LogDecides`: it fails once an `ids.txt` is deleted that a writer had read). TLC evaluates them in `algorithms`.

The same module proves what is said of payloads, records and `ids.txt`. `NoProblemHidesAnother` follows
from `ProblemsByKey`: the problems of a payload are the union of what each key reports by itself
(`KeyProblems`), and a key reports the same in any payload that gives it the same value. `EnvelopesComeBack`
needs to know what acceptance means: `AcceptedIff` says it is a condition on each field, and `DataIsWalked` that
no value of accepted `data` was left out by the walk, since above a skipped value there would be a container
that is too deep or a key that is bad, each a problem of its own. So what `json.dumps` gets is JSON
throughout, and what comes back is the same but for tuples. `RecordsComeBack` rests on `StemOfPath`, a
file tells the name it was made for, and on `NamesAgree`, the two grammars of a name. `SidecarReadsExactly` is
about positions: `SidecarHasLines` says where each line of `ids.txt` ends, `LinesOfText` that whole lines are cut into the ids they
were made of, and `RefreshReads` that a refresh from the end of one line, with the writer
anywhere, reads the lines completed since and stops at the end of one; two of them are the property. Its
hypothesis is `OneLine`, that no id has a newline in it, which the grammar of an id does not
guarantee (`MCAlgoBeside.cfg`). The assumptions, all on constants: a value is of one kind and inside
containers only (`BaseAssumption`, `ChangeAssumption`), the unchanged event is valid, a name is a text
(`NameAssumption`), an id is a text and not empty (`Algorithms`' `IdAssumption`), `_MAX_DATA_DEPTH` is positive and
`MAX_NAME_LENGTH` a natural number.

Only model-checked: `WaiterServed`, `EverythingReachesTheCaller`, `OnlineInTheEnd`, `EmitAnswers` and
`HintsLeadOut`, as liveness and fairness are beyond the prover used; and, beside the runs, `IdsSortByTime`.
Every invariant and every action property of a passing run is a theorem.

## Not modelled

The wording of messages, suggestions included; json's own limits, among them the `RecursionError` of a
deeply nested payload, which `from_json` does not catch either; the identity read from the
environment and `culture.yaml`, on which only the default of a producer and an owner depends; the checks of
the client's configuration, which raise before anything exists; the parsing of arguments and
the rendering of results; the stack's volume and `logs`; a `get()` that looks through several
subscriptions one after the other, which share no file; `doctor`, `explain`, `learn` and the other
commands without state; the
fallback without `fcntl` (`jsonl.py` 194-209), where the lock is a no-op: the mutant of
`ImplementsHistory` is that build, and shows what it loses. An `OSError` that escapes
`_persist` leaves the state of `Fail`. Packet identifiers wrap at 65535 in MQTT; the
bounded runs never get there.

## Plan

What is left: a `get()` that looks through several subscriptions, and the stack's volume and `logs`, if
the code grows state there that is worth it.
