# seedlink-client: a TLA+ verification project

This directory models the Python package `seedlink_client`
(`src/src/seedlink_client/`): a SeedLink v3/v4 client with a blocking and an
asyncio transport, resumable streaming, a state file and a command-line
program.  It holds TLA+ modules, TLC configurations that check them on small
instances, and proofs that TLAPS checks for every value of the constants.

Paths below are relative to `src/src/seedlink_client/`.

## 1. The system

| Part | State it keeps | Operations | Hard behaviours |
|---|---|---|---|
| Command vocabulary and planners (`_commands.py`) | none, but for `NegotiationWalk` (`_station_seen`, `_station_accepted`, `_skip`) | the command builders, `plan_handshake()`, `plan_negotiation()` | which commands have a reply (batch mode, `END`, v3 uni-station `DATA` have none); a rejected station must take its `SELECT` and `DATA` with it |
| Protocol parsing (`protocol.py`) | none | `select_protocol`, `parse_header_v3/v4`, `decode`, `classify`, `scan_line`, `parse_reply`, `parse_hello` | what is read depends on the version chosen from `HELLO`, before the server acknowledged it |
| Blocking client (`client.py`) | `_sock`, `_streaming`, `_batch_active`, `protocol`, `server_capabilities` | `connect`, `close`, `reconnect`, `ping`, `bye`, `negotiate`, `collect`, `info`, `info_dict` | connections cut at any byte, timeouts, keepalives, errors that must or must not leave the connection open, reconnect and resume |
| Asynchronous client (`aio.py`) | the same, over a `StreamReader` and a `StreamWriter` | the same | deadlines and cancellation at every `await`; other tasks and the generator's finalizer between two of them |
| Receive buffer (`_base.py`, `client.py`) | `_recv_buf`, `_recv_start`, `_recv_end` | `_ensure`, `_prepare_room`, `_reset_recv_buf`, `_peek`, `_take` | compaction, growth and release while a frame is half there |
| Stream selection and resume positions (`_base.py`, `streams.py`) | `streams`, `_match_cache`, `_recovered_state`, `_multistation`, `_all_stations`, per stream `seqnum`, `timestamp`, `pending_packet` | `add_stream`, `set_all_stations`, `add_streamlist`, `set_timewindow`, `recover_state`, `save_state`, `_update_stream_state` | a cache over a list that may grow, recovery before or after the streams are added, parsing put off until a time is needed |
| State file (`state.py`) | a file and its temporary | `save_state`, `load_state` | a process that ends in the middle of a save |
| Command-line run (`cli.py` `main`) | a state file and a dump file, across runs | configure, recover, collect, dump, save | errors and interrupts between any two steps, `finally` clauses that save |
| Interactive shell (`cli.py` `SeedLinkShell`) | `_sent_station`, a watcher thread and its `Event` for each transfer | commands typed by hand over `connect(handshake=False)` | two threads on one socket, a watcher that outlives its transfer |
| Selectors (`streams.py`), miniSEED (`mseed.py`), times (`time_utils.py`) | none | conversions | two selector syntaxes that do not say the same things |
| SeedLink server | external | answers commands, streams packets | rejects, delays, disappears |

How they interact.  The client asks the planner for the handshake and the
negotiation one command at a time, sends each over the socket, and reads one
reply line for each command that has one.  Frames are read through the receive
buffer, classified by their first bytes, matched to streams, whose positions
they advance, and yielded to the consumer, who runs between two steps of the
generator and may call the client.  After any error the loop closes the
connection, waits, connects, negotiates again from the positions, and goes on.
The program around it saves the positions to the state file, from which the
next run recovers them.  The server is a second process; the network may cut
the connection between any two steps.

What makes each part correct:

* planner and client: every reply is read for the command it answers; a
  station's selectors reach that station only; both ends agree on batch mode,
  on the framing, and on whether a transfer is running;
* `collect()`: the consumer sees every packet once and in order across
  reconnects, nothing but refused credentials ends a reconnecting loop, and a
  loop that lost its connection streams again;
* receive buffer: the bytes of one connection in order, none of another, always
  room for the next read, bounded size;
* stream state: the cache never hides a stream; recovered state holds whatever
  the order of calls; a saved time is the time of the saved packet;
* timers of `collect()`: a dead connection is given up, a live one is not, the
  link is never quiet for long;
* readers: an item ends where the server ended it, nothing waits for the bytes
  behind it;
* asyncio client: no deadline, cancellation or other task leaves a connection
  leaked, half used or believed open;
* shell: what is read belongs to the command that was typed, Enter ends a
  transfer, no thread of an earlier one meddles;
* state file and program: never a truncated file, never a position that goes
  back, no packet counted as received that the dump lacks.

The list of hazards, each with its line and the property that would notice it,
is in `PROJECT.json`.

## 2. The modules

```
Commands          pure: versions, handshake, negotiation plan, NegotiationWalk
  Wire            one connection: commands one way, lines and frames the other
    SyncClient    client.py, one action per send, read, sleep and call
    Server        the environment (external)
      Session     client || server || network; properties  -> MCSession
        SessionProofs
        AioSession  aio.py in one task: deadlines, cancellation, stalls
                                                            -> MCAioSession
          AlignmentProofs   of both clients
AioTasks          aio.py shared by tasks, and the event loop
  AioTasksProofs
CollectClock      the timers of collect(), on a clock      -> MCCollectClock
  CollectClockProofs
Shell             SeedLinkShell, its watcher threads, a server
  ShellProofs
ResumableFeed     abstract: what collect() promises        <- refined by Session
                                                              and AioSession
ByteStream        abstract: what the buffer promises       <- refined by RecvBuffer
RecvBuffer        _ensure, _prepare_room, _reset_recv_buf, byte by byte
  Framing         _read_line and _recv_frame over it       -> MCFraming
    FramingProofs     of both
StreamState       stream list, match cache, recovered state, state file
  StreamUse       any use of it by a program               -> MCStreamUse
    StreamUseProofs
  CliRun          main(): runs with state file and dump    -> MCCliRun
    CliRunProofs
Selectors         v3/v4 selector conversion, pure          taken in by StreamUse
```

**Commands.**  A command is a record: its name, how its reply is read (`parse`:
not at all, `parse_reply`, `_expect_ok`, `_expect_auth_ok`), its role and stream
in a negotiation, and what it asks for.  The text is left out.
`HandshakeAfter` is `plan_handshake()`; `CmdAt`, `PlanNext` and `PlanDone` are
`plan_negotiation()`, the position in the plan standing for the suspended
generator; `Planned` is what making a plan does to the streams (deferred times
are resolved).  `WalkSends`, `WalkEnter`, `WalkRecord` and `WalkFails` are
`NegotiationWalk`.

**Wire.**  `c2s` holds whole commands, `s2c` whole lines and frames.  A cut
(`Drop`) loses the commands in flight and any suffix of what the server sent;
the client then reads what had arrived and gets end of file.  `faults` counts
the injected faults against `MaxFaults`.

**SyncClient.**  `call` is the public method that is running, `pc` the step it
is at; the steps are those between which the server or the network can act.
`ConnectRaises`, `NegotiateRaises` and `LoopRaises` say where an exception goes
from `connect()`, `negotiate()` and the loop of `collect()`, and whether the
connection stays open: closed after an I/O error or a partial read, open after
a rejection and after a timeout before the first byte (`ReadTimesOut`).  At
`pc = "yield"` the consumer's loop body runs: it may go on (`Resume`), leave
(`Break`), `close()` or `bye()`.

**Server.**  Not in the repository: taken from what the client relies on and
what the fake servers of the tests send.  It answers in order, may reject any
command that has an acknowledgement, suppresses acknowledgements in batch mode,
subscribes each station from the requested packet, sends `END` after a dial-up,
may send errors or garbage.  Two numberings are modelled: one per station, and
one for all stations.  Packets of a station are published in the order of their
numbers.

**Session** puts the two together: opening a connection is a joint step,
everything else interleaves.

**AioSession** takes the steps of `SyncClient` for those of `aio.py`, which
differ in three ways only: one deadline covers a whole call and closes the
connection (`Deadline`), every `await` may be cancelled and closes it too
(`CancelClose`), and a read has no timeout of its own, so that a line or frame
that stops half way (`Stall`) is waited for until a deadline, a cancellation or
end of file.  Its user goes on calling after failures, but does not negotiate
over a running transfer.

**AioTasks** is the same client among tasks: `main` consumes `collect()`,
`other` calls `close()` or cancels `main`, and the event loop's finalizer closes
a generator that was left early, from a task of its own.  The scheduler is
asyncio's: `ready` is the queue of runnable tasks, a task runs from one
suspending `await` to the next, and an `await` that need not suspend does not.
Bytes carry their connection and place, so a frame made of two connections
shows.

**CollectClock** counts ticks.  `lastData` and `toKeep` are `last_data_time` and
`next_keepalive` relative to now; time passes in the poll, in the middle of a
frame, in the consumer and in the delay before a reconnect, and nowhere else.
The server sends any frame, whole or in pieces, at any time.

**Shell** has one thread for the commands and one watcher per transfer, which
stays behind when no line comes (`watcher[t]`, `stopped[t]`).  The operator
types lines ahead; the server answers, rejects, streams, ends a dial-up.
`Dialup` and `Timed` are constants of a run.

**RecvBuffer.**  A cell holds the number of the byte it was filled with.
`Ensure` is `_ensure()` up to its fill loop with `_prepare_room()`, `RecvInto`
one `recv_into()`, `Read` and `ReadFrame` what the parsers do with what is
buffered, `ReadFrame` with the release of a drained buffer at the end of
`_recv_frame()`.

**Framing** runs the readers over that buffer, one `_ensure()` at a time: the
2, 3 and 5 bytes of classification, the line search that remembers where it was,
the v3 payload whose length is found by peeking further and further, the v4
header and body.  `Layouts` says what a server sends: items of a kind and a
length.  Each action is an action of `RecvBuffer` (`UsesBuffer`), so what is
proved of the buffer holds under it.

**StreamState, StreamUse.**  `Matches[id]` stands for the glob match of a
station ID pattern.  `match_cache` is `_match_cache`, emptied when a stream is
added; `Packet` is a data packet's way through `_update_stream_state()`;
`Unparsable` packets are those whose time does not parse.  `SaveBegin`,
`SaveLine`, `SaveReplace` and `SaveFails` are the steps of `save_state()`,
between which the process may end (`Restart`).  `StreamUse` calls the operations
in any order; `Late` says which are also called once packets may come.

**Selectors** translates both conversion functions on selectors taken apart as
the functions do, and defines apart from them what a selector selects
(`Name`, `Selects`).  `ConversionsAgree` compares the two for every selector
within `Code`'s lengths; `ConvertsAsDocumented`, which are converted with what
the docstrings say.

**CliRun** follows `main()`: `streams`, `window`, `recover` are the three steps
of `_configure_streams()`; `collect`, `body`, `periodic` the loop; `close` the
inner `finally`, `final` the outer one.  The dump file has Python's buffer
(`dumpbuf`), of which any part may be on disk when a write or the `close()`
fails (`OnDisk`); a packet counts as in the dump when all of it is, so a torn
one is not told from a missing one.  `Orderly` steps are those of a run in order,
`Troubled` ones each record in `happened` what struck: a print, the dump file or
a save that fails, an interrupt, a kill, a bad window, an unreadable state file.
`received`, also history, is what `collect()` handed over.  The server's connection is not modelled
again: `collect()` is taken at its word (`ResumableFeed`, which Session is shown
to implement).

## 3. The runs

Every `pass` run finishes without error; the `violation` runs end in a
counterexample that is a finding (section 6).

| Run | Question | Bounds |
|---|---|---|
| `collect` | Does `collect()` keep its promise through faults? `ResumesWhereItLeftOff` (refinement of `ResumableFeed`), `EndsAsDocumented`, `FramingAgrees`, `ResumePair` | one wildcard stream on two stations, 2 packets each, v3 and v4 server with one numbering, any 2 of 8 kinds of fault, 4 configurations (keepalive and timeout; auth without reconnect; uni-station with batch) |
| `calls` | Any public calls in any order: `TypeOK`, `AlignedIfCareful`, `BatchAgrees`, `StreamingWasAsked`, `OnItsStation` | 4 calls of the 8 methods, 2 streams with 1 and 0 selectors on a station each, two servers, 2 faults of any kind, careful and careless users, batch, auth, dial-up, a pinned version |
| `liveness` | `Recovers`, `CallsReturn`, `FeedAdvances` under `FairSpec` | 1 stream, 2 packets, 2 faults |
| `framing` | Are lines and frames cut where they end? `ItemsWhole`, `NeverWaitsBeyond`, `TimeoutKeepsPlace`; `UsesBuffer`, `HandsOverStream` and `Bounded` of the buffer below | every pair out of 5 items of each version, 4 malformed ones; default buffer 5, lines up to 8, requests up to 9, arriving in any pieces, timeouts and reconnects at any step |
| `streams` | `CacheIsFresh`, `RecoveredInAnyOrder`, `SavedPair`, `FileIsWhole`, `SelectsTheSame` | 2 streams out of an exact ID, an overlapping pattern and `*`; 2 stations, 3 packets, one of them unparsable; selectors of up to 5 characters out of a letter, a digit, both wildcards and a character that is neither |
| `saved` | What is kept after which trouble: `ProgressKeptOnceRecovered`, `DumpHoldsReceived`, `DumpInOrder` | 3 runs, 3 packets, kill, interrupts, bad window, unreadable state file, failing print, dump file (open, write, close) or save, any number of times |
| `aio` | The asyncio client and its deadlines: `ReplyAligned`, `AioReturns`, `ResumesWhereItLeftOff` | 1 stream, 2 packets, 4 calls, 2 faults, cancellation at any `await` any number of times |
| `tasks` | Tasks on one client: `OneConnection`, `FramesWhole`, `NoCrashUnintruded`, `Reconnected` | frames of 3 bytes, 6 bytes on a connection, 2 acts out of close, cancel, a second `collect()`, `reconnect()`; a cut |
| `clock` | Timers: `SilentServerIsLeft`, `LinkKeptAlive`, `OnlySilenceIsIdle` | idle 5, keepalive 3, poll 2, delay 2, timeout 2 or none, consumer up to 7 ticks, 2 frames queued, a frame in up to 2 pieces and its rest |
| `shell` | Shell and watchers: `PromptIsQuiet`, `FramingAgrees`, `ErrorsShown`, `EnterStops` | 4 lines typed at any time, 1 packet, 2 faults, dial-up, `--timeout` |
| `crash`, `interrupted` | findings | the smallest instance that shows them |

What the properties say:

* `ReplyAligned`: the replies still to come are those of the command being
  waited on, one or none, and its reply is the one that is read.  In the
  blocking client it fails for a user who goes on after a timeout;
  `AlignedIfCareful` is what holds for one who closes the client after a failed
  call.  The asyncio client closes the connection itself, and the `aio` run
  checks `ReplyAligned` of careless users.
* `BatchAgrees`, `FramingAgrees`, `StreamingWasAsked`: the client's belief about
  the connection (`_batch_active`, `protocol`, `_streaming`) is the server's.
* `OnItsStation`: no `SELECT` or `DATA` is handled while another stream's
  station is the current one.
* `ResumePair`: a v3 `DATA seq time` names a packet and the time of the packet
  before it.  `ResumesWhereItLeftOff`: the consumer gets every station's packets
  in order, once, none skipped.
* `EndsAsDocumented`: a reconnecting loop ends by end of transfer, by its
  consumer or by refused credentials; without `reconnect`, lost connections are
  raised.
* `AioReturns`: with a timeout no call but a streaming `collect()` waits for
  ever, though the server owes nothing.
* `OneConnection`: the client holds the one open transport or none.
  `FramesWhole`, `NoCrashUnintruded`: no frame is mixed, and no `AttributeError`
  comes out, unless `close()` ran between the arrival of `main`'s bytes and
  `main` (the finding `crash`).  `Reconnected`: a closed connection is replaced.
* `SilentServerIsLeft`: at most `idle_timeout`, one poll and one frame without a
  packet.  `LinkKeptAlive`: at most `keepalive` and one poll without traffic.
  `OnlySilenceIsIdle`: no connection that brought a packet within `idle_timeout`
  is given up for being idle.
* `ItemsWhole`, `NeverWaitsBeyond`, `TimeoutKeepsPlace`: items begin where the
  last one ended, no read waits for bytes behind its item, and a timeout that
  keeps the connection keeps the place, v3 payloads excepted.
* `PromptIsQuiet`: nothing is under way at the prompt of an operator who waits
  for replies; its comment lists what is excepted.  `ErrorsShown`: only a
  transfer's own watcher hides an error.  `EnterStops`: Enter ends a transfer.
* `SelectsTheSame`: a converted selector selects what the given one selects
  (`ConversionsAgree`), and those are converted that the docstrings say have a
  form in the other syntax (`ConvertsAsDocumented`).  Excepted from the second,
  by name, is a wildcarded v4 location other than `*` (`WildLocation`), which the
  code converts: see section 6.
* `CacheIsFresh`, `RecoveredInAnyOrder`, `SavedPair`, `FileIsWhole`: see
  `StreamUse.tla`.
* `ProgressKeptOnceRecovered`: killed or interrupted at any step, or unable to
  write, a run never moves the saved position back once it has recovered it.
  `DumpHoldsReceived`: the dump is what the runs received, packet for packet, and
  holds the packet the state file names; a run that is interrupted, or fails to
  print, lacks at most the packet in hand.  `DumpInOrder`: it has nothing twice
  or out of order.  Each names the troubles after which it does not hold: a kill
  or a dump file that cannot be written loses the buffer as well, though the
  state file has counted it: see section 6.

Each module keeps one type invariant; they are not among the runs' properties
where no plausible bug would show in them first, except that of Session, which
is proved.  All of them hold in the runs above.

Why the bounds are enough.  One connection's history does not survive it except
in the stream positions, `_batch_active`, `_streaming` and `protocol`, so two
faults (lose a connection, lose the one that replaced it) reach every
combination of leftovers; four calls reach every pair of methods on a connection
that a previous call left in each of its states.  Two packets per station tell a
gap, a duplicate and an exchange apart, and one more than the queue bound makes
the server wait.  Two streams are what a rejected station, a cache and an
overlapping pattern need.  In `framing`, a default buffer smaller than a header
and a frame reaches all four outcomes of `_prepare_room()` (release, grow,
compact, leave), and two items show where one ends and the next begins.  In
`tasks` two acts let one interrupt what the other began; three bytes split a
frame inside its header and behind it.  In `clock` the limits differ from each
other, the poll does not divide the keepalive, and one consumer is slower than
the idle timeout; the theorems remove these bounds.  In `shell` four lines are a
station, `DATA`, a line that ends it, and one more command for the watcher to
meet.  Three program runs are one to save, one to spoil and one to suffer.

Every property has a mutant: a definition changed the way a plausible bug in
that code would, for which TLC finds the property violated under the run's own
configuration.  They stand next to the definition they change, marked `Mutant`.

**Fairness.**  `Session.Fairness`: the client thread runs its method; its idle
timer expires when data stay away; the server answers what it has read and sends
what it was asked for; a consumer that holds a packet comes back or leaves.
Nothing is assumed of faults, of calls, or of keepalives.
`AioSession.AioFairness` assumes nothing of the server: a task that can go on
does, since the event loop runs every ready task, and a deadline that was set
passes.  `AioTasks.Fairness`: the loop runs ready tasks, tasks go on to their
next `await`, bytes arrive, transports that were closed are lost.
`Shell.Fairness`: both threads run and the server answers; the operator need not
type.  Without a server that answers, a client with `timeout=None` blocks inside
`recv_into()`: `clock` shows the one case, `timeout = 0`, which
`SilentServerIsLeft` excludes.

**Deadlock** is checked in every run; named stuttering steps are the places
where the system may stop: `Terminated` (between calls; the program is done),
`Stopped` (after the last program run), `Ended` (`collect()` has returned),
`Idle` (the shell waits for a line or for packets).

## 4. What is proved

`FramingProofs`, of `RecvBuffer`, for every `DefaultSize`, `MaxRequest` and `MaxSent`
(assuming `BufferAssumption`: the first two positive):

* `BufferSafe`: `TypeOK`, `FillHasRoom`, `InOrder`, `EnsureDelivers` and
  `Bounded` always hold.  None is inductive alone: compaction keeps the bytes in
  order because the window lies inside the bytearray, which is bounded because
  it only grows for a request it cannot hold.  `Inv` is their conjunction with
  `need <= MaxRequest` and "not connected implies not filling".  `MoveOK` and
  `PrepareRoomOK` carry the argument for compaction and growth.
* `BufferImplementsStream`: the refinement of `ByteStream`, from the same
  invariant; `StepHandsOver` maps each step to a read, a connection or a stutter.

`SessionProofs`, for every set of stations, streams, configurations, servers,
callable methods and faults, and every queue bound (assuming the named
assumptions of Commands, Wire, Server and SyncClient: ranges of the constants,
and that several streams are only configured in multi-station mode):

* `TypeCorrect`: `TypeOK` of client, server and network.  It is inductive; the
  lemmas say that the planners return commands, that NegotiationWalk stays one,
  and that each way a method can go on, return or raise keeps the types.
* `BatchModeAgrees`: outside the exchange of `BATCH` itself, `_batch_active` is
  the server's batch mode.  `BatchAgrees` is not inductive: that the reply read
  for `BATCH` tells what the server did depends on the handshake being in
  lockstep.  `Inv` adds `CallInv` (a method runs exactly while it is at a step),
  `LinkInv` (a cut loses the commands, `close()` forgets batch mode, the server
  of a handshake takes commands), `Lockstep` (in the handshake nothing is under
  way but one command or its one reply) and `BatchInv` (`BATCH` is the last
  command of a handshake, its reply tells the server's state, nobody else sends
  it).  A late reply cannot disturb it, which is why `BatchAgrees` holds also
  for users who go on after a timeout, where `ReplyAligned` does not: a timeout
  in the handshake closes the connection.

* `CollectEndsWell`: `EndsAsDocumented`.  `LeaveInv` says what each way out of a
  pass leaves in `error` and in the socket; a loop that still means to reconnect
  has neither END nor refused credentials behind it.
* `ResumesFromOnePacket`: `ResumePair`.  `PairInv` says it of every stream,
  where a packet's time may be still to be parsed, and of the `DATA` under way
  (`PairedCommands`); that a planner resolves the times before it formats them
  is what carries it.
* `FramedAlike`: `FramingAgrees`.  `ProtoInv` follows the version from `HELLO`
  over the acknowledgement of `SLPROTO` to the first command behind the
  handshake, after which no `SLPROTO` is sent; `StreamingInv` says that a client
  reads frames only then.
* `StreamsOnRequest`: `StreamingWasAsked`, for configurations that are
  `careful` or not `dialup`.  `AskedInv` asks for one of: the server streams; a
  command that makes it stream is on its way; `END` is on its way back.  That
  the command was sent comes from `PlanInv` (how far the plan must have come),
  `UniInv` (in uni-station mode `DATA` is the last of it) and `DialInv` (`FETCH`
  only with `dialup`).  The hypothesis is needed: a user who negotiates again
  over a running dial-up transfer can take its `END` for a reply, and
  `collect()` then waits on a server that has finished.  The `calls` run leaves
  out that one user.

`AlignmentProofs`, for the constants and assumptions of `SessionProofs`, every
callable method, and every configuration but those with both `dialup` and
`keepalive` (`Tame`):

* `RepliesAligned`: `AlignedIfCareful`.  That the line about to be read answers
  the command that reads it depends on everything sent since the connection was
  opened, so the invariant, `Core`, says for each step of the client what may be
  under way: nothing but a `BYE` outside a call (`Resting`); the commands of a
  batch while a plan is walked (`Walking`); behind such commands the one that is
  awaited, or its one reply (`Awaited`); `INFO` or its packets, of which the
  last says so (`Answered`); the command that begins a transfer, then packets,
  trouble and keepalives, at last `END` (`Flows`: `ToCome`, `Begun`, `Over`); and,
  for users who go on after all stations were rejected, an `END` that starts
  nothing (`Spent`).  It needs `DialInv`, `UniInv`, `ProtoInv`, `PlanInv` and
  `StreamingInv` of `SessionProofs`, and four more: `NamedInv` (a command's name
  says its role), `BatchV3` (batch mode is of v3), `Greeted` (a handshake gets
  its replies) and `WalkInv` (a station's commands follow an accepted `STATION`,
  and the reply awaited is that of the command at the plan's place).  Each is
  preserved alone or with those before it; `Core` is preserved given all of them
  (`CoreServed` for server and network, one lemma per kind of client step).
  `Mannered` is what `Core` asks of the user: not to go on after a read that
  timed out, nor to negotiate where `END` was already sent; a careful user does
  neither.
* `CommandsOnTheirStation`: `OnItsStation`, from `Core` and `StationInv`: in the
  walk and while a reply is awaited the server is at the station of the plan's
  stream, once its `STATION` was accepted; what a failed call has left under way
  is for that station or none (`Left`).
* `AioRepliesAligned`: `ReplyAligned` of the asyncio client, for every user: its
  timeouts and cancellations close the connection (`Severed`), a stall only
  stops the read (`Frozen`), every other step is one of the blocking client's
  and `Mannered` (`AioSteps`).  `AioTypeCorrect` is `TypeOK` of it.

* `ResumesInOrder`: the refinement `ResumesWhereItLeftOff` of the blocking
  client, if no station belongs to two streams (`Separate`) and a stream of
  several stations is of a server that numbers their packets together
  (`Numbered`), for every configuration that is `Resumable`: `careful`, `Tame`
  and without a time window.  That the next packet yielded is the next one of
  its station depends on everything between the data center and the consumer,
  so the invariant, `FedInv`, adds to those above:
  `LogInv` (what is published is numbered upward), `PlaceInv` (a stream's
  position is the number of a packet, up to which its stations have been
  yielded: `Placed`), and `FeedInv`, of a connection that is of use: what is on
  its way of a stream comes after its position, in order, with nothing left out
  before it (`Chained`); what the server is yet to send begins where that ends
  (`Pointed`); and a `DATA` under way asks for what follows the position
  (`Requested`).  "Left out" allows for the start of a feed: what precedes the
  first packet of a station is not owed (`Behind`).  A request that is handled
  must meet a server that is at the station of its stream and sends nothing yet
  (`Facing`); outside batch mode that is `StationInv`, in batch mode `UnderInv`,
  by which the last `STATION` before a `DATA` is its own or was refused.  That a
  server starts at the first packet not before the number asked for is counted
  over the packets (`CountedBelow`).  Then each step of the client keeps
  the feed (`FeedClient`), as do those of the server, and `RecvData` is the one
  that maps to a step of `ResumableFeed`.

Without `Separate` a packet moves the positions of two streams and one of them
may have asked for others; without `Numbered` the number of one station's packet
is asked of another station (`_base.py:271`, a hazard of the list).

`Tame` is needed: with dial-up and a keepalive the server may answer the
keepalive after `END`, and the answer meets the next call (`client.py:482`, a
hazard of the list and an entry of section 6).  The runs take both options, but
not together.

`CollectClockProofs`, for every set of configurations, poll interval, queue
bound and number of pieces (assuming `ClockAssumption`: ranges, and that ticks
are counted further than any limit):

* `SilentServerLeft`, from `StarvedInv`: the time without a packet counts
  against `last_data_time`, which the head of a pass compares, so a poll begins
  with at most `idle_timeout` of it and a frame with one poll more; within a
  frame it is accounted to the pieces that came and the wait for the next.
* `LinkStaysAlive`, from `QuietInv`: until `next_keepalive` the quiet is no
  longer than that timer has run, then no longer than the poll; what can be read
  has ended it.
* `OnlySilence`, from `SilenceInv`: `last_data_time` lags behind the last
  packet's arrival only while a packet waits unread, which takes no time but
  the consumer's.

`StreamUseProofs`, for every set of station IDs, patterns and stations, whatever
matches what, and no bound on streams or packets but those named (assuming
`StreamStateAssumption` and `StreamUseAssumption`: `*` is an ID and matches every
station, ranges, and that `Late` names calls):

* `CacheStaysFresh`: the cache follows the list of streams through every call.
  It is inductive with `TypeOK` (`StreamTypes`): a step that moves positions
  only leaves each ID in its place (`FreshKept`), any other empties the cache.
* `EitherOrder`, from `InAnyOrder`, which adds that no packet waits for its time
  in a stream that has had none; a packet's step needs `CacheIsFresh`, or it
  could move a stream it is not for.
* `FileWhole`, from `TempSoFar`: the lines written are those of the streams as
  they are now, since resolving a time does not change what its line says.
* `PairSaved`, from `PairsFit`: the pair is right wherever it may be taken from
  (stream, recovered state, both files), and no time is newer than the newest
  packet.  It assumes that nothing is recovered once packets may come; without
  that, TLC finds the time of a packet beside an older sequence number (the
  `pending_packet` entry of section 6).
* `SelectsAlike`: for every set of characters, of wildcards (`*` and `?` among
  them, `SelectorsAssumption`) and of characters that are neither, a converted
  selector selects what the given one does.  `ToV4` and `ToV3` compare the two
  sides part by part: the last three characters, and the location with its three
  ways to be absent, blank or any.
  `FormOfV3` and `FormOfV4` show which have a form in the other syntax.

`AioTasksProofs`, for every number of bytes, of bytes in a frame, of
connections, acts and tasks that the constants allow (assuming
`TasksAssumption`: ranges):

* `TypeCorrect`: `TypeOK`, with the queue of the loop (`QueueInv`: a task is in
  `ready` once, and only one that has something to do).
* `NothingLeaked`: `OneConnection`, from `ConnInv` (where the generator may stand
  while there is no connection, or another than the one it began to read) and
  `CountInv`, by which the connections that acts and cuts can lead to are never
  used up, so the bound `MaxConns` hides none.
* `FramesAreWhole` and `ReaderIsThere`: `FramesWhole` and `NoCrashUnintruded`.
  `BytesInv` says when a reading task is woken; `HeldInv`, that unless someone
  intruded the connection it was woken for is the one it still has; `StreamInv`,
  that the buffer holds the last bytes of that connection, from the beginning of
  a frame on.

`ShellProofs`, for every number of lines, packets and faults, with or without
dial-up and `--timeout` (assuming `ShellAssumption`: ranges):

* `QuietPrompt`: `PromptIsQuiet`.  Until the operator has `strayed`, client and
  server go in lockstep: `ReplyInv` (while a reply is awaited, the command or
  that one reply is under way) and `PrintInv` (while packets are printed, first
  the command that begins the transfer, then packets, at last `END`).
* `FramingKnown`: `FramingAgrees`, from `Agreed`, which has to say when an
  answered `SLPROTO` is not yet read.
* `NoErrorHidden`: `ErrorsShown`, from `WatcherInv`: no watcher is numbered
  higher than the transfers begun, and the one of the current transfer has not
  been told to stop before it shut the socket.

`FramingProofs`, of `Framing`, for every header size, detection limit, record limit and line
limit that fits in a request, and every set of layouts (assuming
`FramingAssumption`: ranges, and that every item of a layout is `WellFormed`, as
long as its kind says, and behind a noise that never ends nothing comes,
`WellLaid`):

* `ItemsCutWhole`: `ItemsWhole`.  `KindInv` says which items each step of a
  reader is reached for; `PlaceInv`, that nothing of an item is consumed before
  all of it has arrived, a v3 header excepted; `LinkInv`, that what has arrived
  is of the layout.
* `NothingAwaitedBeyond`: `NeverWaitsBeyond`, from `WantInv`: whatever a reader
  asks `_ensure()` for ends inside the item.  For a v3 payload it is the growing
  peek that has to be shown never to pass the length it will find.
* `PlaceKept`: `TimeoutKeepsPlace`, an action property, from `PlaceInv`.
* `FramingUsesBuffer`: every step of the readers is a step of `RecvBuffer` or
  leaves it alone; from it, `FramingHandsOverStream` carries
  `BufferImplementsStream` and `Bounded` over to the readers.

`CliRunProofs`, for every stream that matches one station, and any number of
runs, packets and troubles (assuming `StreamStateAssumption` and
`CliAssumption`).  `One` gives the state its shape: one stream, at most one line
in a state file, which is true to the stream it was written for, and nothing in
the dump's buffer outside the loop.  `Moves` says what each step does to the
place of the stream, the place recorded and the packets written (on disk or
buffered); `StepOne` shows every step of main() to be one of them.  The rest is
argued over `Moves`:

* `ProgressIsKept`: `ProgressKeptOnceRecovered`, an action property, from
  `Progress`: a run that has recovered is never behind the file.
* `DumpKeepsUp`: `DumpHoldsReceived`, from `Known` (the place recorded and the one
  about to be are of packets received), `Whole` (what was received is written or
  buffered, but for the packet in the loop body) and `Tally`, which counts what
  is missing against the runs: one that may yet lose a packet has not lost one.
  That a buffer moved to disk in any two parts is the same packets is
  `OnDiskKeeps`.
* `DumpStaysInOrder`: `DumpInOrder`.  `Ordered`: what is written comes before the
  next packet of this run, and between runs is not beyond the place recorded.
  `Complete`: without trouble the last packet written *is* the one recorded.
  Both need that no run that wrote a packet ends unrecorded, but in trouble.
* `CliTypeCorrect`: `CliTypeOK`.

Only model-checked, and why:

* `ResumesWhereItLeftOff` of the asyncio client: its users go on after failed
  calls, so what a failed negotiation left under way (`Spent`, and the stations
  of a walk that was not finished) would have to be in the invariant too.
* `Recovers`, `CallsReturn`, `FeedAdvances`, `AioReturns`, `Reconnected`,
  `EnterStops`: liveness under fairness, out of this prover's reach.

No module declares a RECURSIVE operator.

## 5. What is not modelled

* INFO XML/JSON, printing, logging, TLS, name resolution, miniSEED decoding and
  time strings: no state, or a library's.
* Byte values.  `Framing` knows where the bytes of an item are, not what they
  are: header fields that do not decode are one kind of item (`badhead`), and
  the limits of a v4 header, which raise before anything is taken
  (`protocol.py:269-276`), are left out.
* Every data packet has a sequence number; one without changes no position
  (`_base.py:268`).
* Sequence numbers have no width: v3's six hexadecimal digits do not wrap.
* In `Session`, `collect()`'s timers appear as steps that may happen: the idle
  timeout when nothing but keepalives is under way (`GoneQuiet`) or, as a fault,
  when data are late (`GoneLate`); when they do happen is `CollectClock`'s.
* `AllData` and `window` are in the model but the runs leave them off.  A window
  makes a reconnect ask for other packets than the next ones (see the hazards);
  `AllData` does not, and `ResumesInOrder` covers it.
* Two tasks that call `connect()` of one asyncio client at a time: nothing in
  the repository says they may.
* In `Shell`, `TIME` takes the steps of `FETCH`; `DETAILS`, `SAMPLES` and `HELP`
  change what is printed.
* The query modes of `main()` (`--ping`, `--info` and the lists) call one method
  and exit.

## 6. Findings

| Run | What the code does | What is said |
|---|---|---|
| `crash` | `_ensure()` checks `self._reader` once and uses it in a loop (`aio.py:251-257`); a `close()` from another task, or from the finalizer of an earlier `collect()`, that runs after bytes arrived and before the reading task goes on makes it `None`: an `AttributeError` that no handler of `collect()` expects | `client.py:427-428`, "identical here" in `aio.py:434-435`: "transparently reconnect and resume on any error or idle timeout" |
| `interrupted` | `collect()` closes on `GeneratorExit` only (`client.py:504-506`); Ctrl-C inside it leaves the connection open and streaming, and the shell prompts again (`cli.py:503-504`) | `client.py:432-434`: leaving the loop early "closes the connection, same as calling `close` directly" |

Other disagreements, met while modelling and kept out of the properties by a
named condition each:

* a read that times out before any byte leaves the connection open, so the next
  call reads the late reply as its own (`client.py:239-246`; `_commands.py:3-5`:
  one reply line is read back for each command);
* with `reconnect=False`, a keepalive that cannot be sent ends the `for` loop
  without an exception (`client.py:466-469`, `442-444`; `client.py:427-429`: "If
  False, raise instead");
* after a dial-up `END` the reply to a keepalive may still come, and `info()`
  returns it (`client.py:480-482`; `421-422`: "its reply is consumed
  internally");
* `recover_state()` leaves `pending_packet`, so the recovered time is
  overwritten by that of a packet received before (`_base.py:355`;
  `tests/test_streams.py:200-201`: "takes effect right away");
* a bad `--timewindow` stops the run before the state is recovered, and the
  `finally` saves UNSET over it (`cli.py:299-313`, `881-883`; `cli.py:741`:
  "Save/restore stream sequence numbers to this file"); so does an interrupt
  there, or a state file that cannot be read (`cli.py:314`);
* with `timeout=None`, and always in the asyncio `collect()`, a frame that stops
  half way is waited for for ever: neither the idle timeout nor the keepalive is
  reached (`client.py:238`; `422-424` documents an idle timeout);
* a v3 header is taken before its payload is waited for (`client.py:334`), so a
  timeout that keeps the connection leaves it in the middle of a frame;
* a consumer that holds a packet for longer than `idle_timeout` costs the
  connection, for the clock runs while it does (`client.py:455`);
* the first `negotiate()` of `collect(reconnect=True)` is not retried
  (`client.py:438`);
* when every v3 station was rejected, `negotiate()` raises after `END` was sent,
  and leaves the connection open (`client.py:394`, `aio.py:413`);
* the shell's `_sent_station` is set though `STATION` was rejected, and `DATA`
  then waits for a reply that does not come (`cli.py:541`);
* a record shorter than `MIN_PAYLOAD_DETECT`, or one whose length only the next
  record tells, waits for the next item (`client.py:321-331`);
* `collect()` moves the position before it hands the packet over
  (`client.py:500-503`), and an exception of `_print_packet()`, of
  `dumpfile.write()` or of `dumpfile.close()` (`cli.py:861`, `863`, `872`) passes
  both `finally` clauses, of which the outer one saves that position
  (`cli.py:880-885`): packets that are not in the dump are not asked for again,
  one for a failed print, the buffer for a dump file that cannot be written.  So
  it is when a run is interrupted in the loop body, or killed after a save with
  payloads in the buffer (`cli.py:769`: "Write all received payloads to FILE");
* of the location of a v4 selector only the length, and whether it is `*` or
  empty, is looked at (`streams.py:160-168`): `??_B_H_Z` is converted, to `??BHZ`
  (`streams.py:138-141`: "a wildcarded location other than ``*``" is "not
  convertible");
* a time window makes a reconnect ask for all of it again; `all_data` does not
  override a sequence number (`_commands.py:200-203`; `streams.py:31-32` says it
  does); the default `*` stream may be joined by others.

## 7. Plan

Done: all modules of section 2, and the theorems of section 4.

Left: `ResumesWhereItLeftOff` of the asyncio client as a theorem, and liveness,
which stays with TLC.
