# Bodzio-Radio-Proxy in TLA+

`radio-proxy` downloads an ICY (Shoutcast) radio stream and plays it to standard
output or, with `-P`, forwards it by UDP to any number of listeners. This
directory models it in TLA+, checks the models with TLC and proves theorems about
them with TLAPS.

Paths below are relative to `src/radio-proxy/`.

## 1. The system

    radio --TCP--> server process --pipe--> client process --UDP--> listeners
                        ^                       ^                      |
                        |   SIGINT / SIGKILL    |   DISCOVER, KEEPALIVE|
                        +------- parent --------+<---------------------+

    without -P:  radio --TCP--> server process --> stdout (audio), stderr (metadata)

| Component | State | Operations | Talks to |
|---|---|---|---|
| Parent (`radio-proxy.c`, `sons.c`) | pids of at most two sons, result codes, blocked SIGINT and SIGCHLD behind signalfd | connect, negotiate, two forks, `main_wait`, `sons_kill`, `sons_wait`, `sons_terminate` | kernel signals, both sons |
| Negotiation (`net_utils.c`, `shout-client.c`, `shout_receive.c`, `shout_response.c`, `http.c`) | buffered stream, two header values | `tcp_connect`, request, `read_line`, status line, header fields | radio; leaves the rest of its buffer to the server process |
| Server process (`shout-client.c`, `net_utils.c`) | state of `shout_read_write_loop`, `struct my_stream` | `receive_audio`, `receive_metadata`, `readto`, `writen`, `fill_buffer` | radio, pipe or the two outputs |
| Client process, frames (`proxy-client.c`, `udp_message.c`) | `struct audio_meta_announcement`, one message buffer | `read_targeted_len`, `partial_read`, `proxy_handle` | pipe |
| Client process, listeners (`proxy-client.c`, `client-set.cc`) | map address -> time heard last | `datagram_handle`, `unicast_handle`, `client_set_*` | listeners, clock |
| Command line (`rp_command_line.c`) | `struct command_line_args` | `get_parameter_string` and one getter for each flag | parent |
| Request printing (`shout_request.c`) | a resizable string and a result | `print_request_line`, `print_header_field` | negotiation |
| Sockets and multicast (`udp_sockets.c`, `multicast.c`, `ifi.c`) | one socket and its groups | `udp_sockets_init`, `mcast_join`, `get_ifi_info` | kernel, client process |
| Strings (`objective_c/`) | blocks of memory and the objects that own them | new, clone, move, append, clear, raw_destructive, delete | request printing, `read_line` |
| Error messages, `icy-client.c` | none | printing; not built | - |

What is hard in it: two processes count bytes independently and must never
disagree; the pipe is bounded and frames cross it in pieces; a map is erased
from while it is walked, with a clock that is read several times per decision;
signals coalesce, reach the whole process group, and race with the deaths they
cause; failures of one stage are sometimes reported as successes of the next;
lengths and results change between signed, unsigned and 16-bit types on their way.
Every such place is listed, with its line and the properties that watch it,
under `hazards` in `PROJECT.json`.

## 2. The modules

| Module | Models | How state and actions correspond |
|---|---|---|
| `Relay` | what server and client process promise together | `blocks` cut from the body, `out` datagrams; no pipe, no buffer, no counters |
| `AudioPipe` | server process, pipe, client process | variables carry the names of the C fields (`to_read`, `smallread`, `read_cnt`, `targeted_len`, `fill_ptr`, `audio_sum`, `payload_len_set`); one action per blocking call with everything the code does until the next one |
| `AudioPipe_proof`, `Relay_proof` | theorems about `AudioPipe`; that it implements `Relay` | |
| `Split` | what the server process promises without `-P` | `taken`, `kind` and `quota` of the body, `out` and `err`; no buffer, no chunks, no partial writes |
| `Playback` | server process without `-P` | `buff`, `position`, `read_cnt`, `eot` of `struct my_stream` cell by cell; `left` and `ptr` of `writen`, `len` of `readto`; one action per `read(2)` and per `write(2)`, which may take a part or fail |
| `Playback_proof` | theorems about `Playback`; that it implements `Split` | |
| `ClientSet` | event loop of the client process and `struct client_set` | `connected` is the map with ages for times; `Select`, `Receive`, `Reply`, `Refresh`, `Visit`, `PassDone` follow `run_proxy_loop` |
| `ClientSet_proof` | theorems about `ClientSet` | |
| `Supervisor` | parent, its sons as the kernel sees them | `process` (unborn, running, zombie, reaped), pending signals, `struct sons`, the clock of `sons_wait` |
| `Supervisor_proof` | theorems about `Supervisor` | |
| `Negotiation` | what the parent does before it forks | `pc` follows `tcp_connect`, `send_request_message`, `receive_status_line`, `receive_header_fields_CRLF`; `PrintRequest` prints the request piece by piece; `request`, `left` and `ptr` of `writen`, one action per `write(2)`, which may take a part or fail |
| `CommandLine` | the command line, as operators | `ParseCommandLineArgs(argv)`; one operator per getter |
| `Startup` | `Negotiation` and `CommandLine` composed with the start of the client process | `stage` follows `main`; `client` follows `run_proxy_client_process`, `udp_sockets_init`, `mcast_join` and the beginning of `run_proxy_loop` |
| `Startup_proof` | theorems about `Negotiation` and about `Startup` | |
| `Text` | what `my_string.h` promises | a text per object, all or nothing |
| `Strings` | the two classes of strings over a heap | `heap` is the cells of every block, `object` the fields of every object; one action per operation, with the allocations that fail and the blocks that move |
| `Strings_proof` | theorems about `Strings`; that it implements `Text` | |
| `Induction_proof` | induction up to a number, for the proofs above | |
| `MC*` | small instances | values of the constants only |

Interfaces between the models. `AudioPipe` starts with what `Negotiation` leaves:
any `metaint`, and any remainder of the buffer or its end of stream. `ClientSet`
sees a frame completed by `AudioPipe` as one unit of `pending`; the turns of
`proxy_handle` that only read a part of a frame do not touch the map. In
`Supervisor` the negotiation is `ForkServer` or `ServiceFails`, and a son that
leaves its loop, crashes or calls `exit` is `Die`; that a son obeys SIGINT,
which `Supervisor` assumes of sons that are not stubborn, is `ServerObeysSignal`
of `AudioPipe`, `PlaybackObeysSignal` of `Playback` and `ClientObeysSignal` of
`ClientSet`. `Startup` ends where these models begin: with `client = "serving"`
`ClientSet` and the reader of `AudioPipe`; its `dead` and `crashed` are `Die` of
`Supervisor`. `Negotiation` uses what `Strings` shows of appends: they add all or
nothing.

A definition called `X_Y` is a plausible mistake in `X`. `Next` never uses it; it
is there to see that a property notices it (`mutants` in `PROJECT.json`).

### Abstractions

* A byte of the stream is its position in it; a datagram therefore tells which
  bytes it carries. A length is one cell of the pipe, because the two bytes are
  written by one `write(2)` (less than `PIPE_BUF`) and read by one `read(2)`.
* `select` reports a pipe writable when there is room for what `writen` is about
  to write; what is written fits in `PIPE_BUF`, so a write is whole.
* SIGINT is never read from its signalfd, so it stays pending: `interrupted` only
  grows. A forked son starts without it.
* The clock is ages (`ClientSet`) or seconds since `sons_wait` began
  (`Supervisor`). It does not go backwards; the code uses the wall clock.
* A line of the response is well-formed or not; its name is a sequence of parts,
  because the code compares beginnings of names. Any line may follow any other, which
  covers the lines that lost characters because `read_line` ignores an append that
  fails (`net_utils.c:210`).
* The outputs of `Playback` are ordinary descriptors: a write takes any part of what
  it is given, or fails. A byte that is not of the body is 0, and so is all memory
  around the buffer.
* `argv` leaves out the name of the program. `Numeral` is what `strtoull` makes of the
  arguments that are numbers.
* `Strings` leaves out the memory of the objects themselves. A byte that nobody wrote,
  or that lies behind the first NUL, is `Junk`.
* Which interfaces `get_ifi_info` lists, which of them have multicast, and on which a
  group can be joined, is a choice of the environment.
* The request is pieces (words, spaces, line ends), and a write takes some of them: a write
  that ends inside a word is not told apart from one that ends before or behind it, and a
  failing write, which goes back one byte, goes back one piece.
* `metaint` is a `size_t` up to the end of `Negotiation`. `AudioPipe` and `Playback` begin
  with one below 2^63; with a larger one `to_read` of `receive_audio`, an `int64_t`, is
  negative, and the server process ends before it reads anything (`shout-client.c:111-120`).
* The operands of `|` in `main` are evaluated from left to right, as gcc does;
  C leaves it open.

## 3. The runs

Bounds: `AudioPipe` has metadata every 3 bytes or none, frames of at most 2 bytes
(256 in the code), metadata units of 2 bytes (16), a message of 2 bytes (4080), a
stream buffer of 3, a pipe of 4 cells and 9 bytes of stream.
Audio between two metadata blocks then takes a full and a partial chunk, the
buffer splits frames and the length byte at every place, a frame crosses the pipe
in pieces, the pipe fills up, and the run reaches the second round of metadata.
`Playback` has the same sizes and at most one write that fails: the first one ends
the promise. Each write takes 1 byte or more of up to 3, so pieces are taken at once,
in two parts and byte by byte.
`ClientSet` has three listeners and room for two, bursts of two datagrams (three
in the code), a timeout of one second, one datagram and one frame waiting; two
listeners and room for one for liveness. `Supervisor` is complete but for its
patience, 3 seconds instead of 60, enough for a death, a new computation of the
time left and the end of it. `Startup` has a `size_t` of 4 bits with numbers outside it on both
sides, two addresses at most, a buffer of two lines (fields may repeat without end), memory
that runs out before the first, fifth or ninth piece of the request or behind the last, writes
that take any number of its twelve pieces and one of them that fails at any place, words of
4 bits, two network interfaces in any list and with or without multicast, and names of lengths
around those at which buffer, datagram and word end. Its command lines, about a hundred, are
the three arguments that are needed, with any flag, any flag and a value, or some pairs of
flags before or behind them or in place of the third; the numbers are around 0, the greatest
port and timeout, and the width of the type. `negotiation_incomplete` has `Negotiation` alone,
with two writes that fail.
`Strings` has two objects and three blocks, room for a `realloc` that moves; blocks of
at least 2 bytes (16) and texts of at most 4, so that a text needs no growth, one or
two, and one text that was handed out. Objects and blocks are symmetric.

Deadlock is checked in `strings`, where an object can always be deleted or made. It is
not checked in the others: those programs may stop (the stream ends, a process exits,
nothing arrives).

| Run | Shows |
|---|---|
| `pipe` | `InSync`: the reader is at the frame it takes itself to be at, and every datagram is one frame, with no byte left from another; `OversizeIsFailure`: the only frames that do not fit the message come from failed reads; `BodyIsDivided`: the datagrams, put one behind the other, are the body with metadata where the protocol of the radio has it, without the length bytes; `ImplementsRelay`: the refinement of `Relay`; complete frames reach the listeners, a full pipe is drained, the server process obeys SIGINT |
| `playback` | `BufferIsBody`: the buffer holds the next bytes of the body, and `writen` ends where its piece ends however writes were split; `ImplementsSplit`: the refinement of `Split`, until a write fails; nothing received is kept back; SIGINT ends the process |
| `listeners_safety` | `WalkConsistent`: erasing while walking skips nobody; `LoopConsistent`: what was decided before the clock moved is still sound; `DroppedForCause`, `JoinsByDiscover` |
| `listeners_liveness` | no starvation between announcements, audio and signal; silent listeners are forgotten |
| `parent` | `SonsAreOurs`, `DeathNotLost`, `NoOrphans`, `ExitCodeHonest`, `KillOnlyStubborn`; SIGINT or a death ends everything, stubborn sons included |
| `startup` | `RequestIsWhole`: a response is awaited only when all of the request was sent, wherever memory ran out, writes were split or SIGINT came; what was sent is a beginning of it until a write fails, and each failure adds a piece; `TypeOK` of the negotiation: `metaint` is unset or a `size_t`; `ArgumentsArePairs`: the scans of `argv` mean what its pairs mean; `AsksWhatIsMeant`: what the radio reads of the wish for metadata is what those pairs say; `ServesWhatWasAsked`: no failing call leads to a client process without its port or without one of the memberships it could have; `IamLengthHonest`; SIGINT ends an endless response, and a request that the radio does not take |
| `strings` | `LengthIsStrLen`: two ways of computing a length, growth and rollback agree with the cells; `OneOwner`: no block is lost or owned twice; `ImplementsText`: the refinement of `Text` |

Runs that are expected to find a violation state what the documentation says and
the code does not do (`findings` in `PROJECT.json`):

| Run | Documentation | Code |
|---|---|---|
| `pipe_timeout` | the loop returns on a timeout (`shout-client.h:29`) | at the length byte of metadata it goes on, with a length of 65529 |
| `playback_writefail` | `readto` takes `len` bytes and writes them, or fails (`net_utils.h`, `net_utils.c:320`) | a `write(2)` that fails counts as -1 bytes written, and a byte before is written again |
| `listeners_race` | who sends DISCOVER begins to receive (`Task.md:123`) | not when it expires between `contains` and `refresh` |
| `parent_exitcode` | 0 after SIGINT (`radio-proxy.c:188`, `Task.md:139`) | 1 when a son obeys Ctrl-C before the parent looks |
| `negotiation_incomplete` | an incomplete response is refused (`shout-client.h:18`) | a failure among the header fields ends them as the empty line does |

Smaller disagreements that are in the models but have no run of their own:

* A DISCOVER of a listener that is connected is not answered (`Refresh`; `Task.md:95`
  calls IAM the answer to it).
* Listeners beyond the 64th are dropped by a pass instead of being sent the datagram
  (`Visit`; `client-set.h:41` says all of them are).
* `sscanf("%zu")` accepts and wraps a negative metaint (`Parse`;
  `shout_receive.c:12-13` says it is refused).
* A frame made up from a failed read is longer than `PAYLOAD_SIZE` and never leaves the
  pipe (`Fits`, `OversizeIsFailure`; `proxy-client.c:11`).
* A radio without `icy-name` makes the client process crash (`SetIamCrashes`).
* When no interface is found the kernel chooses where to join; when interfaces are listed and
  none of them has multicast, nothing is joined and nothing fails (`ListInterfaces`,
  `multicast.c:21`; `udp_sockets.h:18-23` promises a membership or an error). The last
  conjunct of `ServesWhatWasAsked` says when this happens.
* A response without `icy-metaint` is agreed to although metadata was asked for
  (`EndHeaders`; `shout-client.h:18-21` says it is refused). With the name spelt
  `icy-metatint` (`http.c:29`) this is so with every radio that sends the field, and what
  follows is passed on with its metadata as audio.
* Because of the failing write of `playback_writefail`, which is the same `writen`, a request
  whose sending failed in between is sent with a byte too many (`SendFails`; the first
  conjunct of `RequestIsWhole` counts them).
* A listener that was sent the IAM stays outside the map when memory runs out (`AddClient`).
* A value that is spelt like a flag is refused, or found as the flag
  (`GetParameterString`; hence `Plain` in `ArgumentsArePairs`).

### Fairness

Every liveness property is checked under weak fairness of the processes' own
steps, and of nothing that the radio, the listeners or the user do:

* `AudioPipe`: server and client process are scheduled. The server process always
  gets an answer from its `select` on the socket because the stream always has a
  timeout (`-t`, 5 seconds by default).
* `ClientSet`: the loop is scheduled. No datagram, frame or second has to come.
* `Supervisor`: the parent is scheduled and the clock does not stop; a son that was
  killed, or that was interrupted and is not stubborn, ends.
* `Playback`: the process is scheduled. A wait for the outputs ends with room or with
  the signal, because `writen` waits for both.
* `Startup`: the processes are scheduled, and their waits end by data, failure or
  timeout. `connect` has no timeout of its own; the kernel's ends it. That the radio takes
  the request is not assumed: `writen` waits for it without a timeout, so while nothing is
  pending the fair steps (`Own`) leave sending out.

## 4. The proofs

All theorems hold for every value of the constants that the named `ASSUME`s admit.

`AudioPipe_proof`, under `ConstantsAssumption` (sizes are natural numbers of the C
types, a full chunk fits the message and every metadata block does, and a full
buffer fits the pipe):

* `TypeCorrect`: `TypeOK` is inductive by itself. The one delicate type is the
  unsigned 16-bit length, into which `FailedSize` puts a negative code.
* `ProcessesInSync`: `InSync` is inductive relative to `TypeOK`. It has five parts:
  `FrameLayout` (the frames lie in the pipe one after the other, each a header and
  consecutive bytes), `FrameKinds` (each frame is of the kind that is due after its
  predecessors), `WriterAtDue` (the state of `shout_read_write_loop` is what is due
  after the last frame), `ReaderInSync` (the fields of the client process are what is
  due after the frames it has handled, and `consumed` is at that place of the pipe) and
  `HandledFaithful` (each datagram is its frame). No part is inductive without the
  others: the kind of a frame is not in the pipe, so the only reason why reader and
  writer agree is that both follow the same function of the frames before, `Due`. Writer
  steps disturb the first three parts (`FinishFrameDue` is the lemma that links the
  counting of `receive_audio` to `Due`), reader steps the other two
  (`InSyncPartialRead`: the bytes at hand are a beginning of the frame;
  `InSyncFinishMessage`: the counting of `proxy_handle` advances `Due`).

`Relay_proof`, under the same assumption, adds where in the body a frame begins.
`FramesFollow` says of each frame that it can come after its predecessor: audio directly
after it, at most a chunk and at most what is left before metadata; metadata after one
length byte, or with a made-up length after none. It is inductive with `TypeOK` and
`InSync`, because the frame about to be written (`NewFrame`) and the place of the length
byte are parts of it. Three theorems follow:

* `PipeRelays`: every step of the implementation is a step of `Relay` or none. A frame is
  accepted by the step that completes it, a header without payload or the last copy
  (`FrameAccepted`); it is forwarded by the step that finishes its message
  (`FinishForwards`), which by `InSync` never comes before the frame is complete.
* `OversizeComesFromFailure`: audio fits the message because a chunk does, metadata because
  every length byte makes a block that does; what remains is a made-up length.
* `BodyArrivesDivided`: `BodyIsDivided` speaks of bytes and of the number of bytes of audio
  in front of one, not of frames and counters. Every frame takes at least one byte of the
  body (`FrameAdvances`), so frames ascend (`FramesAscend`, by induction over the frames)
  and each byte up to the last one sent belongs to one of them or is the length byte in
  front of it (`FrameOfByte`). `AudioCounted`, by induction as well, connects the counters
  with the bytes: the audio of the first `n` frames is a whole number of portions and what
  `Due(n)` has counted since. A gap is then a length byte after a whole portion
  (`GapsAreLengths`), and audio does not go on there, because between two multiples of
  `metaint` there is none (`AudioStops`, `BetweenMultiples`).

`ClientSet_proof`, under `ListenersAssumption` (a finite set of addresses with a total
order, positive limits). The invariant is `TypeOK`, `LoopConsistent` and
`WalkConsistent` together: `pending` stays a natural number only because the pipe is
served when it has a frame, which `LoopConsistent` carries through the announcements;
`WalkConsistent` makes the counter of the send loop a fact about the map, from which
`DropsAreForCause` follows. The heart is `WalkVisits`: a visit moves the least listener
ahead of the iterator behind it, or out of the map. `JoiningIsByDiscover` and
`DropsAreForCause` are action properties derived from the invariant.

`Supervisor_proof`, under `PatienceAssumption`. `SonsAreOurs`, `DeathNotLost` and
`NoOrphans` are inductive together with `TypeOK`. `ExitCodeHonest` needs `SignalOrder`,
which remembers why the parent is where it is (a death that came first stays readable
until `main_wait` has looked, because nobody else reads SIGCHLD before), and
`KillOnlyStubborn` needs `Timekeeping` (what is left and what has gone make up the
timeout, through every new computation of it). These two are auxiliary; the six
properties follow from the whole invariant, `ParentInv`.

`Playback_proof`, under `PlaybackAssumption` (sizes are natural numbers of the C types,
and at most `MaxErrors` writes fail). The inductive invariant is `TypeOK`, `BufferIsBody`
and `CopyHasWork` (a copy has something left to copy, no more than its chunk). The counter
of `writen` may grow by a failing write, so its type has a bound that depends on `errors`.
`Ready` describes what every beginning of a piece leaves behind, so that the ways to
begin one are proved once. For the refinement of `Split`, `PlaybackSplits`, `Advances` says
what writing part of a piece does to the place in the body and `Place` collects all that
`Split` sees; fills and ends leave it alone, `TakeSize` and a failed read of the length byte
change only what is expected, and a write that fails is the abstract failure after which
`Split` promises nothing.

`Startup_proof`, first under `NegotiationAssumption` alone (any set of integers as numbers
that radios send, any positive width of `size_t`, any number of writes that fail), about
`Negotiation`. The inductive invariant is `NegotiationInv`: `TypeOK`, and `SendInv`, which
ties `left` and `ptr` of `writen` to what `write(2)` has taken. Without it neither the types
of these two nor anything about `sent` is inductive: that `left = 0` means that all was sent
is true only because each failure moves `left` and `ptr` by the same amount.

* `NegotiationTypes`: `metaint` stays a `size_t` only through the remainder of `Parse`
  (`ParseType`), `left` within the request and its failures only by `SendInv`.
* `RequestsAreWhole`: by induction over the pieces, `PrintAll` has printed all of them or its
  result is not 0, and a result that is not 0 is kept (`RequestPrinted`);
  `PrintMessage` looks at it. From there `SendInvPart` follows a write that takes any part of what is left,
  `SendInvFails` one that fails, and SIGINT in between leads to no state in which a response
  is awaited.

Then, about `Startup`, also under `StartupAssumption` (any widths, a header that is not
empty, a datagram shorter than a word), `CommandLineAssumption` (the limits are ordered) and
two that tell special values apart, `EmptyArgAssumption` and `ArgvsAssumption`: `EMPTY_ARG`
is no argument and nothing that is made of one, the null pointer is neither `yes` nor `no`,
and a refusal is no record of arguments. In the code these are results of a function or
pointers, and what it found comes back through a pointer.

* `StartupTypes` reuses the step lemmas of the negotiation: a step of the start is the
  parsing of the command line or one of the negotiation, and `Untouched` says that the
  parsing comes first.
* `ScanReadsPairs`, an action property: `GetParameterString` looks for a flag at every place
  of `argv`, and is right to stop at the first. If that place is odd, it is the first pair
  with that flag; if it is even, the flag stands in the place of a value, the command line
  is not plain and is refused.
* `AsksAsMeant` joins all of this: the scan reads the pair of `-m`, an accepted value is a
  choice (`MetadataMeant`), the choice is kept to the end (`AskInv`), printed whole and sent
  in order (`SendInv`), and before the command line is accepted nothing is sent
  (`NothingSent`).
* `IamsAreHonest` is arithmetic (`IamFits`): a name that does not fit 16 bits fills the
  buffer, and a full buffer is too long for a datagram by at least one header.
* `ServesAsAsked` follows from `ClientInv`, which says for every stage of the client process
  what it has got by then; while it joins, it has joined exactly the interfaces that are no
  longer to do. The theorem does not say that a group is joined: where every listed
  interface lacks multicast it is not (`ListInterfaces`).

`Strings_proof`, under `StringsAssumption` (characters are neither `NUL` nor `Junk`, texts
are sequences of them, the null pointer is no block and no text, a minimal block has room
for one character and its `NUL`):

* `BlocksHaveOneOwner`: the invariant is `OneOwner` written block by block (`Owners`), with
  the fact that objects are records. What `append_str` writes does not matter for it, only
  where the block is afterwards.
* `TypeCorrect` and `LengthsAgree`: `TextInv` adds that the block of every object in use
  holds a text, letters up to a `NUL` at the length that the object's fields tell. Appending
  is followed by induction over the characters: after each, the cells hold the old text and
  the characters so far, or `realloc` has failed and the old text is still a beginning of
  them, so that the `NUL` that `Rollback` puts at the old length restores it.
* `StringsAreTexts`: with `TextInv`, every operation is its counterpart in `Text`; `OneOwner`
  is what keeps an operation on one object from showing in another.

`Induction_proof` is what several of these rest on. The library states induction with an
operator as parameter, which the installed provers cannot instantiate; stated for a set
(`0` is in it, and with `n` also `n + 1`) it is a formula of first order and follows from the
least element of a set of naturals. So the recursive functions of the models (`after` in
`PrintAll` and `AppendEach`) and the sequence of frames can be reasoned about.

Only model-checked: liveness, because fairness and `ENABLED` are beyond the prover. Every
invariant, every action property and all three refinements that the passing runs check are
theorems.

## 5. Not modelled

* Error texts (`my_error.c`): only printing; the codes are in the models.
* `icy-client.c`: not built by the makefile.
* The radio-client of part C of `Task.md` is not in the repository.
* A clock that is set back or forward (`client-set.cc:40` uses the wall clock): every
  property about timeouts would be false, and no document promises one.
* The characters of a line, the text of a target and the conversion of addresses:
  `CommandLine` and `Negotiation` keep what the control tells apart.
* `get_ifi_info` does not close the socket it asks (`ifi.c`); descriptors are not counted.

## 6. Plan

What is left is small:

1. `Negotiation`: a line that lost characters (`net_utils.c:210`) as a line of its own kind,
   if a property can be found that the code keeps.
2. `Playback`: the counterpart of `BodyIsDivided` for the two outputs. `Split` states it byte
   by byte already; what is missing is the count of the audio in front of a byte.
