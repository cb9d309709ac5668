# Verification of Pinhole

Pinhole is video chat in a shell. A server (the SFU) pairs two clients that ask
for the same session over TCP and forwards their frames over UDP. This directory
holds TLA+ models of the server and the client, the TLC configurations that
check them on small instances, and TLAPS proofs for every size.

| Module | What it is |
|---|---|
| `Rooms` | abstract specification of the registry: rooms of at most two clients |
| `Sessions` | the registry, `server/src/sessions.rs` |
| `SFU` | the server's tasks over the registry, `server/src/sfu.rs` |
| `Client` | the client's tasks, `client/src/client.rs` |
| `EdgeDetector` | the hand-off between the threads of `client/src/edge_detector.rs` |
| `Edges` | what that thread computes, `process_frame` |
| `Converter` | pictures to frames, `client/src/ascii_converter.rs`, `image_frame.rs` |
| `AsciiFrame` | frames and their bytes, `common/src/ascii_frame.rs`, the codec of `ascii_renderer.rs` |
| `TestPatterns` | `client/src/mock_frame_generator.rs` |
| `Renderer` | the screen, `client/src/ascii_renderer.rs` |
| `Video` | the way of a frame from one client to the screen of the other |
| `MCSFU`, `MCVideo` | instances for TLC |
| `SessionsProofs`, `SFUProofs`, `DeliveryProofs`, `ClientProofs`, `EdgeDetectorProofs`, `EdgesProofs`, `RendererProofs`, `VideoProofs` | proofs |

Definitions named in the source keep their names (`client_sessions`,
`udp_to_tcp`, `connected_notified`, `new_frame_available`). A definition whose
comment starts with "Mutant:" is not part of the model: it is a plausible bug in
the definition below it, which `PROJECT.json` substitutes to show that a
property notices it.

## 1. The system

### Components

**Session registry** (`server/src/sessions.rs`). State: three maps behind one
`RwLock` — session id → `Session` (two seats, two UDP addresses, the flag
`connected_notified`), TCP address → session id, UDP address → TCP address.
Operations: `ensure_session`, `add_client`, `register_udp`, `remove_client`,
`map_udp_to_tcp`, `mark_connected`, and the reads. Each takes the lock once, so
a single call is atomic; what is hard is every *sequence* of calls. Correct when
the maps agree with each other, nothing outlives the client it belongs to, and
routing is symmetric and stays in a session.

**SFU** (`server/src/sfu.rs`). One `handle_client` task per connection
(commands `JOIN`, `LEAVE`, end of stream; a mailbox of messages for the client)
and one `udp_loop` task for all datagrams. They share the registry and the
mailboxes. Hard: every pair of registry calls is a place for another task
(`ensure_session`/`add_client`; `is_connected` … `mark_connected`;
`notify_peer`/`remove_client`), `notify_peer` sends after releasing the lock,
`udp_loop` uses an address five accesses after finding it, `?` leaves a handler
from six places.

**Client** (`client/src/client.rs`). `run()` does the handshake (JOIN, wait for
OK, one PING), raises the connection flag, spawns three tasks and captures
frames until the flag falls. The control reader turns lines into the two watch
flags; the renderer and the sender wait for the peer flag. Hard: flags read
before a wait and used after it, notices that arrive together, a broadcast
channel that drops frames, an inner loop that looks at no flag.

**Edge detection thread** (`client/src/edge_detector.rs`). A frame buffer, a
flag and the edges, each behind its own mutex, between the converting thread and
the detector. Hard: the order of flag and buffer, two mutexes held at once, two
fields replaced one after the other, a loop that never sleeps.

**Edge detection, the arithmetic** (`process_frame`). From a picture to
gradients by two kernels, to the pixels that are strong and not exceeded by two
neighbours. Stateless; hard because a wrong term or a wrong neighbour gives a
picture that still looks like edges. Correct when it is the documented
convolution and does not depend on which way the picture is held.

**Frame conversion** (`ascii_converter.rs`, `image_frame.rs`). Each cell of a
frame gets a character, of an edge or of a brightness, from the pixel that
stands for it. Hard: the edges may be of an earlier picture, the frame is drawn
into again and again, three roundings and two clamps.

**Wire format and renderer** (`ascii_frame.rs`, `ascii_renderer.rs`). Two words
for the size and the characters in UTF-8. The renderer prints what differs from
`prev_frame`, through a buffered stdout whose writes may fail halfway. Correct
when only whole frames are taken for frames and `prev_frame` is what the
terminal shows, or will show.

**Test patterns** (`mock_frame_generator.rs`): two patterns by a counter.
**Logger**: a level filter before a write. **Camera and FFmpeg**: a child
process and a pipe.

### Interaction

    client                         server
    run() ── JOIN ──────────────▶ handle_client ── ensure_session, add_client ─▶ registry
          ◀───────────── OK/ERROR ──
          ── PING (UDP) ────────▶ udp_loop ─────── map_udp_to_tcp, get_peer_udp ─▶ registry
    control reader ◀─ CONNECTED ─ mailbox ◀─────── notify_peer
    sender ── frames (UDP) ─────▶ udp_loop ──────▶ renderer of the other client

## 2. The plan

In order of importance; the first six are in place.

1. `Rooms`, `Sessions`: the registry and what it promises.
2. `SFU`: the tasks of the server, with clients and network as environment.
3. `EdgeDetector`: the two-thread hand-off.
4. `Client`: the four tasks of the client.
5. `AsciiFrame`, `Renderer`, `TestPatterns`: the wire format and the screen.
6. `Edges`, `Converter`, `Video`: the arithmetic on pictures, and the way of a
   frame from end to end.
7. A composition of two `Client`s with `SFU`: what a client shows comes from the
   client it was told of; the end of one client is seen by the other.
8. Proofs: of every safety property of the runs, done; of the composition's
   steps, with the composition.

## 3. How the models correspond to the code

### Registry: `Sessions`, `Rooms`

A `HashMap` is a function with the value `None` for an absent key. A seat holds
the TCP address of its client; the channel stored beside the address belongs to
that connection and is named by it. `SessionManager`'s writing methods are
actions (`EnsureSession`, `AddClient`, `RegisterUdp`, `RemoveClient`,
`MapUdpToTcp`, `MarkConnected`), its reads are operators, early returns
included. The order in which `map_udp_to_tcp` meets the keys of the `HashMap`
is a choice among `Candidates`. Two specifications use them: `AnyCallSpec` (any
calls, any arguments, the unused `register_udp` among them), about which the
proofs are, and `SfuCallSpec` (the calls of `sfu.rs` when a connection is in one
session at a time), which the server is shown to implement. TLC explores the
registry under the server itself.

`Rooms` has two functions, the room and the bound UDP address of each client,
and three actions: Join (room not full), Bind (own host, unused address, at
most one), Leave. `Sessions` implements it with `room <- client_sessions` and
`port <- ` the address in the client's seat (`OwnUdp`).

### Server: `SFU`

A step is one access to shared state: one registry method, one send to a
mailbox, one line written. `pc[t]` says where the `handle_client` task of `t`
is; `fwd` holds the position and the locals of `udp_loop`.

| Code | Actions |
|---|---|
| accept, spawn (68–78) | `Accept` |
| JOIN (113–124) | `ReadJoin`, `Join`, `Reply` |
| LEAVE (125–130) | `ReadLeave`, `NotifyLeft`, `RemoveLeft`, `Reply` |
| end of stream, cleanup (106, 141–142) | `ReadEof`, `NotifyLeft`, `RemoveEof` |
| mailbox branch (95–103) | `Notify` |
| `?` on a read, a write, UTF-8 | `ReadError`, `WriteError` |
| `udp_loop` (147–189) | `Recv`, `FindPeer`, `FindSrcTcp`, `FindDstTcp`, `FindSession`, `CheckConnected`, `NotifySrc`, `NotifyDst`, `Mark`, `Send` |
| clients, network | `HangUp`, `Ping`, `SendFrame`, `Lose`; `Recv` may duplicate |

What failures exist is the constant `Faults` (`"tcp"`, `"lose"`, `"duplicate"`).
`LeavesBeforeJoin` says that a client in a session sends no JOIN, as
`client.rs` does; the proofs name it where they need it. Abstracted: contents
of datagrams (PING and frames are forwarded alike), the id inside `Connect`,
printing. One read of a connection is one command. Datagrams from one source
are a set (one in flight), because `udp_loop` treats the datagrams of a source
alike.

### Client: `Client`

`main`, `ctrl`, `rend`, `send` say where `run()` and its tasks are. The watch
channels are the two Booleans. The broadcast channel is two numbers, frames
captured and the last one the sender has passed; `Oldest` is what its capacity
leaves. The UDP socket is a sequence of frame numbers, 0 for a datagram that
`process_datagram` rejects; it holds `SocketSize` datagrams and drops what is
more. The renderer starts with a clearing of the screen that may panic
(`StartRenderer`), takes datagrams (`Take`), and calls `render()` (`Render`) when
a poll finds nothing (`WouldBlock`) or fails although datagrams wait
(`ReceiveError`). `rendered` is the frame `render()` was last called with. An error
that `render()` returns is ignored, so it makes no difference here; what is on
the screen after it, and that the next frame makes up for it, is in `Renderer`.
A panic in `render()` ends the renderer's task and nothing else: the client runs on
and sends, without a picture (`rend = "panicked"`). `ReadChunk` lets a read
return several lines, of which the code looks at the first only; no line is
split between two reads. The renderer's pacing and the capture's
sleep are left out: they delay steps, and steps may be delayed anyway. When
`run()` returns, `main` returns and the process ends with its tasks (`Alive`).

### Edge detector: `EdgeDetector`

Frames are numbers; the edges are the numbers of the frames their magnitude and
angle come from. Every acquisition of a mutex that is held over several
accesses is a step; a section with a single access is one step. `Stop` is the
public `stop()`, which nobody calls today.

### Pictures: `Edges`, `Converter`

A picture is a record of its size and a function from columns and rows to
pixels. Arithmetic is exact: an intensity is an integer in units of the
luminance coefficients, a magnitude is represented by its square, an angle by
its gradient, and contrast and brightness are fractions. A comparison with an
angle of 22.5 degrees becomes one of squares (`Flat`). A comparison of two
`f32` numbers that differ only in their rounding may turn out otherwise in the
code. What `get_edge_info` returns to `convert` is what `EdgeDetector` allows:
the edges of one picture, this or an earlier one, or of none (`EdgeInfos`).

### Bytes and the screen: `AsciiFrame`, `Renderer`, `TestPatterns`

Characters are code points, bytes numbers below 256, encoded and decoded as
UTF-8 does. That bytes are UTF-8 is said of positions: at each byte that does
not continue a character one begins, ends where the next begins, and is encoded
in the only way there is (`IsUtf8`). The size of a word is the constant
`WordBytes`, and `w * h` is taken modulo a word. The terminal obeys two commands,
clear and put: a cell shows what the last command says that concerns it
(`WriteAll`). `print!` goes to the buffer of stdout, which holds `Capacity`
commands; a flush writes all of it, or some and fails. `clear_screen` returns the error, `render` ignores or
returns it, `print!` panics (`PrintOk`, `PrintErr`, `PrintPanics`).

### From end to end: `Video`

One client sends, from the camera or a test pattern; the other shows. `Capture`
is `capture_frame`, `convert` and the new frame with its characters; `Generate`
is `generate_frame`. `Replace` is the next peer. `Receive` is `process_datagram`
and, of a frame, `render`: which of several waiting frames is rendered is in
`Client`, and a frame that is not rendered is one that was lost. The server
forwards bytes as they come (`SFU`), PINGs included. That `w * h` of a source
can be counted in a word (`VideoAssumption`) is so for the sizes of
`video_config.rs`; no frame that a machine can hold has more cells.

## 4. What TLC checks

Run with `tlc -config X.cfg M`. All runs take between a second and two minutes.

| Run (module) | Instance | Distinct states | Properties |
|---|---|---|---|
| `sfu_clients` (`MCSFU`) | 3 clients that JOIN once, 2 sessions, lost datagrams | 1 550 000 | `NoGhost`, `FramesStayInSession`, `NotifiedMeansTold`, `NoForgottenPair`, `RoutesSymmetric`, `RoutesAgree`, `ReplyComesFirst`, `RoomsSpec` |
| `sfu_rejoin` (`MCSFU`) | 2 clients behind one host, 2 sessions, one does JOIN, LEAVE, JOIN; TCP failures | 2 500 000 | `NoOrphanSession`, `SeatsAgree`, `PortsAgree`, `MembersSeated`, `MappingsLive`, `PortsSeated`, `UsesRegistry`, types |
| `sfu_live` (`MCSFU`) | 2 clients, 1 session, duplicates, fairness | 67 000 | `PairConnects`, `HangUpCleans` |
| `client` (`Client`) | 3 frames through a channel of 2, 2 notices, 2 frames from the peer among any number of other datagrams, a socket of 2, fairness | 206 000 | `LittleSentAlone`, `RendersNewest`, `RunEnds`, `FramesFlow`, `FramesRendered`, types |
| `edges` (`EdgeDetector`) | 4 frames, fairness, deadlock checked | 2 600 | `EdgesOfOneFrame`, `NoLostFrame`, `EdgesAdvance`, `EveryFrameOvertaken`, `StopEnds`, types |
| `video` (`MCVideo`) | 3 pictures of 4x4 pixels with channels 0..3, frames of 2x2 and 1x2, 6 frames of a pattern, a terminal of 2x2, a buffer of 1 command, 1 datagram in flight | 359 000 | `ScreenFollows`, `ShowsWholeFrames`, `ConvertFillsFrame`, `SobelMatchesKernels`, `EdgesTurnWithPicture`, `BrighterIsDenser`, types |

*Why these sizes.* A session has two seats: two clients fill it, a third is
refused, or takes the seat of one that left, which is what the races are about.
A second session is where a client, or a frame, could wrongly go. Two clients on
one host are enough to confuse their ports. A connection that joins, leaves and
joins elsewhere meets the leftovers of its first visit; client.rs itself joins
once, and its LEAVE is written after the connection has ended (line 275). A
channel of two and three frames make a receiver lag by more than it holds. A
socket of two can be kept from running empty by a stream that does not end. Four
frames let the detector be overtaken while it has one in hand. A picture of 4x4
pixels has four inner ones, which are neighbours in all four directions; the
three pictures have a straight, a diagonal and a corner edge. A board changes
its colours after five frames, so six are generated. Frames of two sizes make
the screen be cleared; a character of three bytes makes the bytes of a frame
more than its cells. A buffer of one command is written halfway in every way
that a longer one is. One datagram in flight is enough, as what came before it
is in `prev_frame` and on the screen. The bounds
(`MaxCommands`, `MaxFrames`, `MaxNotices`, `MaxArrivals`, `MaxFlight`) are guards in the
actions that count. `sfu_clients` uses symmetry: clients, each with its socket
and host, are interchangeable, and so are sessions. Runs with liveness do not.

*Deadlock* is checked where the system runs for ever (`edges`, whose only stop is
after `stop()`; `video`). The server's and client's instances stop when
the bounded commands, notices and frames are used up.

*Fairness.* `SFU`: weak fairness of each handler's own steps and of `udp_loop`
(the tokio runtime polls whatever is ready; steps that depend on a client —
accepting, commands, failures — are not promised); weak fairness of `Ping` (a
client that was let in goes on to send it); strong fairness of receiving from
each source, because a socket is a queue and the loop cannot pass a datagram by
for ever. `Client`: weak fairness of `run()` and each task; the capture loop has
no await, so this needs the multi-threaded runtime of `#[tokio::main]`. That the
renderer goes on taking means that receive errors pass. The inner loop of the
renderer renders when a poll finds the socket empty, and nothing in the code
makes it stop while datagrams keep coming: the stream of datagrams in the model
never needs to end, and TLC shows that frames may then never be rendered.
`FramesRendered` therefore has a premise, `PollsCatchUp`: the socket is not filled
for ever while the renderer polls, and a poll is made at one of the times when
it is empty (strong fairness of `WouldBlock`). A peer sends some thirty datagrams
a second and the loop polls without a pause while there are any, so it holds in
use; the code does not enforce it.
`EdgeDetector`: strong fairness of both threads. Weak fairness is not enough:
the detector takes the flag's mutex on each turn of a loop whose sleep is
commented out (line 111), and the standard mutex has no queue, so nothing but
the scheduler's irregularity lets `submit_frame` in. TLC shows that starvation
when `SF_` is weakened to `WF_`.

### Where the code does not do what it says

Each of these runs checks one property and finds it violated.

- `bug_ghost` (`NoGhost`): a failing read or write leaves `handle_client` by `?`,
  past the cleanup. The dead client keeps its seat, a session may stay full for
  ever, and the peer is never told.
- `bug_stranded` (`NoStrandedPair`): between `is_connected` and `mark_connected`
  one client leaves and another joins. `mark_connected` then marks a pair that
  was never told; no later datagram tells it, so neither sends a frame.
- `bug_crossed` (`FramesStayInSession`): behind one IP address a datagram is
  registered for whichever unregistered client the map yields first. Frames
  then go to a session their sender never joined.
- `bug_lost_ping` (`PairConnects`): the one PING is lost. No port is registered,
  no CONNECTED is sent, no frame is captured: both clients wait for ever.
- `bug_coalesced` (`PeerFlagFollows`): two notices in one read; the second is
  dropped and the peer flag stays wrong until another notice.
- `bug_suppression` (`EdgesAreMaxima`): on the two diagonals
  `non_maximum_suppression` looks at the neighbours along the edge and not along
  the gradient. Rows are counted downwards, so a gradient of 45 degrees points
  to (x+1, y+1). Diagonal edges are not thinned. `EdgesTurnWithPicture` holds
  nonetheless: the two pairs are exchanged, and turn into one another.

Further properties of `SFU` that one would expect and that TLC refutes, with the
instance of `bug_ghost.cfg` and `Faults = {}` unless stated:

- `NoPhantomPeer`: `notify_peer` looks up the channel under the lock and sends
  after it, so CONNECTED may come after the DISCONNECTED of the same peer; also,
  between a leaver's `notify_peer` and its `remove_client` a datagram can
  connect the pair again. The remaining client believes in a peer that is gone.
- `RefusedOnlyWhenFull` (as PROPERTY): the session that `ensure_session` found is
  removed by its last client before `add_client`, which then fails; the client
  reads "ERROR: session full".
- `SeatsAgree` with `LeavesBeforeJoin = FALSE` and `MaxCommands <- OneRejoins`: a
  second JOIN on a connection takes a second seat, and the end of the
  connection frees only the last one. `UsesRegistry` and the proofs that rest on it
  assume that clients do not do this.

## 5. What is proved

TLAPS checks these for all sets of clients, addresses and sessions, any
assignment of hosts, pictures and frames of every size and any number of them.
Assumptions: `None` is no address and no session (`AddressAssumption`), every
client has a socket of its own (`EnvironmentAssumption`), bounds are natural
numbers and sizes are not zero (`MaxFramesAssumption`, `ClientAssumption`,
`TerminalAssumption`, `WordAssumption`), pictures, weights and tables are what `Edges` and
`Converter` say (`EdgesAssumption`, `ConverterAssumption`), and a frame fits on
the terminal and its cells can be counted in a word (`VideoAssumption`).

**Registry, any caller** (`SessionsProofs`). `AnyInv` is `TypeOK`,
`MembersSeated`, `MappingsLive` and `PortsSeated` together; it is inductive as it
stands, one lemma per method. `MembersSeated` makes the second early return of
`remove_client` unreachable — that return would leave mappings behind — which is
why `MappingsLive` needs it. (The `unwrap()` calls in `map_udp_to_tcp` need no
invariant: their keys were found in the same maps under the same lock.)

**Registry, the server's calls** (`SessionsProofs`). `SfuInv` adds `SeatsAgree`
(reverse map against seats) and `PortsAgree` (UDP map against addresses in the
seats). They need each other: that removing a client frees *its* address needs
the seats to agree, and that a mapping is never made twice needs the ports to.
From `SfuInv` follow `RoutesSymmetric`, `RoutesAgree`, and that each call is a step
of `Rooms` or changes nothing (`SfuCallImplementsRooms`).

**Server** (`SFUProofs`). `ServerInv` is the types, what the locals of `udp_loop`
are bound to at each position (`LocalsBound`: the addresses it found are
addresses, although they may be stale), and that a task between
`ensure_session` and `add_client` has no session (`JoinsUnseated`). It gives
`SfuUsesRegistry`: every step of the server is a call of `SfuCallSpec`, failures
included, if clients leave before they join again. So all of the registry's
theorems hold of the server (`SfuImplementsRooms`). `SfuNoOrphanSession` needs
the registry's invariant and which handlers are joining; `SfuNoGhost` holds when
connections do not fail — `bug_ghost` shows that it needs that.

**Delivery** (`DeliveryProofs`), if clients leave before they join again.
`FramesInv`: the two addresses `udp_loop` has in hand, however old, belong to
clients that asked for one session (`AskedInv`: a client is in the session it
asked for, and with one JOIN never asks for another). It needs clients on hosts
of their own (`OwnHosts`) that join once (`JoinsOnce`), and `bug_crossed` shows
the first is needed. `FreshInv`: nobody can reach a connection whose reply is
not under way, as its client is not registered and no task that looked up a
peer, however long ago, has found it; `SfuReplyComesFirst` follows. For
`NotifiedMeansTold`, `DepartInv` says that while nobody of a session has hung up
no notice of departure is about and nobody is removed; so what `udp_loop` found
at its first lookup still holds at each later step, each of the two is told
before the next step and stays told, and the flag is set last (`LoopInv`). It
holds for clients that join once over connections that do not fail. Under the
same premises no pair is forgotten (`SfuNoForgottenPair`), for which `UntoldInv`
goes the other way: as long as a session has both addresses and no mark,
`udp_loop` is between two of its lookups, and each of them will find what it
needs, as who and what they look up stays while nobody departs. So what
`bug_stranded` shows takes a departure. `None \notin Line` says that having read
nothing is no line.

**Edge detector** (`EdgeDetectorProofs`). `HandoffInv` says who holds each mutex
at each position, that the buffer holds the last frame submitted unless it is
being filled, and that when nothing is on its way to the detector, what it has in
hand or has last written is that last frame. It is preserved by each of the
thirteen steps and gives `NoLostFrame`, `EdgesOfOneFrame` and `EdgesAdvance`.

**Client** (`ClientProofs`). `SendInv` adds to `LittleSentAlone` that nothing has
been sent alone while the peer flag is up or while the sender waits for a frame:
the sender passes the first wait only with the flag up, and each frame takes it
back there. `ScreenInv` is about the newest frame taken (`Taken`, in hand or the
last that was rendered): the socket holds the frames from the next one to the last
that arrived, each once and in order, and nothing is in hand outside the inner
loop, however it was left. Counting them through a bijection gives
`RendersNewest`. `TypeInv` adds to
`ClientTypeOK` that a frame is captured only where there is room for one.
`FlagFollowsSingleLines` is `PeerFlagFollows` for reads that return one line
(`~Coalesce`): what `bug_coalesced` shows is the only way in which the flag goes
wrong. `FlagInv` says that the last unread line is what the server said last, and
that the reply to JOIN, which `expect_ok` takes before the reader exists, is the
only line that is no notice.

**Pictures** (`EdgesProofs`, `VideoProofs`), for pictures of every size and all
weights, thresholds and tables. `SobelIsConvolution` unfolds the six terms of
each derivative and the rows of the kernels. `EdgesAreSymmetric` follows the
code: in the mirrored picture one derivative changes its sign, in the transposed
one the two change places; `Magnitude` and `Flat` do not notice, the sector turns
(`SectorSymmetry`, which rests on a gradient being flat in at most one
direction, `FlatOnce`), and the neighbours of the turned sector are the turned
neighbours, so the same pixels survive. `ConvertKeepsOrder` composes functions
that are monotone: contrast, brightness, clamp, weights and two divisions. An
invariant, what was captured is a picture, carries these to `Spec`.

**Wire format** (`RendererProofs`), for all characters, frames of every size and
words of every length. Recursive functions are first shown to be what they are
written to be: `Induction` is the least-number principle over the set where a
statement holds, `Recursion` builds the function step by step, and one lemma per
recursive function (`PlaceDef`, `NumbersDef`, `EncodedDef`, `GatheredDef`) gives its
equations. Decoding is proved from the end of a text: a character behind a text
is read behind what the text is read as (`TextAppended`), a text cut inside of
its last character is none (`TextCut`); each character's encoding tells its
length in its first byte and continues in the others (`EncodingOfChar`). Of words,
each digit is one quotient less 256 times the next (`Digit`). From this
`FrameRead` (what is sent is read), `PartRefused` (no proper prefix of a frame is
a frame, wherever it is cut), `MoreRefused` (nor is a frame with one more
character). `AcceptedIsSerialized` is the converse, about any bytes at all: the
text is passed from one beginning of a character to the next
(`TextIsEncoded`), the header is written back (`WordWritten`), and so what
`process_datagram` accepts is, byte for byte, what `serialize_frame` makes of the
frame it returns. It says of the number of characters what the code does, that it
is `w * h` *modulo a word*: that the product never wraps around is no theorem.

**Screen** (`RendererProofs`). Writing one list of commands and then another is
writing both (`WriteTwice`). `ChangesDraw`: what `render` prints turns the frame
before into the new one, because the cells that differ get one command each,
and a cell is in one column and row only (`IndexOfCell`). `RendererInv` is
inductive: what `prev_frame`, the buffer and the screen may be, that nothing was
printed before the first clearing, and `Follows`, which is `ScreenFollows` said
of the whole buffer: the screen *once stdout is written* is `prev_frame`. So a
flush that fails keeps it wherever it fails, as what is written and what is
left are together what was printed. A `print!` that panics ends the renderer,
and with it the claim.

**From end to end** (`VideoProofs`). `VideoInv` is `RendererInv`, that every datagram
in flight is some client's frame, serialized (`NetOK`), that `a_frame` has the
size of its source and holds characters only (`SenderOK`, which contains
`ConvertFillsFrame`), and `ShowsWholeFrames`. `WholeOrNothing` carries it through
`Deliver`: of a datagram, of a part of it, of more than it, or of a PING,
`process_datagram` makes the frame that was sent or none. `Convert` draws
characters only, as every index it takes is in its table (`CharOfIsChar`). From
`VideoInv` follow the types, `ScreenFollows`, `ShowsWholeFrames` and
`ConvertFillsFrame`.

**Only model-checked**: liveness and the fairness behind it (TLAPS has no proof
rules for either here, nor for ENABLED): `PairConnects`, `HangUpCleans`,
`RunEnds`, `FramesFlow`, `FramesRendered`, `EveryFrameOvertaken`, `StopEnds`. Each
safety property of the passing runs is a theorem. The runs that find a
violation have none, of course; what is proved beside them is under which
premise the property holds (`SfuNoGhost`, `SfuFramesStayInSession`,
`FlagFollowsSingleLines`, and for `NoStrandedPair` `SfuNoForgottenPair`).

## 6. What is not modelled

- The accept loop's end on an error of `accept` or the log (`sfu.rs` 69–70): the
  process ends.
- Several commands in one read, or half a command (`sfu.rs` 104–112): the second
  is dropped. `client.rs` has one command under way at a time.
- Datagrams whose header no client writes (`ascii_frame.rs` 40: `w * h` may wrap
  around, or reserve too much): sizes are those of `video_config.rs`.
- A terminal smaller than the frame, or a character that is two columns wide:
  the terminal is at least as large as the frame and every character fills a
  cell. What others write to it (`eprintln!`, `println!`) is not repaired by the
  renderer; `ScreenFollows` says what holds until they do.
- The rounding of `f32`.
- A stderr that cannot be written: `eprintln!` panics then, and in the control
  reader (`client.rs` 120) it does so before the connection flag falls, so that
  `RunEnds` does not hold.
- A frame that a client's sender had under way when the peer left: `SendFrame` of
  `SFU` sends only while the last line read is CONNECTED. A datagram that is
  delayed in `net` has the same effect.
- Camera, FFmpeg, command lines, logger: I/O and formatting. What the camera
  delivers is any picture, a failing capture an outcome of `Capture` in `Client`.
- Rates and memory: mailboxes are unbounded in the code and in the model.
