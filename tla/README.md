# A TLA+ development of Erizo

Erizo is a multipoint control unit for WebRTC: a C++ library that negotiates
peer connections (ICE with libnice, SRTP keyed by SDES or DTLS), and forwards a
publisher's media to its subscribers. This directory holds TLA+ models of its
concurrent core, the TLC configurations that check them, and TLAPS proofs.
Paths below are relative to `src/src/erizo/`.

## The system

| Component | State it keeps | Operations | Threads that run it |
|---|---|---|---|
| `WebRtcConnection` | remote and local description, two transport pointers, `globalState_`, source and sink SSRCs, `sendQueue_`, `sending_` | `setRemoteSdp`, `getLocalSdp`, `updateState`, `deliver*`, `onTransportData`, `queueData`, `sendLoop`, `close` | application, both nice threads, its own sender thread, other connections' nice threads |
| `Transport` (`DtlsTransport`, `SdesTransport`) | `state_`, SRTP channels, `readyRtp/Rtcp`, `protectBuf_` | `updateIceState`, `onNiceData`, `onHandshakeCompleted`, `write`, `close` | nice thread, writers |
| `NiceConnection` | `iceState`, `comp_state_list`, local candidates, agent, GLib loop | `init`, libnice callbacks, `setRemoteCandidates`, `sendData`, `close`, `join` | its own thread; `setRemoteCandidates` on any thread in `updateState` |
| `dtls/DtlsSocket`, `dtls/DtlsTimer` | `mHandshakeCompleted`, `mReadTimer`; `mTimer`, `mValid` | `startClient`, `handlePacketMaybe`, `doHandshakeIteration`, `expired`, destructor; `addTimer`, `updateTimer`, `fire` | nice thread, whoever polls the timer; the destructor on the thread that closes |
| `OneToManyProcessor` | map of subscribers, publisher | `addSubscriber`, `removeSubscriber`, `updateSsrcs`, `deliver*`, `closeAll` | application, publisher's nice thread, subscribers' nice threads |
| `SdpInfo` | media, crypto lines, candidates, payload type maps | `processSdp`, `getSdp`, `supportPayloadType` | application; maps read by all |
| `SrtpChannel`, `DtlsFactory`, OpenSSL glue, `rtputils.h` | wrappers and bit layouts | | |

How they interact. `setRemoteSdp` builds a transport per medium; a transport's
constructor starts its nice thread. That thread's callbacks climb
`NiceConnection -> Transport -> WebRtcConnection::updateState`, and `updateState`
climbs down again into *both* transports to hand over the remote candidates.
Media goes up the same way to `onTransportData`, across to the
`OneToManyProcessor`, and down through each subscriber's `deliverVideoData`,
`Transport::write` and `queueData`; the sender thread of the subscriber takes it
from the queue to its agent. Shared state without a lock: `iceState`, `state_`,
the transport pointers, the SSRCs, the map of subscribers, the packet buffer of
a fan-out.

What is hard: `updateState` is entered by three threads in any order; `iceState`
has two writers; a constructor publishes callbacks before its object is
published; two parties own a timer through a validity bit, and a destructor on a
third thread without their lock; a `std::map` is walked while it is relinked; `close()` deletes what
other threads use; one buffer is rewritten by every subscriber in turn.
`PROJECT.json` lists each hazard at its line with the properties that cover it.

What makes each part correct: READY is announced when, and only when, the
channels are keyed and the SSRCs known, and is not taken back (set-up); a
transport answers with its own candidates (gathering); no timer pointer dangles
and no old timer disturbs a socket, a handshake ends (DTLS); the queue keeps
order, at-most-once and its limit (sending); `close()` returns, and no thread is
left that uses what it freed (teardown); every subscriber's peer gets each packet
once under its own payload type, and its reports are recognised (fan-out).

## Modules

| Module | Models |
|---|---|
| `ConnectionSetup` | `setRemoteSdp`, both transports' threads, their ICE and key exchange, `updateState` |
| `MCConnectionSetup` | the sets of offers of its runs |
| `ConnectionSetupProofs` | theorems about it |
| `DtlsSocket`, `MCDtlsSocket` | a client socket, its timer context, the datagrams |
| `DtlsSocketProofs` | theorems about it |
| `DropTailQueue` | the abstract promise of the send queue |
| `SendQueue` | `write`, `queueData`, `sendLoop`, `close` |
| `SendQueueProofs` | the refinement, for all constants |
| `Teardown` | `SendQueue` composed with the nice threads, their GLib loops, and the whole of `close()` |
| `TeardownProofs` | it implements `SendQueue` and leaves nobody behind |
| `Gathering`, `MCGathering` | `cb_candidate_gathering_done` of several transports |
| `GatheringProofs` | what it gathers when no other transport does |
| `SdpInfo` | `processSdp`, the payload type maps, `supportPayloadType`, `getSdp`: pure operators |
| `OneToMany`, `MCOneToMany` | the fan-out of packets from peer to peer; extends `SdpInfo` |
| `SdpInfoProofs` | what `processSdp`'s loop computes, for descriptions of any length |
| `OneToManyProofs` | theorems about the fan-out; extends `SdpInfoProofs` |
| `LeftFold` | a lemma that unrolls a loop written as a left fold |

Operators whose comment begins with "Mutant" are not part of any specification:
each is the definition that follows it with one plausible mistake, and a run
that uses it in place of the definition must fail. They show that each property
depends on the code it is about.

### ConnectionSetup

One action per critical section or callback; threads are `"app"`, `"video"`,
`"audio"` (each transport's nice thread) and `pc` says what each is doing. A
thread whose `pc` is a transport state has called `updateState` with it
(`Transport::updateTransportState`) and waits for `updateStateMutex_` or holds it.
`UpdateBegin` evaluates the conditions and sets `temp`; `todo` are the
`setRemoteCandidates` calls to make, each split where the agent has the
candidates but `iceState` is not yet written (`GiveCandidates`, `MarkReceived`);
`UpdateEnd` stores `globalState_`. The conditions are evaluated at once: between
their reads another thread can only advance the states that were read, and its
own report then waits for the mutex. `GetLocalSdp` is the application's call of
`getLocalSdp` after `setRemoteSdp` returned, one step per transport because the
nice threads run between them: `processLocalSdp` only adds candidates when
`iceState` says they were gathered. `asked` remembers in which state the call
found the connection, `answer` which media have candidates in the answer. An offer is a record of what the code reads
of it: bundle, DTLS or SDES, rtcp-mux, the media, their crypto lines and SSRCs.

External, and what is assumed of it: libnice reports a component ready or failed
once, and only after it was given candidates; a peer answers the client's
flights; the first media packet arrives after the transport is READY, and media
has a sink. The DTLS handshake is two exchanges here (`hello`, `finished`), its
machinery is `DtlsSocket`. A flight is lost when `sendData` finds `iceState` not
READY: that is how an overwritten `iceState` reaches the handshake.

### DtlsSocket

`doHandshakeIteration` begins with what `SSL_do_handshake` reports: `Complete`,
`SendFlight` (WANT_READ with output), `WaitForMore` (WANT_READ without), `Fail`; what
an iteration does then to the timers is one action per critical point: `Reset` (after
`handshakeCompleted`), `Rearm` (the old timer invalidated, a new one made), `Add`
(`addTimer`, and the flight is written). `iter` says where it is. `handshakeMutex_`
keeps iterations apart, so `Enter` is their common guard. The destructor takes no
mutex: it runs on the thread that closes (`DtlsTransport::close`, before the nice
thread is joined), in two steps (`BeginStop` reads `mReadTimer`, `EndStop`
invalidates what it read), wherever the iteration is. `raced` remembers that the two
overlapped. Then the program is undefined: `addTimer` may delete the timer the
destructor is about to invalidate, or the iteration makes a valid timer for a
socket that is gone. `NoDanglingTimer` and `OldTimerIsInvalid` say in their formulas
what they exempt there, and claim the rest of every interleaving, the
overlapping ones included. An iteration that begins after the destructor is
not modelled: `onNiceData` would use a deleted object, which is `UsesOnlyLive`.

`heap` gives each timer cell a life (free, valid, invalid), so that a deleted
timer is distinguishable from an invalidated one. `setting` is fixed in the
initial state: whether the network loses datagrams and whether anything calls
`TestTimerContext::updateTimer`. Nothing in the repository does; `polled` is the
program with a nice thread that polls its context between packets, which is the
only place that could: `updateTimer` and `addTimer` share no lock. Datagrams are
sets: any order, any number of deliveries.

### SendQueue and DropTailQueue

A packet is abstract; what matters of it is the transport that wrote it. `Write` is
`Transport::write` up to its last look at `iceState`, `QueueData` the critical
section of `WebRtcConnection::queueData` on the packet that is then in
`protectBuf_`, which `writeMutex_` protects in `DtlsTransport` only (`Mutexed`).
`sendLoop` is four actions around `receiveVideoMutex_`. `UpdateIceState` is any
store to `iceState` by the agent's callbacks or `setRemoteCandidates`. `close()`
walks the transports (finish, delete) and then clears `sending_` and joins. What a
read of a deleted `NiceConnection` finds is a choice (`FoundReady`, `FoundNotReady`).

`DropTailQueue` promises order, at-most-once, refusal only at the limit, and loss
only of a packet whose agent is not ready. The refinement maps `waiting` to the
queue without the packet that `sendLoop` has already handed over and not yet
popped, and `down` to the packets whose agent is not READY.

### Teardown

`SendQueue` with one more thread per transport. `npc` is where
`NiceConnection::init` is: before `loop_` exists, before `g_main_loop_run`, in an
iteration of the loop (`check`, `poll`), in `onNiceData` with a channel in hand
(`data`), or ended. GLib's `g_main_loop_run` sets `running`, `g_main_loop_quit`
clears it, and the loop looks at it once per iteration: a quit before the run is
lost. `Report` is every callback that stores an `iceState`, of the thread's own
connection or, through `updateState`, of the other's. `close()` is split as the
code splits it: `FreeMembers` (SRTP channels, DTLS sockets), `QuitLoop`,
`JoinNice` with the destructor, per transport, then `StopSender` and `Return`;
`CloseAgain` is the destructor's or a second sink's call, whose pointers are not
NULL: it stops, frees, quits, joins and deletes what is gone. Of what it does
nothing can be said, so the model ends with it (`Defined`): `UsesOnlyLive` is what
shows it, and every passing property is about the first call. `EarlyClose` says whether `close()` may come before every loop runs, `Calls`
how often it comes.

### Gathering

One action per read or write of the global `lcands`, in the loops of
`cb_candidate_gathering_done`. Candidates carry who found them and whether they
are IPv6, which is what the loop and the property look at.

### SdpInfo and OneToMany

`SdpInfo` takes a description as a sequence of lines (group, m, ssrc, rtpmap) and
folds `processSdp`'s loop over it: `outIn` and `inOut` are `outInPTMap` and
`inOutPTMap` against the table of internal numbers, `payloads` the entries of
`payloadVector_`, a set since nothing in the code depends on their order. `GetSdp`
gives the set of the lines of the answer, by which the properties tell what a peer
understands. `MayPublish` and `MaySubscribe` say how the descriptions of
`OwnPayloadType`'s peers number their codecs; `MCOneToMany` assumes them of its
instance, the theorem of every one.

In `OneToMany` the application's thread adds, removes, negotiates and closes; the
publisher's nice thread receives a packet (`Receive`, with the bundle's
demultiplexing by SSRC, or the transport's medium and a learned SSRC) and walks the
map with an iterator (`it`); each step of either is an action. `buf` is the payload
type in the shared buffer, `codec` what the packet was when it arrived. A closed
subscriber keeps its dangling pointers: it may or may not send.

The map has no lock. Entering and erasing a subscriber takes the steps the tree
takes: `AddSubscriber` and `Insert` begin and end the linking of a node whose sink is
still NULL, `Store` assigns it, `Unlink` takes a node out of the tree, `Erase` deletes
it. Meanwhile an increment finds any of the `Trees` with or without that node, and,
if the tree may be rotated (`Rotates`: there are two other nodes), any node at all;
a traversal that reaches the NULL sink ends the process (`Crash`). `strayed`
remembers an increment that fell into a rotation, and the deletion of the node the
iterator is at, after which `Stray` lets it go anywhere. `EachOnce` is about packets
that did not stray; `EverySubscriber` has no such exception and fails
(`OneToManyRace`): that run's trace is what the red-black tree of libstdc++ does when 3
is linked behind the chain 1, 2, since the rotation lifts 2 above 1 while the iterator
reads 1's links. What a data race does beyond reading old or new links (compiler
reordering) is not modelled.

History variables (`due`, `got`, `twice`, `strayed`, `out`) only record. Keys that a look-up
inserted in `inOutPTMap` are kept for the packet (`Looked`) and not for later ones:
they would matter to a subscriber that gives another codec RED's number.

## Runs

| Run | Result | Shows |
|---|---|---|
| `SetupSafe` | passes | READY means keyed; an informed `getLocalSdp` answers every medium; no lost READY; for every safe offer, gathering at any moment |
| `SetupLive` | passes | no lost STARTED, READY stable, established under fairness |
| `SetupBundleFallBack` | violated | a bundle's second transport takes READY back |
| `SetupIceOverwritten` | violated | `iceState` READY overwritten by another thread |
| `DtlsSocket` | passes | timer ownership under iterations, the context and the destructor; a waiting client is armed; the handshake ends without loss |
| `DtlsSocketLoss` | violated | a lost flight is never repeated |
| `SendQueueSafe` | passes | with the nice threads and `close()`: refinement of `DropTailQueue`; nothing stuck; the first `close()` returns and leaves no thread |
| `SendQueueClose` | violated | a nice thread, the sender, a writer or a second `close()` uses what `close()` freed |
| `GatheringRace` | violated | a transport gathers another's candidates |
| `OneToMany` | passes | own payload type from peer to peer, each once, feedback recognised |
| `OneToManyRace` | violated | an increment in a tree that is being rotated skips a subscriber |
| `OneToManyMixed` | violated | payload type of another subscriber, through the shared buffer |

A violated run states what a comment of the repository says and what the code
does instead; `PROJECT.json` quotes the line.

Bounds, and why they are enough. *Set-up*: two media and two components are all
the code has, so the only bound is the set of offers: `AllOffers` are all
combinations with a supported crypto line per medium; `SafeOffers` leave out the
two shapes known to fail (SDES on two ports; a bundle without video).
`LiveOffers` further name their SSRCs, since nothing obliges a peer to send
media, and use at most one DTLS transport, since with two the overwritten
`iceState` can lose a flight (`SetupIceOverwritten`). *DTLS*: three flights are
first, middle and last; `readTimer`, `ctxTimer` and the timer being made need
three cells; the destructor's copy is of one of them, or of a cell that is free. *Queue and teardown*: two video packets and one of audio with a
limit of 2 in place of 1000 reach the limit while the sender holds the mutex, with
one packet left to refuse; the theorem is for every limit. Both transports exist,
so each thread can be anywhere while the other transport is closed; two calls of
`close()` are the code's (sink or source, and destructor). *Gathering*: two
transports suffice for the violation. *Fan-out*: three subscribers give the
iterator a first, a middle and a last, and the tree two nodes to rotate; two suffice
for `OneToManyMixed`. The passing
run's publishers are a bundle with RED whose Opus and RED are numbered differently,
and one without bundle or RED that numbers everything differently; its subscribers
use the internal numbers, one with RED in a bundle and one without either.

Deadlock is checked for the set-up, where an explicit `Idle` step stands for a
network that stays silent; the other models may stop (a closed connection, a
finished handshake, no more packets), so their configurations switch it off.

Fairness. Threads are scheduled: weak fairness of the application's thread, of
each nice thread's callbacks, of the sender thread, of a writer at `queueData`
(a boost mutex that is released infinitely often), of a close that has begun, of
each GLib loop, which comes back from every wait once it was quit.
`Fairness` of the set-up also has libnice resolve its checks (ready *or* failed)
and the peer answer; `DtlsSocket` has datagrams delivered unless lost, an iteration
that has begun goes on, and timers fire if they are polled. The nice thread reads
one datagram, or polls, at a time, and each excludes the others while it lasts: that
is why reading and polling are strongly fair. Nobody has to write, to close, to send media or to
add a subscriber.

## Proofs

For every value of the constants:

- `ConnectionSetupProofs`: `Typing`; `ReadyIsKeyedTheorem` assuming that every offer
  uses DTLS or rtcp-mux; `NoLostReadyTheorem` and `AnswerIsCompleteTheorem` for all
  offers; `ReadyIsStableTheorem` for all offers but bundles with two transports
  (`Unrivalled`); `IceStateReflectsTheorem` for offers with one transport (`Alone`);
  `NoLostStartTheorem` assuming `EarlyGathering = FALSE` and that every bundle has a
  video. The runs show `ReadyIsStable` and `IceStateReflects` false without their
  assumption, and `ReadyIsKeyed` fails for SDES on two ports.
  The invariant (`SInv`): what is being built (`Construction`), which transports
  an offer has and which of them a bundle leaves idle (`Sharing`), how a thread, its
  ICE state and its transport state advance together (`Phases`), who holds the
  mutex (`Locked`), what the local `temp` of `updateState` and the announced state
  say of the transports (`Announced`), who can have candidates (`Handed`), and, for
  `NoLostReady`, that an unannounced ready connection has a thread on its way
  into `updateState` (`Settled`); for `AnswerIsComplete`, that candidates are
  gathered before the state changes (`Gathering`) and what has been collected
  (`Answering`). `NoLostReady` is not inductive without `Settled`:
  it must say which thread still owes the announcement. A bundle with two
  transports needs no assumption there, by `Sharing`: the audio transport is never
  given candidates, so that the condition for READY that asks for both never holds.
  `NoLostStart` has a
  strengthening of its own (`HandingOver`): the thread that reports STARTED last has
  still to enter `updateState`, or has the calls that are missing on its list.
  `IceStateReflects` has `Serial`: with one transport, the thread that hands over
  the candidates is the one that gathered them, and no component is ready before it
  returns.
- `DtlsSocketProofs`: `Typing`, `NoDanglingTimerTheorem`,
  `OldTimerIsInvalidTheorem`, `WaitingIsArmedTheorem`, for any number of cells
  and flights. The invariant is the contract the comment in `DtlsTimer.cpp`
  doubts: a valid `mTimer` is `mReadTimer`; `mReadTimer` is deleted by nobody while an
  iteration or a live socket has it; and at each place of an iteration and of the
  destructor, which of the two has already invalidated what.
- `SendQueueProofs`: `Typing`, and `KeepsPromiseTheorem` (the refinement) assuming
  that every transport's `write` locks `writeMutex_`. The invariant: the mutex is
  held exactly between taking and popping a packet (`Guarded`), a packet is
  offered once, and what is on its way to the queue is what is in `protectBuf_`
  (`Protected`, `Filled`). Without the lock (`SdesTransport`) TLC refutes the
  refinement.
- `TeardownProofs`: `TearTyping` and `NobodyLeftTheorem` for any transports and a
  `close()` that comes early or not; `ImplementsQueue` (every step of the
  composition is one of `SendQueue` or a stutter), and from it
  `TearKeepsPromise`. The invariant relates where `close()` is to which transports
  are freed, quit, joined and deleted (`TInv`): what returning promises of the
  sender's thread only follows from what `Joined` waited for.
- `SdpInfoProofs`: what `processSdp` leaves in the maps and in `payloadVector_`, for
  descriptions of any length (`Processed`). `ProcessSdp` is a fold, and no induction
  theorem can be instantiated, so `LeftFold` argues without one: the function that
  `FoldLeft` chooses exists, since the least length for which it did not could be
  extended from the one before (`FoldExists`); it gives the state after each turn
  (the lemma `FoldLoop`); and a fact of the first state that every turn preserves
  (`LoopStep`) holds of the last, since there is no first turn that breaks it. From
  it, `RoundTripTheorem`: what `onTransportData` and `deliver*Data` do to a payload type
  (`Translate`: nothing where the map has 0) takes the peer's number of a known codec
  to the internal one and that back to a number the peer has for it, where no number
  is two codecs' and 0 is PCMU's only (a peer that numbers PCMU 96 gets it back as 0:
  the code cannot tell that entry from none); and `AnswerTheorem`: the answer has exactly the remote's
  `a=rtpmap` lines of known codecs, of the media that have a transport, where each of
  these lines stands in the section of its codec's medium.
- `OneToManyProofs`: `EachOnceTheorem` for any subscribers and descriptions, of packets
  that did not stray: behind the iterator everyone has had the packet, before it no
  one, whoever the packet is due to is in each tree that an increment may find
  (`TreesAre`), and the iterator is at a node of one of them (`TravInv`, on the lemma
  `FollowingIsNext` of the map's order). `FeedbackTheorem` assuming that the publisher's descriptions
  name an SSRC for each medium, not the same for both: once the publisher has
  negotiated, everyone in the map, on the way into it or out of it, holds its SSRCs, and before that
  no packet comes (`SsrcInv`). `TypingTheorem` for any descriptions.
  `OwnPayloadTypeTheorem` assuming `MayPublish` and `MaySubscribe`: subscribers use
  the internal numbers; a publisher may use any, but not one for two codecs, and has
  VP8 at 100 where it has RED (and PCMU, the one internal number that is also what a
  failed look-up gives, at 0). Its invariant (`PayInv`) is that the shared buffer
  holds the internal number of the packet, whoever was served before, and each copy
  that of what is in it: on `SdpInfoProofs`, translating it for a subscriber of internal
  numbers is the identity (`Identity`), and taking off RED leaves it internal
  (`BlockIsInternal`).

- `GatheringProofs`: `OwnInOrderTheorem` for a thread that gathers alone, whatever its
  agent found (of one or two components, the first not alone in being empty): it
  ends with the IPv4 candidates of its agent, each once and in order. The invariant
  says at each step which component's list the thread is in and how far
  (`Place`); `Kept` says what must have been copied by then without a recursive
  filter, by the place in the agent's list of each copy.

Only model-checked: the liveness properties (`Establishes`, `Ends`, `Leaves`,
`CloseReturns`: fairness and ENABLED are out of the prover's reach). Every
invariant and action property of a passing run is a theorem. `LossIsRepaired` and
`UsesOnlyLive` are only refuted; `IceStateReflects`, `ReadyIsStable` and
`OwnPayloadType` are refuted by one run and proved under the assumption that run
breaks, as are `ObtainsItsOwn` in the form `OwnInOrder` and `EverySubscriber` in the form
`EachOnce`.

## Known limits of the code that no run states

- SDES without rtcp-mux is announced READY with an RTCP channel that has no keys:
  `updateIceState` keys `srtp_` twice (`SdesTransport.cpp:161`). `ReadyIsKeyed` is checked
  and proved for offers with DTLS or rtcp-mux, and fails for these.
- With two DTLS transports the overwritten `iceState` (`SetupIceOverwritten`) can lose a
  flight of the handshake, and the connection may never be READY: `LiveOffers` leave
  these out of `Establishes`.
- A destructor of a `DtlsSocket` that overlaps an iteration may leave a valid timer of a
  dead socket in the context, or invalidate a deleted one (`dtls/DtlsSocket.cpp:83`).
- A subscriber that is being added is in the map with a NULL sink for a moment
  (`OneToManyProcessor.cpp:92`), which the publisher's thread may dereference.
- `NICE_FAILED` is ignored by both transports: no connection ever becomes FAILED
  (`NiceConnection.cpp:160`).
- If gathering ended before `setRemoteSdp` stored the transport's pointer, STARTED
  would be lost (`WebRtcConnection.cpp:114`, `:359`): `NoLostStart` is checked and
  proved with `EarlyGathering = FALSE`.
- A `close()` that quits a loop before it runs waits for it for ever
  (`NiceConnection.cpp:215`): `CloseReturns` is checked with `EarlyClose = FALSE`
  and fails with `TRUE`.
- A bundle of audio alone is given no candidates (`WebRtcConnection.cpp:369`).
- An SSRC learned from the first packet is not given to subscribers already
  there (`WebRtcConnection.cpp:300`): `FeedbackIsRecognised` fails for a publisher
  without `a=ssrc`.
- The VP8 block inside RED keeps its number of the publisher's description
  (`WebRtcConnection.cpp:203`): `OwnPayloadType` fails for a publisher that uses RED
  and does not number VP8 100.
- Two threads that write through one `SdesTransport` share `protectBuf_`
  (`SdesTransport.cpp:105`).
- `getLocalSdp` before the nice thread has run `init()` reads what nobody has set
  (`NiceConnection.cpp:21`); two application threads may create the certificate at
  once (`dtls/DtlsFactory.cpp:209`).

## Not modelled

Text of session descriptions, candidates and keys, packet layouts, SRTP
cryptography, certificates and OpenSSL initialisation, the example client, the
build: no state that another thread races on, or pure formatting. A second
negotiation of a connection replaces its transports without closing them and is
not modelled, nor are two supported crypto lines of one medium, which do the same.

## Plan

Done, most important behaviour first: `ConnectionSetup` and its proofs,
`DtlsSocket` and its proofs, `SendQueue` refining `DropTailQueue`, `Teardown`
refining `SendQueue`, `Gathering`, `SdpInfo` and
`OneToMany`, each with its proofs. Left:

1. A second negotiation, and a second call of `getLocalSdp`, which adds the
   candidates to the answer again.
2. A composition of `ConnectionSetup` and `DtlsSocket`: the two exchanges of the
   set-up as an abstraction of the socket's flights.
