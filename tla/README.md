# Verification of Synapse-IM's XMPP core

Synapse-IM is an XMPP client derived from Psi, in C++ on Qt. This directory holds
TLA+ models of how it logs in and stays logged in, of its peer-to-peer transfers and of
its shared documents, TLC configurations that check them, and proofs about them checked
by TLAPS. Paths below are relative to
`src/main/synapse-im/`.

## 1. Inventory

The program is one thread around the Qt event loop. What makes it hard is
not threads but *deferral*: signals that call handlers which delete their sender,
zero timers, queued connections, answers to requests made long ago, and a peer that
runs the same code at the same time on the other side of a server.

| Component | State | Operations | Correct when |
|---|---|---|---|
| In-band bytestreams, `iris/jabber/xmpp_ibb.cpp` | a connection's state, task, send and receive buffers, close flags; the manager's lists | connect, accept, write, read, close, requests, data, answers, timer | bytes arrive once and in order; an acknowledged byte was received; a pending close is carried out |
| SOCKS5 bytestreams, `iris/jabber/s5b.cpp` | an entry and an item per connection: connectors, up to four sockets, a request of its own and one of the peer's, activation flags | request, fast mode, connect out, proxy, activation, cancel | both ends end up on one stream, or both learn that there is none |
| File transfer, `iris/jabber/filetransfer.cpp` | state, length, bytes counted, the stream | request, accept with offset, stream up/down, read, write | the received file is the file that was sent |
| Transfer handlers and dialogs, `src/filetransdlg.cpp` | handler, its own count, timers, progress | send, accept, try again, finish, report, cancel | every accepted transfer ends, and the user is told the truth |
| Client and tasks, `iris/xmpp-im/` | tree of tasks, ids, flags `done`, `insig`, `deleteme` | go, take, finish, disconnect | every request is finished once, and at the latest on disconnection |
| XMPP stream, `iris/xmpp-core/stream.cpp`, `protocol.cpp` | protocol step, features, SASL, stanza queues | the login sequence, send, receive, close | one session per attempt and one signal at its end; never a stall; passwords and logins only as protected as the account asks |
| Security layers, `securestream.cpp` | a list of layers with byte counts | add a layer, write, written | plain bytes reported equal plain bytes written |
| Connectors, `connector.cpp`, `cutestuff/network/` | socket, proxy, lookup state | connect, poll, negotiate | one result per attempt |
| Shared XML editing, `src/sxe/` | records of versioned edits, queues, negotiations | edit, queue, snapshot, join | all participants have one document, and no edit without a rival is lost |
| Entity capabilities, `src/capabilities/` | a specification per entity, entities per specification, a registry | presence, answer, leave | features are filed under what they belong to |
| Event queue, `src/psievent.cpp` | a list by priority | enqueue, dequeue, extract | stable priority order |
| Accounts, `src/psiaccount.cpp` | five flags (active, disconnecting, reconnecting, roster done, presence sent), a pointer to the stream, two kinds of timer | login, logout, status, certificate, error, reconnect | one connection at most; offline stays offline; shown online only with a session; a lost connection comes back |
| Everything else: dialogs, contact list, chat, multi-user chat, avatars, publish-subscribe, privacy lists, PGP, voice, plugins, tools, resolver, bundled libraries | | | not modelled; `PROJECT.json` names each with its reason |

Interactions. The dialogs own a `FileTransferHandler`, which owns a `FileTransfer`;
this asks its manager, which sends IQ *tasks* through `Client`; when the peer accepts,
`FileTransfer` asks `S5BManager` for an `S5BConnection` (at the receiver, `S5BManager`
hands an incoming one to `FileTransferManager`). All signals on this way are direct calls
except three: `FileTransfer::error` is connected to the handler by a queue, and
`trySend()` and `doFinish()` run from zero timers. An `IBBConnection` uses tasks in the
same way. A `PsiAccount` owns a `Client` and a `ClientStream` and hears of the end of a
stream by queued connections, of the end of its tasks directly or by a zero timer; a
`ClientStream` drives `CoreProtocol` in a loop, over a `SecureStream`, a connector, a TLS
handler and a SASL object that call back. An `SxeSession` belongs to each end of a shared
document, and applies edits of its user at once. The server in between keeps the order of the stanzas from one entity to another
and answers for an entity that is offline; sockets are not ordered with stanzas.

`PROJECT.json` lists 40 hazards at their lines. For 29 there are properties that would
catch them. Of the other 11, four are in the models, and the properties near them name
them as exceptions: an error of the chosen SOCKS5 stream (`excuse`), a 64-bit offset in an
`int` (`OffsetFits`), an error that no handler has a case for (`core.refused`) and a status
set while waiting to reconnect (`waiting`). Four more are what the code does and break no
promise that it makes: an in-band request that is never answered, a stream type that was
not offered, a short write to the disk, a source file that shrinks. Entity capabilities,
the lifetime of tasks and the accounting of layers are planned.

## 2. Modules

    IBB <- MCIBB, IBBProofs <- IBBDelivery
    S5B <- MCS5B, S5BKnown <- S5BProofs
    FileTransfer <- MCFileTransfer, FileTransferProofs
    Session <= Stream <- MCStream, StreamProofs        Sxe <- MCSxe, SxeKnown <- SxeProofs
    Session <- Account <- MCAccount, AccountProofs     FoldSteps <- SxeProofs

`<-` is EXTENDS or INSTANCE, and `Session <= Stream` says that `Stream` is shown to
implement `Session`: what a client stream promises. `Account` is built on that promise and
not on the stream's details, so the two together cover the way from a socket to a status.

### IBB

Two entities, `Requester` and `Acceptor`. `conn[0]` is the requester's
`IBBConnection`, which the application may use again after an end; `conn[k]` is the one
the acceptor's manager creates for the k-th request. The fields are the fields of
`IBBConnection::Private`; `timer` says that a `singleShot` for `trySend()` is queued,
which `reset()` does not cancel. `net[p]` are the stanzas on their way to `p`.

`bytesWritten()` and `readyRead()` are direct signals, emitted in the middle of
`ibb_finished()` and `takeIncomingData()`, which go on with whatever the application has
left. So the handler of the application is a state (`emits`): while it runs, its entity takes
no stanza and no timer, the application may call any of its operations, and
`BytesWrittenReturns` or `ReadyReadReturns` is the rest of the function. (Where nothing comes
after the signal, it is the end of the action: a `readyRead()` without a close, `connected()`,
`error()`.) Two things follow from this in the code. `close()` in the handler of
`bytesWritten()` sends the last packet with the close, and the rest of `ibb_finished()` takes
it for the one just acknowledged: the close is reported as finished before the last bytes are
delivered (`hasty`; the run `ibb_close`). And after a close in the handler of `readyRead()`
the application still gets `connectionClosed()` (`again`), while a request it made there with
the same object is lost (`undone`).

Actions: the application's `ConnectToJid`, `Accept`, `Write`, `Read`, `ClosePend` and
`CloseNow` (the two halves of `close()`); `DropIncoming`, what `Client` does with an
incoming stream nobody takes; `TimerFires`; the handlers `RecvRequest`, `RecvData`,
`RecvNoStream`, `RecvAccepted`, `RecvAck`, `RecvError`; and `GoOffline`, which ends
every task of an entity, with `Bounce`, the server's answers for it. `hist` records what
the applications saw and is written only by the steps that show it to them. A task that is
sent while the client has no stream deletes itself; the connection keeps its dangling
pointer, which the model keeps as a task `deleted` that waits for ever (what the code does
with the pointer later, `delete d->j` in `reset()`, is undefined and not in the model).

Not in the model: an entity that comes back online (each goes offline at most once, and then
stays so), a handler that runs an event loop of its own or deletes its connection.

### S5B

One stream between an `Initiator` and a `Target`, each with or without a server of its
own and with or without a proxy (all sixteen combinations are initial states).
`item[p]` has the fields of `S5BManager::Item`. Its methods call each other and may
delete the item, so each is an operator from effects to effects (`TryActivation`,
`CheckForActivation`, `CheckFailure`, `DoConnectError`, `DoIncoming`, `JtFinished` ...),
and each action applies the effects of one handler: a stanza, a connector's result, a
proxy's answer, the carriage return that activates a stream, a closing user. A stream
has the name of the host it was dialled to. `excuse` records what failed outside the
negotiation.

Not in the model: datagrams, the SOCKS handshake, loss of the XMPP session.

### FileTransfer

Both ends of one transfer above an abstract bytestream (`out`, `wire`, `file` are byte
sequences, and byte k of the file is the number k). An end is a record of the handler
and of its `FileTransfer`, because the hazards are about which of the two still exists.
Deferred calls are counters and flags: `try` (timers for `trySend()`), `finish`
(`doFinish()`), `err` (a queued `ft_error()`). The length of a transfer, the count of
`FileTransfer` and the count of the handler are separate, as in the code. The sender
reads the offset of a resumed transfer into an `int` (`RangeOffset`), half of whose range is the
constant `IntLimit`. Progress is computed by the code's four functions; at the last step
the dialog deletes the handler.

A failing `f.read()` closes the transfer as a failing write does (`TrySend(FALSE)`).

Not in the model: the manager's lists, the deferred `doAccept()` (part of
`RecvStreamRequest`), and ranges with a length, which this code never sends.
`FileTransferManager::unlink()` (`filetransfer.cpp:459-471`) removes from its list at an
index that was never initialised, and goes on with an iterator into the changed list. The
behaviour is undefined, and no part of the code keeps it from harming a transfer, even the
only one; the model is of the executions in which it does no harm.

### Session and Stream

`Session` is the abstract specification: a phase (`idle`, `trying`, `online`, `closing`)
and the signal a stream ended with. An attempt becomes a session at most once, and what
ends by itself says so once; a stream its account closed early says nothing.

`Stream` is `ClientStream` over `CoreProtocol` and `XmlProtocol`. One turn of the loop of
`processNext()` is an action, and while `busy` only the loop takes steps, as the thread is
in it. `cs` has the fields of `ClientStream`, `core` those of the protocol (its step,
features, what was sent and is not yet reported written), `layer` and `sasl` stand for the
security layers and the SASL object, `buf` is what was read and not parsed, `out`, `inbox`
and `net` are what is on its way, `host` is the server. Actions of the loop have the
names of the protocol's steps (`HandleFeatures`, `Proceed`, `Compressed`, ...); outside of it are
what calls `processNext()`: connection and connector, TLS handler, SASL object, bytes
written and read, and the account. The server may offer any combination, refuse at each
step, end the stream with or without an error, and be gone at any time.

Both login protocols are modelled. Details that matter and are in the model: an element
that was read is dropped when `doStep()` has stanzas to report or to send; the step after a
SASL fallback goes on with the features it had; a SASL layer is never set (`NSASLLayer` has
no handler) and the spare bytes are lost; `ErrCompress` has no case in `handleError()`
(`refused`), so nothing happens until the connection breaks; a compression layer never
reports bytes written.

Not in the model: the server side of these classes, the insides of SASL mechanisms (when one
may ask for parameters is in it: at its first step or after a challenge), how bytes are cut
into elements. `TLSFails` is for a TLS layer: an error of a stream that only compresses
makes `layer_error()` emit nothing (`securestream.cpp:624-639`), so the stream stands still
until its connection breaks; this stall is not in the model, and `NoLostWakeup` and the
liveness properties do not speak of it. A handler of `authenticated()` that writes makes
`processNext()` call itself; the model flattens the inner call into later turns of the one
loop. A stream may be connected again after its end, with other options.

### Account

One `PsiAccount` and the streams it makes. `acc` has its five flags and its pointer;
`stream[s]` is the state of a slot for a `ClientStream`, with `Session` as its behaviour
(`Ses(s)`); `alive` are the slots that hold an object, so a stream left behind is one that
is alive and not `acc.stream`. What is deferred is state: `queued` (ends delivered by
queued connections), `tasks.session = "ended"` (the zero timer of `JT_Session`),
`disconnects` (`disconnect()`, 100 ms after `logout()`) and `reconnects` (`reconnect()`, 5 s
after an error). Posted events and zero timers are assumed to come before the timers of
100 ms and 5 s (`Calm`); the dispatchers of Qt 4 do not promise this. The
user may act in between, and the question about a certificate is modal for the user but not
for the network. The code has no handle on its timers: they cannot be cancelled, and each
asks the flags when it fires.

Four oddities are history, so that the properties can say what is promised in their
absence: `overlap` (a login within 100 ms of a logout leaves the old stream alive, and its
signals act on the new one), `late` (a queued error arrives after the end of the session
task already closed the stream), `waiting` (a status set while waiting to reconnect cancels
the reconnection without logging in), `dialog` (a certificate is accepted after its
connection is gone).

Not in the model: PGP signatures, the password dialog, link-local accounts, what a stream
signals inside its own `close()`, and more than one certificate question or request of a
kind at a time.

### Sxe

Two ends, each with its `SxeRecord`s, its queue of edits and the edits on their way to it;
both users of the whiteboard (`NewItem`, `SetAttribute`, `Bring`, `Group`, `Ungroup`,
`Erase`) edit at once, `Flush` sends and `Receive` handles a whole `<sxe/>`. A record has
its version, its values by version and the list of its edits, separately, because the
code takes a reverted edit off the first and not off the second. The document is not a
variable: `reposition()` keeps a node where its record says, so it is a function of the
records. Two defects of the code shape the model: `generateRemoves()` walks a list of
children that shrinks under it, so it skips every second child; and moving an item out of a
group that the other end dissolves removes the item at both ends.

`Snapshot` puts the edits of all records in the order of `arrangeEdits()`, parents first, and
`Replay` applies them one by one to an empty end, as one that joins does.

Not in the model: the negotiation of a session and its queueing (`SxeManager`), and the
precision of weights: they are written with six significant digits, while the record that
made one keeps the whole double (`sxenewedit.cpp:99`, `sxerecord.cpp:125`), so two ends can
differ in a weight that needs more. Within the bounds of the run no weight does.

## 3. Checks

| Run | Shows | Bounds |
|---|---|---|
| `ibb` | type; `NoLostWakeup`; `AckedWasDelivered`; `CloseFinishedMeansDelivered`; `ErrDataHasCause`; `InOrderIfSmall`; and live: `PendingCloseCompletes` | packets of 2 bytes, 2 sessions, the requester writes 2 bytes; 183,603 states |
| `ibb_close` | violated: `CloseFinishedMeansWritten` | packets of 1 byte, 1 session, 2 and 1 bytes |
| `ibb_order` | violated: `InOrder` | the same |
| `s5b` | type; `SameStream`; `NeverCrashes`; `NoStrayCR`; `InitiatorNotAlone`; `TargetNotAlone`; and live: `NegotiationEnds` | none: the state space is finite |
| `s5b_late` | violated: `EstablishedStays` | |
| `s5b_cancel` | violated: `CancelAnswersPeer` | |
| `filetransfer` | type; `ReceivedFileIsWhole`; `SenderDoneMeansSent`; `NeverSendsTooMuch`; `FailsOnlyWithCause`; `CrashNeedsLostStream`; and live: `AcceptedTransferEnds` | files and .part files of 0 to 9 bytes, a buffer of 2, an `int` of 3 bits, at most 3 bits of progress |
| `stream` | type; `PlainIsProtected`; `NoTLSIsWarned`; `NoLostWakeup`; `ImplementsSession`; and live: `LoginEnds`, `CloseEnds` | 1 SASL challenge, 1 write by the account, 1 stanza by the server; all options except some combinations with compression (`SomeOptions`); 732,712 states |
| `stream_lost` | violated: `EveryStanzaAnnounced` | the same |
| `account` | type; `NoStreamLeft`; `OfflineIsKept`; `ShownOnlineIsOnline`; `CrashHasCause`; and live: `Reconnects` | 2 stream slots, 3 timers of a kind, 2 queued ends; 1,441,862 states |
| `sxe` | type; `Converged`; `VersionsAgree`; `NeverAhead`; `OneAttribute`; `LostEditHasRival` | 2 items, 4 ids, 4 operations of the two users together; 1,278,839 states |
| `sxe_join` | violated: `SnapshotIsDocument` | the same |

Why the bounds are enough. `ibb`: two sessions let the requester reuse its connection while
answers, packets and timers of the first are about; a packet may carry one byte or two,
alone or with a close, and a second packet may wait. Only one end writes there, which keeps
the liveness check small; the proofs of section 4 cover every number of sessions and of
bytes at both ends. `filetransfer`: 9 bytes are several
buffers; a 3-bit `int` has offsets that fit (0-3), that become negative (4-7) and that
wrap (8, 9); files of up to 3 bytes count byte by byte, larger ones in steps of two
or of four, with and without a remainder. The write and read sizes are arbitrary.
`stream`: one stanza each way is enough for each to cross the other, the end of the login
and the end of the stream; compression and TLS do not look at each other's options, so
compression is checked with one choice of the others. `account`: a slot is used again when
its stream is deleted, so the number of logins is unbounded; one stream is current and one
may be left behind. A stream's end and its task's may each start a timer, so three are a
pair and one left over; a fourth needs the same steps again. `sxe`: four operations are two
crossing pairs, or an edit, a rival and an edit by each that knows both; ids below and
above those in use let a new node win or lose a tie. Exchanging the two ends changes nothing
(`PeerSymmetry`, and only safety is checked with it).

Deadlock checking is off in all runs: connections, negotiations, transfers and the users'
edits come to an end.

Fairness. Weak fairness only, of handlers: the event loop runs what is queued, the server
and TCP deliver while they live, timers fire (a connector has one; so has the dialog),
proxies answer, in `IBB` the applications return from their handlers, and in `S5B` the file
transfer manager accepts at once. In `Stream` the
account continues a login that asks it (in the code that is a direct call), the connector,
TLS and SASL come to a result, and a server that is gone takes its connection with it; in
`Account` the event loop delivers and both timers fire, while streams, server and user are
free. Nothing is assumed
of users or of failures. A request for an in-band stream may wait for ever, because an
incoming one is deleted without an answer; so no run claims that requests are answered.

What the passing runs say in words that one might not expect:

- `ErrDataHasCause`: two in-band ends that close at the same time do not run into
  "No such stream". A peer that gave up without a close, or lost its request in a handler,
  counts as a cause.
- `CloseFinishedMeansDelivered` has an exception, a close in the handler of
  `bytesWritten()`: `ibb_close` shows that it is needed.
- `FailsOnlyWithCause` has an exception: a transfer whose .part file is already complete
  may be reported as failed, since both ends finish by timers and the first closes the
  stream under the other. (The comment at `src/filetransdlg.cpp:396` takes "done already" to
  mean a file of size zero.)
- `CrashNeedsLostStream`: `trySend()` can meet a null connection, but only after
  the stream was lost or cancelled: its timer may precede the queued `ft_error()`.
- The file transfer properties hold for offsets that fit an `int` (`OffsetFits`).
  Without the premise TLC finds a transfer that appends the wrong bytes to a .part file
  of 4 GB or more and reports it whole, and one that never ends because the handler's count
  steps over the size of the file.

- `LoginEnds` has one exception, `ErrCompress`, which nobody reports.
- `NoLostWakeup` of `Stream` says of each place the loop stops at what will start it again;
  `stream_lost` shows what is lost although it never stops for good.
- `Converged` holds although edits are lost and items vanish: both ends lose the same ones.
  What a third end is sent (`sxe_join`) is another document.
- `OfflineIsKept` and `Reconnects` are about timers that cannot be cancelled: an old
  `reconnect()` finds its flag cleared, a second `disconnect()` finds nothing to close. Their
  exceptions are the oddities above; each was found by TLC before it was named.

The six violated properties (`ibb_order`, `ibb_close`, `s5b_late`, `s5b_cancel`,
`sxe_join`, `stream_lost`) are statements of comments in the code, quoted in
`PROJECT.json` under `findings`.

Every property of a passing run has a mutant: a plausible mistake in a
definition of the model (`...Silent`, `...Early`, `...Unread` and so on, each next to the
definition it replaces) under which TLC finds the property violated.

## 4. Proofs

`IBBProofs` proves, for every packet size, number of sessions and number of bytes:

- `TypeCorrect`: `Spec => []TypeOK`, one lemma per group of actions over lemmas for
  what the helpers return (`ResetType`, `ChunkType`, `PacketType`, `TrySendType`, ...).
- `ConnectionsCorrect`: `Spec => []ConnectionsOK`. `NoLostWakeup` alone is not
  inductive: `reset()` must clear the work it abandons, an idle or waiting connection must
  have neither task nor work, and the answer to a request must not find a packet in its
  place. `ConnectionOK` says this by state; work may be without task and timer only while
  `bytesWritten()` is handled, after which the timer is set. `StreamsCorrect` adds that a task
  deletes itself only while the stream is down.
- `NoLostWakeupCorrect`: `Spec => []NoLostWakeup` from it. `TrySendOK` is the heart:
  `trySend()` restores `ConnectionOK` even for a connection whose work nobody would wake.

`IBBProofs` carries this further to `Basis`: besides `TypeOK` and `ConnectionsOK`, the ids
(`Ids`: an id is used by one request and its one answer, and what carries the id of a task
is the packet of that task) and the sessions (`SessionsKnown`: each session has at most one
connection at each end, and nothing is known of a session before its request). It then
reduces every action to what it does to one connection, to the stanzas on their way and to
what the applications have seen: the `...Step` definitions, which `Step` joins.

`IBBDelivery` proves delivery from those steps, for every history of losses and new
requests:

- `AckedDelivered` and `CloseDelivered` come from `Ledgers`, an account of bytes per peer
  and session: what is acknowledged has arrived, and what is in the send buffer, in the
  task's packet and on its way adds up to no more than what was written and not yet
  arrived. It is inductive only because the packet that is acknowledged is the one the task
  waits for (`Ids`). A close is finished only when `ibb_finished()` goes on after
  `bytesWritten()`: `Closes` follows the flag `closing` through the application's handler and
  shows that nothing is under way by then, unless the handler itself has sent it (`hasty`).
- `SmallInOrder` comes from `Contents`, which says the same of the values: what has arrived
  is a first part of what was written, and packet and buffer go on from there.

It also proves `ErrDataCaused`, from `Causes`: while both peers are online, a stream that
is still there has a reason in the other end or in the stanzas on their way (`Caused`,
`Refusals`, `DataErrors`, `Asked`, `Answered`). It is the property with the most
interleavings behind it: requests, refusals, answers and packets cross each other, and a
handler of `readyRead()` may make a request that the rest of `takeIncomingData()` undoes. And
it proves `EndsOnlyOnce`, an action property: no second end and no reopening, but for the
`connectionClosed()` that follows an end of the application's own in its handler of
`readyRead()`. `Told` says why there is no other: a connection that is idle in that handler
has been closed or given up there.

`FileTransferProofs` proves `LastStepIsLastByte`: for every file size and step size the
progress equals the number of steps exactly when the last byte is counted. Deleting the
handler at that step is therefore neither early nor late. The mutants of `CalcTotalSteps`
and `CalcProgressStep` show what happens otherwise. It rests on three lemmas about
division.

It also proves, for every size of the file, of the .part file, of the buffer
and of an `int`, every safety property that the run `filetransfer` checks: `TypeCorrect`,
`ReceivedFileCorrect`, `SenderDoneCorrect`, `NotTooMuchCorrect`, `FailsOnlyWithCauseCorrect`
and `CrashNeedsLostStreamCorrect`, from `InvariantCorrect`: `Spec => []Invariant`, with one
lemma per action and, in it, one step per part of the invariant.

- `EndsOK`: what an end still has follows from whether its handler exists. That the two
  counters of an end reach their limits in the same step (`SenderOK`, `ReceiverOK`) uses
  `LastStepIsLastByte`.
- `Handshake`: there is one request, one answer and one stream, so the stanzas, the stream
  and the 30 s timer bound how far each end can be. In particular a stanza to a fresh
  receiver is the only thing under way.
- `DataOK`: `file`, `wire` and `out`, in this order, are what the sender has read; while
  both ends are connected its counter is what has left the buffer.
- `CauseOK`: an end without its stream although bytes are missing has an outside cause.
  This is what makes the close of the sender, which deletes its connection with the last
  byte, harmless to the receiver.

`OffsetFits` is a premise of the parts that speak of bytes, and of nothing else; so the
types, and the rules of who exists, hold for oversized .part files too.

`StreamProofs` proves, for every set of options and every number of rounds, writes and
stanzas:

- `TypeCorrect`, `AgreementCorrect`: `Spec => []Agreement`. `ClientStream`, `CoreProtocol`,
  the layers and the SASL object each keep a state of their own about the same login, and
  most steps are right only if these agree. `NothingWithoutConnection` (an idle stream
  has nothing pending), `StateAgrees` (the state of the stream fits the protocol's step, and
  `Active` means that the login is complete) and `LayersAgree` (a handshake runs only where
  the protocol has started it, and the loop not meanwhile) say so; together with the types
  they are inductive.
- `SessionImplemented`: `Spec => ImplementsSession`. From `Agreement`, every turn of the
  loop and every callback is a step of `Session` or a stutter.
- `PlainProtected` and `TLSOrWarned`. A message is judged when it is read by the server, but
  the decision was taken earlier: `PlainKnown` and `WarningKnown` say what the stream
  knows at each step (that plain was allowed by now, that TLS is on or the warning given),
  and `AllFine` carries it over to whatever is written and on its way, element by element.
- `NothingLost`: `Spec => []NoLostWakeup`. What the loop waits for is often a `bytesWritten`
  of the item it queued, so the inductive `Awake` adds `TrackKnown`: the queue of items has
  one entry for each write that is still out (without compression), as many stanzas as
  `pending` says, and the close tag if the protocol is closing. This is shown by counting
  places in the queue (`Cardinality(Places(t, item))`) as items come and go.

`S5BProofs` proves, for any two peers and any two proxies:

- `TypeCorrect`. A handler of the manager calls others that may call back, so each is
  a function from effects to effects (`Effects`: the item, the connection, what is sent and
  dialled), and typed as such.
- `KnownCorrect`: `Spec => []Known`, the inductive invariant of `S5BKnown`. Every action is
  one of thirty forms of step (the `...Does` lemmas: it asks, dials, connects, grants, goes
  through its proxy, is up, gives up, reads the CR) and every form keeps every part of
  `Known` (the `...Keeps` lemmas). `NetOK` and `OneAnswer`: a request is answered once, and
  an end that has still to answer has not done so. `SuccessTrue` and `ModeKnown`: who says
  that it is connected is, and what one end knows of the other (fast or not) is true.
  `OneStream`: at most one stream is picked for the CR, ever, and it is one that the target
  can take. `TargetUp` and `Failures`: what is left to happen at the other end once one is
  up, or has failed.
- `SameStreamCorrect`, `NeverCrashesCorrect`, `NoStrayCRCorrect`,
  `InitiatorNotAloneCorrect` and `TargetNotAloneCorrect` follow from `Known`: every safety
  property that the run `s5b` checks. None of them is near to inductive; that both ends
  are on one stream is decided by the order of up to four connections, four answers and the
  CR, and `PickedOK` says what each of these can still be.

`AccountProofs` proves, for every number of slots, timers and queued ends:

- `TypeCorrect`, `NoStreamLeftCorrect`, `OfflineIsKeptCorrect`, `ShownOnlineCorrect`,
  `CrashHasCauseCorrect`, from the inductive invariant `Known`. Its heart is `StreamKnown`:
  while the account waits to reconnect, or is closing although active, there is no stream.
  Nothing in the code checks this, and `reconnect()` relies on it when it overwrites the
  pointer. `OfflineKnown` (who may still start a login), `ShownKnown` (who vouches for the
  shown status) and `CauseKnown` (which handlers may run without a stream) rest on it.
  `CsErrorCases` says once what `cs_error()` does, for the three actions that call it.

`SxeProofs` proves, for any ids, values and first document and any number of operations:

- `KnownCorrect`: `Spec => []Known`, the inductive invariant of `SxeKnown`. `Sound` speaks
  of the edits that come to an end (those in the messages to it, then those its peer has
  queued) and of the records at both ends. `Balanced`: with what is still to come, both ends
  will have counted the same edits of a node. `InStep`: no edit that comes will be ahead of
  its record, and one without a rival will be exactly the next. `NewOnce`: before a node
  comes that is new, nobody here has or changes it. `Signed`: the edits of a node come from
  who is said to have changed it, and without a rival all values are kept. `Lives`: a node
  that one end alone has is on its way to the other, or its removal is on its way back, and
  nothing that was removed comes again. `Agree`: the edits that are on their way to the two
  ends make the same of the two records (`Makes`, over what counts of a record: its version
  and its values by their versions).
- `Agree` is what `Converged` needs while edits are on their way, and its heart is
  `MakesBoth`: an edit of one's own may be put before or after the edits of the peer that it
  crosses. Where two rivals meet, both are given up at both ends (`FirstRival`), and the
  rivals that follow find that done (`NextRival`). When an edit comes, `GetSet` and its
  like show that `applySxeRecordEdit()` does to the record what `Makes` says. When nothing
  is left to come, `Agree` says that the two records have counted the same and hold the same
  values, the last of which is what is shown (`AlikeDocuments`).
- `Heights` gives every id a height that falls from a parent to its children. This is what
  makes `generateRemoves()` end: groups hold items and items hold attributes, also while the
  two users regroup at the same time.
- A handler works through many edits, and between two of them an end is in no state of the
  specification: `Midway` is what is known there. Every edit of one's own (`MakeNewMid`,
  `MakeSetMid`, `RemoveOneMid`) and every edit that comes (`ApplyEditMid`) keeps it.
  `FoldSteps` shows once, for any operation, that a fold over a sequence is a loop, and that
  what holds at its start and is kept by each turn holds in the end; the lemmas of
  `RemoveAll`, `ApplyAll`, `MoveAllInto` and `MoveAllBehind` are instances of it. So nothing
  here needs the induction theorems of the library that take an operator.
- `TypeCorrect`, `ConvergedCorrect`, `VersionsAgreeCorrect`, `NeverAheadCorrect`,
  `OneAttributeCorrect` and `LostEditHasRivalCorrect` follow from `Known`.

Assumptions: those of the modules (`IBBAssumption`, `S5BAssumption`,
`FileTransferAssumption`, `StreamAssumption`, `AccountAssumption`, `SxeAssumption`), which
TLC evaluates in the runs. They say that numbers are numbers, that sets are finite and that
names differ.

Every invariant that a passing run checks is proved. Only model-checked: all liveness
(`PendingCloseCompletes`, `NegotiationEnds`, `AcceptedTransferEnds`, `LoginEnds`, `CloseEnds`,
`Reconnects`), which is out of the prover's reach.

## 5. Plan

Done: `IBB`, `S5B`, `FileTransfer`, `Session` and `Stream` with the refinement, `Account`
above it, `Sxe`; and the proofs of section 4.

1. `Layers`: `LayerTracker` and the chain of layers against a reference definition (bytes
   reported never exceed bytes written, and equal them when all is written, without
   compression); a theorem.
2. `Caps`: presence, discovery answers and departures of a few entities with two versions.
   Only the first entity of a version is asked, and an answer is filed under the version
   its sender has by then. Property: features are registered under the version that has them.
3. `Tasks`: the lifetime of a `Task` and of its parent around `finished()` and
   `disconnected()`.
4. The negotiation of `SxeManager` above `Sxe`, with the edits that come while a session
   queues: an end that joins loses and repeats none.
5. An abstract `Bytestream` (two ends, bytes in order, one end tells the other once): the
   specification `FileTransfer` assumes; `S5B` and `IBB` shown to implement its opening
   and closing by refinement.

## 6. Not modelled

`PROJECT.json` names each component with its reason. In short: dialogs, contact list and
other presentation keep no protocol state; roster, vCards, discovery, privacy lists, commands
and the like are one request and one answer; rooms are the server's state; voice calls, the
resolver, UPnP and the bundled libraries (QCA, JRTPLIB, libidn) are wrappers or other
projects' code, and are most of the lines of this repository.
