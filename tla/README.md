# A formal model of ShadowChat

ShadowChat connects the browsers of a room directly. A Go server creates rooms,
hands out tokens and forwards signaling messages; the pages set up WebRTC
connections, exchange keys and send each other texts, voice messages and files.
The server keeps everything in memory, with Redis and NATS to run several
instances.

This directory models the parts in which the order of events decides whether the
program is right: TLA+ modules translated from the source, TLC configurations
that check them on small instances, and TLAPS proofs for every instance.

`tlc -config Registry.cfg MCRoomRegistry` checks one run, `tlapm
RoomRegistryProofs.tla` the proofs of one module. `PROJECT.json` lists the runs,
the theorems, the hazards, and for every definition the lines it models.

## The system

| Part | State | Operations | Hard about it |
|---|---|---|---|
| Home page and room entry (`app/page.tsx`, the start of the room page, `createRoom` to `connectSignaling` in `roomStore.ts`) | store, sessionStorage, forms, calls in flight | create, join, scan, share, revisit, leave, lock, destroy | every call reads the store again after its awaits; React mounts twice in development; navigation drops everything but sessionStorage |
| Room registry and handlers (`repository/room.go`, `service/room.go`, `handler/*.go`, `jwt.go`) | two indices of rooms, tokens | create, join, metadata, lock, unlock, destroy, upgrade check, expiry ticker | requests decide on copies of a room that change behind them |
| Signaling client (`signaling.ts`) | socket, timers, attempts, queue | connect, disconnect, send, socket events, heartbeat | events of old sockets, timers nobody names |
| Signaling hub (`hub.go`, `message.go`) | rooms, clients, subscriptions | register, unregister, broadcast, NATS callback, shutdown | one goroutine per instance, the NATS callback and Shutdown beside it, other instances between any two Redis calls |
| A connection of the hub (`client.go`) | Send channel, pumps | SendJSON, ReadPump, WritePump | three goroutines send, one closes; the channel is bounded |
| Peer session (`roomStore.ts`, `webrtc.ts`) | map of peers, early messages, connections, keys | set up, offer, answer, key exchange, teardown | awaits between check and installation, messages the hub loses, reconnects |
| Chat and history (`roomStore.ts`, `storage.ts`) | messages shown, cache, history bundles | send, receive, bundle, read the cache | handlers of one page overlap at their awaits; bundles pass texts on |
| File transfer engine (`transfer.ts`, callbacks in `roomStore.ts`, buttons of the room page) | outgoing and incoming transfer, chunks in IndexedDB, status shown | announce, accept, reject, stream, pause, resume, cancel, reassemble | several `streamOutgoing` and `handleDataMessage` calls of one transfer are suspended at once; four channels reorder |
| Voice messages (`VoiceRecorder.tsx`, `voice.ts`) | button, recorder, microphone | press, hold, slide, release, stop, cancel | the microphone, the recorder's events and the user answer in any order |
| Rate limiter, TURN credentials, crypto, rendering | see "Not modelled" | | |

How they interact: the home page asks the registry for a token (`RoomEntry`,
`RoomRegistry`); the room page's signaling client opens a WebSocket with it
(`SignalingClient`), which is checked against the registry and registered in the
hub (`Hub`), behind a Send channel and two pumps (`ClientPumps`). The hub tells
the pages of each other, the peer session connects them (`PeerSession`), and its
key exchange starts the history bundle and the cache (`Chat`) and creates the
transfer engine on that connection (`Transfer`), which also carries voice
messages. Hub instances share Redis presence and one NATS subject per room.

Each module states what it takes from its neighbours: `Hub` takes a connection
for a FIFO that may be given up, which is what `ClientPumps` is shown to be
(`LossyFifo`); `PeerSession` takes the hub for two mailboxes that lose what comes
for an absent page; `Chat` and `Transfer` take channels that open and close at
any moment; `RoomEntry` takes the registry for a room's status and a source of
new identities.

## The modules

An action is the code between two points where something else may run (an
`await`, a lock, a Redis call), a suspended function is a program counter in a
variable. `MC*` modules fix the instances; `*Proofs` modules hold the theorems.

**`Transfer`** - one transfer between two pages. `out` and `inc` are the two
state objects, which suspended calls keep using after the transfer was deleted
from its map (`active = FALSE`); `streams` holds the suspended `streamOutgoing`
calls, `handler[c]` the suspended `handleDataMessage` call of chunk `c`, `lanes`
and `toReceiver`/`toSender` the channels, `stored` the chunk rows in IndexedDB,
`ui` the status, which decides the buttons a user has (`cancelShown` and the
guards of the user's actions). A chunk is its index; encryption and the packet
format are opaque. `sent` is a history variable. The status in the stored file
record is written and never read, so it is left out. The `catch` around
`saveChunk` (transfer.ts:579-591) cannot be reached, because `saveChunk` swallows
its errors; a failing save is `storageFault`.

**`Hub`** - one room on several instances. `site` is the deployment: who connects
where, with or without Redis and NATS, what may fail. `hub[h]` is the hub
goroutine, split at its Redis calls; `conn[c]` the goroutines of a connection;
`natsDeliver` the callback goroutine. What is put on a Send channel is applied to
the client's view (`known`, `got`) at once: the channel is a FIFO and the page
treats the notices as set updates. A subscription counts as effective when
`SubscribeRoom` returns. The end of `Run` on `ctx.Done` is the end of the process.

**`ClientPumps`** - one connection of the hub. `send` is the Send channel,
`sender[g]` a goroutine between `SendJSON`'s look at `closed` and its send,
`reader` and `writer` the pumps, `frame` and `drain` the frame `WritePump` is
filling, `wire`/`ends` whole frames on their way to the page, which splits them.
The hub goroutine's other work is `workElsewhere`; `entry` is what the room's map
has for the peer, perhaps a newer connection. `clientLost` covers a closed
browser and a network that went silent.

**`LossyFifo`** - what such a connection promises: messages it accepts arrive in
order, once, without a gap, until it is given up; then only a first part of what
was under way. `ClientPumps` implements it under `pending <- wire \o frame \o send`
(the wire only, once the connection is closed; nothing, once the client is gone).
A message that meets a full channel is not accepted.

**`RoomRegistry`** - one instance's rooms. A request is a program counter with
the copy of the room it has read; between the two a room may be locked,
destroyed, expire or be created. `tick` is the clock; `drawn` and `barred` are
history variables (what has been drawn at random; who came in during a lock).
Request bodies are the values that pass validation. `UpdateMemberCount` and
`CleanupExpiredRooms` have no caller and are not actions. Token expiry has the
clock's granularity, which abstracts from the rounding to seconds in a JWT.

**`SignalingClient`** - the client with `connectSignaling` and `disconnectRoom`.
`sock` holds every socket ever made (a closed one's slot is reused), because all
of them share the same handlers; `timer` is the timer `reconnectTimer` names,
`orphans` those it no longer names. `stale` says that the last pong is over 35
seconds old. The delays matter in one place: a reconnect timer is at most 15
seconds, so none is pending at a heartbeat tick, which comes 30 seconds after
the one that set it (`tick`).

**`PeerSession`** - two pages and the hub between them (one instance). Page A has
the smaller id and makes the offers. Each call of `setupWebRTCPeer` has a number
that also names its connection; `stage` says at which await it is, `entry` is
`peers.get(other)`, `pending` the queue of early messages. An offer to a
connection that is already negotiated is accepted as a renegotiation or refused,
as browsers differ. The hub's notice that a peer left may overtake what that peer
has sent, since the hub selects between two channels. ICE candidates are left
out: two connections that hold each other's descriptions reach each other.
`onnegotiationneeded` does not fire, as nothing is negotiated after the first
offer. `Drops`, `Reloads` and `IceLosses` say which page meets which fault.

**`Chat`** - the message list. A scene says which pages can connect, who writes
what, and what fails; a handler is a task with the steps it still has to do, so
tasks of one page overlap. A text or a file is written once and has the id its
page gives it. `author`, `sent` and `handed` are history variables.

**`VoiceRecorder`** - the button, with one numbered recorder per press, each with
its `MediaRecorder` and its `stopAndSend` call. `Impatient` allows a press while
the microphone is still being asked for, `Unplugs` takes the microphone away.

**`RoomEntry`** - tabs with their page, store and sessionStorage, and the server's
rooms. `tasks` are the calls of `createRoom`, `joinRoom` and `initialize`, `conns`
those of `connectSignaling` that generate keys, `clients` what they make. A
navigation empties all but sessionStorage. In a development build React mounts a
page twice: the first mount's call goes on, cancelled.

## The runs

| Run | Instance | Shows |
|---|---|---|
| `Transfer` | 2 chunks, 2 channels, 2 streams, a pause, cancels from both sides, a rejection, a lost connection, failing saves | `CompletedMeansAllSent`: a sender that shows "completed" has sent every chunk. `ResumePointSound`: a receiver never asks for a start behind a chunk it lacks. `ReassembleOnlyWhenAllSaved`: no duplicate is counted. `NoOrphanChunks`: no chunk stays in IndexedDB. `NoSendWhenStopped`: the flags are honoured behind the awaits. `AcceptedTransferArrives`, and `ReceiverResumeRecovers`: a resume that finds a stopped sender brings in what was dropped |
| `Hub` | five deployments: 3 peers on 2 instances; 1 instance with a reconnecting peer, failing Redis and subscriptions, shutdown; a peer that comes back on the other instance while Redis fails; 2 peers and a message on 2 instances; 1 instance without Redis and NATS | `MutualDiscovery`: subscribe, announce, then read, so two newcomers cannot miss each other. `PresenceExact`, `RoomFollowsClients`, `LocalDiscovery`, `ClientsAreOpen`. `NoFanoutLoop`: a message arrives directly and once more through the instance's own subscription, then never again |
| `Pumps` | channel of 2, 4 messages | `NoSendOnClosed`: nobody meets a closed channel between the look and the send. `PumpsEnd`: a dead connection is unregistered and its pumps end, however busy the hub is. `KeepsThePromise`: the refinement of `LossyFifo`, with its fairness |
| `Registry` | 2 rooms, 2 codes, 3 requests, clock to 3 | `CodeIndexExact`, `TokensWithinRoomLife`, `LockHolds`, `LiveRoomStays`, `ExpiredRoomPurged` |
| `SignalingClient` | 2 attempts, queue of 2, 3 faults, 3 messages | `NeverStranded`: a client without a socket still has something that brings it back. `ConnectionIsWatched`, `QueueDrained`, and `QueuedIsSent` |
| `Peer` | 2 setup calls per page, 1 fault: B's signaling connection drops, A is reloaded, or either loses the peer connection | `RestingHasSession`: without a fault, two pages in a room with nothing left to do have one connection, the same keys and a coordinator on it. `EstablishedStays`, `QueueHasFlusher`, `InstalledIsUsable` |
| `Chat` | five scenes of 2 or 3 pages and one item: repeated key exchanges, a lost connection or reload, two reloads, a file, a relay over a third page | `TrueAuthor`: "You" and names survive bundles of bundles. `BubbleWasSent`, `NothingVanishes`. `HandedIsUnderWay`: what was handed over is shown, about to be shown, or in a packet the page can still read; with fairness `HandedOverIsShown` |
| `Voice` | 4 presses, a patient user, a microphone that may be unplugged | `MicShown`: the microphone is on only while the button shows it. `StopEnds` |
| `Entry` | 2 tabs, 2 rooms of which one exists, 2 identities, 2 room pages a tab, both builds | `SessionTokenFits`, `IdentityAgrees`, `OneClient`, `VisitDecides` |

Bounds. Two channels and two chunks give every order of arrival; two streams are
what one pause and resume produces. Two instances and three connections have a
local and a remote pair. Three requests are an actor, one that interferes, and
one that comes after both; the clock passes every expiry. In `SignalingClient`
three faults with two attempts use the attempts up and reset them; the bound on
sockets is never reached. In `Peer` the pages need one setup call without a fault
and one more after it; the mirrored assignment of the faults to the pages has
been checked with the same result and differs only in who offers. In `Pumps` four
messages fill the channel of two while a frame is under way. In `Chat` one item
suffices because texts do not interact, and the third page is needed for a
bundle of a bundle. In `Voice` the fourth press meets every state the first
three can leave. In `Entry` a tab creates or joins and then revisits. The type
invariants are not in the runs, they are proved.
`CHECK_DEADLOCK FALSE` everywhere: a finished transfer, an empty room, a left
page and a closed connection really stop.

Each property has a mutant in `PROJECT.json`: a plausible slip in one mapped
definition that makes TLC find the property violated.

Fairness. `Transfer`, `Chat`: an event loop runs a task that is ready, and an
open channel delivers; users are free. `ClientPumps`: goroutines that can run do,
the ping ticker and the read deadline fire; a send on `Unregister` is eventually
selected, because Go's `select` picks among ready cases at random, and its
RWMutex lets no reader overtake a waiting writer (SF). `RoomRegistry`: the ticker
fires. `SignalingClient`: timers fire, connection attempts and closes end, an
open connection gets its auth answer, time passes. `VoiceRecorder`: the browser
answers. `RoomEntry`: the server answers, timers fire, clients retry. `Hub` and
`PeerSession` have none: their properties are about states in which nothing is
under way, and what leads there consists of finitely many steps.

### What the code does against its documents

Three runs are expected to be violated; the findings in `PROJECT.json` quote the
lines.

- `TransferSenderResume`: the receiver's `resume` handler only looks at outgoing
  transfers, so a pause and resume by the sender leaves the receiver paused; it
  drops every chunk while the sender completes.
- `HubReconnect`: `handleUnregister` deletes by peer id, so the late unregister
  of an old connection removes the new one, and its presence.
- `PeerReconnect`: a page that comes back after losing its signaling connection
  skips peers still in its map, while the other has dropped its side and waits
  for an offer.

Met while modelling and not runs; each is a behaviour the modules contain unless
said otherwise, and explains the premises of some properties:

*Transfers.*
- transfer.ts:575: two handlers can both see the complete count and reassemble
  twice; the second finds no chunks and reports a failure after the completion.
- transfer.ts:490: a cancel during the last save still ends in "completed"; and a
  sender that has sent its last chunk forgets the transfer without hearing from
  the receiver, so a paused receiver that drops that chunk finds nothing to resume
  (hence the premise of `ReceiverResumeRecovers`).
- roomStore.ts:1217: a cancel on the receiving page deletes the file whether or
  not it is about to complete.

*Server.*
- hub.go:165: a list of peers read before a departure on another instance is
  sent after it, and the newcomer keeps a peer that is gone.
- hub.go:116: a failed subscription leaves its room behind, and the next client
  joins it without one (hence `LocalDiscovery` under faults).
- hub.go:241: when a peer comes back on another instance, the peer-left of its
  old connection may arrive there after the new one was announced, and takes it
  out of the others' lists. Redis still lists it for those who come later; if
  Redis fails as well, two peers of one instance rest without knowing of each
  other. The proof of `LocalDiscovery` met this: its premise `Sticky` leaves out
  peers that connect to more than one instance.
- hub.go:97: a registration that has passed the `shuttingDown` check joins after
  Shutdown's second pass, and nobody closes it.
- hub.go:149: with NATS and without Redis a newcomer is never told of peers on
  other instances.
- hub.go:205: an old connection's unregister takes a newer one's place in the map,
  and the newer one's Send channel is then never closed; its pumps end by the
  ping that fails (`PumpsEnd`).
- hub.go:305: the NATS connection has no `NoEcho`, so local clients get every
  message twice. nats/broker.go:83: `Subscribe` is not flushed, so the server may
  not know it yet when it returns (not in the model).
- service/room.go:176: nothing changes `MemberCount`, so the limit never refuses
  anybody. repository/room.go:83: a code drawn twice overwrites the index.
- service/room.go:163: a destroyed or expired room leaves its members connected
  and signaling, although the dialog (room/[roomId]/page.tsx:965) says it will
  disconnect them. ws.go:41: a lock refuses members that reconnect as well, and an
  owner who reloads sees the lock as open.

*Signaling client.*
- signaling.ts:126: the late `onclose` of an old socket clears `this.socket` of a
  newer one, which is then orphaned while another is opened. signaling.ts:159:
  a timer `reconnectTimer` no longer names survives `disconnect` and reconnects
  after the page was left; a client that never connected is not in the store and
  is not disconnected at all. Messages sent between `onopen` and the auth answer
  overtake the queue.

*Peer session.*
- roomStore.ts:379: the placeholder prevents a second setup only while it is in
  the map; `peer-left` during the TURN fetch removes it, and a second call then
  shares the entry with the first.
- roomStore.ts:178: an old derivation can finish after a newer one and replace
  its key, so that after a reload two pages may rest without a common key. This
  is why `RestingHasSession` and `EstablishedStays` speak of fault-free behaviour.
- webrtc.ts:181: a candidate handled before the remote description is rejected
  (candidates are not in the model).

*Chat.*
- roomStore.ts:520: sender and receivers give a text different ids, and bundles
  are merged by id, so a bundle brings in texts the page has and stores them
  again. roomStore.ts:546: two bundles handled at once do so even for one id.
- roomStore.ts:331: key pairs are made anew on every load, so a reloaded page
  cannot decrypt any text of its cache.
- roomStore.ts:996: `sendChatMessage` walks the peers map of the call's start; a
  peer that becomes ready meanwhile is passed by. roomStore.ts:317: a bundle is
  retried ten times and then dropped. roomStore.ts:517: a text that arrives before
  the key is derived is dropped without a word (hence `HandedOverIsShown` asks for
  the key). roomStore.ts:1177: a sent file is stored under its recipient's id and
  comes back from the cache as the recipient's (hence the exemption in
  `TrueAuthor`).

*Voice.*
- voice.ts:100: Cancel after Stop, before the recorder's last event, does not
  undo the Stop, and the message is sent. VoiceRecorder.tsx:45: two presses while
  the browser asks for the microphone leave a recorder that nothing stops
  (`Impatient = TRUE` breaks `MicShown`). voice.ts:43: after an unplugged
  microphone `stop()` waits for an event that does not come (`hangs`).
- next.config.ts:8: the Permissions-Policy forbids camera and microphone, so the
  pages as served cannot record or scan at all (not in the model).

*Entering and leaving.*
- roomStore.ts:704: the guard against React's double mount covers
  `connectSignaling` only: without a token both mounts join, and the later answer
  changes the identity under the client (hence `IdentityAgrees` is about
  production builds).
- roomStore.ts:949: leaving keeps token and role in sessionStorage, so going back
  in the history enters again without the "fresh invite" of
  room/[roomId]/page.tsx:951.
- QRScannerModal.tsx:110: a scanner closed while the camera is asked for has
  cleaned up before it gets the stream, and leaves it on (not in the model).
  room/[roomId]/page.tsx:233: `handleDrop` reads the dropped items after an
  `await`, when only the first is left (not in the model).

## The proofs

A theorem holds for every value of the constants: any file size, number of
channels, rooms, requests, tabs, instances, peers, deployments, capacities and
bounds. The assumptions are the `ASSUME` of each module; the last four registry
theorems also assume `Collisions = {}`, that random ids and codes are not drawn
twice (which the code does not check). Every module that models the code has
proofs, and type correctness is the first theorem of each.

`TransferProofs`. `SenderCompleteness` and `ResumeNeverSkips` rest on `Sound`:
every index below a stream's own, up to `lastSentIndex`, and below any start
point in a `resume` message in flight has been sent (`SenderSound`), and every
index below `contiguousIndex` has been received (`ReceiverSound`); the receiver's
index becomes a start point, so the two need each other. `ReassemblySeesWholeFile`:
`CountSound` ties the counter to the set of chunks whose handler is past its save.
`StorageReleased`: `StoredHeld`, while there are rows the transfer is active or a
reassembly has still to read or clear them. `StoppedSenderIsSilent` is an action
property.

`HubProofs`. `RoomsFollowClients` from `RoomInv`: a hub goroutine at rest has a
room exactly for its clients. `NoWriteToClosed` from `EntryInv`, `HandlerInv` and
`GoneInv` (`CloseInv`): an entry is a live connection, the goroutine registers live
ones and takes leave of gone ones, and only a gone one's channel is closed.
`PresenceIsExact` from `MemberInv`, `FreshInv` and `PresInv` (`OrderInv`): presence
is that of the registered peers but for the one a goroutine is between its map and
Redis with. `PeersDiscoverEachOther` is the deepest: `ToldInv` says for each
ordered pair of registered peers where the news is - in the presence the other
has still to read, in the list it has read, in a NATS message not yet handled, or
already told - and `MailInv` that no message that takes it back is about a live
peer. It is where the order subscribe, announce, read of `handleRegister` is used.
`NeighboursDiscover` needs neither Redis nor a subscription: `HeardInv` says of two
peers of one instance that one is at its greeting still, or has the other on its
list or in the instance's NATS queue, and that in this queue every peer-left of
the other is followed by a peer-joined (`Restored`). `QueueInv`, `ShutInv` and
`LeaveInv` say that only a subscribed instance has such a queue, that a closed
channel is that of a connection on its way out, and that nobody holds the place of
a peer whose leave is under way. `NoLoops` counts: the copies a client has got,
those in its instance's NATS queue and Broadcast channel and one for every message
in any Broadcast channel are at most twice the messages sent (`CountInv`), where
"how many" is the cardinality of a set of queue positions.

`ClientPumpsProofs`. `NeverPanics`: the hub goroutine closes channels itself, the
others hold the room's lock from the look to the send. `FramesAreFinished`: only
`WritePump` takes from the channel, so what it counted is there.
`ImplementsLossyFifo`: `Spec => Fifo!Spec` under the mapping of `KeepsThePromise`;
each step is an `Accept`, `Deliver`, `GiveUp` or stutter, by lemmas on
concatenations (`MoveHead`, `AppendToLast`, `SplitFirst`). `DrainNeverBlocks` is
part of the invariant: without it a frame might end short.

`RoomRegistryProofs`. `CodeIndexInverse` needs `RepoDrawn` (what is in the indices
has been drawn) and `Held` (a request past its read has a copy).
`TokensExpireWithRoom`, `LazyDeletionIsSafe`: `CopySound` (a copy has the expiry of
its room as long as that exists) and `PurgeSound` (a request about to delete has
seen an expired copy). `LockIsEffective`, `LockSound`: the copy of a request that
came in during a lock is locked too, or is not read yet and the room still is.

`BrowserProofs`, about `SignalingClient` and `VoiceRecorder`. `HeartbeatRuns`,
`QueueIsFlushed` and `AlwaysComesBack` are inductive together with `AuthedInv`: a
socket with an auth answer is open or closing. `MicrophoneIsShown` for a patient
user, from `AskInv`: a press waits for the microphone only behind an idle button,
and only one does.

`PeerSessionProofs`. `InstalledNeverClosed`; `EarlyMessagesAreFlushed` from
`PlaceInv` (a placeholder waits for a call still at its TURN fetch) and `FlushInv`
(messages wait for a call whose connection has not been closed). With any number
of drops, reloads and losses on either page. `RestsConnected` and `SessionStays`
from `CleanInv`, of behaviours without a fault: a page has one call and one
connection (`SingleInv`); the first message it gets is the notice that starts the
call, the others can only be the key and the description of the other page
(`NoticeInv`, `WaitingInv`); the description has been sent exactly when it is
still ahead of the page or has paired its connection (`DescriptionInv`); and the
key of a page past its key packet is ahead, being derived or installed
(`KeyInv`). So a page with nothing ahead is paired and has its key, whatever
overtook what. `Executed` says what handling one of these messages does, and
`OtherPage` what a step must tell the other page to keep the invariant there.

`RoomEntryProofs`. `OneClientOnly`, `TokenFitsRoom` and `PageKnowsItself` from one
invariant per tab: `HomeInv` and `TasksInv` (a page has one call that is not
cancelled, and no client while it has it), `SavedInv` (the store still has that
call's answer when it is read again), `FitsInv`, `IdentityInv`, `OneInv`.

`ChatProofs`, for any number of pages, items and faults, from one invariant.
`AuthorCorrect` and `BubbleCorrect`: `MessageInv` says of every copy of a message,
wherever it is - shown, cached, in a packet, in a task or waiting for a retry -
that its name is that of its author as the page holding it sees them, and that a
text has been put on a channel; a bundle renames what it carries at every hop, and
a call that has sent to nobody yet shows nothing. `HandedCorrect` is the safety
half of `HandedOverIsShown`; it needs `KeyInv` (an installed key is that of the two
pages' present key pairs, so a repeated exchange does not make a packet
unreadable) and `CallInv` (a call about to send to a peer has its key).
`NothingVanishesHolds` is the action property.

Only model-checked: liveness (`AcceptedTransferArrives`, `ReceiverResumeRecovers`,
`PumpsEnd`, the fairness part of `KeepsThePromise`, `ExpiredRoomPurged`,
`QueuedIsSent`, `HandedOverIsShown`, `StopEnds`, `VisitDecides`), which is out of
the prover's reach. Every invariant of a passing run has a theorem.

## Not modelled

- Rate limiter (`ratelimit.go`): two steps under one mutex each, over a
  floating-point balance and wall-clock time. The cleanup can delete a bucket a
  request has just fetched, after ten idle minutes, when it is full anyway.
- The camera of the QR scanner, the player of voice notes, dialogs, toasts,
  animations: browser I/O and rendering. `RoomEntry` has the scanner as what
  covers the forms and hands them a code.
- ICE candidates, connection status, more than two pages in `PeerSession`: each
  pair of pages has its own entries and connections.
- Crypto library and hashing worker: stateless calls with opaque results.
- TURN credentials: a function of the clock and a secret.
- Connecting and reconnecting of Redis and NATS, the expiry of the presence key.
- Start-up, configuration, logging.

## Plan

Done: all modules of the inventory, their runs, the refinement of `LossyFifo`,
and the proofs above. Left: an abstract specification of a transfer (a file that
arrives whole, or does not) that `Transfer` implements; a composition of
`SignalingClient` with `PeerSession`, which would show the reconnect of
`PeerReconnect` with the client's own queue.
