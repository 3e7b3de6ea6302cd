# ldktela: a verification project

ldktela is a complement to Discord for sharing a screen: a Rust server (HTTP API, WebSocket
gateway, Discord bot, Postgres), an external LiveKit SFU that carries the media, and a desktop
application (TypeScript in a Tauri shell, with a native core that captures and publishes).
These modules model the parts of it where several actors meet, and the algorithms a wrong corner of
which no test reaches. TLC checks the models on small instances; TLAPS proves the most important
safety properties for every value of the constants.

## 1. The system

| Component | Code | State it keeps | Operations | Hard behaviour |
|---|---|---|---|---|
| Gateway server | `crates/api/src/gateway/` | registry of sessions, per session a sequence, a ring of recent frames, an outbox, a disconnection time | IDENTIFY, RESUME, dispatch, disconnect, sweep, shutdown | tasks interleave between atomic operations and locks; a session outlives its connection |
| Gateway client | `desktop/src/gateway/client.ts` | socket, session id, last sequence, heartbeat and retry timers | HELLO, READY, RESUMED, dispatch, ACK, INVALID_SESSION, RECONNECT, close, retry, beat | links that die silently, close codes, tokens that expire |
| Refresh tokens | `crates/api/src/auth/session.rs`, `db/repo/refresh_tokens.rs` | a table of tokens in families | pair, refresh (rotation), logout, clean-up | each SQL statement is its own transaction; reuse detection |
| Client account | `desktop/src/api/client.ts`, `app/runtime.ts`, `platform/vault.ts` | access and refresh token in memory, token in the vault, phase | start, pair, call, refresh, recover, sign out | flows that await the network cross one another; the process ends anywhere |
| Pairing codes | `crates/bot/src/pairing.rs`, `db/repo/pairing.rs`, `routes/auth.rs`, `jobs.rs` | codes with owner, expiry and consumption | issue, exchange, clean-up | a limit counted before the insert; clients that race on one code |
| Rooms, presence and publish slots | `crates/api/src/routes/rooms.rs`, `livekit.rs`, `db/repo/{presence,sessions}.rs` | `room_presence`, `share_sessions`, the in-memory ledger of slots, announcements | token, the six webhook events | events resent after a half-done handler, rooms reported independently, restarts |
| Revocation | `crates/bot/src/revoke.rs` | none of its own | sweep of a channel or a guild, eviction | runs beside the webhooks its own evictions cause, and beside other sweeps |
| Discord replica and permissions | `crates/api/src/discord/replica.rs`, `bot/src/{handler,replica_sync}.rs`, `domain/src/discord.rs` | guilds, roles, channels, members, an index of channels, connection state | upserts and removals, backfill, staleness, permission computation | handlers that overlap; a disconnection's clock; an algorithm with an order of precedence |
| LIVE tags | `crates/bot/src/announce.rs`, `db/repo/live_tags.rs` | tagged members, saved nicknames, a broadcast queue | snapshot, flush, tag, restore, clean-up at start | Discord calls fail or the process dies between two writes; the queue overwrites |
| Native share core | `desktop/src-tauri/src/{share,publisher}.rs`, the threads of `capture.rs`, `preview.rs`, `audio.rs`, `camera/` | the live publication of each source, one connection | start, stop and stats of a screen and of a camera, give up | a mutex held over joins of threads that need it; a source that dies while it is started |
| Capture, preview and camera | `desktop/src-tauri/src/camera/`, `capture.rs`, `preview.rs` | an open device, its format | list, open by either of two paths, change of format, convert, scale | two namespaces of devices; strides, odd sizes and six pixel layouts |
| Media session | `desktop/src/media/session.ts`, `store/media.ts` | followed channel, room, share, camera | follow, leave, connect, start and stop a share | awaits between reading and using the channel |
| Client room store | `desktop/src/store/room.ts` | participants and their publications | READY, RESUMED and six events | events for people not known yet |

How they interact. The bot feeds the replica and starts sweeps, and issues the codes the account is
paired with. LiveKit's webhooks write presence and publish events through the hub, which hands them to
the sessions of the users in the room; each session numbers them and feeds the connection that holds
it. They also publish snapshots that the announcer turns into tags. The client's gateway reduces
events into its room store and follows the room with a media session, which asks the token route for
what it declares it will publish and gives the token to the native core. Every HTTP call and the
gateway's IDENTIFY use the access token that the account part renews.

What makes each part correct:

- gateway server: a number is never given to two frames of a session; the newest frames can be
  replayed; no frame reaches somebody else; a dropped session does not come back; a connection that
  closes ends and an abandoned session is collected;
- gateway client: across dead links and resumes it handles each dispatch once and in order, and finds
  out that a link is dead;
- tokens and codes: a family is never worth two sessions, and a revoked one is worth none; a code opens
  one session at most;
- account: the client never trips reuse detection by itself, nobody waits for a refresh that is
  over, a sign-out leaves no token;
- rooms: no more slots than the ceiling; a row means a connection; nobody is shown, counted or
  announced as live who is not;
- replica: its index and its guilds agree, a permission is what the most specific rule says, and whoever
  lost the right to be in a room is about to be put out of it;
- tags: every tag can be undone, and a quiet announcer has everyone right;
- share core: no loss is forgotten, nothing leaks, no command deadlocks, and what is on the air is live;
- camera: one open device, the one that was picked, and every frame read as what it is.

`PROJECT.json` lists the hazards at the line where each bites, with the properties aimed at it.

## 2. Modules

| Module | Models | A step is |
|---|---|---|
| `SessionRegistry` | what the hub promises (abstract): sessions are admitted and dropped, a user has at most a limit of them, an admission drops no more than the limit asks for, and nothing dropped returns | an admission or a drop |
| `GatewayServer` | `hub.rs`, `session.rs`, `mod.rs` | one lock section or one atomic operation of a task |
| `GatewayClient` | `client.ts` | one callback or timer |
| `Gateway` | server and client, composed over links that may die; a link has a queue each way | a step of either |
| `RefreshTokens` | the token table and its handlers | one SQL statement |
| `Account` | `api/client.ts`, `runtime.ts`, the vault; extends `RefreshTokens` | what a flow does between two awaits |
| `PairingCodes` | the `/tela` command, `/auth/pair`, the table and the clean-up | one SQL statement |
| `Rooms` | token route, webhooks, ledger, presence, sessions, evictions | one statement, one lock or one call to LiveKit |
| `ChannelPermissions` | `domain/src/discord.rs`, and the reference it is compared with | pure |
| `GuildReplica` | replica, the bot's handlers, sweeps, admission; extends `ChannelPermissions` | one write under the replica's lock, or one query of a sweep |
| `LiveTags` | the announcer, its queue and its table | one await of the announcer |
| `ShareCore` | commands, threads and connection of the native core | what the holder of the lock does between two calls that can fail, or one step of a thread |
| `FrameFormats` | scaling, ranking of formats, pixel layouts | pure |
| `FrameCapture` | listing, both opening paths, changes of format, frames; extends `FrameFormats` | one call to Windows that can fail, or one frame |
| `*_proofs` | theorems about the module they extend | |
| `MC*` | model values, symmetry sets, small sets of inputs | |

Variables carry the names of the fields they model, with a comment where the name differs;
`map` in `PROJECT.json` gives the lines of every definition. Definitions commented "Mutant" are
plausible bugs of the definition that follows them; no specification uses them.

**Gateway server.** A session is named by the connection whose IDENTIFY created it. `pc` says where a
task is between two atomic operations: `dispatch` takes its number (`DispatchNumber`), pushes into the
ring under the buffer lock (`DispatchStore`), and sends (`DispatchSend`). `resume` finds the session
(`Resume`), reads `evicted_through` (`ReplayCheck`), copies the missed frames (`ReplayCollect`),
writes outbox, time and flag one after the other (`Reconnect`), then sends the copy and RESUMED
(`Replay`). A closing connection disconnects its session in three writes and then waits for its writer.
The registry's lock appears as the guard `NoReader`: a publisher holds it shared while it iterates.
The state of a session that is no longer registered stays, because tasks still hold it.

**Gateway client.** JavaScript runs a callback to its end, so each is one step. Delays only decide
when a timer fires, so a timer may fire at any time; back-off arithmetic is left out.

**Refresh tokens.** Tokens are numbered in the order of insertion and a family is named by its first
token. Two history variables: `parent`, and `crossed` for families revoked while a rotation was between
its two statements (section 6).

**Account.** A task is a flow (a call, a start, a pairing, a sign-out). Trouble is a set of kinds (lost
exchange, server error, sign-out, relaunch, copied token, expiry) with a budget, so that a property
can say under which of them it holds. A task that gives up leaves its handler running on the server.

**Pairing codes.** A command counts the recent codes, writes the account and inserts the code in three
statements; an exchange consumes the code with one guarded UPDATE and then issues the session, or fails
and leaves the code spent. `opened` is a history variable: the sessions a code opened. The table
forgets rows (`jobs.rs`), `issued` and `rows` do not, so a property can speak of a code that is gone.

**Rooms.** LiveKit is external and modelled from what the code relies on: somebody who shares is in the
room twice, once to watch and once to publish; a room's events come one at a time and in order; an
event not answered with success is sent again (`rooms.rs`, "Recusar faria o LiveKit reenviar");
different rooms are independent; an empty room expires. `step` is where the handler of a room's
first event is; a failed statement puts it back to `idle` and leaves the event at the head of the
queue, which is a resend. Evictions call LiveKit, which queues the leave events the webhooks then
handle. Times, the number of viewers, egress, signatures and the payloads of dispatches are data no
property here tells apart. The check of access only reads the replica and is one step with the claim:
a token obtained after a slow request could as well have been obtained at the time of the check, since
none is ever withdrawn, and the bound on the slots does not depend on who may ask.

**Replica.** Serenity, the Discord library, is external: it runs every event handler as a task of its
own, so a handler's write and the queries of the sweep that follows interleave with other handlers.
Discord is a source of events over small sets of layouts, masks and overwrites. Of a room only the rows
are here (`row`), because they are what a sweep reads; what an eviction does at LiveKit is in `Rooms`.
`excused` is a history variable of the people no sweep of this code ever reaches (section 6).

**LIVE tags.** A nickname is a name and a flag, so the length limit of Discord is left out. `task` is the
rename or restore under way, with the nickname it has read. A call that Discord reports as failed may
still have been made. `excused` is a history variable: members about whom a call failed, which the code
does not make again, members who renamed themselves, and the members of a guild whose newest snapshot a
full queue overwrote (section 6).

**Share core.** `Sharing::live` is a mutex a command keeps over every await, so `holder` is the command
and `at` its next step. Threads leave on their own: a capture ends when its source is lost, a preview
when the last tap is gone, a sound that answers too late is stray. A loss spawns `give_up`, counted in
`due` until it gets the lock.

**Capture.** The pure half is `FrameFormats`: a pixel layout says which byte of the buffer each pixel's
luma and chroma is read from, so "inside the memory" is a statement about indices and not about
colours; a ranking of formats is a sequence of their indices in what the device lists. `FrameCapture` walks through `list_cameras`, the Media Foundation attempts, the DirectShow
fallback and one frame at a time; what Windows lists, refuses and delivers is chosen by the model.

## 3. Runs

| Run | Instance | Shows |
|---|---|---|
| `server_hub` | 2 connections of one user, 1 of another, limit 1, ring of 1, 2 numbers, 1 restart | the registry's two halves agree and respect the limit (`RegistryAgrees`), nobody receives somebody else's frame (`OnlyOwnFrames`), the hub implements `SessionRegistry` (`HubIsRegistry`) |
| `server_live` | 2 connections of one user, 1 publisher, ring of 3, 4 numbers, fair | the inductive invariant of the proofs (`ServerInv`: numbers are unique, the ring is bounded, no sender outlives its task); the newest frames can be replayed (`RecentFramesKept`); a closing connection ends (`ClosingEnds`), an abandoned session is collected (`SessionsAreCollected`) |
| `gateway_stream` | client with 2 sockets, ring of 2, 4 numbers, 1 dead link | the client handles its session's dispatches once, in order and without a gap, when no two dispatches, and no dispatch and resume, of the session overlapped (`StreamInOrder`) |
| `gateway_live` | 1 socket, 1 dead link, 1 restart, tokens that expire, fair | a client whose link died after HELLO lets go of it (`DeadLinkAbandoned`) |
| `account_session` | 2 flows, 2 handlers, 3 tokens, any 2 troubles | `AccountInv`, the inductive invariant, which contains `TokensInv` and with it that a family is one session at most and a revoked one none; the client alone trips no reuse detection (`NoFalseReuse`); joiners of a refresh are served (`JoinersServed`); a sign-out leaves nothing behind (`SignedOutIsClean`) |
| `pairing` | 3 codes, 2 commands, 2 exchanges, 1 code an hour, 1 fault, 4 instants | a code opens one session at most, of the account it was issued for (`SpentOnce`); the codes one can use exceed the limit by the overlapping commands at most (`UsableAreLimited`) |
| `rooms_room` | 1 room, 2 users, 1 screen slot, 2 queued events, 1 fault, 1 change of rights | `RoomsInv`, which bounds the ledger; in a quiet room a row is a connection (`RowIsConnected`) and, of somebody let into no other room, a shown source is on the air (`ShownIsLive`), an open session has its person there (`SessionHasViewer`) and the last announcement names nobody who is gone (`AnnouncedIsLive`) |
| `replica` | 2 guilds of which 1 is served, 2 users, 1 role, 1 channel, 2 handlers, 3 events, 1 join, 1 fault | index and guilds agree (`ReplicaIsSound`); the seven steps compute what the most specific rule says (`PermissionIsReference`); whoever lost the right to be in a room is about to be evicted (`RevokedIsOwed`) |
| `tags` | 2 rooms of 2 guilds, 1 member, queue of 1, 3 snapshots, 2 faults or crashes, 1 rename, fair | what is saved carries no tag (`SavedIsClean`); a tag has a row to undo it from (`TagIsOwed`); in a guild with one room a quiet announcer has exactly those who are live tagged (`QuietIsRight`); once nothing more is published or fails, it comes to rest (`ComesToRest`) |
| `share_core` | 1 room, 3 faults, fair | a connection exists exactly while something is live (`IdleIsClosed`); a dead source is about to be given up (`LossIsPending`); no thread is left over (`NothingLeaks`); a live source is on the air with its own tracks, and what else is there was left by a failed call (`OnAirIsLive`); every command gives the lock back (`LockIsReturned`); a dead source is taken down and reported (`LossEnds`) |
| `camera` | 2 cameras, 2 names, frames of at most 6 by 8, each pair of formats | one device is open at most (`OneOpenDevice`), the one that was picked (`OpenedIsChosen`); the list names no camera twice, and leaves one out only for another of the same name (`ListedOnce`); formats are tried in a sound order (`AttemptsAreSound`); every frame is read as what it is, inside its memory (`FrameIsSound`) |
| `rooms_moved` (violation) | 2 rooms, 1 user | `PresenceIsConnection`: see section 5 |

**Bounds.** Two connections and a publisher give every pair of tasks that can meet on one session:
an old and a new connection, and an event published while one goes and the other comes. In
`server_live` the ring (3) is as large as the number of processes that may dispatch at once, which
`RecentFramesKept` needs to say anything, and the fourth number makes it overflow. `gateway_stream`
overflows a ring of 2 by two, which is what a gap takes. Three connections are needed only for
eviction between two users (`server_hub`). In `account_session` the two troubles may be of any two
kinds, which covers each pair of causes; three tokens give a pairing and two rotations, or two families
of which one rotates. In `pairing` two commands pass the limit of one together and a third code comes
after a clean-up; two exchanges race on a code. In `rooms_room` two people compete for one slot while a
fault, a revocation and a restart fall between any two statements; the fault and the restart share one
budget. Only screens are requested there, so the branch of `on_share_stop` where the other source stays
on the air is covered by the proofs (which have both sources) and not by that run. It has one room, in
which every user is somebody let into no other: `ShownIsLive`, `SessionHasViewer` and
`AnnouncedIsLive` say nothing of others, because of the row that `rooms_moved` loses. All of them are
proved for any number of rooms. In `replica` two handlers and
three events give two sweeps that overlap while the replica changes under both; the layouts differ in
the channel, and the rules set role, @everyone and member against one another. In `tags` a queue of one
overwrites at the second snapshot, the two rooms overwrite each other's, and two faults give a crash
and a failed call in either order; the proofs have any number of members and rooms. In
`share_core` three faults give a refused call, a lost source and a lost connection in one start, or a
track that is not taken down and then published again; both tracks of a screen staying up is one fault. In
`camera` the sides include odd ones and ones above the ceiling, and three devices offer more formats
than may be tried. Symmetry is used only in runs without liveness, over values no action tells apart.

Deadlock is not an error in these models: connections, tokens, codes, events and faults are bounded, and
a client that has been signed out or has run out of sockets rightly has nothing to do.

**Fairness.** `ServerFairness` and `Fairness` assume that tokio polls a task that can run (weak
fairness of its steps), that waiters of the registry's `RwLock` are served in order (strong fairness of
the steps that take it alone: tokio's lock is a queue), that the sweeper's interval ticks and time
passes, that frames on a live link arrive and that the client's timers fire. They do not assume that a
client sends anything, that anybody publishes, that a link fails visibly or that a token is renewed.
`CoreFairness` assumes that a call to LiveKit or to Windows returns, with success or not (weak fairness
of the holder's steps), that threads run, and that the core's mutex is fair to a `give_up` that waits
for it (strong fairness of `TakeGiveUp`: tokio's mutex is first in, first out). `FairTagsSpec` assumes
that the announcer is polled, that its calls return, and that a process that crashed is started again.

## 4. Proofs

| Theorems | State | Assume |
|---|---|---|
| `ServerInvariant`, `ServerTypeCorrect` | `ServerSpec => []ServerInv`, `[]ServerTypeOK` | `ConnsAssumption`, `LimitsAssumption` |
| `NumbersAreUnique`, `RingIsBounded`, `NoSenderOutlivesItsTask`, `FramesStayWithTheirUser`, `RegistryIsConsistent` | `SequenceNeverRepeats`, `BufferBounded`, `OutboxIsLive`, `OnlyOwnFrames`, `RegistryAgrees`, for any number of connections, users, publishers and any limits | the same |
| `NewestFramesAreKept` | `RecentFramesKept`: the ring lacks no more of the newest numbers than there are dispatches on their way into it | the same |
| `HubRefinesRegistry` | `ServerSpec => HubIsRegistry`: the hub implements `SessionRegistry` | the same |
| `GatewayServes`, `ServedSafely` | `Spec => AnyServerSpec`: the server next to a real client, over links that die, is a server whose clients may ask for anything, and keeps all of the above | the same, and `GatewayAssumption` |
| `StreamIsInOrder` | `Spec => []StreamInOrder`: what the client handles of a session on which nothing overlapped is 1, 2, 3 and so on, for any number of sockets, users, publishers, lost links and restarts and any ring | the same |
| `TokensInvariant`, `OneSession`, `RevocationIsFinal` | `TokensInv`, `OneSessionPerFamily`, `RevokedFamilyIsDead`, for any number of concurrent requests and tokens | `TokensAssumption` |
| `AccountInvariant`, `NobodyIsLeftWaiting`, `ReuseIsNeverFalse`, `SignOutCleans` | `AccountInv`, `JoinersServed`, `NoFalseReuse`, `SignedOutIsClean`, for any number of flows, handlers, tokens and troubles | `TokensAssumption`, `AccountAssumption` |
| `AccountUsesTokens` | `AccountSpec` implies the token table's own specification: whatever the client does, the server sees requests that `RefreshTokens` allows | the same |
| `CodesAreSpentOnce`, `UsableCodesAreLimited` | `SpentOnce`, `UsableAreLimited`, for any number of codes, commands, exchanges and faults and any limit | `PairingAssumption` |
| `RoomsInvariant`, `LedgerIsBounded`, `RowsAreConnected` | `RoomsInv`, `LedgerBounded`, `RowIsConnected`, for any users, rooms, ceilings, faults, restarts and lengths of queues | `RoomsAssumption` |
| `EventsInvariant`, `NobodyIsShownOffTheAir`, `SessionsHaveViewers`, `AnnouncedAreLive` | `EventsInv`, `ShownIsLive`, `SessionHasViewer`, `AnnouncedIsLive`, for the same, with both sources | the same |
| `ResolveIsReference` | the permission algorithm grants exactly the bits of the reference, for any roles, overwrites and members | none |
| `MirrorIsSound`, `PermissionsAreReference`, `RevocationsAreOwed` | `ReplicaIsSound`, `PermissionIsReference`, `RevokedIsOwed`, for any guilds, handlers, events and faults | `ReplicaAssumption` |
| `TagsInvariant`, `SavedStaysClean`, `TagsAreOwed` | `TagsInv`, `SavedIsClean`, `TagIsOwed`, for any rooms, members, queue, faults and renames | `TagsAssumption` |
| `QuietInvariant`, `QuietAnnouncerIsRight` | `QuietInv`, `QuietIsRight`, for the same | the same |
| `CoreInvariant`, `IdleCoreIsClosed`, `LossesArePending`, `NoThreadLeaks`, `TheAirIsLive` | `CoreInv`, `IdleIsClosed`, `LossIsPending`, `NothingLeaks`, `OnAirIsLive`, for any rooms and any number of faults | `CoreAssumption` |
| `FitScales`, `AcceptedIsReadInside`, `RankedIsSound` | the pure half: what `fit` answers for frames and ceilings of any size; a frame the converter takes is read inside its memory without mixing pixels or planes; a ranking has nothing twice, the best first and an uncompressed format within reach | `CaptureAssumption` |
| `OneDeviceIsOpen`, `ChosenIsOpened`, `CamerasAreListedOnce`, `AttemptsAreRanked`, `FramesAreSound` | `OneOpenDevice`, `OpenedIsChosen`, `ListedOnce`, `AttemptsAreSound`, `FrameIsSound`, for any devices, names, formats and frames | `CaptureAssumption` |

`LimitsAssumption` excludes a resume buffer of size 0: the configuration accepts it, and the ring then
grows without bound, because `dispatch` pops only when the length equals the capacity before a push.

The arguments:

- *`ServerInv`.* Uniqueness of numbers is not inductive by itself: a publisher between taking a number
  and storing it must hold a number no frame has, and that its session exists. So the invariant says who
  may hold which session at which `pc` (`TaskInv`), that a session exists nowhere before its IDENTIFY
  (`SessionInv`), whose frames are where (`FrameInv`), and that the registry's order is the order of
  `attach` (`ArrivalInv`). `OutboxIsLive` needs the same: an outbox is written by the task it names
  and cleared before that task waits for its writer. The refinement rests on `ArrivalInv`: the
  sessions `attach` drops are the oldest of that user, exactly as many as exceed the limit.
- *`AnyServerSpec`.* `ServerSpec` lets a client present one of the constant `Positions`; a real client presents
  whatever it has reached, and its loop may end with any code. The lemmas about the server are therefore
  about `AnyServerNext`, of which the steps of `ServerSpec` (`ServerIsAny`) and of the server in
  `Gateway` (`ServesAny`) are instances.
- *`StreamInv`* follows a session's frames from the ring to the client, while somebody reads the socket
  (`ReaderInv`; what is on a wire nobody reads is never seen).
  On the wire every dispatch is the successor of the one before it, or of what the client has handled
  (`InOrder`), all of one session the client knows or is about to be told of (`Whose`), and they end where
  that session has got to (`Reaches`, `ReachedIs`: its last number, less the dispatch that has taken a
  number and not sent it, or the start of the replay that has yet to be sent). For the handshake, question and
  answer alternate (`OneQuestion`), no dispatch is on the wire meanwhile, and a RESUME that is on its way, or
  is being worked on, names exactly the client's position (`AskInv`): this is what fails if a client could go
  on handling dispatches after it has sent RESUME. On the server, a session without overlaps has one
  dispatch or resume under way (`OneAtATime`), a ring that is a gapless stretch up to its last number
  (`LedgerInv`), and a copy for the replay that reaches from the client's position to that number
  (`ReplayInv`). READY is number 1 wherever it is (`ReadyInv`, `QueuedReady`), so a client that follows a new
  session starts at 1. `AppliedInv` then says that what has been handled is exactly `1..lastSeq`.
  Every conjunct that speaks of order holds of sessions outside `overlapped` only; section 6 says what
  happens to the others.
- *`TokensInv`.* At most one rotation wins the guarded UPDATE; the winner is recorded as "consumed and not
  yet exchanged" (`RotationInv`), and a handler works on the family of the token it was presented
  (`FamilyInv`). With these, a family has one usable token or one pending insert, never both.
- *`AccountInv`.* `NoFalseReuse` says that the client never presents a consumed token by itself, which holds
  because of everything else: what each flow awaits and that the handler working on it is its own
  (`HandInv`), what the flows may assume of each other until a sign-out meets a refresh or a pairing
  (`OrderlyInv`), that a client nobody refused stays paired (`PairedInv`), and that while nothing else has
  happened the one token the server would accept is the client's (`LoyalInv`).
- *`SpentOnce`* is inductive as it stands: it says of each exchange under way that it is alone with its
  code (`Alone`), that the code is marked (`Marked`) and that its account is there (`AccountsFirst`).
- *`UsableAreLimited` and `RecentFramesKept`* are counts, and neither is inductive. `LimitInv` bounds the
  usable codes of a person together with their commands that are past the check and have not inserted:
  an insertion moves one from the second count to the first. The ring's count is, for a registered
  session and any frame: the older numbers pushed after it and the dispatches that have still to push an
  older one are fewer than the processes, since all of them were under way together. `RingInv` keeps
  that count for a frame that has left the ring, in which a full ring of newer ones then stands.
- *`RoomsInv`.* The bound of the ledger follows from the check and the claim being one lock section.
  `RowIsConnected` speaks of quiet rooms, so it is far from inductive: the invariant says that every
  row, and every join still queued, is of somebody who is watching or whose leave comes later in the
  same queue (`RowsAccounted`, `JoinsAccounted`), and that while a leave is handled its row is gone
  (`HandlersHaveEvents`), so that taking the event off the queue loses nothing. A failed handler, an
  eviction, a restart and another room's leave only remove rows or leave the queue alone.
- *`EventsInv`* does the same for what the row says. A source that is shown, or reported and not yet handled,
  is on the air or its stop comes later in the queue (`SourcesAccounted`); a session open, or being
  opened, has a person who stays or whose leave comes later (`SessionsAccounted`); who is announced and
  publishes nothing is the subject of the first event, whose handler announces again before it is answered
  (`AnnouncementsAccounted`). "Later" counts the first event until its handler has done that part, so a
  failure in between puts nothing out of account. `TokensFirst` keeps other rooms out: a room whose token
  somebody never had has no event, row or sweep of theirs.
- *`ResolveIsReference`* goes bit by bit through the steps: at each, a bit is what the later steps leave of
  it. `MirrorIsSound` rests on a channel belonging to one guild for ever (`Home`): a second guild never
  claims an index entry that another one's removal would then take away.
- *`RevokedIsOwed`* says who may not be in a room and is covered by a sweep. `Covers` is what each stage of a
  sweep still reaches: before its listing everybody in what was written, then its list, then the person
  in hand; a write after that has a sweep of its own, and who is on no list by then is excused.
- *`TagsInv`.* A tag is owed to its row. The row is written before the edit and deleted after the undo, so
  the invariant says what a task holds at each stage (`TaskInv`): the nickname it read, without the
  prefix; during the edit, the row; after a failed edit, that the member is excused.
- *`QuietInv`.* The newest word on a room is in the queue, taken over, being applied, or in the tags
  (`NewestInv`); of each member it says which of the tag, the row and the task in hand agree with it
  (`MemberInv`), unless they are excused.
- *`CoreInv`.* The properties speak of a core that no command holds. The invariant says what a command may
  rely on at each of its steps: which threads, tracks and flags it has made so far (`StepInv`), that
  only a joined connection carries anything (`LinkInv`), that what it carries is held by the slot of a
  source that is live, being started or being taken down, or else is `adrift` (`AirInv`), that threads exist where their
  source is live or being started (`ThreadInv`) and that a dead one has its `give_up` (`DueInv`).
- *Capture.* `OneOpenDevice` and `OpenedIsChosen` follow from what each stage of an opening holds (`OpenInv`,
  `ChosenInv`); a frame is sound because a buffer is accepted only in the layout negotiated last
  (`LayoutInv`), and then by arithmetic on strides, planes and odd sides.

The proofs are in eight modules, one for each component they are about; those of `RefreshTokens` are in
`Account_proofs`, next to the client that uses it, and those of `GatewayServer` in `Gateway_proofs`, next
to the system it is part of. `StreamInv` is not a property of a run: before it was proved, TLC checked it on
the instance of `gateway_stream`, and found nothing in the first six million states of one with a restart
and tokens that expire.

Every safety property of a passing run is the subject of a theorem. Only model-checked is what TLAPS has no
rules for, everything under fairness (and `ENABLED`): `ClosingEnds`, `SessionsAreCollected`,
`DeadLinkAbandoned`, `ComesToRest`, `LockIsReturned`, `LossEnds`.

## 5. Reading a counterexample of `rooms_moved`

The user watches A, leaves it and joins B. LiveKit has A's `participant_left` and B's
`participant_joined` to deliver, to handlers that run at the same time. B's upsert moves the row to
B; then A's `presence::leave` deletes it by user. Both rooms are quiet, LiveKit carries the user in B,
and the room list, the recipients of dispatches and the revocation sweep, all read from
`room_presence`, do not know of them.

## 6. Differences met while modelling that no run states

What the code does in a corner where a comment, a document or a reader expects something else. A
property above that needs such a corner left out says so, and names it.

Gateway:

- Two dispatches enter the ring in the opposite order of their numbers, and `evicted_through` goes back
  below a number that was evicted (`session.rs:102`; the field's comment, `session.rs:29`, says
  "highest").
- An event published while a session resumes overtakes the replay, or falls between the copy and the
  outbox (`mod.rs:291`; `docs/websocket.md:143`): `StreamInOrder` excludes overlapping dispatches.
- An old connection's task ends after a new one resumed the session, and its disconnect takes the new
  outbox away (`mod.rs:189`; `docs/websocket.md:160`).
- At the connection limit `attach` sends RECONNECT to a session it has removed, so the resume the client
  then tries is refused (`hub.rs:77`; `docs/websocket.md:71`).
- A session swept between being found by `resumable` and reconnected is answered RESUMED and is no
  longer registered (`mod.rs:278`; `docs/websocket.md:144`).
- Close codes are logged and not sent (`mod.rs:193`; `docs/websocket.md:93`).

Tokens, account, pairing:

- A revocation between the two statements of a rotation does not reach the token inserted afterwards
  (`session.rs:5`): `RevokedFamilyIsDead` excludes the families in `crossed`.
- A sign-out that crosses a refresh or a pairing leaves what that adopts: `SignedOutIsClean` excludes
  behaviours where they overlapped.
- A lost response of `/auth/refresh` leaves the client with a consumed token; the next refresh revokes
  the family (`client.ts:131`).
- An application started while the server is unreachable starts the gateway without a token, which ends
  in a sign-out that clears the vault (`runtime.ts:180`; the comment three lines above says otherwise).
- The hourly limit of codes is counted before the insert (`bot/src/pairing.rs:71`) and lowered by the
  clean-up; a session that cannot be issued leaves its code spent.

Rooms and revocation:

- A retried `on_publisher_gone` finds nothing left to clear and sends no SHARE_STOP (`rooms.rs:283`).
- A late leave or `room_finished` gives back the slot of a newer share; the ledger then admits one more
  than LiveKit carries room for (`livekit.rs:280`).
- The join of a viewer who reconnects while the core goes on publishing clears the sources of their row
  (`presence.rs:78`).
- A token issued before a revocation may be used after the sweep has listed the room (`rooms.rs:100`),
  since a join never asks the replica again. A guild or channel that leaves the mirror takes the sweep's
  question with it (`revoke.rs:68`), and a listing or a deletion that fails is not tried again. These
  people are the `excused` of `GuildReplica`.
- An eviction deletes the row of whatever room the person has moved to meanwhile.
- A second disconnection report restarts the grace period (`replica.rs:152`); a page of the member
  backfill may bring back a member removed since it was fetched; a change of owner (GUILD_UPDATE) has no
  handler.

Tags:

- A failed edit, row or undo is not tried again (`announce.rs:185`, `:262`, `:267`), and snapshots
  published during the sweep at start may be lost (`:131`): `TagIsOwed` and `QuietIsRight` excuse those
  members and rooms.
- A full queue drops its oldest snapshot, which may be another room's newest: that room keeps its old tags
  until it changes again. `QuietIsRight` excuses the members of its guild.
- A snapshot of one room strips the tags of those who are live in another room of the guild (`:192`).

Native core and camera:

- A `give_up` that comes late takes down the newer share that was started meanwhile (`share.rs:288`).
- A screen whose audio track is refused stays on the air as long as the camera keeps the connection
  (`publisher.rs:417`), and so does, without any slot that holds it, a track of either source whose
  `unpublish_track` fails: `unpublish` empties the slot first and only logs the error (`publisher.rs:497`;
  "takes one source off the air", `:486`). The room then watches a source that nobody shares, which is what
  `share.rs:279` means to prevent. `ShareCore` records these tracks in `adrift`; `OnAirIsLive` counts them
  apart, and says that a live source is never carried by them and that they end with the last live source.
- `Publisher::stop` only logs a `close` that fails (`publisher.rs:588`). The core has dropped the room by
  then; the model takes it that a dropped room carries nothing.
- When the picked camera is unknown to DirectShow, the fallback may open another one of the same name
  (`dshow.rs:198`), and the list hides a camera known only to DirectShow that shares a name
  (`camera/mod.rs:120`; "every camera on the machine, once each", `:102`).
- With six or more compressed formats among the best ones, no uncompressed one is tried (`mf.rs:260`);
  all frames of an odd-sided Media Foundation format are skipped; a DirectShow sample whose new media
  type cannot be read is taken in the old shape (`dshow.rs:897`).

Media session, which is read and not modelled:

- Two overlapping `follow` calls may leave the first room connected (`session.ts:241`).
- Every reconnection asks for a viewer token with an empty intent (`session.ts:565`), which gives back the
  slots the core still publishes on.
- `leave` does not stop the camera: the core goes on publishing while the store says it is off, so that
  neither the button nor the hot key (`runtime.ts:119`) does anything about it.

## 7. Plan

Done: gateway, account, pairing, rooms and revocation, replica and permissions, tags, the native core and
its capture (sections 2 to 4). Left, in the order of their worth:

1. `MediaSession`: `session.ts` and `media.ts` as flows between awaits, over the token route of `Rooms` and
   the commands of `ShareCore`: a declared intent never drops a source that is on the air; an older
   `follow` does not undo a newer one; no share survives the room it was started for.
2. `RoomStore`: READY, RESUMED and the six events, composed with a server that dispatches as `Rooms` does: the
   store converges to the presence table. Needs the content of READY and of the dispatches.
3. Rooms with two sources and two rooms: a share session is open exactly while a source is on the air.

## 8. Not modelled

- Media session and client room store: see section 7; their parts that meet other components are in
  `ShareCore`, `Rooms` and `Gateway`.
- Voice states and their announcements in the bot, and the product's own permission bits.
  `voice_states.rs` has no caller.
- Colour arithmetic, JPEG and base64, thumbnails, the plumbing of COM and WASAPI, encoders and bitrates,
  the updater: computations on pixels and samples, or state of the operating system.
- The user interface renders the stores. Configuration, validation and error mapping are stateless; their
  limits are the modules' constants.
- Within the modelled parts: signatures and hashes, rate windows, the content of READY, several devices of
  one person in one LiveKit room (LiveKit disconnects the older of two equal identities), a vault that
  fails, the phase `update_required`, the length of a nickname. The server's timeout on a link that is alive but
  slow is in `gateway_live` and in the proofs; in `gateway_stream`, which has no heartbeats, only a dead
  link times out.

## 9. Running

`tlc -workers 2 -config <run>.cfg <MC module>` for a run of `PROJECT.json`, `tlapm <module>_proofs.tla`
for the proofs, both in this directory. The longest run takes two to three minutes with two free cores.
