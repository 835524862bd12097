# MiAirX in TLA+

MiAirX makes Xiaomi speakers appear as DLNA renderers and AirPlay receivers. It is one Python process: an asyncio event
loop runs the DLNA, web and application code, and threads run the AirPlay side. This directory holds TLA+ modules
translated from the source under `src/src/miairx/`, configurations with which TLC checks them on small instances, and
theorems that TLAPS proves for every value of the constants. `PROJECT.json` maps every definition to the lines it models.

## Inventory of the system

| Component | Source | State | Operations | Interacts with |
|---|---|---|---|---|
| DLNA renderer | `protocols/dlna/renderer.py` | shadow transport state, current and next media, accumulated position and clock, media generation, monitor and auto-next tasks, one `asyncio.Lock` | SOAP commands, play monitor, automatic next track, idle reset | speaker control (calls), media proxy (URL callbacks), eventing |
| Renderer synchronisation | `app.py` | poll under way, one resume task per renderer | periodic poll, state transition side effects, automatic resume | writes the renderer's fields without its lock |
| Media buffer and proxy | `media/buffer.py`, `protocols/dlna/server.py` | downloads, buffers, token, buffer and URL maps | create proxy or seek URL, pre-buffer, serve, collect | renderer callbacks, HTTP clients |
| RAOP receiver | `protocols/airplay/receiver.py`, `timing.py` | jitter buffer, expected sequence number, gap and retry state | insert, drain, flush, retransmission request | audio stream; own thread |
| AirPlay audio stream | `protocols/airplay/audio.py` | bounded queue per client, session id | write, clear, abort, HTTP stream | receiver threads, event loop |
| AirPlay server and bridge | `protocols/airplay/server.py`, `speaker_airplay.py`, `ap2.py` | RTSP session owner, session resources, playing flag | ANNOUNCE, SETUP, RECORD, FLUSH, TEARDOWN, callbacks | receiver, audio stream, speaker control |
| AirPlay pairing | `hap.py`, `fairplay.py`, `legacy_pairing.py` | pairing step, nonce counters | pair-setup messages, encrypted channel | AirPlay server |
| UPnP eventing | `protocols/dlna/eventing.py` | subscriptions with SEQ and expiry | subscribe, renew, notify | renderer |
| SSDP, AirPlay announcement | `protocols/dlna/ssdp.py`, `airplay/mdns.py` | sockets, registrations | start, stop, answer M-SEARCH | network |
| Speaker control | `speaker/` | a controller per speaker | play, pause, stop, status, retry after login | Mi account |
| Mi account | `auth/` | session, services, QR login sessions | login, invalidate, QR poll | cloud |
| Web interface | `web/` | login failures per client, tokens | login, save configuration, play, seek | everything |
| Application lifecycle | `app.py`, `cli.py`, `core/lifecycle.py` | running and stopping flags, component handles | start, stop, restart, reload | everything |
| Configuration | `config/` | configuration record, file | load, save, port layout | application |
| Utilities | `core/`, `media/formats.py`, `media/transcoder.py`, `version_check.py` | log buffer, health record | | |

Behaviours that are hard to get right: on the event loop, every `await` of a handler lets other handlers, the monitor,
the automatic next track and the poll run; tasks are cancelled wherever they are suspended, inside the lock included;
the speaker's status comes from a cloud that lags and lies; calls of the cloud fail, time out or raise; the AirPlay side
mixes threads with the event loop and receives packets that are lost, duplicated and reordered. `PROJECT.json` lists the
hazards one by one, each at its line with the properties that would catch it.

What makes each component correct:

* renderer: no stray monitor or automatic task; a stale automatic task does not stop newer media; what is reported as
  playing is what the speaker plays; the lock is never lost; every command ends and TRANSITIONING is left;
* synchronisation: the poll never overrides a command under way or what the user did; one resume at a time;
* media proxy: a reader gets a gap-free prefix of the media and never waits for a signal that was consumed; tokens in use
  resolve to live buffers, collection leaves no dangling entry, one download per URL;
* receiver: audio is delivered in order and at most once across the wrap of sequence numbers; a loss is bounded; the
  receiver does not stall;
* audio stream: the queue is bounded, an old session's audio never reaches a new one, one reader per session;
* AirPlay server: one session owns the speaker, a session that ends releases all it took, and does not stop its successor;
* pairing: steps in order, realtime audio on an encrypted connection only;
* eventing: SEQ numbers grow without gaps per subscription, the initial event comes first;
* account and speaker control: overlapping logins never go back to older services, the status shown is the one that counts;
* lifecycle: stop releases whatever start took, in any interleaving with reload.

## Modules

### `AsyncLock`

`asyncio.Lock` as a record of the tasks that are queued and, for each of them, the queued tasks that came before it. The
owner is the queued task nobody is ahead of; releasing and the cancellation of a waiter are the same operation, `Leave`.
This says exactly what a FIFO queue says and stays first-order for the proofs. `Queue` is its data invariant.

### `DlnaRenderer`: `protocols/dlna/renderer.py`

| Variable | Code |
|---|---|
| `r` | the fields of one `DlnaRenderer`; times are kept as what the code compares them with, zero or not |
| `task` | each asyncio task: where it is suspended (`pc`) and the local variables that live across the await |
| `lock` | `DlnaRenderer._lock` |
| `loop` | the task that goes on running because it acquired a free lock without suspending |
| `spk` | the speaker: the media it was told to play and its mode (external); history: `raised`, a call that drives it has raised and none has succeeded since |

A task runs from one `await` to the next without interruption, so every action is the code between two awaits. `play()`
is `Play`, `PlayBegin` (the first critical section), `PlaySeekReady`, `PlayNotified`, `PlayCall` and one of `PlaySucceeds`,
`PlayFails`, `PlayRaises`; the other methods are split the same way. Cancelling a task (`Cancelled`) ends it at once,
takes it out of the lock and may or may not have its request carried out by the speaker (`Landed`). Two suspended tasks
resume in any order. `_media_generation` is only compared with the generations that live automatic tasks remember, so
that the increment is a move to a value none of them holds (`Bumped`).

The application's calls, `reset_to_idle()` and `play()` by tasks of `Background`, are in `AppStep` under the conditions
`app.py` calls them on; `RendererSync` says when they come.

`SpeakerController` reports most failures by raising, and `play()`, `seek()` and `next_track()` have no handler for that: the state
stays what it was, whatever the speaker has done. `PlayRaises`, `SeekRaises` and `NextRaises` record it (`Raised`); a `play_url()` that
succeeds and is settled on PLAYING takes the record back (`Settled`). Properties of a renderer at rest hold unless a call has raised
since, not for a speaker that never does. `pause()` and `stop()` swallow exceptions and go on (`PauseDone`, `StopDone`).

| Property | Meaning |
|---|---|
| `AutoNextIsKnown`, `OneMonitor`, `CommandsRetireAutoNext` | a live automatic next track, a live monitor is the recorded one; a command that ends a playback leaves no automatic next track of it |
| `PlaySendsCurrentMedia` | the media that the second section of `play()` sends is the selected one |
| `PlayingIsOnSpeaker`, `TrackEndIsWatched` | at rest, PLAYING is what the speaker was told to play, and a timed track has a monitor, unless a call has raised since the last success |
| `TransitionEnds` | TRANSITIONING is left, unless a call has raised, or the next URI was cleared in the second before `next_track()` takes it, so that no media is left |
| `TransitioningHeld`, `PausedPositionFrozen`, `PlayingClockRuns` | nobody moves the state from under a handler that announced TRANSITIONING; the clock stands still in a pause and runs in PLAYING |
| `CommandsEnd` | every command ends, whoever is cancelled while he holds the lock or waits for it |
| `GenerationGuardsAutoNext` | an expired automatic next track does not stop the selected media: violated, see `renderer_generation` |
| `ResumeIsKnown` | a resume task that lives is the one in `_resume_tasks` |

Left out: volume, mute and the default volume (fields nothing else reads), event notifications at the end of a command
(only the one in the middle of `play()` separates two steps), the refusal of a video URI (it changes nothing), a renderer
without speaker. `proxy_url_func` and `seek_url_func` are set, as `register_renderer` always does.

### `RendererSync`: `app.py`

Extends `DlnaRenderer` by the poll (`poll`: what it has read and when), the resume tasks (`resume`) and the entry of
`_resume_tasks` (`resumer`). The poll reads a status when it asks (`PollAsks`) and uses it when the answer arrives, which
is `PollIgnores` (the early returns, `Ignored`) or `PollApplies` (the assignment and `_handle_state_transition`, with no
await between). A status of 0 can always be read: the cloud does not know proxied streams. The 30-second test on a pause
and `has_subscribers()` may hold at any time; the STOPPED branch of the idle test needs `_last_control_time > 0`, which
nothing sets. `Deployed`, that the tasks of the application are the poll and the resume tasks, is assumed by `MCRendererSync` and by
the theorems.

### `MediaBuffer`: `media/buffer.py`, and `MediaProxy`: `protocols/dlna/server.py`

| Variable | Code |
|---|---|
| `buf` | the fields of each `MediaBuffer` and where its `_download()` is suspended; `len` counts 64 KiB chunks |
| `req` | each HTTP request for a media: where its handler is, its buffer, `position` and `end`, whether its wait is over |
| `live`, `urlBuf`, `bufToken`, `tokenBuf` | `_media_buffers`, `_url_to_buffer`, `_buffer_to_token`, `_proxy_tokens` |
| `issued`, `source` | tokens drawn so far, the URL each buffer is for |
| `seek` | each `create_seek_url()` that waits for a download or for ffmpeg |
| `served` | history: buffers that fed a response in the last 300 s |

`MediaBuffer` has the download (`Download`) and the response that is fed from it (`Stream`); `MediaProxy` extends it by the
maps, the callbacks of the renderers (`CreateProxyUrl`, `StartBuffering`, `SeekStarts` to `SeekCreatesUrl`), the way of a
request to its response (`Ask` to `RelayEnds`) and the collector (`Ages`, `Collect`). What ffmpeg returns is `bytes`
(`server.py:199`), whose `clear()` in `cleanup()` does not exist (`buffer.py:218`): the exception ends the pass after the
buffer left `_media_buffers` (`server.py:299`, `328`). A pass is therefore `CollectAll`, or `CollectBreaksOff`, which has
released some of the expired buffers, drops that one and leaves the entries of all of them in the other maps until a later
pass. No section under a buffer's lock
awaits, so `_lock` is never contended and is not a variable. `wait_for_data()` is `SendWaits`, the clearing of the event and
the look at the data with no await between, and `Wakes`. On versions of Python whose `asyncio.wait_for` starts a task the
look happens one step later; what it then finds is what `Wakes` finds at once. `Lying` lets the source send more than its
`Content-Length`, as `tests/unit/test_media_buffer.py:106` does; one that sends less breaks off, because aiohttp raises. Tokens and buffers are never reused (they are random),
so the runs may stop when they are used up, and do without the deadlock check. What seeking does to the bytes is left
out: a seek buffer has one chunk. A download whose data arrives does not age: `sock_read` gives up after 120 s, less than
the 300 s of the collector.

| Property | Meaning |
|---|---|
| `NoMissedSignal`, `WaitsEnd` | no response sleeps through data or the end of its download; waits end without their timeout, unless the collector cancels the download |
| `AnswerIsWhole` | a response that is completed, rather than closed by force, sent its range, unless the collector emptied its buffer |
| `MapsAgree`, `OneDownload` | whatever stale entries a broken pass leaves, a URL leads to a buffer of its own, live buffers and tokens know each other, and nothing downloads into a buffer that is not live; a URL has one download at a time |
| `CollectsUnread` | what is being read from memory is not collected |


### `RaopReceiver`: `airplay/receiver.py` and the PCM queue of `airplay/audio.py`

| Variable | Code |
|---|---|
| `phase` | before RECORD (`_started`), in it, after `close()` |
| `expected`, `packets`, `floor` | `_expected`, `_packets`, `_timestamp_floor`; -1 is `None` |
| `gap`, `retries`, `quiet` | `_gap_since` and whether 0.1 s have passed, `_retries`, whether `last_audio` is 0.25 s ago |
| `draining` | the receiver thread is inside `_drain()` and has `_lock` |
| `queue` | `AudioStreamServer._audio_queue`; a chunk is the position it plays, or conceals by silence |
| `rtsp` | the RTSP thread is between `Receiver.flush()` and the end of `clear_audio()` |
| `next` | the sender's next packet |
| `cut`, `done` | history: the position that the last RECORD or FLUSH named (0 if none), and the end of what was written since |

A packet is its position in the stream. Its sequence number is the position modulo `Modulus`; the code only uses
`(seq - expected) & 65535`, which is `Distance`, exact while positions are less than a cycle apart: `Send` keeps an outage
within a cycle (65536 packets, about nine minutes), and `Delay` says how late the network may deliver. The timestamp of a
packet orders as its position: its circle is 2^31 samples wide, half a day. `Insert` is one call of `_insert()` that accepts; the calls that
drop a packet change nothing and are no action. `_drain()` is taken apart into `PlayHead` for each packet, because the reader
and `clear_audio()` act in between, and its three ends `DrainEnds`, `AwaitHead`, `SkipGap`. When a packet is due is left
open: the pacing anchor and the clock (`timing.py`) decide only about time. `_notified` and the callback belong to the
session, as do the next session's queue and receiver; `close()` is taken to join its thread within its second.

| Property | Meaning |
|---|---|
| `Bounded` | the jitter buffer is bounded in number and span (`WindowInv`), and the PCM queue in length |
| `QueueInOrder`, `WritesForward` | the speaker gets each packet at most once, in order, whatever the network repeats |
| `FlushDiscards` | after a FLUSH that names a position, nothing from before it is in the queue or gets into it |
| `BufferedAudioLeaves` | no packet stays in the buffer: the stream does not stall on a gap |

A FLUSH or RECORD without `seq` and `rtptime` leaves the receiver without a head and without a floor: a late packet then
starts the stream anew and may be played twice. The properties count from position 0 in that case. After an outage of half
a cycle or more (`Half`, 32768 packets), new packets are taken for old ones until the numbers come round; the runs reach that case.

### `AudioStream`: `airplay/audio.py`

| Variable | Code |
|---|---|
| `active`, `sid`, `queue`, `lock` | `_active`, `_session_id`, `_audio_queue`, `_consumer_lock`; a queue and a consumer lock are named by the session they were made for |
| `held`, `reader` | consumer locks that a request holds; each request: where it is, its URL, the lock and queue it has read |
| `public` | sessions whose `stream_url` was handed out |

RTSP threads write and the event loop reads without a common lock, so `start_streaming()` is taken apart into
`Activate`, `NewSid`, `NewQueue`, `NewLock`, and the head of `_handle_stream_wav()` into `Request`, `TakeLock`,
`TakeQueue`, `Acquire`. What is in a queue is in `RaopReceiver`. The module has no specification of its own:
`AirplaySession` extends it and composes the two.

### `AirplaySession`: `airplay/server.py`

| Variable | Code |
|---|---|
| `conn` | the locals of each `_handle_client` thread: where it is, `owns_session`, `playing`, whether it has a decoder, its kind of receiver, whether AP2 has its stream, `_notified`, the state of pairing, the encrypted channel |
| `session` | who has `_session_lock` |
| `receiver`, `sockets` | whose `_receiver` it is; whose receiver has the UDP ports open |
| `playFlag`, `server` | `_session_active`; running, stopping, stopped |
| `gone` | senders that vanished without a word |

A request is one step where its thread touches the shared state once. RECORD is four (`Record`, `RecordSid`, `RecordQueue`,
`RecordStarts`), the `finally` block is `CloseReceiver`, `EndStream`, `StopCallback`, `ReleaseSession`. A request that only
answers is no step. Whether a message is well-formed, signed or in time is open, and so is whether ANNOUNCE brings a usable
key. `stop()` is `StopServer` and `StopRest`, the latter after one second per thread, so that threads may outlive it.

| Property | Meaning |
|---|---|
| `OneOwner` | one connection at most has the playback lock, and it finds the UDP ports free |
| `PlayingStreams` | the stream of the one that plays is on and its own, whatever other connections do and however they end |
| `StoppedIsSilent` | whichever of `stop()` and the last thread cleans up last, nothing stays on |
| `NoEarlierPcm`, `OneConsumer` | a reader never gets the audio of a session before its URL's; two never share it |
| `RealtimeIsEncrypted` | AP2 audio only on a connection encrypted under the key of an accepted proof (proved, in no run) |
| `SessionsKept` | the refinement of `PlaySessions`, below |
| `ConnectionsEnd` | a vanished sender does not keep the lock; a stopping server gets rid of every connection |

### `PlaySessions`: what the server promises to the bridge

The abstract specification: sessions come one after the other; `on_play_start` comes at most once in each, after it begins
and before `on_play_stop`; the next begins after `on_play_stop`. `AirplaySession` implements it
(`Sessions == INSTANCE PlaySessions WITH cur <- lock, phase <- Phase`): `RecordStarts` is `Begin`, `AudioReady` is `Hear`,
`StopCallback` is `Finish` where the session played, and every other step is a stutter. `AirplaySpeaker` is built on it.

### `AirplaySpeaker`: `airplay/speaker_airplay.py`

| Variable | Code |
|---|---|
| `due` | coroutines that `run_coroutine_threadsafe` has scheduled, in order |
| `play`, `stop`, `poll` | `_play_on_speaker`, `_stop_on_speaker`, `_poll_speaker_state` of each session: where each awaits, what it plays |
| `awaited` | the poll that a `_stop_on_speaker` or the stop of the service waits for |
| `url`, `shown`, `grace`, `pollTask` | `_stream_url`, `_airplay_active`, before `_play_grace_until`, `_poll_task` |
| `speaker`, `service` | the stream the speaker plays (external); `SpeakerAirplay.stop()` |
| `calm`, `over` | history: callbacks came when the coroutines of the ones before had ended; the last callback was an end |

The interleavings in which callbacks overtake the coroutines are in the model. `CalmPolls` is about the behaviours without
them, because with them the code does leave polls behind (below); `InterruptedResumes` is about all.


### `Application`: `app.py`, `core/lifecycle.py`, `cli.py`

| Variable | Code |
|---|---|
| `at`, `held` | what `async_main` ("main") and each handler that reloads wait for, and the servers they start or stop meanwhile |
| `made`, `httpUp`, `ssdpUp`, `dlnaFor` | DLNA servers made (the last is `dlna_server`, `ssdp`); those with a port, a socket; the controllers the renderers have |
| `airMade`, `air`, `airUp`, `airFor` | AirPlay services made; `_airplay_services`; those with ports; their controllers |
| `cut` | history: services whose stop was cut (`_stop_one`: five seconds, or an exception), so that they were forgotten with a port open |
| `built`, `controllers` | sets of controllers made; the one that the `SpeakerManager` has |
| `web`, `session` | the console; the shared HTTP session |
| `registered`, `stop`, `taken`, `lifecycle` | `stop()` as a shutdown callback, where it is, what it stops; `LifecycleManager` |
| `calm`, `intact` | history: no two reloads have overlapped and no shutdown came during `start()` or cut the start of an AirPlay service; no reload has failed |

`start()`, `reload_after_config_change()` and `stop()` are split at their awaits; the starts of DLNA and AirPlay are shared by
the first two, as in the code (`HttpBinds`, `SsdpStarts`, `AirStarts` for a worker). A start can fail at any await and is
made to fail or not when one of our own servers still has a port, since the configuration that was saved may have moved it.
A stop of AirPlay may be cut (`ClosesAir`): `airplay.stop()` blocks the event loop in `mdns.stop()` and joins its threads before
it comes to its audio server, so that the five seconds of `_stop_one` can end before that; `_airplay_services` is cleared then too. The servers' own behaviour is in the other modules.

| Property | Meaning |
|---|---|
| `StoppedIsOff` | a shutdown leaves no port, socket, console or session, after a start that failed half-way too, and with a reload under way; only an AirPlay service whose stop was cut may keep its port |
| `ServicesAgree` | after a reload, DLNA and AirPlay are up and play on the controllers that the manager has |
| `ServersKnown` | what has a port can be closed by the application, or is an AirPlay service whose stop was cut |
| `ShutdownEnds` | a shutdown ends and the process exits |


### `Eventing`: `dlna/eventing.py` and `_handle_event` of `dlna/server.py`

| Variable | Code |
|---|---|
| `state`, `told`, `last` | the renderer's state as a version; history: the one of the last `notify()`, and the one each subscription was last sent |
| `subs`, `seq` | each subscription: not yet there, there, expired and not yet removed, gone; its `seq` |
| `ready`, `flying` | its tasks that have not started, `cut` where they have been cancelled; requests sent and not ended |
| `missed` | history: the subscriptions whose latest event a cancelled call has dropped |
| `waiting`, `calls`, `session` | callers inside `notify()`; how many calls there were; the HTTP session |

`notify()` builds one event, removes what has expired and makes a task for every other subscription (`Notify`); a task takes
its SEQ when it starts (`Starts`) and never repeats a request (`Ends`). A caller can be cancelled while it waits (`CallerCancelled`): the
automatic next track awaits `notify()`, and a command cancels it (renderer.py:369-373, 429, 465). `gather()` then cancels its tasks; one
that has not started ends without a request and without a SEQ, one that has is a request that fails: its SEQ is taken, and the
subscriber can see the gap. The initial event is built when its task starts.
asyncio starts tasks in the order in which they are made; the model keeps that order within a subscription and leaves it
open between them. What the control point receives is not modelled, only what is sent: two requests may overtake each
other in the network, and SEQ tells the receiver so.

| Property | Meaning |
|---|---|
| `EventsInOrder` | SEQ has no gap, and a later number never tells an earlier state; except number 1 against the initial event |
| `RenewableIsCurrent` | a SID that can still be renewed has been sent its initial event and the state of the last `notify()`, unless that call was cancelled before its task started; the next call makes it good |


### `MiAccount`: `auth/manager.py`, `speaker/controller.py`, `speaker/retry.py`

| Variable | Code |
|---|---|
| `cfg` | the credentials of the configuration, numbered as they are saved: none, a cookie, a password |
| `auth` | `AuthManager`: account and services (by the credentials they were made with), `_logged_in`, status |
| `op` | each operation: its kind, where it awaits, first or second try, the account behind its login or request |
| `failures`, `restart` | `_consecutive_login_failures`; a restart was asked for |

A step runs from one `await` to the next. `play_url`, `pause`, `stop` and `set_volume` are one kind ("command"), `get_status`
("status") and `get_device_list` ("devices") the others; they differ in what they mark and count and in how they retry.
Nothing in the program raises `LoginError` or `TokenExpiredError`, so `with_login_retry` only ever retries as for a transient
error, and the model has no re-login there. Saving the credentials (`Saves`) is one step because `config_store.save`, the update and
`invalidate_session` run without an await. Left out: `close()`, `get_volume`, `get_current_track` (they mark nothing), QR login.

| Property | Meaning |
|---|---|
| `StatusIsHonest` | the status the console shows fits what the next request will do |
| `ServicesNeverOlder` | overlapping logins never put back services of an older account |


## Runs

`MC*` modules add the symmetry of interchangeable tasks to a component; runs with a liveness property do without it.

| Run | Question |
|---|---|
| `renderer_track` | one control point changes, pauses, stops, queues and clears two media, one of them without duration, on a speaker that needs transcoding and may fail or raise at any call, while monitors and automatic next tracks run, under fairness: no stray task, `play()` sends the current media, automatic tasks do not outlive a command, PLAYING is what the speaker plays, a timed track is watched, TRANSITIONING is left |
| `renderer_contention` | a control point that seeks and skips next to an application task (idle reset, automatic play) and a speaker that raises: TRANSITIONING is held by its author, a paused position is frozen, the clock runs in PLAYING |
| `renderer_liveness` | a control point, which also goes back, and an application task under fairness: commands end |
| `renderer_generation` | a SOAP Next while an automatic next track awaits `stop()`: a violation, below |
| `sync` | the poll, the idle reset and the resume tasks next to one control point: at most one resume task, and `_resume_tasks` knows it |
| `media_proxy` | a reader, a seek, callbacks and the collector over one URL, two buffers and two tokens, with a source that breaks off, overflows or sends too much and passes of the collector that break off: maps, downloads, signals, complete responses; under fairness a waiting response goes on |
| `raop` | 7 packets with 8 sequence numbers, a window of 2 and a queue of 3: gaps, evictions, recovery, outages of half a cycle, FLUSH in every state; `Delay` is half a cycle, the largest that the theorems allow |
| `airplay` | two connections that compete, one of them with HAP pairing and AP2, one HTTP reader, two sessions, senders that vanish, a server that stops: the properties of `AirplaySession`, the refinement of `PlaySessions`, and under fairness the end of connections |
| `airplay_speaker` | the bridge over two sessions, with failing calls, interruptions and the stop of the service: no poll is left behind where the event loop keeps up; an interrupted speaker is told to play again |
| `application` | the process from start to exit with two handlers that reload, ports that are taken, starts that fail, stops of AirPlay that are cut, a signal at any time; three servers of each kind: what has a port, what is left on, which controllers are used, the end of a shutdown |
| `eventing` | two subscriptions, two overlapping calls of `notify()` of three, whose callers may be cancelled, one change of the state: numbering, order, renewal |
| `account` | two operations of every kind, three saved credentials, six failures to a restart: the status shown and the order of services |

Distinct states: `renderer_track` 41,625, `renderer_contention` 561,122, `renderer_liveness` 117,906, `sync`
603,780, `media_proxy` 450,801, `raop` 181,970, `airplay` 171,616, `airplay_speaker` 62,247, `application` 273,404, `eventing`
1,254,230, `account` 594,210.

Bounds of the renderer. `Soap` is the number of SOAP commands that run at once, `Background` the tasks of the application next to
them; two already queue behind each other and behind a monitor. `Checks` bounds the monitors alive at once (`Room` keeps a command
that would need one more from being sent): three is two more than `OneMonitor` allows. With two, `Room` would keep some commands
from being sent just when a stray monitor is about to appear; `sync`, whose properties are not about monitors, has two. `Autos`
bounds the automatic next tracks; `Generations` has two values more than there are automatic tasks, so that a fresh one always
exists. One URI distinguishes media from none, two distinguish a stale media from the current one. Sleeps and poll periods have no
bound: a sleeping task wakes at any time. None of these bounds matters to the theorems below, which hold for any number of
tasks, media and generations. `renderer_track` has a speaker that needs transcoding, because only there does `play()` announce PLAYING
before its call; without it (`NeedsTranscode = FALSE`, 43,671 states) the same properties hold. The properties of `renderer_contention`
do not depend on `spk.raised`, so that its VIEW, `WithoutHistory`, leaves that out.

Bounds of the media proxy. Two buffers of one URL are a media and its successor after a collection, or a media and what is
cut of it for a seek; two tokens let their URLs coexist. A media of two chunks, and room for three, is enough for a
response to be behind, level with and past the data, and for the overflow. A buffer that replaces one whose URL entry is stale, after a
broken pass has left a third, takes three buffers (checked with three tokens, one announced chunk, room
for two and no response: `MapsAgree` and `OneDownload` hold in its 814,852 states); the
theorems hold for any number.

Bounds of AirPlay. Two connections are an owner and one that competes with it, or the next owner; two sessions are one and
its successor, whose queue, lock and poll may be confused with the first one's. One of the connections may use HAP and AP2, so
that the two kinds of session follow each other. One reader is enough for `NoEarlierPcm`, about one reader; `OneConsumer`, about
two, is proved.

Bounds of the application. Two handlers let reloads overlap; three servers of each kind are the one of `start()` and one of
each reload. Bounds of the events: two subscriptions are enough for one to be expired, cancelled or behind while `notify()` goes
to the other; three calls let two overlap and one follow; the state changes once, because the order of two versions is all that is compared.
Bounds of the account: of three credentials the first login can be two behind; two operations are enough for a login to overtake
another one.

The runs without a deadlock check (`CHECK_DEADLOCK FALSE`) are of models that use up sessions, servers, subscriptions or
tokens, or whose program exits.

## What the model shows and no run claims

Reachable in the models, seen while the properties were being found; the properties say what holds beside them. Renderer:

* with two commands in the renderer at once (two control points, or one next to a task of the application) two `play()` may each
  leave a monitor, of which one is forgotten, an automatic next track may be forgotten too, and `play()` may send a media that is no
  longer current; a SOAP Next near the end of a track does the same next to the automatic one, and a seek that releases the lock to
  a waiting monitor as well. `AutoNextIsKnown`, `OneMonitor`, `PlaySendsCurrentMedia` and `CommandsRetireAutoNext`
  are therefore checked and proved with one handler, without Seek and Next;
* when the speaker raises in `play()`, `seek()` or `next_track()`, the state stays what it was, TRANSITIONING or, where
  `stop()` raises in an automatic next track, PLAYING without a monitor (the properties except that until a call succeeds). TRANSITIONING also stays
  when a next URI is cleared in the second before `next_track()` takes it (`renderer.py:393`), and when the automatic task finds itself stale after it has announced it (`renderer.py:427-440`),
  which takes a second control point, or a Play without media that cancels it;
* when it raises in `play()` of a speaker that needs transcoding, PLAYING was announced already and the clock stands still;
* Previous starts the clock of a paused renderer (`PausedPositionFrozen` is checked without it); Stop and then Seek plays without a
  monitor (`TrackEndIsWatched` is checked without Seek) and leaves `_user_stopped` set, so that
  a false STOPPED freezes the renderer; a `play()` that fails leaves the clock running in STOPPED, and the next one resumes from a
  position that counts that time;
* a SOAP Next that gets in between the guard and the end of the pause of an automatic next track lets the old task
  switch the media again, to an empty URI (`renderer.py:391`); that it also lets the old task stop the new media is the finding below;
* a seek that holds the lock, with the monitor and then SetAVTransportURI behind it, lets the monitor create an automatic next track after the
  command has cancelled them (`renderer.py:106`; `tests/unit/test_dlna_renderer.py:63` has the case without the lock being held).

Synchronisation: PLAYING, read before Stop took effect, is applied after it (`app.py:117`; `docs/PROJECT_HANDOVER.md:82`); a
reset that was decided in a pause ends the playback that a Play ahead of it in the queue has begun (`app.py:76`); a
pause of the user's own during the resume delay is followed by the automatic `play()` (`app.py:560`); `_last_control_time` is never
assigned, so that the STOPPED branch of the idle test is dead (`app.py:66`).

Media proxy: `create_seek_url()` does not look at the result of `wait_ready()` and cuts what has arrived (`server.py:165`); a relayed media
expires 300 s after it was created, with its token, while it is streamed (`server.py:295`); a buffer whose download failed
answers every `play()` of its URL until it expires (`server.py:88`); a pass of the collector that meets the seek buffer of an
ffmpeg run raises and leaves token and URL entries of buffers that are gone until a later pass, and one of `_buffer_to_token` for good
(`server.py:302`, `buffer.py:218`); the token of a buffer that is about to expire is handed out as it
is (`server.py:93`).

Receiver: after 32768 lost packets without FLUSH, four minutes, new packets count as old until the numbers come round (`receiver.py:194`).

AirPlay: a request for the URL of a session that is being replaced may be served the next session's queue (`audio.py:87`; never an
earlier one). In the bridge, callbacks that come faster than the speaker answers leave things behind: a play coroutine that starts
after `on_play_stop` makes AirPlay active again and its poll goes on; `_poll_task = None` after the await forgets the poll made meanwhile
(`speaker_airplay.py:147`).

Application: a signal during `app.start()` makes the `finally` of `async_main` return before the shutdown is over
(`cli.py:143`); an AirPlay service whose stop takes more than five seconds is forgotten with its audio port open, and the next start may
find the port taken (`app.py:416-430`); overlapping reloads leave a server that nobody can close; a reload that fails half-way leaves AirPlay on the controllers
that were dropped. `stop()` closes the console first, while `docs/ARCHITECTURE.md:200`
lists it fourth, after AirPlay and DLNA; `StoppedIsOff` relies on the code's order.

Events: when a command cancels an automatic next track that awaits `notify()`, events that were not sent yet are lost without a gap in SEQ
(`eventing.py:106`, `renderer.py:369-373`); SEQ 1 may tell an earlier state than the initial event; a task that starts after `close()` opens a new HTTP session that nobody closes.

Account: after a change of the credentials, a login that fails, or one with none, leaves the old services in use, and the next
answer marks the account as logged in again (`manager.py:196`); so does a request that was under way. `docs/CONFIGURATION.md:82` says that
failed logins are counted towards a restart; the code counts any failed command, each try of it.

## The finding

`renderer_generation` checks what `docs/PROJECT_HANDOVER.md:68` says of the generation of the media: an old task must not stop the new
media ("旧任务不能停止新媒体"). TLC finds it violated: `next_track()` compares the generation before `await self.speaker.stop()`
(`renderer.py:386-391`); while the automatic next track waits for that call near the end of a track, a SOAP Next, which cancels nothing,
switches to the queued media, bumps the generation and has it played; the stop of the old task is carried out after that. The
renderer reports PLAYING and the speaker is silent. The other commands cancel the automatic next track first, which is
`CommandsRetireAutoNext`.

## Fairness

`DlnaRenderer!Fairness` is weak fairness of what each task does after its first await, and strong fairness of it for the
handlers: another task that goes on running because it found the lock free (`loop`) disables a ready one for that instant, which weak
fairness would let happen at every turn. asyncio's queue of ready tasks is first in, first out, so that it does not. The rest is justified by the code: the
event loop runs every ready task; the HTTP session of the speaker calls has a total timeout of 30 s (`app.py:167`), the
seek URL waits at most 15 s for the download and 30 s for ffmpeg (`dlna/server.py:165, 236`), sleeps end, and
`asyncio.Lock` is first come first served, so that a task that waits for the lock is not overtaken. Nothing is assumed of
the control points (no fairness for `Command`), nor of when a speaker call answers.

`MediaProxy!Fairness` is weak fairness of each download (the proxy session connects within 10 s and gives up after 120 s
without data, `dlna/server.py:79`) and of each response (a write ends when the client reads or leaves). Nothing is assumed of
the waits with a timeout, so that what `WaitsEnd` says does not come from them.

`RaopReceiver!FairSpec` is weak fairness of the steps of `_drain()`, which runs every 20 ms, of `clear_audio()` and of the
passing of 0.1 s. `PlayHead` is fair because a packet is due within a second of its turn (`receiver.py:239`). The network,
the sender and the reader are not fair.

`AirplaySession!FairSpec` is weak fairness of each thread's own steps and of the rest of `stop()`: threads run on, `recv()`
times out after 30 s (`server.py:144`), and a session without audio for 30 s is then given up (`server.py:185`). Senders owe nothing.
`AirplaySpeaker!FairSpeakerSpec` is weak fairness of the poll's steps and of the end of the grace period (the event loop runs, timers fire),
and strong fairness of `PollSees`: the poll asks every few seconds, and an answer that shows the speaker stopped gets through
sooner or later. A cloud that never answers again would keep it from resuming.

`Application!FairSpec` is weak fairness of `async_main` with the start, and of `stop()`: binding a port, a cloud request
with its timeout, and the console's wait of 60 s for its requests all end. Handlers are not fair; `stop()` does not need them to be.
`Eventing` and `MiAccount` have safety properties only and assume no fairness.

## Proofs

| Theorem | Module | Argument |
|---|---|---|
| `TypeCorrect`: `Spec => []TypeOK` | `RendererProofs` | inductive by itself; every action moves tasks and lock in one of a few ways (`Suspend`, `Acquire`, `Finish`, `FinishAndCancelCheck`), each with a lemma |
| `LockDiscipline`, `TransitioningIsHeld`: `Spec => []P` for `LockInv`, `TransitioningHeld` | `RendererProofs` | `IInv` |
| `PausedAlwaysFrozen`, `PlayingAlwaysRuns`, `TrackEndAlwaysWatched`: `Spec => []P` for `PausedPositionFrozen`, `PlayingClockRuns`, `TrackEndIsWatched` | `RendererProofs` | `FrozenInv`, `ClockInv`, `WatchedInv`, for any tasks |
| `AutoNextAlwaysKnown`, `AlwaysOneMonitor`, `PlayAlwaysSendsCurrentMedia`, `CommandsAlwaysRetire`: `Spec => []P` for `AutoNextIsKnown`, `OneMonitor`, `PlaySendsCurrentMedia`, `Spec => CommandsRetireAutoNext` | `RendererProofs` | `SoloInv`, under `Solo` |
| `PlayingAlwaysOnSpeaker`: `Spec => []PlayingIsOnSpeaker` | `RendererProofs` | `TrackInv` on top of `SoloInv` |
| `SyncTypeCorrect`, `SyncKeepsLock`, `ResumeAlwaysKnown`: `SyncSpec => []P` for `SyncTypeOK`, `LockInv /\ TransitioningHeld`, `ResumeIsKnown` | `RendererProofs` | `SyncInv`, under `Deployed` |
| `TypeCorrect`, `SignalsAreSeen`, `MapsConsistent`, `SingleDownload`: `Spec => []P` for `TypeOK`, `NoMissedSignal`, `MapsAgree`, `OneDownload` | `MediaProxyProofs` | one invariant, see below |
| `AnswersAreWhole`, `CollectsOnlyUnread`: `Spec => P` for `AnswerIsWhole`, `CollectsUnread` | `MediaProxyProofs` | `ServedInv` and `FedInv` on top of it: each step is good (`StepIsGood`) and keeps the responses within their buffers |
| `TypeCorrect`, `AllBounded`, `InOrder`, `FlushedIsGone`: `Spec => []P` for `TypeOK`, `Bounded`, `QueueInOrder`, `FlushDiscards`; `NeverBack`: `Spec => WritesForward` | `RaopReceiverProofs` | one invariant, see below |
| `TypeCorrect`, `OneOwnerAlways`, `PlayingAlwaysStreams`, `RealtimeAlwaysEncrypted`, `StoppedAlwaysSilent`, `NeverEarlierPcm`, `AlwaysOneConsumer`: `Spec => []P` for `TypeOK`, `OneOwner`, `PlayingStreams`, `RealtimeIsEncrypted`, `StoppedIsSilent`, `NoEarlierPcm`, `OneConsumer` | `AirplaySessionProofs` | one invariant, see below |
| `ServerKeepsSessions`: `Spec => SessionsKept` | `AirplaySessionProofs` | the refinement: every step is a step of `PlaySessions` or a stutter |
| `SpeakerTypeCorrect`, `CalmPollsAlways`: `SpeakerSpec => []P` for `SpeakerTypeOK`, `CalmPolls` | `AirplaySpeakerProofs` | `SpeakerInv`, see below |
| `TypeCorrect`, `ServersAlwaysKnown`, `StoppedAlwaysOff`, `ServicesAlwaysAgree`: `Spec => []P` for `TypeOK`, `ServersKnown`, `StoppedIsOff`, `ServicesAgree` | `ApplicationProofs` | one invariant in three layers, see below |
| `TypeCorrect`, `RenewableAlwaysCurrent`: `Spec => []P` for `TypeOK`, `RenewableIsCurrent`; `EventsAlwaysInOrder`: `Spec => EventsInOrder` | `EventingProofs` | one invariant, a conjunct for each subscription |
| `TypeCorrect`, `StatusAlwaysHonest`: `Spec => []P` for `TypeOK`, `StatusIsHonest`; `ServicesNeverGoBack`: `Spec => ServicesNeverOlder` | `MiAccountProofs` | one invariant, carried through the updates of the `AuthManager` |

### The renderer

`TransitioningHeld` alone is not inductive: that no other task moves the state while one awaits under the lock needs mutual
exclusion, which is in the queue. `IInv` is `TypeOK`, `LockInv` (the queue holds exactly the tasks whose `pc` says they
have asked for the lock, it is totally ordered, and a task suspended inside its section is the owner), `MonitorPcs` (a
monitor is nowhere but asleep or at the lock, so cancelling it while holding the lock is harmless) and
`TransitioningHeld`. The first section of `RendererProofs` has the facts about the lock: arrivals and departures keep the order,
there is one owner, an owner stays the owner. `BaseInv` adds that tasks keep to their roles (`RoleInv`): handlers are no monitors, and an
automatic task does nothing but `next_track()`. All the rest starts from `BaseInv`.

* The clock. `FrozenInv` says that nobody is in `previous_track()`. `ClockInv` says that a clock which stands still in PLAYING
  belongs to a `play()` that announced PLAYING for a speaker that needs transcoding and has not got its answer: it is the one that
  starts it.
* The end of the track. At rest a track has a monitor, but while tasks run it may be on the way: `Watcher` lists them, a monitor, or
  a handler or automatic task that will create one or leave PLAYING before it returns. `WatchedInv` says that in PLAYING, with a
  known duration, there is always one unless a call has raised, for any number of tasks that create and cancel each other's monitors: whoever
  takes the record of an exception back has just created a monitor (`StepRaises`).
* One handler. `SoloInv` describes who can be alive with whom: next to an automatic task no monitor and only a handler that has not
  begun or is past what matters, with the media unchanged unless the task itself has switched it (`AutoAlone`); from the moment `play()`
  has begun no monitor and the media stays (`PlayAlone`); nobody waits for the lock but the task the loop has just run, or a
  monitor behind Pause or Stop (`NobodyWaits`), so that a cancelled task never leaves its place to one that acts on old values. The
  recorded monitor and automatic task are the only ones, and the commands that cancel them leave none.
* The speaker. `TrackInv` follows from each place of `play()` and `next_track()` what has been sent to the speaker and whether it is
  the selected media (`OnSpeaker`, `AutoTrack`), through failures and exceptions at every call: an automatic next track that raises ends
  and is no longer followed, and the next success is followed by itself, whatever the speaker did before.
* The synchronisation. `SyncInv` is `SyncTypeOK` and `IInv`: the steps of the poll and of the resume tasks write fields without the
  lock, keep the state while it is TRANSITIONING, and cancel a resume task even inside `play()`, which leaves the lock to its queue.

The hypotheses, and why the code needs each (the states that break the property without it are above):
`"Previous" \notin Commands` for the frozen clock; not both `NeedsTranscode` and `SpeakerRaises` for the running one;
`"Seek" \notin Commands` for the end of the track; `Solo` (at most one handler, no Seek, no Next) for the life
of monitors and automatic tasks, that is one control point and no automatic play or idle reset at the same time; in addition no
Previous for what the speaker plays. `Deployed` says
that the application's tasks are the poll and the resume tasks, which is how `app.py` creates them; `MCRendererSync` assumes it, so
that TLC evaluates it. Each run satisfies the hypotheses of the theorems about its properties. The assumptions are the named ones of
the modules: task sets are disjoint, `NoTask` is no task, `NoUri` is no URI, `NoGen` is no generation, the poll is no resume task.

### The other components

In `MediaProxyProofs`, `IInv` adds to `TypeOK`, `NoMissedSignal` and `MapsAgree`: a request or seek under way has a buffer
that was used (`HasBuffer`), a buffer that was never used is in no map (`UnusedNotMapped`), tokens in the maps were handed
out (`TokensAreIssued`), bytes are complete from the start (`BytesAreDone`), and a download under way is the one its URL leads
to (`DownloadIsKnown`), from which `OneDownload` follows at once. The last one survives a URL whose entry is stale: `MapsAgree`
says that nothing downloads into a buffer that is not live, so the buffer that takes its place is alone (`NoneDownloads`). Every action either leaves the maps alone
(`MapsStay`), moves one download and wakes its readers (`DownloadMoves`), moves one request (`RequestMoves`,
`RequestWaits`) or changes the maps (`TokenForBuffer`, `BufferForUrl`, `BufferAndToken`, `TokenForNew`, and `PassKeeps` for both kinds of pass). Assumed: `NoBuffer`
is no buffer, `NoToken` no token, and a media that is buffered fits (`streaming_threshold <= max_memory`, `buffer.py:32`).
For `CollectsUnread`, `ServedInv` adds that a buffer which has fed a response is fresh, unless it is relayed, and that a relay has a buffer
that is not kept in memory; the collector takes what is not fresh, so that it finds nothing that is being read from memory.
For `AnswerIsWhole`, `FedInv` adds that a buffer is complete only with all that was announced (`Sound`) and that the range of
a response lies within the length of its buffer, which is settled before any response is fed from it (`Fed`, `Settled`).

In `RaopReceiverProofs`, `IInv` adds to `TypeOK` and `WindowInv`: the head is neither before the end of what was written nor
after what was sent, and while there is no head, the floor is at or after the cut (`HeadInv`); outside a FLUSH the queue
increases between the cut and the end of what was written (`QueueInv`). A packet from before the head is at a distance of
at least `Half`, because the network delivers it at most `Delay <= Half` packets late: this is what keeps `Recovers` and
`Keeps` from going back, and the only assumption about the network. Assumed of the constants: `2 * Window < Modulus`, an even
`Modulus`, a queue of at least one chunk.

In `AirplaySessionProofs`, `SessionInv` adds to the types what a connection's locals say of one another (`ConnInv`), what they
say of the lock, the receiver and the stream (`SharedInv`: who `owns` is the one that `session` names; only an owner that has
not closed its receiver has ports; the ids of queue and lock at each place of RECORD), that nothing is on without an owner and
`lock <= queue <= sid` (`StreamInv`), and the same order for what each reader has taken (`ReadersInv`), from which
`NoEarlierPcm` and `OneConsumer` follow. None of the properties is inductive: that the ports are free for the next owner needs to
know where in its `finally` block the last one is. The refinement has one lemma for each step of `PlaySessions` and one that the
other steps change neither `lock` nor `Phase` (`OtherStepsUnseen`). Assumed: `NoConn` is no connection.

In `AirplaySpeakerProofs`, `SpeakerInv` says while `calm` holds (every callback has found the bridge at rest): one coroutine at most
beside the poll is scheduled or runs, and it is of the kind of the last callback (`OneCoroutine`); a poll that runs is the recorded
one, is the one that whoever waits for a poll waits for, and does not run while a session is being started or stopped (`OnePoll`);
after the end of a session AirPlay is off and, once its coroutine is done, so is its stream (`Quiet`). Without `calm` only the types
remain, because callbacks that come faster than the cloud answers do leave polls behind.

In `ApplicationProofs`, `ApplicationInv` has the types; where `calm` holds, `CalmInv`: what each place of a start, a reload and of
`stop()` has on or off, and that every server with a port is the one the application knows or was cut; `CountInv`: servers
have the numbers given so far, so that a new one was never cut; where `intact` holds too,
`AgreeInv`: the controllers that each place of a start or reload has handed out. `StoppedIsOff` needs both ends: that
`stop()` takes what is known, and that no handler starts anything once the console is off.

In `EventingProofs`, `EventingInv` says of each subscription that its tasks carry events in the order of the calls, the initial one
first (`InOrder`), that from the second event on none of them is older than the last one sent (`Progress`), and that the last task, or
without tasks the last event, is as new as the last call, unless `missed` (`Current`, `Owed`).

In `MiAccountProofs`, `AccountInv` says that services are no newer than the account and the account no newer than the credentials
(`Fits`), and that a login under way finds an account, and a request services (`OpInv`). Each update of the `AuthManager` (`LoginBegins`,
`Invalid`, `Marked`, `MarkedError`) keeps `Fits` and never goes back (`Newer`); the order holds because an old login that ends late
builds its services on the account that the newer login left there.

### What is only model-checked

Every invariant and every action property of the passing runs is a theorem; so is the refinement `SessionsKept`. The type invariants of all
modules are theorems and no property of a run. Left to TLC is liveness, because the prover does not reason about fairness:
`CommandsEnd`, `TransitionEnds`, `WaitsEnd`, `BufferedAudioLeaves`, `ConnectionsEnd`, `InterruptedResumes` and `ShutdownEnds`.

## Plan

In order, most important first. All of it is done but the last two.

1. `AsyncLock`, `DlnaRenderer`: the shadow state machine and its tasks. Proofs of types, lock discipline,
   TRANSITIONING, clock, monitors, automatic next tracks and what the speaker plays.
2. `RendererSync` extends it by the poll and the automatic resume. Proofs of both.
3. `MediaBuffer`, `MediaProxy`: the progressive download, its readers, the maps and the collector. Proofs of the maps, of one
   download per URL, of signals, of whole answers and of the collector.
4. `RaopReceiver`: the jitter buffer, the PCM queue and FLUSH. Proofs of the window, the order and the discarding.
5. `AudioStream`, `AirplaySession`, `PlaySessions`: RTSP sessions, the stream and its readers, the refinement of what the
   bridge is promised. Proofs of the owner, the stream, the ports and the refinement.
6. `AirplaySpeaker`: the bridge, built on `PlaySessions`. Proof of its poll.
7. `Application`: start, reload, stop. Proofs of what is left on and of the controllers in use.
8. `Eventing` and `MiAccount`, with their proofs.
9. `AVTransport`: the transport state machine that a control point sees, with `DlnaRenderer` shown to implement it for one control
   point. Not done.
10. The login limiter of the console and the QR login sessions. Not done.

## Not modelled

`PROJECT.json` gives the reason for each component. Out of reach or without control of their own: the vendored FairPlay
tables, cryptography (nonce counters included), ffmpeg, XML texts, socket I/O, the web frontend (`frontend/`), packaging (`fnos/`, Docker) and the
logging setup. `protocols/dlna/seek.py` is not used by the program.

Left for later, with state worth modelling: volume and mute of the renderer, the QR login sessions (`auth/qr_login.py`), the console's login
limiter and tokens (`web/auth.py`), the health record. No other component reads what they keep, so the properties above do not
depend on them.
