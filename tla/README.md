# Video player for 3DS: a verification project

This directory holds TLA+ models of the concurrent core of the video player in
`src/source` and `src/include`, the TLC configurations that check them on small
instances, and proofs, checked by TLAPS, of what should hold for every instance.

Contents: [the system](#the-system), [the modules](#the-modules),
[the runs](#the-runs), [disagreements found](#disagreements-found),
[the proofs](#the-proofs), [what is not modelled](#what-is-not-modelled),
[plan](#plan).

To check a run: `tlc -config MCPlayer_seek.cfg MCPlayer`. To check the proofs:
`tlapm` on `EventQueueProofs.tla`, `EventQueueRefinement.tla`, `SyncProofs.tla`,
`PlayerProofs.tla`, `RingProofs.tla`, `PipelineProofs.tla`, `FtpServerProofs.tla` and
`PlaylistProofs.tla` (a quarter of an hour for the longest, `FtpServerProofs`).

## The system

The program runs on the Nintendo 3DS: a few cores, threads with priorities (the
scheduler is preemptive between priorities and the cores run in parallel), no
processes. There are some 15 threads. They share global variables, in part
without locks, and talk over *event queues*; each thread that owns a queue
handles one event per turn of its loop.

```
 main / menu ──Vid_hid──▶ ┌───────────────┐ ── read queue ───▶ read packet thread
 explorer ───callback───▶ │ decode thread │ ── video queue ──▶ decode video thread
 exit thread ───────────▶ │  owns state   │ ── convert queue ▶ convert thread
   (command queue)        └───────▲───────┘        ▲                  │
                                  │                └── clear cache ───┤ (decode video
                                  └──── notification queue ───────────┘  to convert)

 file ─▶ packet cache ─▶ cached packet ─▶ decoder ─▶ raw images ─▶ conversion ─▶ textures ─▶ screen
         (read packet)   (decode thread)  (decode video)           (convert)     (main)

 clients ──sockets──▶ server thread ◀── server queue ──┐   key thread ─┐
   (FTP)                    └─────── I/O queue ─▶ I/O thread           ├─▶ list of files ◀── decode thread
                                                         reader thread ┘   (explorer)        (next file)
```

### Components

Each entry gives the state, the operations, who it interacts with, what is hard
about it and what makes it correct.

* **Event queue** (`system/util/queue.c`). State: a bounded list of (event, data
  pointer), a flag `deleting`, a reference count, two one-shot events. Operations:
  create, add (back or front, "not if it exists", with timeout), get (with timeout),
  `check_event_exist`, delete (`get_free_space` has no callers). The threads of the
  player and of the FTP server use it. Hard: a call leaves the module's mutex
  while it waits, and a delete may begin then; two events are raised and cleared
  in opposite pairs; a pointer must have one owner. Correct when: first in, first
  out per end, no item in a deleted queue, no use of a freed queue, no lost
  wake-up, no pointer freed twice or lost.
* **Synchronisation objects** (`system/util/sync.c`). State: per object a type, an
  owner, a count, a reference count around a libctru primitive. Operations:
  create, lock (with timeout), unlock, cond_wait, cond_signal, destroy. Used by
  nearly every module and by the POSIX layer below FFmpeg. Hard: the books are
  written in a critical section *before* or *after* the primitive operation.
  Correct when the books agree with the primitives whenever somebody relies on
  them, and a destroy never frees an object in use.
* **Playback engine** (`video_player.c` 4312-6812 and the requests made by
  `Vid_hid`). State: the player's state (IDLE, PREPARE_PLAYING, PLAYING, PAUSE,
  BUFFERING, PREPARE_SEEKING, SEEKING) with sub state bits, `is_eof`, five queues,
  `is_read_packet_thread_active`, `is_waiting_video_decoder` of the decode thread,
  `should_convert` of the convert thread, the packet cache and the image ring of
  the decoder, the file being played. Operations: 10 kinds of requests to the decode
  thread, 9 kinds of notifications to it, 3 requests to each worker. Hard: the state
  is read by all threads without a lock, a seek passes through three threads and four
  queues, an abort overtakes everything, answers to what was aborted are still on the
  way, the next file is chosen in a list that somebody else replaces. Correct when:
  requests are answered, seeks do not mix, sessions do not mix, the player ends in the
  state the user asked for, pictures come in their order, nothing hangs.
* **Settings, screens and statistics of the player** (rest of `video_player.c`).
  State: settings file, texture ring between convert thread and drawing, delay
  statistics. Hard: the texture ring, whose reader and writer are two threads. Correct
  when no texture is written while it is on the screen.
* **Media decoder** (`system/util/decoder.c`). State: per session a ring of packets
  (`DEF_DECODER_MAX_CACHE_PACKETS`), per track the packet at the decoder and a ring
  of raw images. Operations: open, read, parse, ready, decode, get, skip, clear,
  seek, close. Hard: a ring has one lock for its counter, none for its indexes;
  clear runs against read and parse. Correct when a ring is never overfull and its
  operations do not meet.
* **FTP server** (`ftp_daemon.c`, `system/util/ftp.c`). State: clients with a
  protocol state each, a server thread that polls the sockets, an I/O thread that
  reads and writes the files, an exit thread, two queues, transfers. Operations: some
  30 FTP commands, and the requests and answers between the two threads, which name
  their client by `client_index` alone. Hard: a client may go away or send ABOR while
  the I/O thread works for it, and another one gets its slot; a full queue; the exit
  drains the queues. Correct when the bytes of a transfer arrive once and in order,
  "226" means all of it was moved, every transfer ends, and the exit leaves nothing.
* **System settings and recorder** (`system/sem.c`). State: settings, an updater, a
  screen recorder made of two threads that hand frames over with flags. Hard: the
  flags are not locked.
* **Main menu** (`system/menu.c`, `main.c`). State: the running application, a
  table of worker callbacks. Hard: adding and removing callbacks against the worker.
* **Log** (`system/util/log.c`), **error screen** (`err.c`). State: a ring of lines;
  a line is completed later by its index. Hard: the line may have been overwritten.
* **Watch** (`system/util/watch.c`): a table of watched variables per use; whether
  the screen must be drawn again.
* **HID** (`system/util/hid.c`): key state, callbacks.
* **File explorer** (`system/util/expl.c`): the list of files, a cursor, a key thread
  and a reader thread that share one flag, `util_expl_read_dir_request`, which says
  both "a directory is asked for" and "it is being read". Hard: the list is replaced
  while it is used; the limits of its arrays. Correct when no index leaves an array
  and what the user picks is in the directory it is looked for in.
* **POSIX threads** (`system/util/fake_pthread.c`): a thin client of sync.c.
* **Speaker** (`system/util/speaker.c`): a ring of wave buffers per session.
* **Resource monitors** (`cpu_`, `gpu_`, `net_`, `nvs_`, `ram_usage.c`): counters.
* **Network clients** (`curl.c`, `httpc.c`), **files, strings, JSON, utilities**
  (`file.c`, `str.c`, `json.c`, `util.c`), **converter, encoder, muxer**, **camera,
  microphone, keyboard, hardware settings**, **drawing and fonts**: sequential code.
* **Vendored libraries** (`library`): libctru, FFmpeg, libcurl and others, external.

`PROJECT.json` lists the same components with their status, and under `hazards`
the lines where each of them can go wrong.

## The modules

| Module | Models | Depends on |
| --- | --- | --- |
| `QueueOps` | the list of a queue as pure operators | |
| `Mailbox` | what `queue.h` promises (abstract) | `QueueOps` |
| `EventQueue` | `queue.c`, every critical section and wait | `QueueOps`, refines `Mailbox` |
| `EventQueueProofs` | theorems about `EventQueue`: types, reference count | `EventQueue` |
| `EventQueueRefinement` | theorems about its contents, its events and `Mailbox` | `EventQueueProofs` |
| `Sync` | `sync.c` | |
| `SyncProofs` | theorems about `Sync` | `Sync` |
| `Player` | the playback engine: commands, states, threads | `QueueOps` |
| `PlayerProofs` | theorems about `Player` | `Player` |
| `Fifo` | a bounded buffer that may be emptied (abstract) | |
| `Ring` | a ring of `decoder.c` with its indexes and its count | refines `Fifo` |
| `RingProofs` | theorems about `Ring` | `Ring` |
| `Pipeline` | the way of the pictures from the file to the screen | `Ring`, `Fifo` |
| `PipelineProofs` | theorems about `Pipeline` | `RingProofs`, `Pipeline` |
| `FtpServer` | the transfers of the FTP server | |
| `FtpServerProofs` | theorems about `FtpServer` | `FtpServer` |
| `Playlist` | the explorer and the choice of the next file | `QueueOps` |
| `PlaylistProofs` | theorems about `Playlist` | `Playlist` |
| `MC...` | the instances for TLC | |

**EventQueue.** One queue; producers, consumers and owners are sets of threads.
`exists`, `deleting`, `items`, `refCount`, `receiveEvent`, `sendEvent` are the fields
of `Queue_data`; `pc`, `call` and `keep` are the local state of a call; `holder` is
a history of who owns each allocation. `util_queue_mutex` serialises the critical
sections, so each is one action: `AddNow` is the call that need not wait,
`AddBlock` / `AddWake` or `AddTimeout` / `AddResume` the one that does; the same for
get. `Util_queue_delete` tests the queue *without* the mutex (`DeleteCheck`), then
loops: `DeleteLock`, two signals outside the mutex, `DeleteRelock`. A call that is
refused (no queue, queue being deleted, full without wait) changes nothing and is a
stutter. LightEvents are one-shot: a wait that ends by the event clears it.

**Sync.** `life`, `refs`, `owner`, `count` are the fields of the internal object;
`holder`, `depth`, `sleepers` stand for the libctru primitive. `LockEnter`,
`LockAcquire` / `LockGiveUp`, `LockDone` / `LockFailed` are the three phases of
`Util_sync_lock`; `WaitEnter` to `WaitDone` those of `Util_sync_cond_wait`, whose
primitive puts the thread on the condition before it frees the mutex. A wake-up
needs no signal (timeouts). `WaitWrongOwner` is the error path of a caller that does
not own the mutex, allowed to the threads in `Careless`.

**Player.** The variables carry the names of the code where that is possible (see the
comments at `VARIABLES`); `dpc`, `rpc`, `vpc`, `cpc` are the positions of the four
threads. The decode thread's loop has three parts, taken in turn: one request
(`Command`; with a request that ends a file, `Abort`), one notification
(`Notification`), one step of decoding (`DecodeStep`). The workers take a request
and make the test of `vid_player.state` after it in one step, which is the same as
taking the request later because each queue has one consumer. Every other read of
the shared state is a step of its own: for instance the state as `ConvertLook` sees
it and the one that `ConvertFull` sees may differ. Opening a file (`Play`, then
`PlayOpened` or `PlayFailed`) is two steps since the others already see PLAYING
while the file is opened. A queue operation is one atomic step here; `EventQueue`
is the justification.

A packet that was parsed lies in one slot (`cached`) until the video thread has copied it into the
decoder (`ready`) or skipped it. A failed copy is two steps, as in the code: `VideoCopyFails`
tells the decode thread to go on, `VideoSkipFailed` frees the slot, and the next packet
may be parsed in between.

What is free in `Player`: whether a seek position is reached, where the reader ends
up after a seek, whether a packet gives an image, whether a frame is skipped or
dropped, whether the sound buffer is full or low, whether there is a free texture.
A file is a number of packets. Two history variables: `wants` is what the user asked for
last that the decode thread has seen; `late` says of the session under way that it began
with a clear of the session before still on its way (*Late clear* below). Each situation of a run is a record in
`Settings`: which requests are made, what may fail, how long the file is.

**Fifo, Ring, Pipeline.** `Ring` has one producer and one consumer. Each looks at the
count, touches its slot, advances its index and changes the count under the mutex, and
each of these is a step; clearing is one step that wants both threads outside, and that
the callers keep to this is a property (`RingRespected`), not an assumption. `Fifo` is
what a ring promises. `Pipeline` extends `Ring`, which is its ring of raw images: the
video decoder is the producer and the convert thread the consumer. In front of it are the
packet cache, an instance of `Fifo` (another ring of the same shape), the packet cached
for the video thread, the packet in the decoder and what the codec holds back; behind it
the image under conversion and the ring of textures with `store` and `draw`. A seek is
the `baton`: it goes from the reader to the video thread and to the convert thread, each
of which throws away what it caches. `Player` decides when; `Pipeline` has only what it
means for the pictures.

**FtpServer.** The server thread runs one handler per readable socket; a handler is one
step up to an add to a full queue, where it may wait for a minute (`spc = "adding"`).
The handlers are `Accept`, the commands (RETR, STOR, LIST, RNFR, RNTO, PASV, ABOR, QUIT
and the refusal of the rest while a transfer is pending), the data connections, and the
answers of the I/O thread. The I/O thread reads and writes a block per command. A byte is
a *unit* that knows its transfer and its place; a socket is open or closed. `story` is a
history variable per slot: the transfer in progress, whether it started with nothing left
of an earlier one (`clean`), what was sent and stored, whether an answer had to be dropped
(`lost`). A join of the exit thread gives up after ten seconds, while the thread it waits for
is in an add or, for the server thread, in a handler, whose socket calls may block.

**Playlist.** A directory is its depth, the root 0; what is in a directory may change
between two reads. The key thread moves the cursor, enters and leaves directories and
picks a file; the reader thread fills the list entry by entry of its steps: begin, end of
the reading, publication. The decode thread plays what was picked, and when the file ends
searches the list for the next one (`ChooseFile`, `ChooseDir`: the name and the directory
are read one after the other). History variables: `second` (a second key of the same
moment), `crossed` (such a key lost its request), `calm` and `from` (nobody asked for
another list since the file before ended), `pick` (what the user picked last).

## The runs

All numbers are distinct states. Deadlock is not checked: a system without calls in
progress or requests left may stop, and nothing obliges the callers to go on; what
must not stop is stated as liveness.

| Run | States | Shows |
| --- | --- | --- |
| `queue` | 31,970 | `UseIsSafe`, `OneOwner`, `WakeUps`, `FrozenWhileDeleting`; `CallsReturn`; `AbstractSpec`: every step is a step of the mailbox or invisible |
| `sync` | 70,380 | the books agree with the primitives; nobody's object is freed; no lost signal |
| `player_seek` | 1,931,263 | pauses, resumes and seeks in any order, memory running out: one seek at a time, caches cleared alone, buffering is about this position, no packet still to be copied is overwritten, the workers answer and keep up, `IntentKept` |
| `player_sessions` | 2,489,291 | an abort at any time of a seek and a second file, audio files, HOME and the keyboard: sessions do not mix, no seek is lost or ended by another, nobody waits for an answer that will not come, `IntentKept` |
| `player_live` | 218,607 | exit, abort, seek and buffering end |
| `ftp` | 419,428 | bytes arrive in order and once, an answer is on its way, 226 means all of it and leaves nothing of it behind |
| `ftp_live` | 195,537 | a transfer is answered or loses its connection, there is room to receive, the exit ends and leaves nothing |
| `pipeline` | 198,242 | the rings are bounded queues, textures are whole, pictures stay in order, nothing gets stuck |
| `playlist` | 1,268,632 | indexes stay in their arrays, picks are kept and looked for in their directory, the next file is the next one |
| `player_eof`, `player_flush`, `playlist_repeat` | | violations, see below |

**Bounds.** *Queue*: one producer, one consumer, one owner, a capacity of two and two
event IDs give every overlap of a blocked add, a blocked get and a delete with a
re-creation in between; one allocation is enough for `OneOwner`, a property of each
allocation by itself. The capacity is small so that the queue is full often. The proofs
cover two owners, the run has one: see *Two deletes* below. *Sync*: three threads
(owner, waiter, destroyer), one object of each type, `MaxRef` 3 (the real one is 2^32-1)
so that the overflow tests are met. *Player*: a file of 1 or 2 packets, so that its end
is near and can be met before, during and after a seek; `maxPackets` 2 or 3 and
`MaxImages` 2 leave room for one or two packets and one image (both rings keep one
place free), so both are full and empty all the time; the real sizes only add states
that are neither. `Threshold` 1 image ends buffering. `MaxDup` bounds the
FINISHED_BUFFERING notifications the convert thread may have in the queue; in the
code it sleeps between two of them. `QueueSize` 20 is above what the other bounds let
in; that the queues of the workers never hold more than three requests is part of
`WorkersAnswer` (and proved, `ThreeRequestsAtMost`), which is why losing a request to a full
queue for 100 ms is not a case of the model. *Ftp*: queues of one item fill up all the time; a buffer of one
or two units for files of two makes a file of several blocks and one that is exactly a
block; two clients compete for the I/O thread in `ftp`, and two sessions and two
transfers bring left-overs of the first into the slot of the second; `ftp_live` has one
client, all commands and the exit. *Pipeline*: rings of three slots hold two items, three
pictures fill the image ring and leave one for the threads before it, one seek has a
before and an after. *Playlist*: a list of four places of which two are on the screen,
directories that are nearly empty, nearly fill the list, and are too large for it; a
directory inside the root; two picks, one end of a file and three reads, enough for a
read under way while the next file is chosen after another pick (two ends of a file
have been checked too, with 3,130,336 states).

**Fairness.** `EventQueue!FairSpec`: a thread inside a call goes on; every wait in the
code has a finite timeout (`QUEUE_OP_TIMEOUT_US` and the loops' own), the delete's
wait is a sleep. `Player!FairSpec`: weak fairness of each of the four threads and of
the loop in which `Vid_hid` waits: their loops never block for ever (their gets time
out), and the system schedules them again and again. The user is not fair. What the free
choices decide (is the position reached? is the speaker full?) is not forced, and
`BufferingEnds`, `SeekCompletes` hold all the same. `FtpServer!FairSpec`: the server
thread, the I/O thread and, once it was started, the exit thread; the wait for room in a
full queue ends after a minute at most, which is a step of these threads. That the
server thread's handlers return is assumed: their socket calls are taken to end, by data, an
error or the loss of the connection. The clients are
not fair. `Pipeline!FairSpec`: each of the threads, and strong fairness of one choice
only, that a codec which is given packets gives back an image some time
(`DecodeOutput`). `Playlist` has no liveness and no fairness: the user decides.

**Properties worth a word.**
`WakeUps` says that a wake-up is never lost for a queue with
one consumer / one producer, which is how the program uses its queues; with two of them
one may take the event of the other, and then its timeout is what saves it.
`OneSeek` says that a seek is somewhere until it is over, and in one place. `SessionsDontMix`
lets one kind of left-over through, FINISHED_CLEARING, see *Late clear* below; a session
that begins with one on its way (`late`) is exempt from `OneSeek`, `CachesClearedAlone`,
`BufferingIsFresh` and the bound in `WorkersAnswer`: there the code does not keep them.
`CachesClearedAlone` is the property that makes the unlocked clears of the decoder safe;
`RingRespected` is the same seen from the ring.
`PacketNotOverwritten` is about the packets that are still to be copied. It leaves out the one
whose copy has failed, which may be overwritten before it is skipped, see *A slot told free too
early* below. A parse and a skip are one step each; that the two may also meet on the
pointer itself is below the model.
`IntentKept` ties the state, the RESUME_LATER bit and the history of the requests.
`OwnMessages`, `RetrievedInOrder`, `AnswerOnItsWay`, `TransferComplete` and `Answered` are
about transfers that are `clean`, that is, begin with nothing left of an earlier one in
their slot: without that the code does not keep them, see *Left-overs* below.
`NothingLeft` is where such a slot comes from: a transfer that ends with 226 leaves nothing of
itself in the queues, the read states or the hands of the two threads.
`InOrder` looks at all that five threads hold between them as one line of pictures.
`PickedTogether` leaves out the two keys of one moment (`crossed`), see *Two keys* below;
`NextIsNext` leaves out the search during which somebody asks for another list (`calm`),
and says nothing of the directory after such keys (`crossed`).
`SlotsAreSafe`, `UseIsSafe`, `BooksAgree`, `WorkersAnswer`, `RoomToReceive` and
`IndexInArrays` contain the type invariants of their modules.

## Disagreements found

Each of these three is a run that TLC must find violated.

* **`player_eof`**. The reader reports EOF; before the decode thread sees it, a seek resets
  `is_eof`; then the EOF is handled and sets it again. With the caches cleared the player
  says "We consumed all of packets" although the file has packets after the new
  position, and goes to the next file (`video_player.c:5416`, `5611`).
* **`player_flush`**. The flush of the decoder before a seek ends when the image buffer is
  full and leaves the packet in the decoder. `Util_decoder_ready_video_packet` refuses all
  later packets, and the video stands still until the next seek (`video_player.c:6185`).
* **`playlist_repeat`**. "Repeat playback mode." (`video_player.c:481`) plays again what is
  at the place of the file in the list that the explorer shows *by now*
  (`video_player.c:5346-5349`): another file, a directory or nothing when the user has
  looked at another directory since, or when the list is just being read.

The following have been seen with the models, or while writing them, and have no run.

* *Leaked reference*. `Util_sync_cond_wait` counts its references, then finds that the
  caller is not the owner and returns without giving them back; a later destroy waits for
  ever (`sync.c:467`, `sync.h:71`). `CarefulCallersCount` proves that there is no other leak.
* *HOME*. HOME asks for a pause and waits for it. Between two files the request is taken in
  PREPARE_PLAYING, where it does nothing; the next file plays behind the wait, which does
  not end before the file does (`video_player.c:799-813`). A pause that is not added because
  one is in the queue already, with a resume after it, is lost too, and the file plays
  behind the on-screen keyboard.
* *Late clear*. The abort waits for the convert thread first and for the video decoder
  after it; a clear cache request the latter was handling goes to the convert thread's
  queue after it was flushed. It is there when the file is closed, and its
  FINISHED_CLEARING reaches the next session (`video_player.c:5276-5291`, `6201`), where it
  ends a seek that is still with the reader; the images are then cleared once more, while
  the player is decoding. `late` marks these sessions. The attempt to prove `OneSeek` of all
  sessions led to this: it is false, with a behaviour of 44 steps.
* *Two destroys*. `Util_sync_destroy` lets go of the module's mutex while it waits and then
  looks at the same object again, which a second destroy may have freed (`sync.c:544`).
* *Two deletes*. After a first delete has freed the queue and somebody has created it
  again, a second one that was waiting goes on with the new queue without marking it as
  being deleted; as long as there is always a call inside it does not end. This is why
  `queue` has one owner. It frees nothing under anybody (`CallsAreSafe`).
* *A slot told free too early*. The decode thread waits for "done copying packet to video
  decoder buffer so that decode thread can read the next packet" (`video_player.c:6051-6052`).
  When the copy fails, because there is no memory or the decoder still has a packet, it is
  told so all the same, and the packet is skipped only later (`video_player.c:6056`, `6164`).
  The next packet may be parsed into the slot that is still in use, and it is then this one
  that is skipped. `VideoCopyFails` and `VideoSkipFailed` have it: without the exception for
  a copy that failed, TLC finds `PacketNotOverwritten` violated.
* *A packet given up*. When there is no memory to decode a packet, the last retry leaves the
  loop with the packet still in the decoder (`decoder.c:2149-2153`, `video_player.c:6111-6113`).
  `Util_decoder_ready_video_packet` refuses all later ones (`decoder.c:1483`), and the video
  stands still until a seek flushes the decoder. `VideoNoMemory` has it.
* *RAM for a copy*. The request for more RAM after a failed copy (`video_player.c:6167-6172`) is
  never made: the copy has no such error, it returns "FFmpeg" for lack of memory
  (`decoder.c:1520-1522`). `VideoSkipFailed` therefore asks for nothing.
* *Pictures after a seek*. The textures that are due when a seek begins are shown after it, up
  to `VIDEO_BUFFERS` - 1 of them. The decoder is flushed only if it has a packet, and
  what the codec holds back is never taken out (`video_player.c:5516`).
* *Left-overs* of FTP transfers. ABOR says that it aborts the service in progress and closes
  the data connection (`ftp.c:1326-1327`); the code closes a socket and forgets the
  pending command (`ftp.c:1339-1358`). The I/O thread goes on, and the fields of the
  client that say how far the transfer is are not reset: a RETR after it gets blocks
  of the file before, a STOR may begin with zero bytes or not end. As answers name the
  slot alone, the same happens to the next client in the slot (`ftp_daemon.c:2303`).
  Reads of clients that left keep their read states occupied.
* *STOR and failures*. A STOR of an empty file writes nothing. An answer that is dropped,
  after a minute or without memory, leaves its client waiting, or lets 226 follow a write
  that failed. An error of the data connection is not looked at.
* *Exit of the FTP server*. The joins wait for ten seconds, an add may wait for sixty and a
  blocking socket call of a handler (`ftp.c:279`, `307`) has no limit of its own; the
  exit may empty and delete the queues while a thread runs. `ExitCompletes` therefore
  speaks of what is left only if the joins were in time.
* *Two keys*. Two keys of one moment, the first entering a directory and the second going
  back, may lose the second request: the reader sees the flag of the first and clears it
  when it is done (`expl.c:884`). The list is then that of another directory.
* *The next file after a pick*. A PLAY_NEXT in front of the request for a picked file makes
  the player open the picked file and replace it at once by the next one.
* *1024 files*. A directory with exactly as many entries as the arrays hold is refused: the
  read gives up when they are full, before it has seen that there is nothing more
  (`file.c:636`).
* *Recorder*. Its two flags do not keep the threads apart: an error of the encoder leaves one
  set, and a stop waits for ever; a stop between the two requests frees the
  frame under the encode thread; a request left over reaches the next recording
  (`sem.c:4290-4548`).

## The proofs

`EventQueueProofs` proves, for any sets of threads, IDs and allocations and any capacity:

* `TypeCorrect`: `Spec => []TypeOK`. `refCount \in Nat` is the interesting part: a
  decrement never meets 0, which no type of the code would notice (it is unsigned).
* `NeverUsedAfterDelete`: `Spec => []NoUseAfterDelete`; with `TypeCorrect` it gives
  `CallsAreSafe`: `Spec => []UseIsSafe`.

Both follow from `Invariant`: `Spec => []IInv`, where

    IInv == TypeOK /\ NoUseAfterDelete /\ CallPending /\ Absent

`NoUseAfterDelete` says that the reference count is the number of threads inside, and
that the queue exists when there are any. It is not inductive by itself: a queue that is
created starts with a count of 0, so nobody may be inside one that does not exist
(`Absent`, with the lemma `NobodyInside`), and an add that resumes stores what its
arguments say, which must be arguments (`CallPending`). The proof has a lemma per effect
(`StoreType`, `FetchType`, `FreeAllType`, `InsideEnter`, `InsideLeave`) and one step per
action. It rests on `QueueAssumption`: the set of threads is finite, the capacity is a
positive number, NULL is no allocation, and the marks "free" and "queued" are no
threads. TLC evaluates it in every run of `EventQueue`.

`EventQueueRefinement` builds on it, again for every value of the constants:

* `PointersHaveOneOwner`: `Spec => []OneOwner`, from `IInv /\ ContentInv` with
  `ContentInv == OneOwner /\ CallOwned /\ Capacity`. `CallOwned` is needed because the
  data of an add is checked when the call begins and stored after the wait: the caller
  still owns it then, since a blocked thread neither frees nor hands over anything.
* `ReceiverIsWoken`, `SenderIsWoken`, `SignalsAreFresh`, together `WakeUpsAreRight`:
  `Spec => []WakeUps`. The conjunction `EventInv` of the three
  is inductive together with the two invariants above. A store and a fetch have one
  effect each (`Stored`, `Fetched`); a wait can start only with its event clear, and
  a list can fill up or run empty only in a step that clears the matching event.
* `ListIsFrozen`: `Spec => FrozenWhileDeleting`, from `IInv` alone.
* `QueueIsMailbox`: `Spec => AbstractSpec`. A store is `Put`, a fetch is `Take`, a create
  is `Open`, freeing an existing queue is `Close`, everything else (waiting, timing
  out, both events, the flag and the count) is a stutter. `Close` frees what the
  queue owns and the code frees what is in the list: the two are the same by
  `OneOwner`. The second of two deletes finds no queue and frees nothing.

`SyncProofs` proves every invariant of `Sync` for any threads, objects, counts and
destroyers, from `SyncAssumption` (a finite set of threads, a positive `MaxRef`, objects
of different types are different). `Inv` has three layers, each inductive over the one
before:

* `ShapeInv`: a thread inside a call has the call's objects and no others, a thread on
  a condition is one that waits for it.
* `RefInv`: `ref_count` is at least the number of threads using the object, exactly that
  number when nobody is careless, and a used object is alive. A destroy frees at zero,
  and zero means no users (`NoUsers`). It gives `CallersAreSafe`, and with
  `CarefulCallersCount` the other half of the leaked reference: `Spec =>
  []RefCountIsUsers` if `Careless = {}`, so the path of a caller without the mutex is
  the *only* leak.
* `BooksInv`: a thread between its primitive operation and its bookkeeping has the
  primitive (`Holding`), a mutex is taken at most once, a recursive mutex `count` times
  plus the acquisition not booked yet (`Pending`), and the room found in `count` before
  the wait is still there after it (`CountRoom`: only the owner can use it up, and the
  owner is the one waiting). It gives `OwnersHoldTheLock`, `CountFollowsDepth`,
  `GapIsClosed`, and with `RefInv` `TypeCorrect`: neither counter wraps around; together
  `BooksAreRight`.

`PlayerProofs` is about any settings, file lengths, sizes of the buffers and queues, any
number of requests and of files, from `PlayerAssumption` (sizes of at least two, files of
any length, requests that are counted). The four threads share the state without a lock, so
the invariant has to say for every place a thread can be in what the others may be doing
meanwhile, and which messages may be where. Two operators on queues carry all of it: `Ids`,
the events in a queue, and `Behind`, the events that stand behind a given one. An event
that may only be there once is one that is never behind itself; an answer after which
nothing else of that worker may come is one with nothing of it behind. Adding and taking are
described by these alone (`Grown`, `Taken`), and each step of each thread by what it does to
the queues and to the state (`ReadDoes`, `VideoDoes`, `ConvertDoes`, `CommandDoes`,
`AbortDoes`, `NotificationDoes`, `StepDoes`). `Inv` is inductive (`PlayerInvariant`); its parts
are kept one by one:

* `TypeOK`; `Intent`: the state and RESUME_LATER say what was asked for last. It gives
  `IntentIsKept`, for which a seek or a phase of buffering must remember whether the pause
  came before or during it.
* `Phases`: an abort goes from worker to worker; one that has answered has an empty queue
  and is at rest, and nothing it said before stands behind its answer. The convert thread is
  the exception, as it may still clear images for the video decoder. It gives
  `SessionsAreApart`.
* `ReadOnce`, `CopyOnce`: one request to read and one packet to copy at most, and the flag
  of the decode thread is set while there is one or an answer to it.
* `SlotHeld`: the slot is in use only by the packet whose copy the decode thread waits for, or
  by one whose copy has failed and that is skipped next. It rests on `CopyOnce` and gives
  `PacketIsNotOverwritten`.
* `ConvertOnce`, `AudioOnly`: what cannot be there at all.
* `SeekAlone`: in a session that is not `late` a seek is in one place at most, and nothing
  overtakes it. It gives `NoStraySeek`, `CachesAreClearedAlone`, `BufferingStaysFresh`, and
  with the parts before it `ThreeRequestsAtMost`.

`Somewhere` is the other half: the request, its handling or its answer *is* somewhere as long
as the flag or the state waits for it. That is false when an add finds its queue full, since
the result of the add is not looked at. `WorkersDoAnswer` and `SeekIsOne` therefore read
`Spec /\ []Roomy => []...`. `Roomy` (no queue is full) holds in all runs, where TLC checks it
as a part of `WorkersAnswer`. For the workers' queues it is proved wherever they have room
for four (`ThreeRequestsAtMost`); for the notifications it is a hypothesis, because how many
OUT_OF_BUFFER and FINISHED_BUFFERING the convert thread may send before the decode thread looks
is a matter of its sleeps, which no proof from the code's logic can bound.

`RingProofs` is about a ring of any size of at least two (`RingAssumption`), and any items.
`RingInv == RingTypeOK /\ CountIsSafe /\ SlotsRight` is inductive as it stands
(`RingInvariant`): the count lags behind the distance of the indexes by the producer that
has not counted yet and runs ahead by the consumer that has not (`CountIsSafe`), and a slot
is NULL, allocated or an item according to where the two threads are (`SlotsRight`).
`RingIsFifo` maps the items between the indexes to `Fifo`: `Advance` is `Put`, `Release` is
`Get`, `Clear` is `Empty`, and all others, those on the count included, are invisible.

`PipelineProofs` shows that the threads of the player are the clients that `Ring` wants,
for any sizes, any length of the file and any number of seeks (`PipelineAssumption`).
`PipelineInv == PipelineTypeOK /\ RingInv /\ ThreadsInv /\ SeekInv`: `ThreadsInv` says what
each thread has while it is inside the ring, `SeekInv` that a seek keeps the decode thread
away and that the video thread is idle once the convert thread has the baton. From it:
`PipelineTypes`, `BuffersAreSafe` (`SlotsAreSafe`), `CallersRespectRing` (every step of the
pipeline is a step of `Ring` or leaves it alone; a clear finds nobody inside), and with
`RingIsFifo` `ImagesAreFifo`. `TexturesAreWhole` needs `TextureInv` besides: the convert
thread has found a free texture before it gets an image, and nothing but itself takes it
away.

`PicturesInOrder` (`Spec => []InOrder`) cuts the `Line` into its nine places (`Shown`, `Due`,
`Converted`, the contents of the ring, `Filled`, `held`, `Decoded`, `Copied`, `packets`) and
looks at it from the screen up to each of them (`ToDue`, ... `ToCopied`). A step then does one
of three things to each place: leaves it, throws some of it away, or hands its first picture
to the end of the place before. All three leave a line `Within` the old one, that is, with the
same pictures in the same order and perhaps fewer (`WithinBoth`, `Handed`, `Onward`,
`LessOfEach`); `ShowStep`, `ConvertLess` and `DecodeLess` show it for the steps of each thread,
the skips, flushes and clears included. Only reading adds, at the far end, the picture that is
`Upcoming` (`ReadAdds`). So `LineInv == Ordered(Line) /\ AllBefore(Line, Upcoming)` is kept: what
is in line is in order, and all of it before whatever is read next; a seek only makes what is
read next come later. It stands on `PipelineInv` and `TextureInv`: that a picture leaves the
ring at the front and enters it at the end is what `RingProofs` says of `Advance` and `Release`,
and that the textures due are the ones stored, in turn, is `DueOnes`.

`FtpServerProofs` is about any number of clients, sizes of the queues and buffers, and sizes of
the files, any commands, failures and the exit at any time, from `FtpAssumption`. As for the
player each step is first shown to be one of a few effects: those of the server thread
(`ServerDoes`) replace one client and its story, and put at most one command in the queue or
wait with it; those of the I/O thread (`IoDoes`) move a read state, take a command, give an
answer, wait with it or lose it. Then, each invariant over those before it:

* `Basics` (`BasicsHold`): types, with `Room` (a buffer is full only while its write waits in
  `adding`; this is what `MustSend` is for), `Busy` (a transfer under way has a pending RETR or
  STOR), `InFile` (no read state is past the end of its file) and `BlockWaits` (the block that
  waits for room is the one at the offset of its read state, which moves on only when the
  block is in the queue). `ThereIsRoom` follows.
* `Own` (`MessagesAreOwn`): a message comes of another one of the same transfer or is made by
  the handler that knows the transfer. With `clean` at the beginning this is enough, although
  messages carry the slot only. `OwnMessages` is proved only; no run checks it.
* `Await` (`AnswerComes`) is stronger than `AnswerOnItsWay`: of a read there is the command, the
  read state or the answer *with the end or an error*, of a write the command with the end or
  an answer. A block in the queue alone is not a reason to wait.
* `Retrieve` (`BytesAreInOrder`): there are offsets a <= b with the first a units sent, the
  blocks in the queue leading from a to b (`Leads`: each begins where the one before it ends),
  and the one read state at b. `OneRead` (there are never two) is what makes it inductive.
* `Store`: what has been received lies in three places, in this order: the file up to a, the
  writes in the queue leading from a to b (`Passes`), the buffer from b on (`Buffered`); only
  the first write replaces the file, the one with the end is the last (`EndIsLast`), and while
  no write has failed nothing is missing. If the first answer is a success the file is complete
  (`Succeeds`, `Complete`).

`SuccessMeansAll` (`Spec => TransferComplete`) then looks at the step that gives a 226: nothing
but an answer of the I/O thread can (`OnlyAnswersSucceed`), and it is the block with the end,
or the first answer about the writes. `store_buffer_offset` surviving an ABOR, reads left over in
a slot and an answer that was dropped are the reasons for `clean` and `lost` in these theorems;
see *Left-overs*. Only the exit's emptying of the queues (`NotFlushed`) is exempt.

`PlaylistProofs` is about lists and directories of any size and depth. `Inv == Types /\
CursorInList /\ FoundFits /\ FilesInList /\ PickInv`. `IndicesAreInArrays` follows from the
first four: what was found fits together with the parent in front (`FoundFits`) because a
read gives up one entry early; cursor and offset move only inside the list that is shown,
and the search for the next file wraps around before the end. The indexes are kept in the
arrays although nobody resets them when the list changes. `PicksAreKept` follows from
`PickInv`: the last pick is in the queue, and only opening it takes it out for good.

Two more invariants, each inductive over `Inv`, say what the list is worth while it is read
by three threads. `ListFits` goes with the reader through its five steps: from the clearing
on every entry is nothing, the parent, or of the directory that is read now; the flag that
keeps the keys out is set until the last step; and all of it only as long as no second key
changed the directory during a read (`crossed`). `PicksAreTogether` (`Spec =>
[]PickedTogether`) follows, as a pick is an entry of the list when it is made (`PickedStep`).
`Searched` is the search for the next file: while nobody asks for another list (`calm`) it
stays as it was when the search began (`CalmFrame`); after `turn` turns the search is at
`Reached`, a place counted from `from` and once around the end, and no place `Between` the
two is a file (`TurnPasses`). Since the last file may have been beyond the end of a list that
got shorter, `Reached` has a case for it. When the turns are used up no place of the list is
left (`NothingFound`). `NextFileIsNext` (`Spec => NextIsNext`) joins both. The attempt to
prove it corrected the property: the first half of it, that the file is in the directory it
is looked for in, is false after two keys of one moment, with four reads instead of the
three of the run. It now leaves out that case as `PickedTogether` does; with `MaxReads` = 4
and one mode TLC confirms it (2,091,821 states).

Only model-checked, because the provers do not do liveness: all properties with `~>` or
`<>` (`CallsReturn`, `AbortCompletes`, `SeekCompletes`, `BufferingEnds`, `ShutdownCompletes`,
`Answered`, `ExitCompletes`, `Flows`). For `Player` and `FtpServer` the theorems say what liveness
rests on: that what is waited for is somewhere (`WorkersDoAnswer`, `SeekIsOne`, `AnswerComes`);
that it moves on is left to TLC, as is `NothingLeft`. Every other property of the
passing runs is stated by a theorem.

## What is not modelled

In `Player`: changing the audio or subtitle track (5174-5224), files whose video is a
picture (frametime 0), several tracks of a kind, a failing `malloc` of a request, the
positions, the sound buffer, and suspending all threads at the end of an
application. In `EventQueue`: several queues
(they share nothing but the mutex) and a failing `malloc` in create (it leaves no
queue). In `Sync`: creating a variable again after its destruction. In `Pipeline`: audio and
subtitles, MVD (whose queue of timestamps shifts for good when
`mvdstdProcessVideoFrame` fails), several video tracks (each has rings of its own). In
`FtpServer`: names, paths and their checks, commands that only set a parameter, STOU and
APPE (STOR with another name or appended), the settings
and the status screen. In `Playlist`: the sizes the reader looks up after the list (with
`current_dir`, which the key thread may replace meanwhile), sorting, drawing.

Whole components, with the reasons: the *recorder* hands frames over with two flags that
do not keep its threads apart (above), so there is no property of it that holds; *menu,
HID, watch, log* are tables under one mutex each, planned; *POSIX threads* are thin
calls of `sync.c`, planned as a client of `Sync`; *speaker* and *resource monitors* are a
ring and counters of the same kind as those modelled; *network clients, files, JSON,
converter, encoder, muxer, camera, microphone, keyboard, hardware settings, drawing* are
sequential wrappers of system services and libraries, pixel arithmetic and layout.
Vendored libraries are external; as `src/library` holds most of the repository's lines
(180,000, of which the program's own are some 25,000), the share of lines that the models
map is small however much of the program they cover.

## Plan

In this order; the most important behaviour first. A module gets its proofs once TLC
agrees with its invariants.

1. Done: `QueueOps`, `Mailbox`, `EventQueue`, `Sync`, `Player`, `Fifo`, `Ring`, `Pipeline`,
   `FtpServer`, `Playlist`, and the theorems about all of them.
2. `Tables`: callback tables of the menu and HID, the watch table, the log ring.
3. `PosixThreads` (a client of `Sync`), `Speaker`, the resource monitors.
4. The requests left out of `Player`, audio and subtitles in `Pipeline`.
5. The recorder, if its flags are given a protocol.

Runs stay few: a new component gets one for its safety and, where it waits, one for its
liveness; where a theorem covers a property for every instance, runs are merged.
