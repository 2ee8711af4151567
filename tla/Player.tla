------------------------------- MODULE Player -------------------------------
(***************************************************************************)
(* The playback engine of src/source/video_player.c: the decode thread,    *)
(* which owns the player's state, and the three workers it talks to over   *)
(* queues, the read packet, the decode video and the convert thread, with  *)
(* the requests of the user's side (Vid_hid, the explorer's callback, the  *)
(* exit thread).                                                           *)
(*                                                                         *)
(* A call on a queue is one step (EventQueue has what happens inside). A   *)
(* worker takes a request and makes the test of vid_player.state that      *)
(* follows in one step: nobody else looks at its queue, so the request     *)
(* might as well have been taken when the test is made. Every other read   *)
(* of the shared state is a step of its own.                               *)
(*                                                                         *)
(* Positions, sizes of free memory, the audio buffer and the textures on   *)
(* the screen are not kept: what depends on them is a free choice. A file  *)
(* is a number of packets still to be read.                                *)
(***************************************************************************)
EXTENDS QueueOps, FiniteSets

CONSTANTS
    Settings,       \* the situations the player may be in, see Setting
    MaxImages,      \* DEF_DECODER_MAX_RAW_IMAGE
    Threshold,      \* restart_playback_threshold
    MaxDup,         \* bound on queued FINISHED_BUFFERING notifications of the
                    \* convert thread, which waits 50 ms between two of them
    QueueSize       \* max_items of the queues, more than the bounds let in

RequestKinds ==
    {"PLAY", "PICK", "PAUSE", "RESUME", "SEEK", "ABORT", "SHUTDOWN", "HOME", "KEYBOARD"}

(* What does not change while the program runs: the kind of its files, the *)
(* user's settings, what may fail, and bounds.                             *)
Setting(s) ==
    /\ s.requests \in [RequestKinds -> Nat]   \* bound on the user's requests of each kind
    /\ s.video \in BOOLEAN        \* files have normal video tracks, not only audio
    /\ s.repeat \in BOOLEAN       \* playback_mode # PLAYBACK_NO_REPEAT
    /\ s.remembers \in BOOLEAN    \* remember_video_pos, with a position saved earlier
    /\ s.openFails \in BOOLEAN    \* a file may fail to open
    /\ s.memoryFails \in BOOLEAN  \* decoding and conversion may run out of memory
    /\ s.fileLen \in Nat          \* packets in a file
    /\ s.maxPackets \in Nat \ {0, 1}     \* DEF_DECODER_MAX_CACHE_PACKETS

ASSUME PlayerAssumption ==
    /\ \A s \in Settings : Setting(s)
    /\ Threshold \in Nat /\ MaxImages \in Nat \ {0, 1}
    /\ {MaxDup, QueueSize} \subseteq Nat \ {0}

VARIABLES
    state,          \* vid_player.state
    resumeLater,    \* PLAYER_SUB_STATE_RESUME_LATER
    eof,            \* vid_player.is_eof
    run,            \* vid_player.thread_run
    dpc,            \* where the decode thread is in its loop
    event,          \* the request it is aborting for
    active,         \* is_read_packet_thread_active
    waiting,        \* is_waiting_video_decoder
    cmdQ,           \* decode_thread_command_queue
    notifQ,         \* decode_thread_notification_queue
    readQ,          \* read_packet_thread_command_queue
    videoQ,         \* decode_video_thread_command_queue
    convertQ,       \* convert_thread_command_queue
    left,           \* packets of the file after the reader's position
    packets,        \* util_decoder_available_cache_packet
    images,         \* util_video_decoder_available_raw_image
    ready,          \* util_video_decoder_packet_ready
    cached,         \* util_video_decoder_cache_packet_ready: the slot of a
                    \* parsed packet is in use
    rpc, vpc, cpc,  \* where the workers are
    shouldConvert,  \* should_convert
    seen,           \* num_of_cached_raw_images of the convert thread
    budget,         \* requests the user may still make
    home,           \* Vid_hid: "none", "waiting" or "asked" until the pause for
                    \* the HOME menu or the keyboard, "menu", "keyboard"
    mustResume,     \* must_resume_after_home_menu, must_resume
    setting,        \* one of Settings
    wants,          \* history: whether the user wants the file to play
    late            \* history: whether a clear of the session before was still
                    \* under way when this one began

playerVars == <<state, resumeLater, eof, run>>
decodeVars == <<dpc, event, active, waiting>>
mediaVars == <<left, packets, images, ready, cached>>
convertVars == <<cpc, shouldConvert, seen>>
userVars == <<budget, home, mustResume, setting>>
history == <<wants, late>>
vars == <<playerVars, decodeVars, cmdQ, notifQ, readQ, videoQ, convertQ, mediaVars,
          rpc, vpc, convertVars, userVars, history>>

HasVideo == setting.video
Repeat == setting.repeat
Remembers == setting.remembers
OpenFails == setting.openFails
MemoryFails == setting.memoryFails
FileLen == setting.fileLen
MaxPackets == setting.maxPackets

NoFile == {"IDLE", "PREPARE_PLAYING"}
Decoding == {"PLAYING", "PAUSE", "BUFFERING", "SEEKING"}
FileOpen == state \notin NoFile

(* The three ways in which video_player.c adds to a queue.                 *)
Add(q, id) == AfterAdd(q, QueueSize, id, "none", FALSE, FALSE)
AddOnce(q, id) == AfterAdd(q, QueueSize, id, "none", TRUE, FALSE)
AddFront(q, id) == AfterAdd(q, QueueSize, id, "none", FALSE, TRUE)

Next1(q, id) == q # <<>> /\ Head(q).id = id

Init ==
    /\ state = "IDLE" /\ resumeLater = FALSE /\ eof = FALSE /\ run = TRUE
    /\ dpc = "command" /\ event = "NONE" /\ active = FALSE /\ waiting = FALSE
    /\ cmdQ = <<>> /\ notifQ = <<>> /\ readQ = <<>> /\ videoQ = <<>> /\ convertQ = <<>>
    /\ left = 0 /\ packets = 0 /\ images = 0 /\ ready = FALSE /\ cached = FALSE
    /\ rpc = "take" /\ vpc = "take" /\ cpc = "take"
    /\ shouldConvert = FALSE /\ seen = 0
    /\ setting \in Settings /\ budget = setting.requests
    /\ home = "none" /\ mustResume = FALSE
    /\ wants = FALSE /\ late = FALSE

-----------------------------------------------------------------------------
(* The user's side.                                                        *)
Spend(kind) == budget[kind] > 0 /\ budget' = [budget EXCEPT ![kind] = @ - 1]

Ask(kind) ==
    /\ Spend(kind)
    /\ home = "none"
    /\ UNCHANGED <<playerVars, decodeVars, notifQ, readQ, videoQ, convertQ, mediaVars,
                   rpc, vpc, convertVars, home, mustResume, setting, history>>

(* The play button: play when idle, else pause or resume as asked for.     *)
AskPlay ==
    /\ Ask("PLAY")
    /\ state = "IDLE"
    /\ cmdQ' = AddOnce(cmdQ, "PLAY")

Shown(playing) ==
    \/ state = (IF playing THEN "PLAYING" ELSE "PAUSE")
    \/ state \in {"BUFFERING", "PREPARE_SEEKING", "SEEKING"} /\ resumeLater = playing

AskPause ==
    /\ Ask("PAUSE")
    /\ Shown(TRUE)
    /\ cmdQ' = AddOnce(cmdQ, "PAUSE")

AskResume ==
    /\ Ask("RESUME")
    /\ Shown(FALSE)
    /\ cmdQ' = AddOnce(cmdQ, "RESUME")

AskSeek ==
    /\ Ask("SEEK")
    /\ state \notin NoFile
    /\ cmdQ' = Add(cmdQ, "SEEK")

AskAbort ==
    /\ Ask("ABORT")
    /\ cmdQ' = AddFront(cmdQ, "ABORT")

(* Vid_expl_callback.                                                      *)
AskPick ==
    /\ Ask("PICK")
    /\ cmdQ' = Add(cmdQ, "PLAY")

(* Vid_exit_thread; from here on Vid_hid is not called any more.           *)
AskShutdown ==
    /\ budget["SHUTDOWN"] > 0 /\ budget' = [kind \in RequestKinds |-> 0]
    /\ home = "none"
    /\ cmdQ' = AddFront(cmdQ, "SHUTDOWN")
    /\ UNCHANGED <<playerVars, decodeVars, notifQ, readQ, videoQ, convertQ, mediaVars,
                   rpc, vpc, convertVars, home, mustResume, setting, history>>

(* The HOME button and the number keyboard of Vid_hid: both ask for a      *)
(* pause, wait until the state is neither PREPARE_PLAYING nor PLAYING, and *)
(* resume afterwards what was playing or would have resumed.               *)
Interrupt(kind, where) ==
    /\ Spend(kind)
    /\ home = "none" /\ home' = where
    /\ mustResume' = (state \in {"PREPARE_PLAYING", "PLAYING"} \/ resumeLater)
    /\ UNCHANGED <<playerVars, decodeVars, notifQ, readQ, videoQ, convertQ, mediaVars,
                   rpc, vpc, convertVars, setting, history>>

HomePressed == Interrupt("HOME", "waiting") /\ cmdQ' = Add(cmdQ, "PAUSE")
KeyboardAsked == Interrupt("KEYBOARD", "asked") /\ cmdQ' = AddOnce(cmdQ, "PAUSE")

HomeWaited ==
    /\ home \in {"waiting", "asked"}
    /\ state \notin {"PREPARE_PLAYING", "PLAYING"}
    /\ home' = IF home = "waiting" THEN "menu" ELSE "keyboard"
    /\ UNCHANGED <<playerVars, decodeVars, cmdQ, notifQ, readQ, videoQ, convertQ, mediaVars,
                   rpc, vpc, convertVars, budget, mustResume, setting, history>>

HomeLeft ==
    /\ home \in {"menu", "keyboard"} /\ home' = "none"
    /\ mustResume' = FALSE
    /\ cmdQ' = IF ~mustResume THEN cmdQ
               ELSE IF home = "menu" THEN Add(cmdQ, "RESUME") ELSE AddOnce(cmdQ, "RESUME")
    /\ UNCHANGED <<playerVars, decodeVars, notifQ, readQ, videoQ, convertQ, mediaVars,
                   rpc, vpc, convertVars, budget, setting, history>>

User ==
    \/ AskPlay \/ AskPause \/ AskResume \/ AskSeek \/ AskAbort \/ AskPick \/ AskShutdown
    \/ HomePressed \/ KeyboardAsked \/ HomeLeft

-----------------------------------------------------------------------------
(* Decode thread, first part of its loop: one request, if there is one.    *)
workersVars == <<rpc, vpc, convertVars>>

Take(id) ==
    /\ dpc = "command" /\ run
    /\ Next1(cmdQ, id)
    /\ UNCHANGED <<run, event, notifQ, workersVars, userVars>>

NoCommand ==
    /\ dpc = "command" /\ run
    /\ cmdQ = <<>>
    /\ dpc' = "notification"
    /\ UNCHANGED <<playerVars, event, active, waiting, cmdQ, notifQ, readQ, videoQ, convertQ,
                   mediaVars, workersVars, userVars, history>>

(* DECODE_THREAD_PLAY_REQUEST with no file open: the others see a player   *)
(* that plays already while the file is being opened.                      *)
Play ==
    /\ Take("PLAY")
    /\ state \in NoFile
    /\ state' = "PLAYING" /\ resumeLater' = FALSE /\ eof' = FALSE
    /\ active' = FALSE /\ waiting' = FALSE
    /\ cmdQ' = Tail(cmdQ)
    /\ dpc' = "open"
    /\ wants' = TRUE
    /\ late' = (HasEvent(convertQ, "CLEAR") \/ cpc = "clear" \/ HasEvent(notifQ, "FINISHED_CLEARING"))
    /\ UNCHANGED <<readQ, videoQ, convertQ, mediaVars>>

(* An opened file is read and converted from now on, after the jump to a   *)
(* remembered position if there is one; a file with video is buffered      *)
(* first, unless a seek, that one or the user's, is going to do that.      *)
PlayOpened ==
    /\ dpc = "open" /\ dpc' = "notification"
    /\ \E jump \in {FALSE, Remembers} :
        cmdQ' = IF jump THEN Add(cmdQ, "SEEK") ELSE cmdQ
    /\ resumeLater' = (HasVideo /\ ~HasEvent(cmdQ', "SEEK"))
    /\ state' = IF resumeLater' THEN "BUFFERING" ELSE "PLAYING"
    /\ active' = TRUE
    /\ readQ' = Add(readQ, "READ")
    /\ convertQ' = Add(convertQ, "CONVERT")
    /\ left' = FileLen
    /\ UNCHANGED <<eof, run, event, waiting, notifQ, videoQ, packets, images, ready, cached,
                   workersVars, userVars, history>>

(* The file cannot be opened or has nothing to play: an abort goes to the  *)
(* front and the loop starts over.                                         *)
PlayFailed ==
    /\ OpenFails
    /\ dpc = "open" /\ dpc' = "command"
    /\ cmdQ' = AddFront(cmdQ, "ABORT")
    /\ UNCHANGED <<playerVars, event, active, waiting, notifQ, readQ, videoQ, convertQ,
                   mediaVars, workersVars, userVars, history>>

(* ... with a file open: abort it, then play the new one.                  *)
PlayLater ==
    /\ Take("PLAY")
    /\ state \notin NoFile
    /\ cmdQ' = Add(Add(Tail(cmdQ), "ABORT"), "PLAY")
    /\ dpc' = "notification"
    /\ UNCHANGED <<state, resumeLater, eof, active, waiting, readQ, videoQ, convertQ,
                   mediaVars, history>>

(* A request that changes at most the state and the resume bit.            *)
Simple(id) ==
    /\ Take(id)
    /\ cmdQ' = Tail(cmdQ)
    /\ dpc' = "notification"
    /\ UNCHANGED <<eof, active, waiting, readQ, videoQ, convertQ, mediaVars>>

(* DECODE_THREAD_PAUSE_REQUEST                                             *)
Pause ==
    /\ Simple("PAUSE")
    /\ state' = IF state = "PLAYING" THEN "PAUSE" ELSE state
    /\ resumeLater' = (resumeLater /\ state \in NoFile \cup {"PLAYING", "PAUSE"})
    /\ wants' = (wants /\ state \in NoFile)
    /\ UNCHANGED late

(* Mutant: a resume only looks at the state.                               *)
ResumeStateOnly ==
    /\ Simple("RESUME")
    /\ state' = IF state = "PAUSE" THEN "PLAYING" ELSE state
    /\ UNCHANGED resumeLater
    /\ wants' = (wants \/ state \notin NoFile)
    /\ UNCHANGED late

(* DECODE_THREAD_RESUME_REQUEST                                            *)
Resume ==
    /\ Simple("RESUME")
    /\ state' = IF state = "PAUSE" THEN "PLAYING" ELSE state
    /\ resumeLater' = (resumeLater \/ state \notin NoFile \cup {"PLAYING", "PAUSE"})
    /\ wants' = (wants \/ state \notin NoFile)
    /\ UNCHANGED late

(* DECODE_THREAD_INCREASE_KEEP_RAM_REQUEST: ram_to_keep_base is not kept.  *)
KeepRam ==
    /\ Simple("MORE_RAM")
    /\ UNCHANGED <<state, resumeLater, history>>

(* DECODE_THREAD_SEEK_REQUEST: ignored with no file, put back while        *)
(* another seek is under way, otherwise passed on to the reader.           *)
SeekIgnored ==
    /\ Simple("SEEK")
    /\ state \in NoFile
    /\ UNCHANGED <<state, resumeLater, history>>

SeekLater ==
    /\ Take("SEEK")
    /\ state = "PREPARE_SEEKING"
    /\ cmdQ' = AddOnce(Tail(cmdQ), "SEEK")
    /\ dpc' = "notification"
    /\ UNCHANGED <<state, resumeLater, eof, active, waiting, readQ, videoQ, convertQ,
                   mediaVars, history>>

(* Mutant: a seek does not wait for the one under way.                     *)
SeekAtOnce ==
    /\ Take("SEEK")
    /\ FileOpen
    /\ resumeLater' = (state = "PLAYING" \/ (resumeLater /\ state # "PAUSE"))
    /\ state' = "PREPARE_SEEKING"
    /\ eof' = FALSE
    /\ readQ' = Add(readQ, "SEEK")
    /\ cmdQ' = Tail(cmdQ)
    /\ dpc' = "notification"
    /\ UNCHANGED <<active, waiting, videoQ, convertQ, mediaVars, history>>

Seek ==
    /\ Take("SEEK")
    /\ state \in Decoding
    /\ resumeLater' = (state = "PLAYING" \/ (resumeLater /\ state # "PAUSE"))
    /\ state' = "PREPARE_SEEKING"
    /\ eof' = FALSE
    /\ readQ' = Add(readQ, "SEEK")
    /\ cmdQ' = Tail(cmdQ)
    /\ dpc' = "notification"
    /\ UNCHANGED <<active, waiting, videoQ, convertQ, mediaVars, history>>

-----------------------------------------------------------------------------
(* DECODE_THREAD_PLAY_NEXT_, _ABORT_ and _SHUTDOWN_REQUEST.                *)
Ends == {"PLAY_NEXT", "ABORT", "SHUTDOWN"}

EndIdle(id) ==
    /\ dpc = "command" /\ run
    /\ Next1(cmdQ, id)
    /\ state \in NoFile
    /\ state' = "IDLE" /\ resumeLater' = FALSE
    /\ cmdQ' = Tail(cmdQ)
    /\ run' = (id # "SHUTDOWN")
    /\ dpc' = IF id = "SHUTDOWN" THEN "exited" ELSE "notification"
    /\ UNCHANGED <<eof, event, active, waiting, notifQ, readQ, videoQ, convertQ, mediaVars,
                   workersVars, userVars, history>>

End(id) ==
    /\ dpc = "command" /\ run
    /\ Next1(cmdQ, id)
    /\ state \notin NoFile
    /\ event' = id
    /\ cmdQ' = Tail(cmdQ)
    /\ readQ' = Add(readQ, "ABORT")
    /\ dpc' = "abortRead"
    /\ UNCHANGED <<playerVars, active, waiting, notifQ, videoQ, convertQ, mediaVars,
                   workersVars, userVars, history>>

(* The three waits: notifications are thrown away up to the worker's       *)
(* answer; after it the next worker is asked.                              *)
Drain(where, answer) ==
    /\ dpc = where
    /\ notifQ # <<>>
    /\ Head(notifQ).id # answer
    /\ notifQ' = Tail(notifQ)
    /\ UNCHANGED <<playerVars, decodeVars, cmdQ, readQ, videoQ, convertQ, mediaVars,
                   workersVars, userVars, history>>

Answered(where, answer) ==
    /\ dpc = where
    /\ Next1(notifQ, answer)
    /\ notifQ' = Tail(notifQ)
    /\ UNCHANGED <<playerVars, event, active, waiting, cmdQ, readQ, mediaVars, workersVars,
                   userVars, history>>

ReadAborted ==
    /\ Answered("abortRead", "READ_ABORTED")
    /\ dpc' = "abortConvert"
    /\ convertQ' = Add(convertQ, "ABORT")
    /\ UNCHANGED videoQ

(* Mutant: the video decoder is not waited for.                            *)
ConvertAbortedLast ==
    /\ Answered("abortConvert", "CONVERT_ABORTED")
    /\ dpc' = "close"
    /\ UNCHANGED <<videoQ, convertQ>>

ConvertAborted ==
    /\ Answered("abortConvert", "CONVERT_ABORTED")
    /\ dpc' = "abortVideo"
    /\ videoQ' = Add(videoQ, "ABORT")
    /\ UNCHANGED convertQ

VideoAborted ==
    /\ Answered("abortVideo", "VIDEO_ABORTED")
    /\ dpc' = "close"
    /\ UNCHANGED <<videoQ, convertQ>>

(* The file is closed; then the next one, nothing, or the end.             *)
Close ==
    /\ dpc = "close"
    /\ left' = 0 /\ packets' = 0 /\ images' = 0 /\ ready' = FALSE /\ cached' = FALSE
    /\ IF event = "PLAY_NEXT" /\ Repeat
       THEN cmdQ' = Add(cmdQ, "PLAY") /\ state' = "PREPARE_PLAYING"
       ELSE state' = "IDLE" /\ UNCHANGED cmdQ
    /\ resumeLater' = FALSE
    /\ run' = (event # "SHUTDOWN")
    /\ dpc' = IF event = "SHUTDOWN" THEN "exited" ELSE "notification"
    /\ event' = "NONE"
    /\ UNCHANGED <<eof, active, waiting, notifQ, readQ, videoQ, convertQ, workersVars,
                   userVars, history>>

Command ==
    \/ NoCommand
    \/ Play \/ PlayOpened \/ PlayFailed \/ PlayLater \/ Pause \/ Resume \/ KeepRam
    \/ SeekIgnored \/ SeekLater \/ Seek
    \/ \E id \in Ends : EndIdle(id) \/ End(id)

Abort ==
    \/ Drain("abortRead", "READ_ABORTED")
    \/ Drain("abortConvert", "CONVERT_ABORTED")
    \/ Drain("abortVideo", "VIDEO_ABORTED")
    \/ ReadAborted \/ ConvertAborted \/ VideoAborted \/ Close

-----------------------------------------------------------------------------
(* Second part of the loop: one notification, if there is one.             *)
NoNotification ==
    /\ dpc = "notification"
    /\ notifQ = <<>>
    /\ dpc' = "step"
    /\ UNCHANGED <<playerVars, event, active, waiting, cmdQ, notifQ, readQ, videoQ, convertQ,
                   mediaVars, workersVars, userVars, history>>

Noted(ids) ==
    /\ dpc = "notification"
    /\ notifQ # <<>> /\ Head(notifQ).id \in ids
    /\ notifQ' = Tail(notifQ)
    /\ dpc' = "step"
    /\ UNCHANGED <<run, event, cmdQ, readQ, convertQ, mediaVars, workersVars, userVars, history>>

NoteRead ==
    /\ Noted({"FINISHED_READING", "EOF"})
    /\ eof' = (eof \/ Head(notifQ).id = "EOF")
    /\ active' = FALSE
    /\ UNCHANGED <<state, resumeLater, waiting, videoQ>>

(* Mutant: the seek goes on before the caches are cleared.                 *)
NoteSeekingAtOnce ==
    /\ Noted({"FINISHED_SEEKING"})
    /\ state' = IF state = "PREPARE_SEEKING" THEN "SEEKING" ELSE state
    /\ videoQ' = IF state = "PREPARE_SEEKING" /\ HasVideo THEN Add(videoQ, "CLEAR") ELSE videoQ
    /\ UNCHANGED <<resumeLater, eof, active, waiting>>

(* Without video the seek goes on at once; with video the caches of the    *)
(* other two workers are cleared first.                                    *)
NoteSeeking ==
    /\ Noted({"FINISHED_SEEKING"})
    /\ state' = IF state = "PREPARE_SEEKING" /\ ~HasVideo THEN "SEEKING" ELSE state
    /\ videoQ' = IF state = "PREPARE_SEEKING" /\ HasVideo THEN Add(videoQ, "CLEAR") ELSE videoQ
    /\ UNCHANGED <<resumeLater, eof, active, waiting>>

NoteCopying ==
    /\ Noted({"FINISHED_COPYING"})
    /\ waiting' = FALSE
    /\ UNCHANGED <<state, resumeLater, eof, active, videoQ>>

NoteBuffering ==
    /\ Noted({"FINISHED_BUFFERING"})
    /\ state' = IF state = "BUFFERING" THEN (IF resumeLater THEN "PLAYING" ELSE "PAUSE") ELSE state
    /\ resumeLater' = (resumeLater /\ state # "BUFFERING")
    /\ UNCHANGED <<eof, active, waiting, videoQ>>

NoteOutOfBuffer ==
    /\ Noted({"OUT_OF_BUFFER"})
    /\ IF state \in {"PLAYING", "PAUSE"} /\ ~(eof /\ packets = 0)
       THEN /\ resumeLater' = (state = "PLAYING")
            /\ state' = "BUFFERING"
       ELSE UNCHANGED <<state, resumeLater>>
    /\ UNCHANGED <<eof, active, waiting, videoQ>>

NoteCleared ==
    /\ Noted({"FINISHED_CLEARING"})
    /\ state' = IF state = "PREPARE_SEEKING" THEN "SEEKING" ELSE state
    /\ UNCHANGED <<resumeLater, eof, active, waiting, videoQ>>

Notification ==
    \/ NoNotification
    \/ NoteRead \/ NoteSeeking \/ NoteCopying \/ NoteBuffering \/ NoteOutOfBuffer \/ NoteCleared

-----------------------------------------------------------------------------
(* Third part of the loop, with a file open: ask for more packets when     *)
(* half of the buffer is free, then take one step of decoding.             *)
Step ==
    /\ dpc = "step"
    /\ dpc' = "command"
    /\ UNCHANGED <<resumeLater, eof, run, event, convertQ, left, images, ready, cached,
                   workersVars, userVars, history>>

Refill ==
    LET ask == packets < MaxPackets \div 2 /\ ~active /\ ~eof
    IN  /\ active' = (active \/ ask)
        /\ readQ' = IF ask THEN Add(readQ, "READ") ELSE readQ

NoMorePackets == eof /\ packets = 0

(* Mutant: it is not told.                                                 *)
KeepBuffering == UNCHANGED <<state, waiting, cmdQ, notifQ, videoQ, packets>>

(* "can't buffer anymore": a buffering state is told to end.               *)
StopBuffering ==
    /\ notifQ' = IF state = "BUFFERING" THEN Add(notifQ, "FINISHED_BUFFERING") ELSE notifQ
    /\ UNCHANGED <<state, waiting, cmdQ, videoQ, packets>>

StepNothing ==
    /\ Step
    /\ state \notin Decoding
    /\ UNCHANGED <<state, active, waiting, cmdQ, notifQ, readQ, videoQ, packets>>

(* All packets are consumed: wait until the sound and the images are, too, *)
(* then ask for the next file.                                             *)
StepEnd ==
    /\ Step
    /\ state \in Decoding
    /\ NoMorePackets
    /\ \/ StopBuffering
       \/ /\ state # "BUFFERING"
          /\ HasVideo => images = 0
          /\ cmdQ' = Add(cmdQ, "PLAY_NEXT")
          /\ UNCHANGED <<state, waiting, notifQ, videoQ, packets>>
    /\ UNCHANGED <<active, readQ>>

(* The video decoder has not taken the last packet yet.                    *)
StepWait ==
    /\ Step
    /\ state \in Decoding
    /\ ~NoMorePackets
    /\ waiting
    /\ Refill
    /\ UNCHANGED <<state, waiting, cmdQ, notifQ, videoQ, packets>>

(* The speaker's buffer is full, or there are images and their buffer is   *)
(* full or memory is short.                                                *)
StepFull ==
    /\ Step
    /\ state \in Decoding
    /\ ~NoMorePackets
    /\ ~waiting
    /\ Refill
    /\ StopBuffering

(* The next packet. A seek is over when the position is reached; then a    *)
(* file with video is buffered, another one goes on at once.               *)
SeekEnds(type) == state = "SEEKING" /\ (type = "video" \/ ~HasVideo)

(* Mutant: it does not wait for the video decoder.                         *)
StepParseImpatient(type) ==
    /\ dpc = "step" /\ dpc' = "command"
    /\ state \in Decoding
    /\ ~NoMorePackets
    /\ ~(images + 1 >= MaxImages /\ images > 0)
    /\ Refill
    /\ packets > 0 /\ packets' = packets - 1
    /\ UNCHANGED <<state, resumeLater>>
    /\ waiting' = (type = "video") /\ cached' = (cached \/ type = "video")
    /\ videoQ' = IF type = "video" THEN Add(videoQ, "DECODE") ELSE videoQ
    /\ UNCHANGED <<eof, run, event, cmdQ, notifQ, convertQ, left, images, ready,
                   workersVars, userVars, history>>

StepParse(type) ==
    /\ dpc = "step" /\ dpc' = "command"
    /\ state \in Decoding
    /\ ~NoMorePackets
    /\ ~waiting
    /\ ~(images + 1 >= MaxImages /\ images > 0)
    /\ Refill
    /\ packets > 0 /\ packets' = packets - 1
    /\ \E reached \in {FALSE, SeekEnds(type)} :
        IF reached
        THEN /\ state' = IF HasVideo THEN "BUFFERING" ELSE IF resumeLater THEN "PLAYING" ELSE "PAUSE"
             /\ resumeLater' = (resumeLater /\ HasVideo)
        ELSE UNCHANGED <<state, resumeLater>>
    /\ waiting' = (type = "video") /\ cached' = (cached \/ type = "video")
    /\ videoQ' = IF type = "video" THEN Add(videoQ, "DECODE") ELSE videoQ
    /\ UNCHANGED <<eof, run, event, cmdQ, notifQ, convertQ, left, images, ready,
                   workersVars, userVars, history>>

(* DEF_ERR_TRY_AGAIN: nothing to parse yet.                                *)
StepTryAgain ==
    /\ Step
    /\ state \in Decoding
    /\ ~NoMorePackets
    /\ ~waiting
    /\ packets = 0
    /\ Refill
    /\ UNCHANGED <<state, waiting, cmdQ, notifQ, videoQ, packets>>

Types == IF HasVideo THEN {"video", "other"} ELSE {"other"}

DecodeStep ==
    \/ StepNothing \/ StepEnd \/ StepWait \/ StepFull \/ StepTryAgain
    \/ \E type \in Types : StepParse(type)

DecodeThread == Command \/ Abort \/ Notification \/ DecodeStep

-----------------------------------------------------------------------------
(* Vid_read_packet_thread                                                  *)
notReadVars == <<playerVars, decodeVars, cmdQ, videoQ, convertQ, images, ready, cached,
                 vpc, convertVars, userVars, history>>

ReadTake ==
    /\ rpc = "take" /\ run
    /\ readQ # <<>>
    /\ IF Head(readQ).id = "ABORT"
       THEN /\ readQ' = <<>>
            /\ notifQ' = Add(notifQ, "READ_ABORTED")
            /\ UNCHANGED rpc
       ELSE /\ readQ' = Tail(readQ)
            /\ rpc' = IF state \in NoFile THEN "take"
                      ELSE IF Head(readQ).id = "READ" THEN "read" ELSE "seek"
            /\ UNCHANGED notifQ
    /\ UNCHANGED <<left, packets, notReadVars>>

ReadDone(id) == notifQ' = Add(notifQ, id) /\ rpc' = "take"

(* One call of Util_decoder_read_packet and what follows its result.       *)
ReadPacket ==
    /\ rpc = "read"
    /\ \/ /\ packets + 1 >= MaxPackets
          /\ rpc' = "check"
          /\ UNCHANGED <<notifQ, left, packets>>
       \/ /\ packets + 1 < MaxPackets
          /\ left > 0
          /\ left' = left - 1
          /\ packets' = packets + 1
          /\ IF packets' + 1 >= MaxPackets
             THEN ReadDone("FINISHED_READING")
             ELSE rpc' = "check" /\ UNCHANGED notifQ
       \/ /\ packets + 1 < MaxPackets
          /\ left = 0
          /\ ReadDone("EOF")
          /\ UNCHANGED <<left, packets>>
    /\ UNCHANGED <<readQ, notReadVars>>

(* Mutant: an interrupted reader says nothing.                             *)
ReadCheckSilent ==
    /\ rpc = "check"
    /\ rpc' = IF HasEvent(readQ, "SEEK") \/ HasEvent(readQ, "ABORT") THEN "take" ELSE "read"
    /\ UNCHANGED <<notifQ, readQ, left, packets, notReadVars>>

(* Is there a seek or an abort to attend to?                               *)
ReadCheck ==
    /\ rpc = "check"
    /\ IF HasEvent(readQ, "SEEK") \/ HasEvent(readQ, "ABORT")
       THEN ReadDone("FINISHED_READING")
       ELSE rpc' = "read" /\ UNCHANGED notifQ
    /\ UNCHANGED <<readQ, left, packets, notReadVars>>

(* Mutant: no answer when Util_decoder_seek fails.                         *)
ReadSeekSilent ==
    /\ rpc = "seek"
    /\ left' \in 0 .. FileLen
    /\ packets' = 0
    /\ \/ ReadDone("FINISHED_SEEKING")
       \/ left' = left /\ rpc' = "take" /\ UNCHANGED notifQ
    /\ UNCHANGED <<readQ, notReadVars>>

ReadSeek ==
    /\ rpc = "seek"
    /\ left' \in 0 .. FileLen
    /\ packets' = 0
    /\ ReadDone("FINISHED_SEEKING")
    /\ UNCHANGED <<readQ, notReadVars>>

ReadThread == ReadTake \/ ReadPacket \/ ReadCheck \/ ReadSeek

-----------------------------------------------------------------------------
(* Vid_decode_video_thread                                                 *)
notVideoVars == <<playerVars, decodeVars, readQ, left, packets, rpc, convertVars,
                  userVars, history>>

ImagesFull == images + 1 >= MaxImages

(* Mutant: an abort with no image to clear is not answered.                *)
VideoTakeSilent ==
    /\ vpc = "take" /\ run
    /\ videoQ # <<>>
    /\ IF Head(videoQ).id = "ABORT"
       THEN /\ videoQ' = <<>>
            /\ images' = 0
            /\ notifQ' = IF images > 0 THEN Add(notifQ, "VIDEO_ABORTED") ELSE notifQ
            /\ UNCHANGED vpc
       ELSE /\ videoQ' = Tail(videoQ)
            /\ vpc' = IF state \in NoFile THEN "take"
                      ELSE IF Head(videoQ).id = "DECODE" THEN "copy" ELSE "flush"
            /\ UNCHANGED <<images, notifQ>>
    /\ UNCHANGED <<cmdQ, convertQ, ready, cached, notVideoVars>>

VideoTake ==
    /\ vpc = "take" /\ run
    /\ videoQ # <<>>
    /\ IF Head(videoQ).id = "ABORT"
       THEN /\ videoQ' = <<>>
            /\ images' = 0
            /\ notifQ' = Add(notifQ, "VIDEO_ABORTED")
            /\ UNCHANGED vpc
       ELSE /\ videoQ' = Tail(videoQ)
            /\ vpc' = IF state \in NoFile THEN "take"
                      ELSE IF Head(videoQ).id = "DECODE" THEN "copy" ELSE "flush"
            /\ UNCHANGED <<images, notifQ>>
    /\ UNCHANGED <<cmdQ, convertQ, ready, cached, notVideoVars>>

(* The frame is late and skipped: the slot is freed, the decode thread may *)
(* go on.                                                                  *)
VideoSkip ==
    /\ vpc = "copy" /\ vpc' = "take"
    /\ cached' = FALSE
    /\ notifQ' = Add(notifQ, "FINISHED_COPYING")
    /\ UNCHANGED <<cmdQ, videoQ, convertQ, images, ready, notVideoVars>>

(* Util_decoder_ready_video_packet: the packet goes to the decoder, and    *)
(* the decode thread may go on.                                            *)
VideoCopy ==
    /\ vpc = "copy" /\ vpc' = "decode"
    /\ cached /\ cached' = FALSE
    /\ ~ready /\ ready' = TRUE
    /\ notifQ' = Add(notifQ, "FINISHED_COPYING")
    /\ UNCHANGED <<cmdQ, videoQ, convertQ, images, notVideoVars>>

(* There is nothing to copy, the decoder still has a packet, or there is   *)
(* no memory: the decode thread may go on all the same ...                 *)
CopyCanFail == ~cached \/ ready \/ MemoryFails

(* (mutant: it is not told)                                                *)
VideoCopyFailsSilent ==
    /\ vpc = "copy" /\ vpc' = "skip"
    /\ CopyCanFail
    /\ UNCHANGED <<cmdQ, notifQ, videoQ, convertQ, images, ready, cached, notVideoVars>>

VideoCopyFails ==
    /\ vpc = "copy" /\ vpc' = "skip"
    /\ CopyCanFail
    /\ notifQ' = Add(notifQ, "FINISHED_COPYING")
    /\ UNCHANGED <<cmdQ, videoQ, convertQ, images, ready, cached, notVideoVars>>

(* ... and only then the slot is freed, whatever it holds by now. More RAM *)
(* is never asked for here, as the copy has another error for it.          *)
VideoSkipFailed ==
    /\ vpc = "skip" /\ vpc' = "take"
    /\ cached' = FALSE
    /\ UNCHANGED <<cmdQ, notifQ, videoQ, convertQ, images, ready, notVideoVars>>

(* One call of Util_decoder_video_decode: the buffer is full, the packet   *)
(* is used up with or without an image, or it still has more images.       *)
VideoDecode ==
    /\ vpc = "decode"
    /\ IF ImagesFull
       THEN vpc' = "check" /\ UNCHANGED <<images, ready>>
       ELSE \/ vpc' = "take" /\ ready' = FALSE /\ images' \in {images, images + 1}
            \/ vpc' = "check" /\ images' = images + 1 /\ UNCHANGED ready
    /\ UNCHANGED <<cmdQ, notifQ, videoQ, convertQ, cached, notVideoVars>>

(* Out of memory: ask for more and try the packet again, or give up, which *)
(* leaves the packet in the decoder.                                       *)
VideoNoMemory ==
    /\ MemoryFails
    /\ vpc = "decode"
    /\ cmdQ' = AddOnce(cmdQ, "MORE_RAM")
    /\ vpc' \in {"check", "take"}
    /\ UNCHANGED <<notifQ, videoQ, convertQ, images, ready, cached, notVideoVars>>

(* Mutant: only a clear cache request is looked for.                       *)
VideoCheckClear ==
    /\ vpc = "check"
    /\ vpc' = IF HasEvent(videoQ, "CLEAR") THEN "take" ELSE "decode"
    /\ UNCHANGED <<cmdQ, notifQ, videoQ, convertQ, images, ready, cached, notVideoVars>>

(* Is there a clear cache or an abort request to attend to?                *)
VideoCheck ==
    /\ vpc = "check"
    /\ vpc' = IF HasEvent(videoQ, "CLEAR") \/ HasEvent(videoQ, "ABORT") THEN "take" ELSE "decode"
    /\ UNCHANGED <<cmdQ, notifQ, videoQ, convertQ, images, ready, cached, notVideoVars>>

(* Decode until there is no packet, room or memory left.                   *)
Flush ==
    IF ready /\ ~ImagesFull
    THEN /\ images' \in images .. MaxImages - 1
         /\ ready' \in {FALSE, images' + 1 >= MaxImages \/ MemoryFails}
    ELSE UNCHANGED <<images, ready>>

(* Mutant: the convert thread is only asked when a packet was flushed.     *)
VideoFlushIfReady ==
    /\ vpc = "flush"
    /\ Flush
    /\ convertQ' = IF ready THEN Add(convertQ, "CLEAR") ELSE convertQ
    /\ vpc' = "take"
    /\ UNCHANGED <<cmdQ, notifQ, videoQ, cached, notVideoVars>>

(* DECODE_VIDEO_THREAD_CLEAR_CACHE_REQUEST: flush the decoder, then have   *)
(* the images cleared.                                                     *)
VideoFlush ==
    /\ vpc = "flush"
    /\ Flush
    /\ convertQ' = Add(convertQ, "CLEAR")
    /\ vpc' = "take"
    /\ UNCHANGED <<cmdQ, notifQ, videoQ, cached, notVideoVars>>

VideoThread ==
    \/ VideoTake \/ VideoSkip \/ VideoCopy \/ VideoCopyFails \/ VideoSkipFailed
    \/ VideoDecode \/ VideoNoMemory \/ VideoCheck \/ VideoFlush

-----------------------------------------------------------------------------
(* Vid_convert_thread. Each of the tests of the state in one turn of its   *)
(* loop may see another one.                                               *)
notConvertVars == <<playerVars, decodeVars, readQ, videoQ, left, packets, ready, cached,
                    rpc, vpc, userVars, history>>

ConvertTake ==
    /\ cpc = "take" /\ run
    /\ convertQ # <<>>
    /\ IF Head(convertQ).id = "ABORT"
       THEN /\ convertQ' = <<>>
            /\ shouldConvert' = FALSE
            /\ notifQ' = Add(notifQ, "CONVERT_ABORTED")
            /\ UNCHANGED cpc
       ELSE LET acts == state \notin NoFile /\ HasVideo
                id == Head(convertQ).id
            IN  /\ convertQ' = Tail(convertQ)
                /\ shouldConvert' = (shouldConvert \/ (acts /\ id = "CONVERT"))
                /\ cpc' = IF acts /\ id = "CLEAR" THEN "clear" ELSE "look"
                /\ UNCHANGED notifQ
    /\ UNCHANGED <<cmdQ, images, seen, notConvertVars>>

(* No request within the timeout.                                          *)
ConvertIdle ==
    /\ cpc = "take" /\ run
    /\ convertQ = <<>>
    /\ shouldConvert
    /\ cpc' = "look"
    /\ UNCHANGED <<cmdQ, notifQ, convertQ, images, shouldConvert, seen, notConvertVars>>

(* Mutant: the answer is sent to the front.                                *)
ConvertClearFront ==
    /\ cpc = "clear"
    /\ images' = 0
    /\ notifQ' = AddFront(notifQ, "FINISHED_CLEARING")
    /\ cpc' = "look"
    /\ UNCHANGED <<cmdQ, convertQ, shouldConvert, seen, notConvertVars>>

ConvertClear ==
    /\ cpc = "clear"
    /\ images' = 0
    /\ notifQ' = Add(notifQ, "FINISHED_CLEARING")
    /\ cpc' = "look"
    /\ UNCHANGED <<cmdQ, convertQ, shouldConvert, seen, notConvertVars>>

ConvertLook ==
    /\ cpc = "look"
    /\ IF shouldConvert /\ state \notin NoFile \cup {"PREPARE_SEEKING"}
       THEN cpc' = "turn" /\ seen' = images
       ELSE cpc' = "take" /\ UNCHANGED seen
    /\ UNCHANGED <<cmdQ, notifQ, convertQ, images, shouldConvert, notConvertVars>>

Turn ==
    /\ cpc = "turn"
    /\ seen' = 0
    /\ UNCHANGED <<convertQ, shouldConvert, notConvertVars>>

(* An image is shown, or dropped because of a delay or a seek. Conversion  *)
(* may run out of memory.                                                  *)
ConvertImage ==
    /\ Turn
    /\ seen > 0
    /\ images' = IF images = 0 THEN 0 ELSE images - 1
    /\ cmdQ' \in IF MemoryFails /\ state = "PLAYING" THEN {cmdQ, AddOnce(cmdQ, "MORE_RAM")} ELSE {cmdQ}
    /\ cpc' = "take"
    /\ UNCHANGED notifQ

(* No image and little sound while playing.                                *)
ConvertEmpty ==
    /\ Turn
    /\ seen = 0
    /\ state = "PLAYING" /\ ~eof
    /\ cpc' = "empty"
    /\ UNCHANGED <<cmdQ, notifQ, images>>

(* Buffering, with enough images or a full speaker.                        *)
ConvertFull ==
    /\ Turn
    /\ state = "BUFFERING"
    /\ cpc' = "full"
    /\ UNCHANGED <<cmdQ, notifQ, images>>

(* Enough sound, no free texture, paused, or still buffering.              *)
ConvertNothing ==
    /\ Turn
    /\ state = "SEEKING" => seen = 0
    /\ state = "BUFFERING" => seen < Threshold
    /\ cpc' = "take"
    /\ UNCHANGED <<cmdQ, notifQ, images>>

ConvertTellEmpty ==
    /\ cpc = "empty"
    /\ notifQ' = AddOnce(notifQ, "OUT_OF_BUFFER")
    /\ cpc' = "take"
    /\ UNCHANGED <<cmdQ, convertQ, images, shouldConvert, seen, notConvertVars>>

ConvertTellFull ==
    /\ cpc = "full"
    /\ Cardinality({i \in 1 .. Len(notifQ) : notifQ[i].id = "FINISHED_BUFFERING"}) < MaxDup
    /\ notifQ' = Add(notifQ, "FINISHED_BUFFERING")
    /\ cpc' = "take"
    /\ UNCHANGED <<cmdQ, convertQ, images, shouldConvert, seen, notConvertVars>>

ConvertThread ==
    \/ ConvertTake \/ ConvertIdle \/ ConvertClear \/ ConvertLook
    \/ ConvertImage \/ ConvertEmpty \/ ConvertFull \/ ConvertNothing
    \/ ConvertTellEmpty \/ ConvertTellFull

-----------------------------------------------------------------------------
Next == User \/ HomeWaited \/ DecodeThread \/ ReadThread \/ VideoThread \/ ConvertThread

Spec == Init /\ [][Next]_vars

(* The system schedules every thread again and again. The user need not do *)
(* anything.                                                               *)
Fairness ==
    /\ WF_vars(DecodeThread)
    /\ WF_vars(ReadThread)
    /\ WF_vars(VideoThread)
    /\ WF_vars(ConvertThread)
    /\ WF_vars(HomeWaited)

FairSpec == Spec /\ Fairness

-----------------------------------------------------------------------------
Item1(ids) == [id : ids, data : {"none"}]

Commands == RequestKinds \cup {"PLAY_NEXT", "MORE_RAM"}
Notifications ==
    {"FINISHED_READING", "EOF", "FINISHED_SEEKING", "READ_ABORTED", "FINISHED_COPYING",
     "VIDEO_ABORTED", "OUT_OF_BUFFER", "FINISHED_BUFFERING", "FINISHED_CLEARING", "CONVERT_ABORTED"}
Aborting == {"abortRead", "abortConvert", "abortVideo", "close"}

TypeOK ==
    /\ state \in NoFile \cup Decoding \cup {"PREPARE_SEEKING"}
    /\ {resumeLater, eof, run, active, waiting, ready, cached, shouldConvert, mustResume} \subseteq BOOLEAN
    /\ {wants, late} \subseteq BOOLEAN /\ setting \in Settings
    /\ dpc \in {"command", "open", "notification", "step", "exited"} \cup Aborting
    /\ event \in Ends \cup {"NONE"}
    /\ cmdQ \in Seq(Item1(Commands))
    /\ notifQ \in Seq(Item1(Notifications))
    /\ readQ \in Seq(Item1({"READ", "SEEK", "ABORT"}))
    /\ videoQ \in Seq(Item1({"DECODE", "CLEAR", "ABORT"}))
    /\ convertQ \in Seq(Item1({"CONVERT", "CLEAR", "ABORT"}))
    /\ left \in 0 .. FileLen
    /\ packets \in 0 .. MaxPackets - 1
    /\ images \in 0 .. MaxImages - 1 /\ seen \in 0 .. MaxImages - 1
    /\ rpc \in {"take", "read", "check", "seek"}
    /\ vpc \in {"take", "copy", "skip", "decode", "check", "flush"}
    /\ cpc \in {"take", "clear", "look", "turn", "empty", "full"}
    /\ budget \in [RequestKinds -> Nat]
    /\ home \in {"none", "waiting", "asked", "menu", "keyboard"}

Ending == dpc \in Aborting

(* The playback state always tells what the user asked for last: a file    *)
(* that plays is one the user wants to play, a paused one is not, and      *)
(* while the player buffers or seeks it remembers which of the two comes   *)
(* next, however many seeks, buffer underruns and pauses overlap.          *)
IntentKept ==
    /\ state = "PLAYING" => wants
    /\ state = "PAUSE" => ~wants
    /\ state \in {"BUFFERING", "PREPARE_SEEKING", "SEEKING"} => resumeLater = wants

(* is_read_packet_thread_active is never left set with nobody to clear it: *)
(* the reader has the request, is at work, or its answer is on the way.    *)
(* Otherwise no packet would ever be asked for again.                      *)
ReaderAnswers ==
    active /\ FileOpen /\ ~Ending =>
        \/ HasEvent(readQ, "READ")
        \/ rpc \in {"read", "check"}
        \/ HasEvent(notifQ, "FINISHED_READING") \/ HasEvent(notifQ, "EOF")

(* is_waiting_video_decoder likewise: the decode thread only waits for an  *)
(* answer that the video decoder is going to give.                         *)
DecoderAnswers ==
    waiting /\ FileOpen /\ ~Ending =>
        \/ HasEvent(videoQ, "DECODE")
        \/ vpc = "copy"
        \/ HasEvent(notifQ, "FINISHED_COPYING")

(* A request to clear the images that the video decoder is handling when   *)
(* an abort overtakes it outlives its session (see the README, "late       *)
(* clear"): the FINISHED_CLEARING it leads to is taken for an answer to a  *)
(* seek of the next file. What is said of ~late is about the sessions that *)
(* began with nothing of the kind.                                         *)

(* At most three requests wait for a worker: what it was doing, a seek or  *)
(* a clear of a cache, and an abort. The queues have room for 200, so that *)
(* no add runs into its timeout of 100 ms and loses a request of which the *)
(* decode thread has already noted that it waits for the answer.           *)
WorkersKeepUp == ~late => \A q \in {readQ, videoQ, convertQ} : Len(q) <= 3

(* No queue is ever full.                                                  *)
Roomy == \A q \in {notifQ, readQ, videoQ, convertQ} : Len(q) < QueueSize

(* What the decode thread waits for comes; queues and rings hold no more   *)
(* than they are made for.                                                 *)
WorkersAnswer == TypeOK /\ ReaderAnswers /\ DecoderAnswers /\ WorkersKeepUp /\ Roomy

(* Util_decoder_parse_packet puts every video packet in the same slot and  *)
(* does not look whether it is in use; only is_waiting_video_decoder keeps *)
(* the decode thread from it, through seeks, aborts and dropped frames. No *)
(* packet that the video decoder has still to copy is overwritten. One     *)
(* whose copy has failed may be: the decode thread is told to go on        *)
(* (video_player.c:6056) before the slot is skipped (6164).                *)
PacketNotOverwritten == [][StepParse("video") /\ cached => vpc = "skip"]_vars

(* A seek goes from the reader through the video decoder and the convert   *)
(* thread back to the decode thread; these are the places it can be.       *)
SeekPlaces ==
    {p \in {<<"reader", HasEvent(readQ, "SEEK") \/ rpc = "seek">>,
            <<"read", HasEvent(notifQ, "FINISHED_SEEKING")>>,
            <<"decoder", HasEvent(videoQ, "CLEAR") \/ vpc = "flush">>,
            <<"converter", HasEvent(convertQ, "CLEAR") \/ cpc = "clear">>,
            <<"cleared", HasEvent(notifQ, "FINISHED_CLEARING")>>} : p[2]}

(* While the player prepares a seek somebody has it, whatever sessions     *)
(* were aborted before. There is one seek at a time, and it is in one      *)
(* place while it is prepared and nowhere afterwards, so that no answer to *)
(* an earlier seek can end a later one.                                    *)
OneSeek ==
    FileOpen /\ ~Ending =>
        /\ state = "PREPARE_SEEKING" => SeekPlaces # {}
        /\ ~late => Cardinality(SeekPlaces) = IF state = "PREPARE_SEEKING" THEN 1 ELSE 0

(* The caches are cleared without a lock (Util_decoder_clear_cache_packet, *)
(* Util_decoder_video_clear_raw_image): while the reader clears the        *)
(* packets the decode thread takes none, and while the convert thread      *)
(* clears the images the video decoder makes none.                         *)
CachesClearedAlone ==
    ~late /\ ~Ending =>
        /\ rpc = "seek" => state \notin Decoding
        /\ cpc = "clear" => vpc = "take" /\ videoQ = <<>>

(* "buffering is finished" is about the images of this position: none that *)
(* was sent before a seek is left when the player decodes towards the new  *)
(* position, where it would end the next buffering before it began.        *)
BufferingIsFresh ==
    ~late /\ state = "SEEKING" => ~HasEvent(notifQ, "FINISHED_BUFFERING") /\ cpc # "full"

(* The abort leaves the reader and the video decoder at rest when the file *)
(* is closed under them, and no answer of theirs that the decode thread    *)
(* could take for one about the next file.                                 *)
SessionsDontMix ==
    dpc = "close" \/ (dpc = "command" /\ ~FileOpen) =>
        /\ readQ = <<>> /\ videoQ = <<>>
        /\ rpc = "take" /\ vpc = "take"
        /\ \A i \in 1 .. Len(notifQ) : notifQ[i].id = "FINISHED_CLEARING"

-----------------------------------------------------------------------------
(* An abort, a change of file or an exit ends, whatever the workers were   *)
(* doing when it began.                                                    *)
AbortCompletes == Ending ~> ~Ending

(* A seek leaves its first phase.                                          *)
SeekCompletes == state = "PREPARE_SEEKING" ~> state # "PREPARE_SEEKING"

(* Buffering does not go on for ever: there are images, the speaker is     *)
(* full or the file is at its end.                                         *)
BufferingEnds == state = "BUFFERING" ~> state # "BUFFERING"

(* Vid_exit_thread's joins return: after a shutdown request every thread   *)
(* leaves its loop.                                                        *)
ShutdownCompletes ==
    HasEvent(cmdQ, "SHUTDOWN") ~> /\ dpc = "exited" /\ ~run
                                  /\ rpc = "take" /\ vpc = "take" /\ cpc = "take"

-----------------------------------------------------------------------------
(* Where there are no packets and is_eof is set, the decode thread says    *)
(* "We consumed all of packets." and waits for the end of the playback:    *)
(* the reader has nothing left to read.                                    *)
AllConsumed == dpc = "step" /\ state \in Decoding /\ NoMorePackets => left = 0

(* "Flush the decoder.": after the flush of a seek the decoder holds no    *)
(* packet that no step is going to decode.                                 *)
DecoderFlushed == state = "SEEKING" /\ vpc = "take" => ~ready
=============================================================================
