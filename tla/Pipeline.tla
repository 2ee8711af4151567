------------------------------ MODULE Pipeline ------------------------------
(***************************************************************************)
(* The way of the pictures of a video from the file to the screen, decoded *)
(* in software: the packet cache, the one packet on its way to the video   *)
(* thread, the one in the decoder, the ring of raw images (Ring), the      *)
(* image under conversion and the ring of textures. Five threads of        *)
(* src/source/video_player.c pass them on; a seek goes from one thread to  *)
(* the next and throws away what each of them caches. Player has the       *)
(* commands and the states; here only what they mean for the pictures is   *)
(* left.                                                                   *)
(***************************************************************************)
EXTENDS Ring

CONSTANTS
    PacketSlots,    \* DEF_DECODER_MAX_CACHE_PACKETS
    VideoBuffers,   \* VIDEO_BUFFERS: textures
    FileLen,        \* pictures in the file from wherever it was sought to
    MaxSeeks,       \* bound: seeks
    MaxHeld         \* pictures that the codec keeps

Pictures == [seek : 0 .. MaxSeeks, number : 1 .. FileLen]

ASSUME PipelineAssumption ==
    /\ Items = Pictures
    /\ PacketSlots \in Nat \ {0, 1} /\ VideoBuffers \in Nat \ {0, 1}
    /\ FileLen \in Nat /\ MaxSeeks \in Nat /\ MaxHeld \in Nat \ {0}

VARIABLES
    state,      \* vid_player.state: "still" is PAUSE or BUFFERING
    baton,      \* the thread that a seek has reached
    seeks, next,    \* where the file is read
    packets,    \* util_decoder_cache_packet, from the oldest
    cached,     \* util_video_decoder_cache_packet: the packet for the video thread
    asked,      \* a DECODE_REQUEST waits for it
    waiting,    \* is_waiting_video_decoder
    current,    \* util_video_decoder_packet: the packet in the decoder
    held,       \* what the codec keeps
    vpc,        \* where the video thread is
    frame,      \* the image that is converted (yuv_video)
    cpc,        \* where the convert thread is
    texture,    \* vid_player.large_image
    store, draw \* vid_player.next_store_index, next_draw_index

readVars == <<seeks, next, packets>>
videoVars == <<current, held, vpc>>
convertVars == <<frame, cpc, texture, store>>
vars == <<ringVars, state, baton, readVars, cached, asked, waiting, videoVars, convertVars, draw>>

Packets == INSTANCE Fifo WITH content <- packets, Capacity <- PacketSlots - 1

Textures == 0 .. VideoBuffers - 1
NextTexture(i) == IF i + 1 < VideoBuffers THEN i + 1 ELSE 0

Init ==
    /\ RingInit
    /\ state = "playing" /\ baton = "none"
    /\ seeks = 0 /\ next = 1 /\ packets = <<>>
    /\ cached = Free /\ asked = FALSE /\ waiting = FALSE
    /\ current = Free /\ held = <<>> /\ vpc = "take"
    /\ frame = Free /\ cpc = "take"
    /\ texture = [i \in Textures |-> Free] /\ store = 0 /\ draw = 0

-----------------------------------------------------------------------------
(* Vid_read_packet_thread. The packet cache is a ring of its own, with one *)
(* thread at each end: a first-in first-out buffer, as RingProofs shows.   *)
ReadPacket ==
    /\ next <= FileLen
    /\ Packets!Put([seek |-> seeks, number |-> next])
    /\ next' = next + 1
    /\ UNCHANGED <<ringVars, state, baton, seeks, cached, asked, waiting, videoVars, convertVars, draw>>

(* READ_PACKET_THREAD_SEEK_REQUEST. The decode thread hands the seek on.   *)
Reseek ==
    /\ baton = "reader"
    /\ seeks' = seeks + 1 /\ next' = 1
    /\ Packets!Empty
    /\ baton' = "video"
    /\ UNCHANGED <<ringVars, state, cached, asked, waiting, videoVars, convertVars, draw>>

-----------------------------------------------------------------------------
(* Vid_decode_thread.                                                      *)
StartSeek ==
    /\ state # "prepare" /\ seeks < MaxSeeks
    /\ state' = "prepare" /\ baton' = "reader"
    /\ UNCHANGED <<ringVars, readVars, cached, asked, waiting, videoVars, convertVars, draw>>

(* The end of a seek, buffering, pause and resume.                         *)
ChangeState ==
    /\ \/ state = "playing" /\ state' = "still"
       \/ state = "still" /\ state' = "playing"
       \/ state = "seeking" /\ state' = "still"
    /\ UNCHANGED <<ringVars, baton, readVars, cached, asked, waiting, videoVars, convertVars, draw>>

(* A packet goes into the slot of the video thread, which is asked to      *)
(* decode it. The decode thread waits for the copy, and for room.          *)
Parse ==
    /\ state # "prepare"
    /\ ~waiting /\ ~Full
    /\ packets # <<>> /\ Packets!Get
    /\ cached' = Head(packets)
    /\ asked' = TRUE /\ waiting' = TRUE
    /\ UNCHANGED <<ringVars, state, baton, seeks, next, videoVars, convertVars, draw>>

-----------------------------------------------------------------------------
(* Vid_decode_video_thread.                                                *)
notVideo == <<state, readVars, convertVars, draw>>

(* Too late: the frame is skipped. The packet is freed, then the decode    *)
(* thread notified.                                                        *)
SkipPacket ==
    /\ vpc = "take" /\ asked
    /\ asked' = FALSE /\ cached' = Free /\ waiting' = FALSE
    /\ UNCHANGED <<ringVars, baton, videoVars, notVideo>>

(* Mutant: the packet that was copied is still taken for a new one.        *)
CopyKeeps ==
    /\ vpc = "take" /\ asked /\ asked' = FALSE
    /\ cached \in Items /\ current = Free
    /\ current' = cached
    /\ waiting' = FALSE
    /\ vpc' = "decode"
    /\ UNCHANGED <<ringVars, baton, cached, held, notVideo>>

(* Util_decoder_ready_video_packet, then the notification.                 *)
CopyPacket ==
    /\ vpc = "take" /\ asked /\ asked' = FALSE
    /\ cached \in Items /\ current = Free
    /\ current' = cached /\ cached' = Free
    /\ waiting' = FALSE
    /\ vpc' = "decode"
    /\ UNCHANGED <<ringVars, baton, held, notVideo>>

(* Mutant: the decode thread hears of success only.                        *)
CopyFailsSilent ==
    /\ vpc = "take" /\ asked /\ asked' = FALSE
    /\ vpc' = "skip"
    /\ UNCHANGED <<ringVars, baton, waiting, cached, current, held, notVideo>>

(* The decoder still has a packet, there is none to copy, or no memory:    *)
(* the decode thread is notified, and then the packet is freed.            *)
CopyFails ==
    /\ vpc = "take" /\ asked /\ asked' = FALSE
    /\ waiting' = FALSE
    /\ vpc' = "skip"
    /\ UNCHANGED <<ringVars, baton, cached, current, held, notVideo>>

SkipFailed ==
    /\ vpc = "skip" /\ vpc' = "take"
    /\ cached' = Free
    /\ UNCHANGED <<ringVars, baton, asked, waiting, current, held, notVideo>>

(* DECODE_VIDEO_THREAD_CLEAR_CACHE_REQUEST, after the requests before it.  *)
StartFlush ==
    /\ vpc = "take" /\ baton = "video" /\ ~asked
    /\ vpc' = "flush"
    /\ UNCHANGED <<ringVars, baton, cached, asked, waiting, current, held, notVideo>>

(* Util_decoder_video_decode has returned. A flush goes on; otherwise the  *)
(* packet is done with, or a request is looked for before the next call.   *)
Returned ==
    vpc' = IF vpc = "flush" THEN "flush" ELSE IF current' = Free THEN "take" ELSE "check"

DecodeFull ==
    /\ vpc = "decode" /\ producer = "idle" /\ Full
    /\ UNCHANGED current /\ Returned
    /\ UNCHANGED <<ringVars, baton, cached, asked, waiting, held, notVideo>>

DecodeStart ==
    /\ vpc \in {"decode", "flush"} /\ current # Free
    /\ Look
    /\ UNCHANGED <<baton, cached, asked, waiting, videoVars, notVideo>>

DecodeAlloc ==
    /\ Alloc
    /\ UNCHANGED <<baton, cached, asked, waiting, videoVars, notVideo>>

(* No memory or a broken packet, which is dropped.                         *)
DecodeError ==
    /\ GiveUp
    /\ current' = Free /\ Returned
    /\ UNCHANGED <<baton, cached, asked, waiting, held, notVideo>>

(* avcodec_send_packet: the codec refuses the packet (EAGAIN) while it is  *)
(* full.                                                                   *)
Sent == Len(held) < MaxHeld
AfterSend == IF Sent THEN Append(held, current) ELSE held
Left == IF Sent THEN Free ELSE current

(* avcodec_receive_frame gives the oldest picture.                         *)
DecodeOutput ==
    /\ Fill(Head(AfterSend))
    /\ held' = Tail(AfterSend)
    /\ current' = Left
    /\ UNCHANGED <<baton, cached, asked, waiting, vpc, notVideo>>

(* Nothing comes out yet.                                                  *)
DecodeNoOutput ==
    /\ producer = "fill" /\ GiveUp
    /\ held' = AfterSend
    /\ current' = Left /\ Returned
    /\ UNCHANGED <<baton, cached, asked, waiting, notVideo>>

DecodeAdvance ==
    /\ Advance
    /\ UNCHANGED <<baton, cached, asked, waiting, videoVars, notVideo>>

DecodeCount ==
    /\ Count
    /\ UNCHANGED current /\ Returned
    /\ UNCHANGED <<baton, cached, asked, waiting, held, notVideo>>

(* A seek ends the attempts with a packet, which stays in the decoder.     *)
Check ==
    /\ vpc = "check"
    /\ vpc' = IF baton = "video" THEN "take" ELSE "decode"
    /\ UNCHANGED <<ringVars, baton, cached, asked, waiting, current, held, notVideo>>

(* Mutant: the video thread clears the images itself.                      *)
EndFlushClears ==
    /\ vpc = "flush" /\ producer = "idle"
    /\ Full \/ current = Free
    /\ vpc' = "take"
    /\ Wipe
    /\ baton' = "none" /\ state' = "seeking"
    /\ UNCHANGED <<cached, asked, waiting, current, held, readVars, convertVars, draw>>

(* Nothing more to flush, or no room for it: the convert thread is next.   *)
EndFlush ==
    /\ vpc = "flush" /\ producer = "idle"
    /\ Full \/ current = Free
    /\ vpc' = "take"
    /\ baton' = "convert"
    /\ UNCHANGED <<ringVars, cached, asked, waiting, current, held, notVideo>>

DecodeCall ==
    \/ DecodeFull \/ DecodeStart \/ DecodeAlloc \/ DecodeError \/ DecodeOutput
    \/ DecodeNoOutput \/ DecodeAdvance \/ DecodeCount

VideoStep ==
    \/ SkipPacket \/ CopyPacket \/ CopyFails \/ SkipFailed
    \/ DecodeCall \/ Check
    \/ StartFlush \/ EndFlush

-----------------------------------------------------------------------------
(* Vid_convert_thread.                                                     *)
notConvert == <<readVars, cached, asked, waiting, videoVars, draw>>

(* The textures that were stored and not drawn yet (mutant: the texture on *)
(* the screen is counted as free).                                         *)
BufferHealth == IF draw <= store THEN store - draw ELSE VideoBuffers - draw + store
TexturesFullLate == BufferHealth >= VideoBuffers
TexturesFull == BufferHealth + 1 >= VideoBuffers

(* Util_decoder_video_get_image.                                           *)
GetImage ==
    /\ cpc = "take" /\ state = "playing" /\ ~TexturesFull
    /\ See
    /\ cpc' = "get"
    /\ UNCHANGED <<state, baton, frame, texture, store, notConvert>>

(* Util_decoder_video_skip_image: while seeking or late, or, after         *)
(* GetImage, as there is no memory.                                        *)
SkipImage ==
    /\ cpc \in {"take", "short"} /\ (cpc = "take" => state \in {"playing", "seeking"})
    /\ See
    /\ cpc' = "skip"
    /\ UNCHANGED <<state, baton, frame, texture, store, notConvert>>

GetFails ==
    /\ cpc = "get" /\ Leave
    /\ cpc' = "short"
    /\ UNCHANGED <<state, baton, frame, texture, store, notConvert>>

(* The image is copied, then freed.                                        *)
ReleaseImage ==
    /\ Release
    /\ frame' = IF cpc = "get" THEN slot[out] ELSE frame
    /\ UNCHANGED <<state, baton, cpc, texture, store, notConvert>>

MoveImage == Move /\ UNCHANGED <<state, baton, convertVars, notConvert>>

UncountImage ==
    /\ Uncount
    /\ cpc' = IF cpc = "get" THEN "convert" ELSE "take"
    /\ UNCHANGED <<state, baton, frame, texture, store, notConvert>>

(* Draw_large_texture_set_data is writing.                                 *)
WriteTexture ==
    /\ cpc = "convert" /\ cpc' = "write"
    /\ texture' = [texture EXCEPT ![store] = Blank]
    /\ UNCHANGED <<ringVars, state, baton, frame, store, notConvert>>

StoreTexture ==
    /\ cpc = "write" /\ cpc' = "take"
    /\ texture' = [texture EXCEPT ![store] = frame]
    /\ store' = NextTexture(store)
    /\ frame' = Free
    /\ UNCHANGED <<ringVars, state, baton, notConvert>>

(* The conversion or the texture fails: the picture is dropped.            *)
DropFrame ==
    /\ cpc \in {"convert", "write"} /\ cpc' = "take"
    /\ frame' = Free
    /\ UNCHANGED <<ringVars, state, baton, texture, store, notConvert>>

(* CONVERT_THREAD_CLEAR_CACHE_REQUEST; the decode thread then begins to    *)
(* look for the position.                                                  *)
ClearImages ==
    /\ cpc = "take" /\ baton = "convert"
    /\ Wipe
    /\ baton' = "none" /\ state' = "seeking"
    /\ UNCHANGED <<convertVars, notConvert>>

ConvertStep ==
    \/ GetImage \/ SkipImage \/ GetFails \/ ReleaseImage \/ MoveImage \/ UncountImage
    \/ WriteTexture \/ StoreTexture \/ DropFrame
    \/ ClearImages

-----------------------------------------------------------------------------
(* Vid_main: the next texture is due; otherwise the previous one is drawn. *)
DrawNext ==
    /\ state = "playing" /\ BufferHealth > 0
    /\ draw' = NextTexture(draw)
    /\ UNCHANGED <<ringVars, state, baton, readVars, cached, asked, waiting, videoVars, convertVars>>

OnScreen == IF draw > 0 THEN draw - 1 ELSE VideoBuffers - 1

-----------------------------------------------------------------------------
Next ==
    \/ ReadPacket \/ Reseek
    \/ StartSeek \/ ChangeState \/ Parse
    \/ VideoStep \/ ConvertStep \/ DrawNext

Spec == Init /\ [][Next]_vars

(* Every thread goes on. The codec and the converter do not refuse for     *)
(* ever what is given to them again and again.                             *)
FairSpec ==
    /\ Spec
    /\ WF_vars(ReadPacket) /\ WF_vars(Reseek) /\ WF_vars(Parse)
    /\ WF_vars(VideoStep) /\ SF_vars(DecodeOutput)
    /\ WF_vars(ConvertStep) /\ WF_vars(DrawNext)

-----------------------------------------------------------------------------
(* Properties.                                                             *)
OneOrNone == Items \cup {Free}

PipelineTypeOK ==
    /\ RingTypeOK
    /\ state \in {"playing", "still", "prepare", "seeking"}
    /\ baton \in {"none", "reader", "video", "convert"}
    /\ seeks \in 0 .. MaxSeeks /\ next \in 1 .. FileLen + 1
    /\ packets \in Seq(Items) /\ Len(packets) < PacketSlots
    /\ cached \in OneOrNone /\ current \in OneOrNone /\ frame \in OneOrNone
    /\ held \in Seq(Items) /\ Len(held) <= MaxHeld
    /\ asked \in BOOLEAN /\ waiting \in BOOLEAN
    /\ vpc \in {"take", "decode", "check", "skip", "flush"}
    /\ cpc \in {"take", "get", "short", "skip", "convert", "write"}
    /\ texture \in [Textures -> Items \cup {Free, Blank}]
    /\ store \in Textures /\ draw \in Textures

(* No thread is deceived by a count or finds a slot that is not what it    *)
(* takes it for, in none of the buffers.                                   *)
SlotsAreSafe == PipelineTypeOK /\ CountIsSafe /\ SlotsRight

(* The texture on the screen and those that are due are whole: the convert *)
(* thread writes to none of them (the test at video_player.c:6518 leaves   *)
(* one texture for the screen, that at 1782 finds it again).               *)
NoTornTexture ==
    /\ cpc = "write" => store # OnScreen
    /\ texture[OnScreen] # Blank
    /\ \A i \in Textures :
           (IF draw <= i THEN i - draw ELSE VideoBuffers - draw + i) < BufferHealth =>
               texture[i] \in Items

(* All the pictures there are, from the screen back to the file.           *)
Optional(x) == IF x \in Items THEN <<x>> ELSE <<>>
Due == [k \in 1 .. BufferHealth |->
            texture[IF draw + k - 1 < VideoBuffers THEN draw + k - 1
                    ELSE draw + k - 1 - VideoBuffers]]
Line ==
    Optional(texture[OnScreen]) \o Due \o Optional(frame) \o Contents
        \o (IF producer = "advance" THEN <<slot[in]>> ELSE <<>>)
        \o held \o Optional(current) \o Optional(cached) \o packets

Before(a, b) == a.seek < b.seek \/ (a.seek = b.seek /\ a.number < b.number)

(* No picture overtakes another, is duplicated, or comes back from before  *)
(* a seek: what five threads hold between them stays in the order of the   *)
(* file, and those read before the last seek come before those read after. *)
InOrder == \A i, j \in DOMAIN Line : i < j => Before(Line[i], Line[j])

(* Nobody is inside the ring of images when it is cleared, and nothing is  *)
(* done to it but what Ring allows.                                        *)
RingRespected == RingSpec

(* While the player plays on, nothing gets stuck between full rings: what  *)
(* was read is shown or dropped.                                           *)
Flows ==
    <>[](state = "playing") =>
        <>[](packets = <<>> /\ cached = Free /\ Contents = <<>> /\ frame = Free /\ BufferHealth = 0)
=============================================================================
