--------------------------- MODULE PipelineProofs ---------------------------
(***************************************************************************)
(* Theorems about Pipeline, for any sizes of its buffers, any file and any *)
(* number of seeks: nobody is inside the ring of images when it is         *)
(* cleared, so that it is the Ring of RingProofs; the convert thread never *)
(* writes to a texture that is or will be drawn; and from the screen back  *)
(* to the file the pictures are in order.                                  *)
(***************************************************************************)
EXTENDS Pipeline, RingProofs

(* Which thread is inside the ring, and what it has there.                 *)
ThreadsInv ==
    /\ producer # "idle" => vpc \in {"decode", "flush"}
    /\ producer \in {"alloc", "fill"} => current # Free
    /\ consumer # "idle" => cpc \in {"get", "skip"}
    /\ consumer \in {"advance", "count"} /\ cpc = "get" => frame \in Items
    /\ cpc \in {"convert", "write"} => frame \in Items

(* A seek keeps the decode thread away, and the video thread once the      *)
(* convert thread has it.                                                  *)
SeekInv ==
    /\ baton # "none" => state = "prepare"
    /\ baton = "reader" => seeks < MaxSeeks
    /\ vpc = "flush" => baton = "video"
    /\ vpc = "flush" \/ baton = "convert" => ~asked
    /\ baton = "convert" => vpc = "take"

(* The place of a texture, counted from the next one to be drawn.          *)
Ahead(i) == IF draw <= i THEN i - draw ELSE VideoBuffers - draw + i

TextureInv ==
    /\ \A i \in Textures :
           /\ texture[i] = Blank => i = store /\ ~TexturesFull
           /\ Ahead(i) < BufferHealth => texture[i] \in Items
    /\ cpc \in {"get", "convert", "write"} => ~TexturesFull

PipelineInv == PipelineTypeOK /\ RingInv /\ ThreadsInv /\ SeekInv

USE PipelineAssumption, RingAssumption

LEMMA PipelineInit == Init => PipelineInv /\ TextureInv
<1> SUFFICES ASSUME Init PROVE PipelineInv /\ TextureInv
  OBVIOUS
<1>1. RingInv
  BY InitRing DEF Init
<1>2. PipelineTypeOK
  BY <1>1 DEF Init, RingInv, PipelineTypeOK, OneOrNone, Textures
<1>3. ThreadsInv /\ SeekInv
  BY DEF Init, RingInit, ThreadsInv, SeekInv
<1>4. TextureInv
  BY DEF Init, TextureInv, Ahead, BufferHealth, TexturesFull, Textures
<1> QED
  BY <1>1, <1>2, <1>3, <1>4 DEF PipelineInv

(* Each step is one of the ring or leaves it alone.                        *)
LEMMA RingStep ==
    ASSUME PipelineInv, [Next]_vars
    PROVE  [RingNext]_ringVars /\ RingInv'
<1> SUFFICES [RingNext]_ringVars
  BY NextRing DEF PipelineInv
<1>0. PipelineTypeOK /\ RingInv /\ ThreadsInv /\ SeekInv
  BY DEF PipelineInv
<1>1. CASE UNCHANGED vars
  BY <1>1 DEF vars
<1>2. CASE ReadPacket \/ Reseek \/ StartSeek \/ ChangeState \/ Parse \/ DrawNext
  BY <1>2 DEF ReadPacket, Reseek, StartSeek, ChangeState, Parse, DrawNext
<1>3. CASE VideoStep
  <2>1. CASE SkipPacket \/ CopyPacket \/ CopyFails \/ SkipFailed \/ DecodeFull \/ Check
             \/ StartFlush \/ EndFlush
    BY <2>1 DEF SkipPacket, CopyPacket, CopyFails, SkipFailed, DecodeFull, Check, StartFlush,
                EndFlush
  <2>2. CASE DecodeStart \/ DecodeAlloc \/ DecodeError \/ DecodeNoOutput \/ DecodeAdvance
             \/ DecodeCount
    BY <2>2 DEF DecodeStart, DecodeAlloc, DecodeError, DecodeNoOutput, DecodeAdvance,
                DecodeCount, RingNext
  <2>3. CASE DecodeOutput
    <3>1. Head(AfterSend) \in Items
      <4>1. current \in Items /\ held \in Seq(Items)
        BY <1>0, <2>3 DEF ThreadsInv, PipelineTypeOK, OneOrNone, DecodeOutput, Fill
      <4>2. AfterSend \in Seq(Items) /\ AfterSend # <<>>
        BY <4>1 DEF AfterSend, Sent
      <4> QED
        BY <4>2
    <3> QED
      BY <2>3, <3>1 DEF DecodeOutput, RingNext
  <2> QED
    BY <1>3, <2>1, <2>2, <2>3 DEF VideoStep, DecodeCall
<1>4. CASE ConvertStep
  <2>1. CASE GetImage \/ SkipImage \/ GetFails \/ ReleaseImage \/ MoveImage \/ UncountImage
    BY <2>1 DEF GetImage, SkipImage, GetFails, ReleaseImage, MoveImage, UncountImage, RingNext
  <2>2. CASE WriteTexture \/ StoreTexture \/ DropFrame
    BY <2>2 DEF WriteTexture, StoreTexture, DropFrame
  <2>3. CASE ClearImages
    <3>1. producer = "idle" /\ consumer = "idle"
      BY <1>0, <2>3 DEF ThreadsInv, SeekInv, ClearImages, PipelineTypeOK, RingTypeOK
    <3> QED
      BY <2>3, <3>1 DEF ClearImages, Clear, RingNext
  <2> QED
    BY <1>4, <2>1, <2>2, <2>3 DEF ConvertStep
<1> QED
  BY <1>1, <1>2, <1>3, <1>4 DEF Next

(* What each thread keeps.                                                 *)
LEMMA ThreadsKept ==
    ASSUME PipelineInv, [Next]_vars
    PROVE  ThreadsInv' /\ SeekInv'
<1>0. PipelineTypeOK /\ RingInv /\ ThreadsInv /\ SeekInv
  BY DEF PipelineInv
<1> USE DEF ThreadsInv, SeekInv
<1>1. CASE UNCHANGED vars
  BY <1>0, <1>1 DEF vars, ringVars, readVars, videoVars, convertVars
<1>2. CASE ReadPacket \/ Reseek \/ StartSeek \/ ChangeState \/ Parse \/ DrawNext
  <2> USE DEF ringVars, readVars, videoVars, convertVars
  <2>1. CASE ReadPacket \/ StartSeek \/ ChangeState \/ DrawNext
    BY <1>0, <2>1 DEF ReadPacket, StartSeek, ChangeState, DrawNext
  <2>2. CASE Reseek
    BY <1>0, <2>2 DEF Reseek
  <2>3. CASE Parse
    BY <1>0, <2>3 DEF Parse
  <2> QED
    BY <1>2, <2>1, <2>2, <2>3
<1>3. CASE VideoStep
  <2> USE DEF notVideo, readVars, convertVars, videoVars, ringVars
  <2>1. CASE SkipPacket \/ CopyPacket \/ CopyFails \/ SkipFailed
    BY <1>0, <2>1 DEF SkipPacket, CopyPacket, CopyFails, SkipFailed
  <2>2. CASE Check \/ StartFlush \/ EndFlush
    BY <1>0, <2>2 DEF Check, StartFlush, EndFlush
  <2>3. CASE DecodeFull \/ DecodeStart \/ DecodeAlloc \/ DecodeAdvance \/ DecodeCount
    BY <1>0, <2>3 DEF DecodeFull, DecodeStart, DecodeAlloc, DecodeAdvance, DecodeCount, Returned,
         Look, Alloc, Advance, Count
  <2>4. CASE DecodeError \/ DecodeOutput \/ DecodeNoOutput
    BY <1>0, <2>4 DEF DecodeError, DecodeOutput, DecodeNoOutput, Returned, Fill, GiveUp
  <2> QED
    BY <1>3, <2>1, <2>2, <2>3, <2>4 DEF VideoStep, DecodeCall
<1>4. CASE ConvertStep
  <2> USE DEF notConvert, readVars, videoVars, convertVars, ringVars
  <2>1. CASE GetImage \/ SkipImage \/ GetFails \/ MoveImage \/ UncountImage
    BY <1>0, <2>1 DEF GetImage, SkipImage, GetFails, MoveImage, UncountImage, See, Leave, Move,
         Uncount
  <2>2. CASE ReleaseImage
    <3>1. slot[out] \in Items
      BY <1>0, <2>2, Places DEF RingInv, RingTypeOK, CountIsSafe, SlotsRight, ReleaseImage, Release
    <3> QED
      BY <1>0, <2>2, <3>1 DEF ReleaseImage, Release
  <2>3. CASE WriteTexture \/ StoreTexture \/ DropFrame \/ ClearImages
    BY <1>0, <2>3 DEF WriteTexture, StoreTexture, DropFrame, ClearImages, Wipe
  <2> QED
    BY <1>4, <2>1, <2>2, <2>3 DEF ConvertStep
<1> QED
  BY <1>1, <1>2, <1>3, <1>4 DEF Next

LEMMA TypesKept ==
    ASSUME PipelineInv, [Next]_vars
    PROVE  PipelineTypeOK'
<1>0. PipelineTypeOK /\ RingInv /\ ThreadsInv /\ SeekInv /\ RingTypeOK'
  BY RingStep DEF PipelineInv, RingInv
<1> USE DEF PipelineTypeOK, OneOrNone
<1>1. CASE UNCHANGED vars
  BY <1>0, <1>1 DEF vars, videoVars, convertVars, readVars
<1>2. CASE ReadPacket \/ Reseek
  <2> USE DEF videoVars, convertVars
  <2>1. CASE ReadPacket
    <3>1. [seek |-> seeks, number |-> next] \in Items
      BY <1>0, <2>1 DEF ReadPacket, Pictures
    <3> QED
      BY <1>0, <2>1, <3>1 DEF ReadPacket, Packets!Put
  <2>2. CASE Reseek
    BY <1>0, <2>2 DEF Reseek, Packets!Empty, SeekInv
  <2> QED
    BY <1>2, <2>1, <2>2
<1>3. CASE StartSeek \/ ChangeState \/ Parse \/ DrawNext
  <2> USE DEF videoVars, convertVars
  <2>1. CASE StartSeek \/ ChangeState
    BY <1>0, <2>1 DEF StartSeek, ChangeState, readVars
  <2>2. CASE Parse
    <3>1. Head(packets) \in Items /\ Tail(packets) \in Seq(Items) /\ Len(Tail(packets)) < PacketSlots
      BY <1>0, <2>2 DEF Parse, Packets!Get
    <3> QED
      BY <1>0, <2>2, <3>1 DEF Parse, Packets!Get
  <2>3. CASE DrawNext
    BY <1>0, <2>3 DEF DrawNext, readVars, Textures, NextTexture
  <2> QED
    BY <1>3, <2>1, <2>2, <2>3
<1>4. CASE VideoStep
  <2> USE DEF notVideo, readVars, convertVars
  <2>1. CASE SkipPacket \/ SkipFailed
    BY <1>0, <2>1 DEF SkipPacket, SkipFailed, videoVars
  <2>6. CASE CopyPacket \/ CopyFails
    BY <1>0, <2>6 DEF CopyPacket, CopyFails, videoVars
  <2>4. CASE Check \/ StartFlush \/ EndFlush
    BY <1>0, <2>4 DEF Check, StartFlush, EndFlush, videoVars
  <2>2. CASE DecodeFull \/ DecodeError \/ DecodeCount
    BY <1>0, <2>2 DEF DecodeFull, DecodeError, DecodeCount, Returned, videoVars
  <2>5. CASE DecodeStart \/ DecodeAlloc \/ DecodeAdvance
    BY <1>0, <2>5 DEF DecodeStart, DecodeAlloc, DecodeAdvance, videoVars
  <2>3. CASE DecodeOutput \/ DecodeNoOutput
    <3>1. current \in Items
      BY <1>0, <2>3 DEF DecodeOutput, DecodeNoOutput, Fill, ThreadsInv
    <3>2. AfterSend \in Seq(Items) /\ Len(AfterSend) <= MaxHeld /\ AfterSend # <<>>
      <4>1. CASE Sent
        <5>1. Len(Append(held, current)) = Len(held) + 1 /\ Append(held, current) \in Seq(Items)
          BY <1>0, <3>1
        <5>2. Append(held, current) # <<>> /\ Len(held) \in Nat
          BY <1>0, <3>1
        <5> QED
          BY <1>0, <4>1, <5>1, <5>2 DEF AfterSend, Sent
      <4>2. CASE ~Sent
        <5>1. Len(held) >= MaxHeld /\ held # <<>>
          BY <1>0, <4>2 DEF Sent
        <5> QED
          BY <1>0, <4>2, <5>1 DEF AfterSend
      <4> QED
        BY <4>1, <4>2
    <3>3. Tail(AfterSend) \in Seq(Items) /\ Len(Tail(AfterSend)) <= MaxHeld
      BY <1>0, <3>2
    <3>4. Left \in Items \cup {Free}
      BY <3>1 DEF Left
    <3>5. CASE DecodeOutput
      BY <1>0, <3>5, <3>3, <3>4 DEF DecodeOutput
    <3>6. CASE DecodeNoOutput
      BY <1>0, <3>6, <3>2, <3>4 DEF DecodeNoOutput, Returned
    <3> QED
      BY <2>3, <3>5, <3>6
  <2> QED
    BY <1>4, <2>1, <2>2, <2>3, <2>4, <2>5, <2>6 DEF VideoStep, DecodeCall
<1>5. CASE ConvertStep
  <2> USE DEF notConvert, readVars, videoVars, convertVars, Textures
  <2>1. CASE GetImage \/ SkipImage \/ GetFails \/ MoveImage \/ UncountImage
    BY <1>0, <2>1 DEF GetImage, SkipImage, GetFails, MoveImage, UncountImage
  <2>2. CASE ReleaseImage
    <3>1. slot[out] \in Items
      BY <1>0, <2>2, Places DEF RingInv, RingTypeOK, CountIsSafe, SlotsRight, ReleaseImage, Release
    <3> QED
      BY <1>0, <2>2, <3>1 DEF ReleaseImage
  <2>3. CASE WriteTexture \/ StoreTexture
    <3>1. CASE WriteTexture
      BY <1>0, <3>1 DEF WriteTexture
    <3>2. CASE StoreTexture
      BY <1>0, <3>2 DEF StoreTexture, NextTexture
    <3> QED
      BY <2>3, <3>1, <3>2
  <2>4. CASE DropFrame \/ ClearImages
    BY <1>0, <2>4 DEF DropFrame, ClearImages
  <2> QED
    BY <1>5, <2>1, <2>2, <2>3, <2>4 DEF ConvertStep
<1> QED
  BY <1>1, <1>2, <1>3, <1>4, <1>5 DEF Next

LEMMA PipelineNext == PipelineInv /\ [Next]_vars => PipelineInv'
BY RingStep, ThreadsKept, TypesKept DEF PipelineInv

(* The inductive invariant of the way of a picture.                        *)
THEOREM PipelineInvariant == Spec => []PipelineInv
BY PipelineInit, PipelineNext, PTL DEF Spec

(* The types of the pipeline.                                              *)
THEOREM PipelineTypes == Spec => []PipelineTypeOK
<1>1. PipelineInv => PipelineTypeOK
  BY DEF PipelineInv
<1> QED
  BY <1>1, PipelineInvariant, PTL

(* The convert thread clears the ring of images only while the video       *)
(* thread is not inside: the way a seek goes from thread to thread is the  *)
(* lock that Util_decoder_video_clear_raw_image does not take.             *)
THEOREM CallersRespectRing == Spec => RingRespected
<1>1. Init => RingInit
  BY DEF Init
<1>2. PipelineInv /\ [Next]_vars => [RingNext]_ringVars
  BY RingStep
<1> QED
  BY <1>1, <1>2, PipelineInvariant, PTL DEF Spec, RingRespected, RingSpec

(* Wherever its two threads are, the ring they use is in order.            *)
THEOREM BuffersAreSafe == Spec => []SlotsAreSafe
<1>1. PipelineInv => SlotsAreSafe
  BY DEF PipelineInv, RingInv, SlotsAreSafe
<1> QED
  BY <1>1, PipelineInvariant, PTL

(* So the images go through it first in, first out.                        *)
THEOREM ImagesAreFifo == Spec => IsFifo
BY CallersRespectRing, RingIsFifo DEF RingRespected

-----------------------------------------------------------------------------
(* The textures.                                                           *)

LEMMA TexturePlaces ==
    ASSUME PipelineTypeOK
    PROVE  /\ BufferHealth \in 0 .. VideoBuffers - 1 /\ BufferHealth = Ahead(store)
           /\ \A i \in Textures : Ahead(i) \in 0 .. VideoBuffers - 1
           /\ \A i, j \in Textures : Ahead(i) = Ahead(j) => i = j
           /\ OnScreen \in Textures /\ Ahead(OnScreen) = VideoBuffers - 1
BY DEF PipelineTypeOK, Textures, BufferHealth, Ahead, OnScreen

LEMMA TexturesKept ==
    ASSUME PipelineInv, PipelineInv', TextureInv, [Next]_vars
    PROVE  TextureInv'
<1>0. PipelineTypeOK /\ PipelineTypeOK' /\ ThreadsInv /\ store \in Textures
      /\ texture \in [Textures -> Items \cup {Free, Blank}]
  BY DEF PipelineInv, PipelineTypeOK
<1>1. CASE DrawNext
  <2>1. store' = store /\ texture' = texture /\ cpc' = cpc
    BY <1>1 DEF DrawNext, convertVars
  <2>2. BufferHealth' = BufferHealth - 1 /\ BufferHealth \in Nat
    BY <1>0, <1>1, TexturePlaces DEF PipelineTypeOK, Textures, DrawNext, NextTexture, BufferHealth,
         convertVars
  <2>3. \A i \in Textures : i # draw => Ahead(i)' = Ahead(i) - 1
    BY <1>0, <1>1 DEF PipelineTypeOK, Textures, DrawNext, NextTexture, Ahead
  <2>4. \A i \in Textures : i = draw => Ahead(i)' = VideoBuffers - 1
    BY <1>0, <1>1 DEF PipelineTypeOK, Textures, DrawNext, NextTexture, Ahead
  <2>5. BufferHealth <= VideoBuffers - 1
    BY <1>0, TexturePlaces
  <2> QED
    BY <1>0, <2>1, <2>2, <2>3, <2>4, <2>5, TexturePlaces DEF TextureInv, TexturesFull
<1>2. CASE WriteTexture \/ StoreTexture
  <2>1. draw' = draw /\ \A i \in Textures : Ahead(i)' = Ahead(i)
    BY <1>2 DEF WriteTexture, StoreTexture, notConvert, Ahead
  <2>2. ~TexturesFull /\ frame \in Items /\ Items \cap {Free, Blank} = {}
    BY <1>0, <1>2 DEF TextureInv, WriteTexture, StoreTexture, ThreadsInv
  <2>3. CASE WriteTexture
    <3>1. /\ BufferHealth' = BufferHealth /\ store' = store /\ texture'[store] = Blank
          /\ \A i \in Textures : i # store => texture'[i] = texture[i]
      BY <1>0, <2>1, <2>3 DEF WriteTexture, BufferHealth
    <3> QED
      BY <1>0, <2>1, <2>2, <3>1, TexturePlaces DEF TextureInv, TexturesFull
  <2>4. CASE StoreTexture
    <3>1. /\ texture'[store] = frame /\ cpc' = "take"
          /\ \A i \in Textures : i # store => texture'[i] = texture[i]
      BY <1>0, <2>4 DEF StoreTexture
    <3>2. BufferHealth' = BufferHealth + 1 /\ BufferHealth \in Nat
      BY <1>0, <2>1, <2>2, <2>4 DEF PipelineTypeOK, Textures, StoreTexture, NextTexture,
           BufferHealth, TexturesFull
    <3>3. \A i \in Textures : texture'[i] # Blank
      BY <1>0, <2>2, <3>1 DEF TextureInv
    <3>4. \A i \in Textures : Ahead(i) < BufferHealth + 1 => Ahead(i) < BufferHealth \/ i = store
      BY <1>0, TexturePlaces
    <3> QED
      BY <1>0, <2>1, <2>2, <3>1, <3>2, <3>3, <3>4 DEF TextureInv
  <2> QED
    BY <1>2, <2>3, <2>4
<1>3. ASSUME draw' = draw, store' = store, texture' = texture,
             cpc' \in {"get", "convert", "write"} =>
                 cpc \in {"get", "convert", "write"} \/ ~TexturesFull
      PROVE  TextureInv'
  BY <1>3 DEF TextureInv, TexturesFull, BufferHealth, Ahead
<1>4. CASE UNCHANGED vars
  BY <1>3, <1>4 DEF vars, convertVars
<1>5. CASE ReadPacket \/ Reseek \/ StartSeek \/ ChangeState \/ Parse
  BY <1>3, <1>5 DEF ReadPacket, Reseek, StartSeek, ChangeState, Parse, convertVars
<1>6. CASE VideoStep
  BY <1>3, <1>6 DEF VideoStep, DecodeCall, SkipPacket, CopyPacket, CopyFails, SkipFailed, Check,
       StartFlush, EndFlush, DecodeFull, DecodeStart, DecodeAlloc, DecodeError, DecodeOutput,
       DecodeNoOutput, DecodeAdvance, DecodeCount, notVideo, convertVars
<1>7. CASE GetImage \/ SkipImage \/ GetFails \/ ReleaseImage \/ MoveImage \/ UncountImage
           \/ DropFrame \/ ClearImages
  BY <1>3, <1>7 DEF GetImage, SkipImage, GetFails, ReleaseImage, MoveImage, UncountImage,
       DropFrame, ClearImages, notConvert, convertVars
<1> QED
  BY <1>1, <1>2, <1>4, <1>5, <1>6, <1>7 DEF Next, ConvertStep

(* Whatever the numbers of textures and pictures, the convert thread never *)
(* writes to the texture on the screen or to one that is due, and what is  *)
(* drawn is a whole picture.                                               *)
THEOREM TexturesAreWhole == Spec => []NoTornTexture
<1>1. PipelineInv /\ TextureInv => NoTornTexture
  <2> SUFFICES ASSUME PipelineInv, TextureInv PROVE NoTornTexture
    OBVIOUS
  <2>1. PipelineTypeOK
    BY DEF PipelineInv
  <2>2. ~TexturesFull => store # OnScreen
    BY <2>1, TexturePlaces DEF TexturesFull
  <2> QED
    BY <2>1, <2>2, TexturePlaces DEF TextureInv, NoTornTexture, Ahead
<1>2. PipelineInv /\ PipelineInv' /\ TextureInv /\ [Next]_vars => TextureInv'
  BY TexturesKept
<1>3. Init => TextureInv
  BY PipelineInit
<1> QED
  BY <1>1, <1>2, <1>3, PipelineInvariant, PTL DEF Spec

-----------------------------------------------------------------------------
(* The line of pictures.                                                   *)

(* What is left of a sequence when some of it is thrown away.              *)
Within(t, s) ==
    \E f \in [DOMAIN t -> DOMAIN s] :
        /\ \A i, j \in DOMAIN t : i < j => f[i] < f[j]
        /\ \A i \in DOMAIN t : t[i] = s[f[i]]

Ordered(s) == \A i, j \in DOMAIN s : i < j => Before(s[i], s[j])
AllBefore(s, x) == \A i \in DOMAIN s : Before(s[i], x)

(* A sequence is within itself.                                            *)
LEMMA WithinItself ==
    ASSUME NEW S, NEW s \in Seq(S)
    PROVE  Within(s, s)
<1>1. [i \in DOMAIN s |-> i] \in [DOMAIN s -> DOMAIN s]
  OBVIOUS
<1>2. \A i \in DOMAIN s : [k \in DOMAIN s |-> k][i] = i
  OBVIOUS
<1> QED
  BY <1>1, <1>2 DEF Within

(* Nothing is within everything.                                           *)
LEMMA WithinNothing ==
    ASSUME NEW S, NEW s \in Seq(S)
    PROVE  Within(<<>>, s)
<1>1. DOMAIN <<>> = {}
  OBVIOUS
<1>2. [i \in {} |-> 0] \in [{} -> DOMAIN s]
  OBVIOUS
<1> QED
  BY <1>1, <1>2 DEF Within

(* The first can be thrown away.                                           *)
LEMMA WithinTail ==
    ASSUME NEW S, NEW s \in Seq(S), s # <<>>
    PROVE  Within(Tail(s), s)
<1>1. /\ Tail(s) \in Seq(S) /\ Len(Tail(s)) = Len(s) - 1 /\ Len(s) \in Nat \ {0}
      /\ \A i \in 1 .. Len(s) - 1 : Tail(s)[i] = s[i + 1]
  BY HeadTailProperties, EmptySeq, LenProperties
<1>2. DOMAIN Tail(s) = 1 .. Len(s) - 1 /\ DOMAIN s = 1 .. Len(s)
  BY <1>1, LenProperties
<1> DEFINE f == [i \in 1 .. Len(s) - 1 |-> i + 1]
<1>3. f \in [1 .. Len(s) - 1 -> 1 .. Len(s)] /\ \A i \in 1 .. Len(s) - 1 : f[i] = i + 1
  BY <1>1
<1> HIDE DEF f
<1>4. \A i, j \in 1 .. Len(s) - 1 : i < j => f[i] < f[j]
  BY <1>1, <1>3
<1> QED
  BY <1>1, <1>2, <1>3, <1>4 DEF Within

(* Throwing away from two sequences is throwing away from both in a row.   *)
LEMMA WithinBoth ==
    ASSUME NEW S, NEW s \in Seq(S), NEW t \in Seq(S), NEW u \in Seq(S), NEW v \in Seq(S),
           Within(t, s), Within(v, u)
    PROVE  Within(t \o v, s \o u)
<1>1. /\ t \o v \in Seq(S) /\ Len(t \o v) = Len(t) + Len(v)
      /\ \A i \in 1 .. Len(t) + Len(v) :
             (t \o v)[i] = IF i <= Len(t) THEN t[i] ELSE v[i - Len(t)]
  BY ConcatProperties
<1>2. /\ s \o u \in Seq(S) /\ Len(s \o u) = Len(s) + Len(u)
      /\ \A i \in 1 .. Len(s) + Len(u) :
             (s \o u)[i] = IF i <= Len(s) THEN s[i] ELSE u[i - Len(s)]
  BY ConcatProperties
<1> DEFINE p == Len(t)
           q == Len(v)
           m == Len(s)
           n == Len(u)
<1>0. /\ DOMAIN s = 1 .. m /\ DOMAIN t = 1 .. p /\ DOMAIN u = 1 .. n /\ DOMAIN v = 1 .. q
      /\ DOMAIN (t \o v) = 1 .. p + q /\ DOMAIN (s \o u) = 1 .. m + n
      /\ \A i \in 1 .. p + q : (t \o v)[i] = IF i <= p THEN t[i] ELSE v[i - p]
      /\ \A i \in 1 .. m + n : (s \o u)[i] = IF i <= m THEN s[i] ELSE u[i - m]
  BY <1>1, <1>2, LenProperties
<1>3. m \in Nat /\ p \in Nat /\ n \in Nat /\ q \in Nat
  BY LenProperties
<1> HIDE DEF p, q, m, n
<1>4. PICK f \in [1 .. p -> 1 .. m] :
          /\ \A i, j \in 1 .. p : i < j => f[i] < f[j]
          /\ \A i \in 1 .. p : t[i] = s[f[i]]
  BY <1>0 DEF Within
<1>5. PICK g \in [1 .. q -> 1 .. n] :
          /\ \A i, j \in 1 .. q : i < j => g[i] < g[j]
          /\ \A i \in 1 .. q : v[i] = u[g[i]]
  BY <1>0 DEF Within
<1> DEFINE h == [i \in 1 .. p + q |->
                    IF i <= p THEN f[i] ELSE m + g[i - p]]
<1>6. \A i \in 1 .. p + q :
          h[i] = IF i <= p THEN f[i] ELSE m + g[i - p]
  OBVIOUS
<1>7. DOMAIN h = 1 .. p + q /\ h = [i \in 1 .. p + q |-> h[i]]
  OBVIOUS
<1> HIDE DEF h
<1>8. \A i \in 1 .. p + q :
          \/ i <= p /\ i \in 1 .. p /\ f[i] \in 1 .. m /\ h[i] = f[i]
          \/ /\ i > p /\ i - p \in 1 .. q /\ g[i - p] \in 1 .. n
             /\ h[i] = m + g[i - p]
  <2> SUFFICES ASSUME NEW i \in 1 .. p + q
               PROVE  \/ i <= p /\ i \in 1 .. p /\ f[i] \in 1 .. m /\ h[i] = f[i]
                      \/ /\ i > p /\ i - p \in 1 .. q
                         /\ g[i - p] \in 1 .. n
                         /\ h[i] = m + g[i - p]
    OBVIOUS
  <2>1. CASE i <= p
    BY <1>3, <1>6, <2>1
  <2>2. CASE i > p
    <3>1. i - p \in 1 .. q
      BY <1>3, <2>2
    <3>2. g[i - p] \in 1 .. n
      BY <3>1
    <3> QED
      BY <1>3, <1>6, <2>2, <3>1, <3>2
  <2> QED
    BY <1>3, <2>1, <2>2
<1>9. h \in [1 .. p + q -> 1 .. m + n]
  <2>1. ASSUME NEW i \in 1 .. p + q PROVE h[i] \in 1 .. m + n
    <3>1. CASE i <= p
      BY <1>3, <1>8, <3>1
    <3>2. CASE i > p
      BY <1>3, <1>8, <3>2
    <3> QED
      BY <1>3, <3>1, <3>2
  <2> QED
    BY <1>7, <2>1
<1>10. ASSUME NEW i \in 1 .. p + q, NEW j \in 1 .. p + q, i < j
       PROVE  h[i] < h[j]
  <2>1. CASE j <= p
    BY <1>3, <1>4, <1>8, <1>10, <2>1
  <2>2. CASE i <= p /\ j > p
    BY <1>3, <1>8, <1>10, <2>2
  <2>3. CASE i > p
    <3>1. /\ i - p \in 1 .. q /\ j - p \in 1 .. q
          /\ i - p < j - p
          /\ h[i] = m + g[i - p] /\ h[j] = m + g[j - p]
          /\ g[i - p] \in 1 .. n /\ g[j - p] \in 1 .. n
      BY <1>3, <1>8, <1>10, <2>3
    <3>2. g[i - p] < g[j - p]
      BY <1>5, <3>1
    <3> QED
      BY <1>3, <3>1, <3>2
  <2> QED
    BY <1>3, <2>1, <2>2, <2>3
<1>11. ASSUME NEW i \in 1 .. p + q
       PROVE  (t \o v)[i] = (s \o u)[h[i]]
  <2>1. h[i] \in 1 .. m + n
    BY <1>9
  <2>2. CASE i <= p
    <3>1. i \in 1 .. p /\ h[i] = f[i] /\ f[i] <= m
      BY <1>3, <1>8, <2>2
    <3> QED
      BY <1>0, <1>4, <2>1, <2>2, <3>1
  <2>3. CASE i > p
    <3>1. /\ i - p \in 1 .. q /\ h[i] = m + g[i - p]
          /\ g[i - p] \in 1 .. n
      BY <1>3, <1>8, <2>3
    <3>2. ~(h[i] <= m) /\ h[i] - m = g[i - p] /\ ~(i <= p)
      BY <1>3, <2>3, <3>1
    <3>3. (t \o v)[i] = v[i - p] /\ (s \o u)[h[i]] = u[h[i] - m]
      BY <1>0, <2>1, <3>2
    <3> QED
      BY <1>5, <3>1, <3>2, <3>3
  <2>4. i <= p \/ i > p
    BY <1>3
  <2> QED
    BY <2>2, <2>3, <2>4
<1> QED
  BY <1>0, <1>9, <1>10, <1>11 DEF Within

(* Throwing away keeps the order.                                          *)
LEMMA WithinOrdered ==
    ASSUME NEW S, NEW s \in Seq(S), NEW t \in Seq(S), Within(t, s)
    PROVE  /\ Ordered(s) => Ordered(t)
           /\ \A x : AllBefore(s, x) => AllBefore(t, x)
BY DEF Within, Ordered, AllBefore


(* The empty sequence at either end.                                       *)
LEMMA NothingInFront ==
    ASSUME NEW S, NEW s \in Seq(S)
    PROVE  <<>> \o s = s /\ s \o <<>> = s
BY ConcatEmptySeq

(* All at the front can be thrown away.                                    *)
LEMMA WithinRest ==
    ASSUME NEW S, NEW a \in Seq(S), NEW s \in Seq(S)
    PROVE  Within(s, a \o s)
<1>1. <<>> \in Seq(S) /\ <<>> \o s = s
  BY NothingInFront, EmptySeq
<1>2. Within(<<>>, a) /\ Within(s, s)
  BY WithinNothing, WithinItself
<1>3. Within(<<>> \o s, a \o s)
  BY <1>1, <1>2, WithinBoth
<1> QED
  BY <1>1, <1>3

(* A sequence is its head and its tail.                                    *)
LEMMA HeadInFront ==
    ASSUME NEW S, NEW s \in Seq(S), s # <<>>
    PROVE  /\ Head(s) \in S /\ Tail(s) \in Seq(S) /\ <<Head(s)>> \in Seq(S)
           /\ <<Head(s)>> \o Tail(s) = s
<1>1. Head(s) \in S /\ Tail(s) \in Seq(S) /\ <<Head(s)>> \in Seq(S)
  BY HeadTailProperties
<1>2. <<Head(s)>> \o Tail(s) = s
  <2>1. /\ Len(s) \in Nat \ {0} /\ Len(Tail(s)) = Len(s) - 1
        /\ \A i \in 1 .. Len(s) - 1 : Tail(s)[i] = s[i + 1]
        /\ Head(s) = s[1]
    BY HeadTailProperties, EmptySeq, LenProperties
  <2>2. /\ <<Head(s)>> \o Tail(s) \in Seq(S) /\ Len(<<Head(s)>> \o Tail(s)) = 1 + Len(Tail(s))
        /\ \A i \in 1 .. 1 + Len(Tail(s)) :
               (<<Head(s)>> \o Tail(s))[i] = IF i <= 1 THEN <<Head(s)>>[i] ELSE Tail(s)[i - 1]
    BY <1>1, ConcatProperties
  <2>3. \A i \in 1 .. Len(s) : (<<Head(s)>> \o Tail(s))[i] = s[i]
    BY <2>1, <2>2
  <2> QED
    BY <2>1, <2>2, <2>3, SeqEqual
<1> QED
  BY <1>1, <1>2

(* One more at the end.                                                    *)
LEMMA AppendIsMore ==
    ASSUME NEW S, NEW s \in Seq(S), NEW x \in S
    PROVE  <<x>> \in Seq(S) /\ Append(s, x) = s \o <<x>>
<1>1. Append(s, x) = s \o <<x>>
  BY AppendIsConcat
<1>2. <<x>> \in Seq(S)
  OBVIOUS
<1> QED
  BY <1>1, <1>2

(* Where the pictures are, from the screen to the file.                    *)
Shown == Optional(texture[OnScreen])
Converted == Optional(frame)
Filled == IF producer = "advance" THEN <<slot[in]>> ELSE <<>>
Decoded == Optional(current)
Copied == Optional(cached)

(* And what is before them.                                                *)
ToDue == Shown \o Due
ToConverted == ToDue \o Converted
ToImages == ToConverted \o Contents
ToFilled == ToImages \o Filled
ToHeld == ToFilled \o held
ToDecoded == ToHeld \o Decoded
ToCopied == ToDecoded \o Copied

(* The line is these places in a row.                                      *)
LEMMA LineIs == Line = ToCopied \o packets
BY DEF Line, ToCopied, ToDecoded, ToHeld, ToFilled, ToImages, ToConverted, ToDue,
       Shown, Converted, Filled, Decoded, Copied

(* The same after a step.                                                  *)
LEMMA NextLineIs == (Line = ToCopied \o packets)'
BY LineIs, PTL

AreSequences ==
    /\ Shown \in Seq(Items) /\ Due \in Seq(Items) /\ Converted \in Seq(Items)
    /\ Contents \in Seq(Items) /\ Filled \in Seq(Items) /\ held \in Seq(Items)
    /\ Decoded \in Seq(Items) /\ Copied \in Seq(Items) /\ packets \in Seq(Items)

StartsAreSequences ==
    /\ ToDue \in Seq(Items) /\ ToConverted \in Seq(Items) /\ ToImages \in Seq(Items)
    /\ ToFilled \in Seq(Items) /\ ToHeld \in Seq(Items) /\ ToDecoded \in Seq(Items)
    /\ ToCopied \in Seq(Items) /\ Line \in Seq(Items)

(* Each start of the line is a sequence of pictures.                       *)
LEMMA Starts == AreSequences => StartsAreSequences
<1> SUFFICES ASSUME AreSequences PROVE StartsAreSequences
  OBVIOUS
<1> USE DEF AreSequences
<1>1. ToDue \in Seq(Items)
  BY ConcatProperties DEF ToDue
<1>2. ToConverted \in Seq(Items)
  BY <1>1, ConcatProperties DEF ToConverted
<1>3. ToImages \in Seq(Items)
  BY <1>2, ConcatProperties DEF ToImages
<1>4. ToFilled \in Seq(Items)
  BY <1>3, ConcatProperties DEF ToFilled
<1>5. ToHeld \in Seq(Items)
  BY <1>4, ConcatProperties DEF ToHeld
<1>6. ToDecoded \in Seq(Items)
  BY <1>5, ConcatProperties DEF ToDecoded
<1>7. ToCopied \in Seq(Items)
  BY <1>6, ConcatProperties DEF ToCopied
<1>8. Line \in Seq(Items)
  BY <1>7, ConcatProperties, LineIs
<1> QED
  BY <1>1, <1>2, <1>3, <1>4, <1>5, <1>6, <1>7, <1>8 DEF StartsAreSequences

(* The same after a step.                                                  *)
LEMMA NextStarts == AreSequences' => StartsAreSequences'
BY Starts, PTL

(* What is thrown away at one place is thrown away from the line.          *)
LEMMA Onward ==
    ASSUME AreSequences, AreSequences'
    PROVE  /\ Within(Shown', Shown) /\ Within(Due', Due) => Within(ToDue', ToDue)
           /\ Within(ToDue', ToDue) /\ Within(Converted', Converted)
                  => Within(ToConverted', ToConverted)
           /\ Within(ToConverted', ToConverted) /\ Within(Contents', Contents)
                  => Within(ToImages', ToImages)
           /\ Within(ToImages', ToImages) /\ Within(Filled', Filled) => Within(ToFilled', ToFilled)
           /\ Within(ToFilled', ToFilled) /\ Within(held', held) => Within(ToHeld', ToHeld)
           /\ Within(ToHeld', ToHeld) /\ Within(Decoded', Decoded)
                  => Within(ToDecoded', ToDecoded)
           /\ Within(ToDecoded', ToDecoded) /\ Within(Copied', Copied)
                  => Within(ToCopied', ToCopied)
           /\ Within(ToCopied', ToCopied) /\ Within(packets', packets) => Within(Line', Line)
<1>0. StartsAreSequences /\ StartsAreSequences'
  BY Starts, NextStarts
<1> USE DEF AreSequences, StartsAreSequences
<1>1. Within(Shown', Shown) /\ Within(Due', Due) => Within(ToDue', ToDue)
  BY WithinBoth DEF ToDue
<1>2. Within(ToDue', ToDue) /\ Within(Converted', Converted) => Within(ToConverted', ToConverted)
  BY <1>0, WithinBoth DEF ToConverted
<1>3. Within(ToConverted', ToConverted) /\ Within(Contents', Contents) => Within(ToImages', ToImages)
  BY <1>0, WithinBoth DEF ToImages
<1>4. Within(ToImages', ToImages) /\ Within(Filled', Filled) => Within(ToFilled', ToFilled)
  BY <1>0, WithinBoth DEF ToFilled
<1>5. Within(ToFilled', ToFilled) /\ Within(held', held) => Within(ToHeld', ToHeld)
  BY <1>0, WithinBoth DEF ToHeld
<1>6. Within(ToHeld', ToHeld) /\ Within(Decoded', Decoded) => Within(ToDecoded', ToDecoded)
  BY <1>0, WithinBoth DEF ToDecoded
<1>7. Within(ToDecoded', ToDecoded) /\ Within(Copied', Copied) => Within(ToCopied', ToCopied)
  BY <1>0, WithinBoth DEF ToCopied
<1>8. Within(ToCopied', ToCopied) /\ Within(packets', packets) => Within(Line', Line)
  BY <1>0, WithinBoth, LineIs, NextLineIs
<1> QED
  BY <1>1, <1>2, <1>3, <1>4, <1>5, <1>6, <1>7, <1>8

(* A place hands over to the next one.                                     *)
LEMMA Handed ==
    ASSUME NEW S, NEW p \in Seq(S), NEW q \in Seq(S), NEW a \in Seq(S), NEW b \in Seq(S),
           NEW c \in Seq(S), NEW d \in Seq(S), Within(q, p), Within(c \o d, a \o b)
    PROVE  Within((q \o c) \o d, (p \o a) \o b)
<1>1. (q \o c) \o d = q \o (c \o d)
  BY SMTT(30)
<1>2. (p \o a) \o b = p \o (a \o b)
  BY SMTT(30)
<1>3. a \o b \in Seq(S) /\ c \o d \in Seq(S)
  BY ConcatProperties
<1> QED
  BY <1>1, <1>2, <1>3, WithinBoth

(* The parentheses of three sequences.                                     *)
LEMMA Regrouped ==
    ASSUME NEW S, NEW a \in Seq(S), NEW b \in Seq(S), NEW c \in Seq(S)
    PROVE  (a \o b) \o c = a \o (b \o c)
BY ConcatAssociative


(* One picture or none.                                                    *)
LEMMA OptionalIs ==
    ASSUME NEW x
    PROVE  /\ Optional(x) \in Seq(Items)
           /\ x \in Items => Optional(x) = <<x>>
           /\ x \notin Items => Optional(x) = <<>>
<1>1. x \in Items => <<x>> \in Seq(Items)
  OBVIOUS
<1> QED
  BY <1>1, EmptySeq DEF Optional

(* The textures that are due, one by one.                                  *)
Turn(k) == IF draw + k < VideoBuffers THEN draw + k ELSE draw + k - VideoBuffers

DueIs ==
    /\ Due \in Seq(Items) /\ Len(Due) = BufferHealth /\ BufferHealth \in Nat
    /\ \A k \in 0 .. BufferHealth - 1 :
           Turn(k) \in Textures /\ Ahead(Turn(k)) = k /\ Due[k + 1] = texture[Turn(k)]

(* They are pictures, and none but those that are due.                     *)
LEMMA DueOnes == PipelineInv /\ TextureInv => DueIs
<1> SUFFICES ASSUME PipelineInv, TextureInv PROVE DueIs
  OBVIOUS
<1>1. PipelineTypeOK /\ BufferHealth \in 0 .. VideoBuffers - 1
  BY TexturePlaces DEF PipelineInv
<1>2. /\ BufferHealth \in Nat /\ VideoBuffers \in Nat /\ draw \in 0 .. VideoBuffers - 1
      /\ BufferHealth < VideoBuffers
  <2>1. draw \in Textures
    BY <1>1 DEF PipelineTypeOK
  <2> QED
    BY <1>1, <2>1 DEF Textures
<1>3. ASSUME NEW k \in 0 .. BufferHealth - 1
      PROVE  Turn(k) \in Textures /\ Ahead(Turn(k)) = k /\ texture[Turn(k)] \in Items
  <2>1. Turn(k) \in Textures /\ Ahead(Turn(k)) = k
    BY <1>2 DEF Turn, Ahead, Textures
  <2>2. k < BufferHealth
    BY <1>2
  <2> QED
    BY <2>1, <2>2 DEF TextureInv
<1>4. ASSUME NEW k \in 1 .. BufferHealth
      PROVE  Due[k] = texture[Turn(k - 1)] /\ k - 1 \in 0 .. BufferHealth - 1
  <2>1. (draw + (k - 1) = draw + k - 1) /\ k - 1 \in 0 .. BufferHealth - 1
    BY <1>2
  <2> QED
    BY <2>1 DEF Due, Turn
<1>5. Due \in [1 .. BufferHealth -> Items]
  BY <1>3, <1>4 DEF Due
<1>6. Due \in Seq(Items) /\ Len(Due) = BufferHealth
  BY <1>2, <1>5
<1>7. ASSUME NEW k \in 0 .. BufferHealth - 1
      PROVE  Due[k + 1] = texture[Turn(k)]
  <2>1. k + 1 \in 1 .. BufferHealth /\ (k + 1) - 1 = k
    BY <1>2
  <2> QED
    BY <1>4, <2>1
<1> QED
  BY <1>2, <1>3, <1>6, <1>7 DEF DueIs

(* The same after a step.                                                  *)
LEMMA NextDueOnes == PipelineInv' /\ TextureInv' => DueIs'
BY DueOnes, PTL

(* Each place has a sequence of pictures.                                  *)
LEMMA PlacesHold == PipelineInv /\ TextureInv => AreSequences
<1> SUFFICES ASSUME PipelineInv, TextureInv PROVE AreSequences
  OBVIOUS
<1>1. PipelineTypeOK /\ RingInv
  BY DEF PipelineInv
<1>2. Due \in Seq(Items)
  BY DueOnes DEF DueIs
<1>3. Contents \in Seq(Items)
  BY <1>1, ContentsType DEF ContentsOK
<1>4. Filled \in Seq(Items)
  <2>1. producer = "advance" => slot[in] \in Items
    BY <1>1, Places DEF RingInv, SlotsRight, RingTypeOK
  <2>2. \A x \in Items : <<x>> \in Seq(Items)
    OBVIOUS
  <2> QED
    BY <2>1, <2>2, EmptySeq DEF Filled
<1>5. held \in Seq(Items) /\ packets \in Seq(Items)
  BY <1>1 DEF PipelineTypeOK
<1> QED
  BY <1>2, <1>3, <1>4, <1>5, OptionalIs DEF AreSequences, Shown, Converted, Decoded, Copied

(* The same after a step.                                                  *)
LEMMA NextPlacesHold == PipelineInv' /\ TextureInv' => AreSequences'
BY PlacesHold, PTL

(* What a step of the ring does to the images in it.                       *)
LEMMA RingQuiet ==
    ASSUME RingInv, RingInv',
           Look \/ Alloc \/ GiveUp \/ Count \/ See \/ Leave \/ Uncount \/ Move \/ UNCHANGED ringVars
    PROVE  Contents' = Contents /\ Filled' = Filled
<1>1. CASE Move
  BY <1>1, MoveKeepsContents DEF Move, Filled
<1>2. CASE Look \/ Alloc \/ GiveUp \/ Count \/ See \/ Leave \/ Uncount \/ UNCHANGED ringVars
  <2>1. Contents' = Contents
    BY <1>2, Invisible
  <2>2. Filled' = Filled
    BY <1>2 DEF Look, Alloc, GiveUp, Count, See, Leave, Uncount, ringVars, Filled
  <2> QED
    BY <2>1, <2>2
<1> QED
  BY <1>1, <1>2

(* A picture comes out of the decoder.                                     *)
LEMMA RingFills ==
    ASSUME RingInv, RingInv', NEW x \in Items, Fill(x)
    PROVE  Contents' = Contents /\ Filled = <<>> /\ Filled' = <<x>>
<1>1. Contents' = Contents
  BY Invisible
<1>2. in \in Slots /\ slot \in [Slots -> Items \cup {Free, Blank}]
  BY DEF RingInv, RingTypeOK
<1> QED
  BY <1>1, <1>2 DEF Fill, Filled

(* The ring takes it in.                                                   *)
LEMMA RingTakesIn ==
    ASSUME RingInv, RingInv', Advance
    PROVE  Contents' = Contents \o Filled /\ Filled' = <<>>
<1>1. slot[in] \in Items /\ Contents' = Append(Contents, slot[in])
  BY AdvancePuts DEF Buffer!Put
<1>2. Filled = <<slot[in]>> /\ Filled' = <<>>
  BY DEF Advance, Filled
<1>3. Contents \in Seq(Items)
  BY ContentsType DEF ContentsOK
<1> QED
  BY <1>1, <1>2, <1>3, AppendIsConcat

(* The ring gives out its oldest picture.                                  *)
LEMMA RingGivesOut ==
    ASSUME RingInv, RingInv', Release
    PROVE  /\ Contents # <<>> /\ Contents' = Tail(Contents) /\ slot[out] = Head(Contents)
           /\ Filled' = Filled
<1>1. Contents # <<>> /\ Contents' = Tail(Contents)
  BY ReleaseGets DEF Buffer!Get
<1>0. RingTypeOK /\ CountIsSafe /\ Distance \in 0 .. Size - 1 /\ ~Used(in)
  <2>1. RingTypeOK /\ CountIsSafe
    BY DEF RingInv
  <2>2. in \in Slots /\ Distance \in 0 .. Size - 1 /\ Distance = Offset(in)
        /\ (Used(in) <=> Offset(in) < Distance)
    BY <2>1, Places DEF RingTypeOK
  <2>3. ~Used(in)
    BY <2>2
  <2> QED
    BY <2>1, <2>2, <2>3
<1>2. slot[out] = Head(Contents)
  <2>1. Released = 0 /\ Distance > 0 /\ out \in Slots
    BY <1>0 DEF Release, Released, CountIsSafe, RingTypeOK
  <2>2. 1 \in 1 .. Distance - Released /\ 1 - 1 + Released = 0
    BY <1>0, <2>1, RingAssumption
  <2>3. Contents[1] = slot[Nth(0)]
    BY <2>2, ContentsType DEF ContentsOK
  <2>4. Nth(0) = out
    BY <2>1, RingAssumption DEF Nth, Slots
  <2>5. Head(Contents) = Contents[1]
    BY <1>1, ContentsType, HeadTailProperties DEF ContentsOK
  <2> QED
    BY <2>3, <2>4, <2>5
<1>3. Filled' = Filled
  <2>1. Used(out) /\ out \in Slots /\ in \in Slots
    BY <1>0, Places DEF Release, CountIsSafe, RingTypeOK
  <2>2. slot'[in] = slot[in]
    BY <1>0, <2>1 DEF Release, RingTypeOK
  <2> QED
    BY <2>2 DEF Release, Filled
<1> QED
  BY <1>1, <1>2, <1>3

(* The ring is emptied.                                                    *)
LEMMA RingEmpties ==
    ASSUME RingInv', Clear
    PROVE  Contents' = <<>> /\ Filled' = Filled
BY ClearEmpties DEF Clear, Wipe, Filled

(* What is on the screen and due stays, unless the next one is drawn or    *)
(* stored; a texture that is written is neither.                           *)
LEMMA SameShow ==
    ASSUME PipelineInv, TextureInv, draw' = draw, store' = store,
           texture' = texture \/ WriteTexture
    PROVE  Shown' = Shown /\ Due' = Due
<1>1. BufferHealth' = BufferHealth /\ OnScreen' = OnScreen
  BY DEF BufferHealth, OnScreen
<1>2. CASE texture' = texture
  BY <1>1, <1>2 DEF Shown, Due
<1>3. CASE WriteTexture
  <2>1. /\ PipelineTypeOK /\ store \in Textures /\ OnScreen \in Textures
        /\ texture \in [Textures -> Items \cup {Free, Blank}]
    BY TexturePlaces DEF PipelineInv, PipelineTypeOK
  <2>2. ~TexturesFull
    BY <1>3 DEF TextureInv, WriteTexture
  <2>3. store # OnScreen
    <3>1. BufferHealth = Ahead(store) /\ Ahead(OnScreen) = VideoBuffers - 1
      BY <2>1, TexturePlaces
    <3> QED
      BY <2>2, <3>1 DEF TexturesFull
  <2>4. \A i \in Textures : i # store => texture'[i] = texture[i]
    BY <1>3, <2>1 DEF WriteTexture
  <2>5. Shown' = Shown
    BY <1>1, <2>1, <2>3, <2>4 DEF Shown
  <2>6. ASSUME NEW k \in 0 .. BufferHealth - 1
        PROVE  Turn(k)' = Turn(k) /\ texture'[Turn(k)] = texture[Turn(k)]
    <3>1. Turn(k) \in Textures /\ Ahead(Turn(k)) = k /\ BufferHealth \in Nat
      BY DueOnes DEF DueIs
    <3>2. Turn(k) # store
      BY <2>1, <3>1, TexturePlaces
    <3> QED
      BY <2>4, <3>1, <3>2 DEF Turn
  <2>7. ASSUME NEW k \in 1 .. BufferHealth
        PROVE  texture'[IF draw + k - 1 < VideoBuffers THEN draw + k - 1
                        ELSE draw + k - 1 - VideoBuffers]
                 = texture[IF draw + k - 1 < VideoBuffers THEN draw + k - 1
                           ELSE draw + k - 1 - VideoBuffers]
    <3>1. BufferHealth \in Nat /\ draw \in Nat
      BY <2>1, TexturePlaces DEF PipelineTypeOK, Textures
    <3>2. k - 1 \in 0 .. BufferHealth - 1 /\ draw + (k - 1) = draw + k - 1
      BY <3>1
    <3> QED
      BY <2>6, <3>2 DEF Turn
  <2>8. Due' = Due
    BY <1>1, <2>7 DEF Due
  <2> QED
    BY <2>5, <2>8
<1> QED
  BY <1>2, <1>3


(* The next texture is drawn: the first of those that are due is shown.    *)
LEMMA DrawsOne ==
    ASSUME PipelineInv, TextureInv, PipelineInv', TextureInv', DrawNext
    PROVE  Due # <<>> /\ Shown' = <<Head(Due)>> /\ Due' = Tail(Due)
<1>1. /\ DueIs /\ DueIs' /\ PipelineTypeOK
      /\ texture' = texture /\ store' = store /\ draw' = NextTexture(draw) /\ BufferHealth > 0
  BY DueOnes, NextDueOnes DEF PipelineInv, DrawNext, convertVars
<1>2. draw \in 0 .. VideoBuffers - 1 /\ store \in 0 .. VideoBuffers - 1
  BY <1>1 DEF PipelineTypeOK, Textures
<1>3. BufferHealth' = BufferHealth - 1 /\ OnScreen' = draw /\ Turn(0) = draw
  BY <1>1, <1>2 DEF BufferHealth, OnScreen, NextTexture, Turn
<1>4. ASSUME NEW k \in 0 .. BufferHealth' - 1
      PROVE  Turn(k)' = Turn(k + 1) /\ k + 1 \in 0 .. BufferHealth - 1
  <2>1. BufferHealth \in 0 .. VideoBuffers - 1
    BY <1>1, TexturePlaces
  <2>2. k + 1 \in 0 .. BufferHealth - 1 /\ k \in Nat
    BY <1>3, <2>1
  <2>3. Turn(k)' = Turn(k + 1)
    BY <1>1, <1>2, <2>1, <2>2 DEF Turn, NextTexture
  <2> QED
    BY <2>2, <2>3
<1>5. Due \in Seq(Items) /\ Len(Due) = BufferHealth /\ BufferHealth \in Nat /\ Due # <<>>
  BY <1>1, EmptySeq DEF DueIs
<1>6. Due' \in Seq(Items) /\ Len(Due') = Len(Due) - 1
  BY <1>1, <1>3, <1>5 DEF DueIs
<1>7. Due[1] = texture[draw] /\ texture[draw] \in Items
  <2>1. 0 \in 0 .. BufferHealth - 1 /\ 0 + 1 = 1 /\ 1 \in 1 .. Len(Due)
    BY <1>1, <1>5
  <2>2. Due[1] = texture[draw]
    BY <1>1, <1>3, <2>1 DEF DueIs
  <2> QED
    BY <1>5, <2>1, <2>2, ElementOfSeq
<1>8. ASSUME NEW k \in 1 .. Len(Due')
      PROVE  Due'[k] = Due[k + 1]
  <2> DEFINE i == k - 1
  <2>1. i \in 0 .. BufferHealth' - 1 /\ i + 1 = k /\ (i + 1) + 1 = k + 1
    BY <1>3, <1>5, <1>6
  <2> HIDE DEF i
  <2>2. Due'[k] = texture'[Turn(i)']
    BY <1>1, <2>1 DEF DueIs
  <2>3. Turn(i)' = Turn(i + 1) /\ i + 1 \in 0 .. BufferHealth - 1
    BY <1>4, <2>1
  <2>4. Due[k + 1] = texture[Turn(i + 1)]
    BY <1>1, <2>1, <2>3 DEF DueIs
  <2> QED
    BY <1>1, <2>2, <2>3, <2>4
<1>9. Due' = Tail(Due)
  BY <1>5, <1>6, <1>8, Tailed
<1>10. Shown' = <<Head(Due)>>
  <2>1. Head(Due) = Due[1]
    BY <1>5, HeadTailProperties
  <2>2. Shown' = Optional(texture[draw])
    BY <1>1, <1>3 DEF Shown
  <2> QED
    BY <1>7, <2>1, <2>2, OptionalIs
<1> QED
  BY <1>5, <1>9, <1>10

(* A picture is stored: it is the last of those that are due.              *)
LEMMA StoresOne ==
    ASSUME PipelineInv, TextureInv, PipelineInv', TextureInv', StoreTexture
    PROVE  frame \in Items /\ Shown' = Shown /\ Due' = Append(Due, frame)
<1>1. /\ DueIs /\ DueIs' /\ PipelineTypeOK /\ ThreadsInv
      /\ texture' = [texture EXCEPT ![store] = frame] /\ store' = NextTexture(store)
      /\ draw' = draw /\ cpc = "write"
  BY DueOnes, NextDueOnes DEF PipelineInv, StoreTexture, notConvert
<1>2. /\ draw \in 0 .. VideoBuffers - 1 /\ store \in 0 .. VideoBuffers - 1
      /\ store \in Textures /\ OnScreen \in Textures
      /\ texture \in [Textures -> Items \cup {Free, Blank}]
  BY <1>1, TexturePlaces DEF PipelineTypeOK, Textures
<1>3. frame \in Items /\ ~TexturesFull
  BY <1>1 DEF ThreadsInv, TextureInv
<1>4. BufferHealth' = BufferHealth + 1 /\ OnScreen' = OnScreen /\ Turn(BufferHealth) = store
  BY <1>1, <1>2, <1>3 DEF BufferHealth, OnScreen, NextTexture, Turn, TexturesFull
<1>5. store # OnScreen
  <2>1. BufferHealth = Ahead(store) /\ Ahead(OnScreen) = VideoBuffers - 1
    BY <1>1, TexturePlaces
  <2> QED
    BY <1>3, <2>1 DEF TexturesFull
<1>6. /\ texture'[store] = frame
      /\ \A i \in Textures : i # store => texture'[i] = texture[i]
  BY <1>1, <1>2
<1>7. Shown' = Shown
  BY <1>2, <1>4, <1>5, <1>6 DEF Shown
<1>8. /\ Due \in Seq(Items) /\ Len(Due) = BufferHealth /\ BufferHealth \in Nat
      /\ Due' \in Seq(Items) /\ Len(Due') = Len(Due) + 1
  BY <1>1, <1>4 DEF DueIs
<1>9. ASSUME NEW k \in 0 .. BufferHealth
      PROVE  Due'[k + 1] = texture'[Turn(k)]
  <2>1. k \in 0 .. BufferHealth' - 1
    BY <1>4, <1>8
  <2>2. Turn(k)' = Turn(k)
    BY <1>1 DEF Turn
  <2> QED
    BY <1>1, <2>1, <2>2 DEF DueIs
<1>10. ASSUME NEW i \in 1 .. Len(Due)
       PROVE  Due'[i] = Due[i]
  <2> DEFINE k == i - 1
  <2>1. k \in 0 .. BufferHealth - 1 /\ k \in 0 .. BufferHealth /\ k + 1 = i
    BY <1>8
  <2> HIDE DEF k
  <2>2. Turn(k) \in Textures /\ Ahead(Turn(k)) = k /\ Due[i] = texture[Turn(k)]
    BY <1>1, <2>1 DEF DueIs
  <2>3. Turn(k) # store
    <3>1. BufferHealth = Ahead(store)
      BY <1>1, TexturePlaces
    <3>2. k # BufferHealth
      BY <1>8, <2>1
    <3> QED
      BY <2>2, <3>1, <3>2
  <2> QED
    BY <1>6, <1>9, <2>1, <2>2, <2>3
<1>11. Due'[Len(Due) + 1] = frame
  BY <1>4, <1>6, <1>8, <1>9
<1>12. Due' = Append(Due, frame)
  BY <1>3, <1>8, <1>10, <1>11, Appended
<1> QED
  BY <1>3, <1>7, <1>12

(* What stays where it was, or is thrown away.                             *)
LEMMA LessOfEach ==
    ASSUME AreSequences, AreSequences'
    PROVE  /\ Shown' = Shown => Within(Shown', Shown)
           /\ Due' = Due => Within(Due', Due)
           /\ Converted' \in {Converted, <<>>} => Within(Converted', Converted)
           /\ Contents' \in {Contents, <<>>} => Within(Contents', Contents)
           /\ Filled' = Filled => Within(Filled', Filled)
           /\ held' = held => Within(held', held)
           /\ Decoded' \in {Decoded, <<>>} => Within(Decoded', Decoded)
           /\ Copied' \in {Copied, <<>>} => Within(Copied', Copied)
           /\ packets' \in {packets, <<>>} => Within(packets', packets)
<1>1. ASSUME NEW s \in Seq(Items), NEW t \in {s, <<>>}
      PROVE  Within(t, s)
  BY WithinItself, WithinNothing
<1> QED
  BY <1>1 DEF AreSequences


(* No step but the reading of a packet adds to the line or changes its     *)
(* order: the drawing,                                                     *)
LEMMA ShowStep ==
    ASSUME PipelineInv, TextureInv, PipelineInv', TextureInv', DrawNext \/ StoreTexture
    PROVE  Within(Line', Line)
<1>0. /\ AreSequences /\ AreSequences' /\ StartsAreSequences /\ StartsAreSequences'
      /\ RingInv /\ RingInv'
  BY PlacesHold, NextPlacesHold, Starts, NextStarts DEF PipelineInv
<1>1. UNCHANGED <<ringVars, held, current, cached, packets>>
  BY DEF DrawNext, StoreTexture, readVars, videoVars, notConvert
<1>2. Contents' = Contents /\ Filled' = Filled /\ Decoded' = Decoded /\ Copied' = Copied
  BY <1>0, <1>1, RingQuiet DEF Decoded, Copied
<1>3. Within(ToConverted', ToConverted) => Within(Line', Line)
  BY <1>0, <1>1, <1>2, LessOfEach, Onward
<1>4. CASE DrawNext
  <2>1. Due # <<>> /\ Shown' = <<Head(Due)>> /\ Due' = Tail(Due) /\ Due \in Seq(Items)
    BY <1>0, <1>4, DrawsOne DEF AreSequences
  <2>2. ToDue' = Due
    BY <2>1, HeadInFront DEF ToDue
  <2>3. Within(ToDue', ToDue)
    BY <1>0, <2>2, WithinRest DEF ToDue, AreSequences
  <2>4. Converted' = Converted
    BY <1>4 DEF DrawNext, convertVars, Converted
  <2> QED
    BY <1>0, <1>3, <2>3, <2>4, LessOfEach, Onward
<1>5. CASE StoreTexture
  <2>1. frame \in Items /\ Shown' = Shown /\ Due' = Append(Due, frame)
    BY <1>5, StoresOne
  <2>2. Due' = Due \o <<frame>> /\ Converted = <<frame>>
    BY <1>0, <2>1, AppendIsMore, OptionalIs DEF AreSequences, Converted
  <2>3. Free \notin Items /\ frame' = Free
    BY <1>5 DEF StoreTexture
  <2>4. Converted' = <<>>
    BY <2>3 DEF Converted, Optional
  <2>5. Due' \o Converted' = Due \o Converted
    BY <1>0, <2>2, <2>4, NothingInFront DEF AreSequences
  <2>6. Within(Due' \o Converted', Due \o Converted) /\ Within(Shown', Shown)
    <3>1. Due \o Converted \in Seq(Items)
      BY <1>0, ConcatProperties DEF AreSequences
    <3> QED
      BY <1>0, <2>1, <2>5, <3>1, WithinItself, LessOfEach
  <2>7. Within(ToConverted', ToConverted)
    BY <1>0, <2>6, Handed DEF AreSequences, ToConverted, ToDue
  <2> QED
    BY <1>3, <2>7
<1> QED
  BY <1>4, <1>5

(* the convert thread,                                                     *)
LEMMA ConvertLess ==
    ASSUME PipelineInv, TextureInv, PipelineInv', TextureInv', ConvertStep, ~StoreTexture
    PROVE  Within(Line', Line)
<1>0. /\ AreSequences /\ AreSequences' /\ StartsAreSequences /\ StartsAreSequences'
      /\ RingInv /\ RingInv'
  BY PlacesHold, NextPlacesHold, Starts, NextStarts DEF PipelineInv
<1>1. UNCHANGED <<held, current, cached, packets, draw>>
  BY DEF ConvertStep, GetImage, SkipImage, GetFails, ReleaseImage, MoveImage, UncountImage,
         WriteTexture, StoreTexture, DropFrame, ClearImages, notConvert, readVars, videoVars
<1>2. Decoded' = Decoded /\ Copied' = Copied
  BY <1>1 DEF Decoded, Copied
<1>3. Shown' = Shown /\ Due' = Due
  <2>1. store' = store /\ (texture' = texture \/ WriteTexture)
    BY DEF ConvertStep, GetImage, SkipImage, GetFails, ReleaseImage, MoveImage, UncountImage,
           WriteTexture, DropFrame, ClearImages, convertVars
  <2> QED
    BY <1>1, <2>1, SameShow
<1>4. Within(ToDue', ToDue)
  BY <1>0, <1>3, LessOfEach, Onward
<1>5. ASSUME Contents' \in {Contents, <<>>}, Filled' = Filled, Converted' \in {Converted, <<>>}
      PROVE  Within(Line', Line)
  BY <1>0, <1>1, <1>2, <1>4, <1>5, LessOfEach, Onward
<1>6. CASE GetImage \/ SkipImage \/ GetFails \/ MoveImage \/ UncountImage
  <2>1. See \/ Leave \/ Move \/ Uncount
    BY <1>6 DEF GetImage, SkipImage, GetFails, MoveImage, UncountImage
  <2>2. frame' = frame
    BY <1>6 DEF GetImage, SkipImage, GetFails, MoveImage, UncountImage, convertVars
  <2> QED
    BY <1>0, <1>5, <2>1, <2>2, RingQuiet DEF Converted
<1>7. CASE WriteTexture \/ DropFrame
  <2>1. UNCHANGED ringVars /\ frame' \in {frame, Free} /\ Free \notin Items
    BY <1>7 DEF WriteTexture, DropFrame
  <2>2. Converted' \in {Converted, <<>>}
    BY <2>1 DEF Converted, Optional
  <2> QED
    BY <1>0, <1>5, <2>1, <2>2, RingQuiet
<1>8. CASE ClearImages
  <2>1. Clear /\ frame' = frame
    <3>1. producer = "idle" /\ consumer = "idle"
      BY <1>8 DEF ClearImages, PipelineInv, ThreadsInv, SeekInv, PipelineTypeOK, RingTypeOK
    <3> QED
      BY <1>8, <3>1 DEF ClearImages, Clear, convertVars
  <2> QED
    BY <1>0, <1>5, <2>1, RingEmpties DEF Converted
<1>9. CASE ReleaseImage
  <2>1. /\ Release /\ Contents # <<>> /\ Contents' = Tail(Contents) /\ slot[out] = Head(Contents)
        /\ Filled' = Filled
    BY <1>0, <1>9, RingGivesOut DEF ReleaseImage
  <2>2. Contents \in Seq(Items) /\ Head(Contents) \in Items /\ Converted \in Seq(Items)
        /\ <<Head(Contents)>> \o Tail(Contents) = Contents
    BY <1>0, <2>1, HeadInFront DEF AreSequences
  <2>3. Within(ToImages', ToImages)
    <3>1. CASE cpc = "get"
      <4>1. Converted' = <<Head(Contents)>>
        BY <1>9, <2>1, <2>2, <3>1, OptionalIs DEF ReleaseImage, Converted
      <4>2. Converted' \o Contents' = Contents
        BY <2>1, <2>2, <4>1
      <4>3. Within(Converted' \o Contents', Converted \o Contents)
        BY <2>2, <4>2, WithinRest
      <4> QED
        BY <1>0, <1>4, <4>3, Handed DEF AreSequences, StartsAreSequences, ToImages, ToConverted
    <3>2. CASE cpc # "get"
      <4>1. Converted' = Converted
        BY <1>9, <3>2 DEF ReleaseImage, Converted
      <4>2. Within(Contents', Contents)
        BY <2>1, <2>2, WithinTail
      <4> QED
        BY <1>0, <1>4, <4>1, <4>2, LessOfEach, Onward
    <3> QED
      BY <3>1, <3>2
  <2> QED
    BY <1>0, <1>1, <1>2, <2>1, <2>3, LessOfEach, Onward
<1> QED
  BY <1>6, <1>7, <1>8, <1>9 DEF ConvertStep

(* the video thread,                                                       *)
LEMMA DecodeLess ==
    ASSUME PipelineInv, TextureInv, PipelineInv', TextureInv', VideoStep
    PROVE  Within(Line', Line)
<1>0. /\ AreSequences /\ AreSequences' /\ StartsAreSequences /\ StartsAreSequences'
      /\ RingInv /\ RingInv'
      /\ Free \notin Items /\ PipelineTypeOK /\ ThreadsInv
  BY PlacesHold, NextPlacesHold, Starts, NextStarts DEF PipelineInv
<1>1. UNCHANGED <<frame, texture, store, draw, packets>>
  BY DEF VideoStep, DecodeCall, SkipPacket, CopyPacket, CopyFails, SkipFailed, DecodeFull,
         DecodeStart, DecodeAlloc, DecodeError, DecodeOutput, DecodeNoOutput, DecodeAdvance,
         DecodeCount, Check, StartFlush, EndFlush, notVideo, readVars, convertVars
<1>2. Shown' = Shown /\ Due' = Due /\ Converted' = Converted
  BY <1>1, SameShow DEF Converted
<1>3. Within(ToConverted', ToConverted)
  BY <1>0, <1>2, LessOfEach, Onward
<1>4. ASSUME Contents' = Contents, Filled' = Filled, held' = held,
             Decoded' \in {Decoded, <<>>}, Copied' \in {Copied, <<>>}
      PROVE  Within(Line', Line)
  BY <1>0, <1>1, <1>3, <1>4, LessOfEach, Onward
<1>5. CASE SkipPacket \/ CopyFails \/ SkipFailed \/ DecodeFull \/ Check \/ StartFlush \/ EndFlush
  <2>1. UNCHANGED <<ringVars, held, current>> /\ cached' \in {cached, Free}
    BY <1>5 DEF SkipPacket, CopyFails, SkipFailed, DecodeFull, Check, StartFlush, EndFlush,
                videoVars
  <2>2. Contents' = Contents /\ Filled' = Filled
    BY <1>0, <2>1, RingQuiet
  <2>3. Decoded' = Decoded /\ Copied' \in {Copied, <<>>}
    BY <1>0, <2>1 DEF Decoded, Copied, Optional
  <2> QED
    BY <1>4, <2>1, <2>2, <2>3
<1>6. CASE DecodeStart \/ DecodeAlloc \/ DecodeError \/ DecodeCount
  <2>1. Look \/ Alloc \/ GiveUp \/ Count
    BY <1>6 DEF DecodeStart, DecodeAlloc, DecodeError, DecodeCount
  <2>2. held' = held /\ cached' = cached /\ current' \in {current, Free}
    BY <1>6 DEF DecodeStart, DecodeAlloc, DecodeError, DecodeCount, videoVars
  <2>3. Contents' = Contents /\ Filled' = Filled
    BY <1>0, <2>1, RingQuiet
  <2>4. Decoded' \in {Decoded, <<>>} /\ Copied' = Copied
    BY <1>0, <2>2 DEF Decoded, Copied, Optional
  <2> QED
    BY <1>4, <2>2, <2>3, <2>4
<1>7. CASE DecodeAdvance
  <2>1. Contents' = Contents \o Filled /\ Filled' = <<>>
    BY <1>0, <1>7, RingTakesIn DEF DecodeAdvance
  <2>2. UNCHANGED <<held, current, cached>>
    BY <1>7 DEF DecodeAdvance, videoVars
  <2>3. Contents \o Filled \in Seq(Items) /\ Contents' \o Filled' = Contents \o Filled
    <3>1. Contents \o Filled \in Seq(Items)
      BY <1>0, ConcatProperties DEF AreSequences
    <3> QED
      BY <2>1, <3>1, NothingInFront
  <2>4. Within(Contents' \o Filled', Contents \o Filled)
    BY <2>3, WithinItself
  <2>5. Within(ToFilled', ToFilled)
    BY <1>0, <1>3, <2>4, Handed DEF AreSequences, StartsAreSequences, ToFilled, ToImages
  <2>6. Decoded' = Decoded /\ Copied' = Copied
    BY <2>2 DEF Decoded, Copied
  <2> QED
    BY <1>0, <1>1, <2>2, <2>5, <2>6, LessOfEach, Onward
<1>8. CASE CopyPacket
  <2>1. /\ UNCHANGED <<ringVars, held>> /\ cached \in Items /\ current = Free
        /\ current' = cached /\ cached' = Free
    BY <1>8 DEF CopyPacket
  <2>2. Contents' = Contents /\ Filled' = Filled
    BY <1>0, <2>1, RingQuiet
  <2>3. Decoded = <<>> /\ Copied' = <<>> /\ Decoded' = Copied
    BY <1>0, <2>1 DEF Decoded, Copied, Optional
  <2>4. Decoded' \o Copied' = Copied /\ Decoded \o Copied = Copied /\ Copied \in Seq(Items)
    BY <1>0, <2>3, NothingInFront DEF AreSequences
  <2>5. Within(Decoded' \o Copied', Decoded \o Copied)
    BY <2>4, WithinItself
  <2>6. Within(ToHeld', ToHeld)
    BY <1>0, <1>3, <2>1, <2>2, LessOfEach, Onward
  <2>7. Within(ToCopied', ToCopied)
    BY <1>0, <2>5, <2>6, Handed DEF AreSequences, StartsAreSequences, ToCopied, ToDecoded
  <2> QED
    BY <1>0, <1>1, <2>7, LessOfEach, Onward
<1>9. CASE DecodeOutput \/ DecodeNoOutput
  <2>1. current \in Items /\ held \in Seq(Items) /\ MaxHeld \in Nat \ {0}
    BY <1>0, <1>9 DEF DecodeOutput, DecodeNoOutput, Fill, ThreadsInv, PipelineTypeOK, OneOrNone
  <2>2. AfterSend \in Seq(Items) /\ AfterSend # <<>>
    <3>1. CASE Sent
      BY <2>1, <3>1, AppendProperties DEF AfterSend
    <3>2. CASE ~Sent
      BY <2>1, <3>2 DEF AfterSend, Sent
    <3> QED
      BY <3>1, <3>2
  <2>3. Optional(Left) \in Seq(Items) /\ AfterSend \o Optional(Left) = held \o Decoded
    <3>1. Decoded = <<current>>
      BY <2>1, OptionalIs DEF Decoded
    <3>2. CASE Sent
      <4>1. AfterSend = held \o <<current>>
        BY <2>1, <3>2, AppendIsMore DEF AfterSend
      <4>2. Optional(Left) = <<>>
        BY <1>0, <3>2 DEF Left, Optional
      <4> QED
        BY <2>2, <3>1, <4>1, <4>2, NothingInFront, EmptySeq
    <3>3. CASE ~Sent
      BY <2>1, <3>1, <3>3, OptionalIs DEF AfterSend, Left
    <3> QED
      BY <3>2, <3>3
  <2>4. Decoded' = Optional(Left) /\ Copied' = Copied
    BY <1>9 DEF DecodeOutput, DecodeNoOutput, Decoded, Copied
  <2>5. Within(ToImages', ToImages) => Within(Line', Line)
    <3>1. ASSUME Within(ToFilled', ToFilled), Within(held' \o Decoded', held \o Decoded)
          PROVE  Within(Line', Line)
      <4>1. Within(ToDecoded', ToDecoded)
        BY <1>0, <3>1, Handed DEF AreSequences, StartsAreSequences, ToDecoded, ToHeld
      <4> QED
        BY <1>0, <1>1, <2>4, <4>1, LessOfEach, Onward
    <3>2. CASE DecodeNoOutput
      <4>1. Contents' = Contents /\ Filled' = Filled /\ held' = AfterSend
        BY <1>0, <3>2, RingQuiet DEF DecodeNoOutput
      <4>2. held \o Decoded \in Seq(Items)
        BY <1>0, ConcatProperties DEF AreSequences
      <4>3. Within(held' \o Decoded', held \o Decoded)
        BY <2>3, <2>4, <4>1, <4>2, WithinItself
      <4> QED
        BY <1>0, <3>1, <4>1, <4>3, LessOfEach, Onward
    <3>3. CASE DecodeOutput
      <4>1. Head(AfterSend) \in Items /\ <<Head(AfterSend)>> \o Tail(AfterSend) = AfterSend
        BY <2>2, HeadInFront
      <4>2. Contents' = Contents /\ Filled = <<>> /\ Filled' = <<Head(AfterSend)>>
            /\ held' = Tail(AfterSend)
        BY <1>0, <3>3, <4>1, RingFills DEF DecodeOutput
      <4> SUFFICES ASSUME Within(ToImages', ToImages)
                   PROVE  Within(Line', Line)
        OBVIOUS
      <4>3. Filled' \o held' = AfterSend /\ Filled \o held = held
        <5>1. Filled' \o held' = AfterSend
          BY <4>1, <4>2, Zenon
        <5>2. <<>> \o held = held
          BY <2>1, NothingInFront
        <5> QED
          BY <4>2, <5>1, <5>2, Zenon
      <4>4. ToHeld' = ToImages' \o AfterSend /\ ToHeld = ToImages \o held
        <5>1. ToImages \in Seq(Items) /\ Filled \in Seq(Items) /\ held \in Seq(Items)
          BY <1>0 DEF AreSequences, StartsAreSequences
        <5>2. (ToImages \o Filled) \o held = ToImages \o (Filled \o held)
          BY <5>1, Regrouped, SMTT(30)
        <5>3. ToImages' \in Seq(Items) /\ Filled' \in Seq(Items) /\ held' \in Seq(Items)
          BY <1>0 DEF AreSequences, StartsAreSequences
        <5>4. (ToImages' \o Filled') \o held' = ToImages' \o (Filled' \o held')
          BY <5>3, Regrouped, SMTT(30)
        <5> QED
          BY <4>3, <5>2, <5>4 DEF ToHeld, ToFilled
      <4>5. Within(AfterSend \o Decoded', held \o Decoded)
        <5>1. held \o Decoded \in Seq(Items)
          BY <1>0, ConcatProperties DEF AreSequences
        <5> QED
          BY <2>3, <2>4, <5>1, WithinItself
      <4>6. Within((ToImages' \o AfterSend) \o Decoded', (ToImages \o held) \o Decoded)
        BY <1>0, <2>2, <4>5, Handed DEF AreSequences, StartsAreSequences
      <4>7. Within(ToDecoded', ToDecoded)
        BY <4>4, <4>6 DEF ToDecoded
      <4> QED
        BY <1>0, <1>1, <2>4, <4>7, LessOfEach, Onward
    <3> QED
      BY <1>9, <3>2, <3>3
  <2>6. Contents' = Contents
    <3>1. CASE DecodeNoOutput
      BY <1>0, <3>1, RingQuiet DEF DecodeNoOutput
    <3>2. CASE DecodeOutput
      BY <1>0, <2>2, <3>2, HeadInFront, RingFills DEF DecodeOutput
    <3> QED
      BY <1>9, <3>1, <3>2
  <2> QED
    BY <1>0, <1>3, <2>5, <2>6, LessOfEach, Onward
<1> QED
  BY <1>5, <1>6, <1>7, <1>8, <1>9 DEF VideoStep, DecodeCall


(* and the thread that reads packets, which adds to the line.              *)
Upcoming == [seek |-> seeks, number |-> next]

(* What was to be read next is the last in the line.                       *)
LEMMA ReadAdds ==
    ASSUME PipelineInv, TextureInv, PipelineInv', TextureInv', ReadPacket
    PROVE  Upcoming \in Items /\ Line' = Append(Line, Upcoming)
<1>0. /\ AreSequences /\ StartsAreSequences /\ RingInv /\ RingInv' /\ PipelineTypeOK
  BY PlacesHold, Starts DEF PipelineInv
<1>1. Upcoming \in Items
  BY <1>0 DEF ReadPacket, PipelineTypeOK, Upcoming, Pictures
<1>2. /\ UNCHANGED <<ringVars, held, current, cached, frame, texture, store, draw>>
      /\ packets' = Append(packets, Upcoming)
  BY DEF ReadPacket, Packets!Put, Upcoming, videoVars, convertVars
<1>3. /\ Shown' = Shown /\ Due' = Due /\ Converted' = Converted /\ Contents' = Contents
      /\ Filled' = Filled /\ Decoded' = Decoded /\ Copied' = Copied
  BY <1>0, <1>2, SameShow, RingQuiet DEF Converted, Decoded, Copied
<1>4. ToCopied' = ToCopied
  BY <1>2, <1>3 DEF ToCopied, ToDecoded, ToHeld, ToFilled, ToImages, ToConverted, ToDue
<1>5. packets \in Seq(Items) /\ ToCopied \in Seq(Items) /\ Line \in Seq(Items)
  BY <1>0 DEF AreSequences, StartsAreSequences
<1>6. Line' = ToCopied \o (packets \o <<Upcoming>>)
  BY <1>1, <1>2, <1>4, <1>5, AppendIsMore, NextLineIs
<1>7. ToCopied \o (packets \o <<Upcoming>>) = (ToCopied \o packets) \o <<Upcoming>>
  BY <1>1, <1>5, AppendIsMore, Regrouped
<1> QED
  BY <1>1, <1>5, <1>6, <1>7, AppendIsMore, LineIs

(* Every other step leaves the line as it is or makes it shorter.          *)
LEMMA LineStep ==
    ASSUME PipelineInv, TextureInv, PipelineInv', TextureInv', [Next]_vars, ~ReadPacket
    PROVE  Within(Line', Line)
<1>0. AreSequences /\ AreSequences' /\ RingInv /\ RingInv' /\ Free \notin Items
  BY PlacesHold, NextPlacesHold DEF PipelineInv
<1>1. ASSUME UNCHANGED <<ringVars, frame, texture, store, draw, held, current>>,
             Copied' \in {Copied, <<>>}, packets' \in {packets, <<>>}
      PROVE  Within(Line', Line)
  <2>1. /\ Shown' = Shown /\ Due' = Due /\ Converted' = Converted /\ Contents' = Contents
        /\ Filled' = Filled /\ Decoded' = Decoded
    BY <1>0, <1>1, SameShow, RingQuiet DEF Converted, Decoded
  <2> QED
    BY <1>0, <1>1, <2>1, LessOfEach, Onward
<1>2. CASE StartSeek \/ ChangeState \/ UNCHANGED vars
  BY <1>1, <1>2 DEF StartSeek, ChangeState, vars, readVars, videoVars, convertVars, Copied
<1>3. CASE Reseek
  BY <1>1, <1>3 DEF Reseek, Packets!Empty, videoVars, convertVars, Copied
<1>4. CASE Parse
  <2>1. /\ UNCHANGED <<ringVars, frame, texture, store, draw, held, current>>
        /\ packets # <<>> /\ packets' = Tail(packets) /\ cached' = Head(packets)
        /\ packets \in Seq(Items)
    BY <1>0, <1>4 DEF Parse, Packets!Get, videoVars, convertVars, AreSequences
  <2>2. /\ Shown' = Shown /\ Due' = Due /\ Converted' = Converted /\ Contents' = Contents
        /\ Filled' = Filled /\ Decoded' = Decoded
    BY <1>0, <2>1, SameShow, RingQuiet DEF Converted, Decoded
  <2>3. Within(ToDecoded', ToDecoded)
    BY <1>0, <2>1, <2>2, LessOfEach, Onward
  <2>4. Copied' \o packets' = packets
    <3>1. Copied' = <<Head(packets)>>
      BY <2>1, HeadInFront, OptionalIs DEF Copied
    <3> QED
      BY <2>1, <3>1, HeadInFront
  <2>5. Within(Copied' \o packets', Copied \o packets)
    BY <1>0, <2>4, WithinRest DEF AreSequences
  <2>6. StartsAreSequences /\ StartsAreSequences'
    BY <1>0, Starts, NextStarts
  <2> QED
    BY <1>0, <2>3, <2>5, <2>6, Handed, LineIs, NextLineIs DEF AreSequences, StartsAreSequences, ToCopied
<1> QED
  BY <1>2, <1>3, <1>4, ShowStep, ConvertLess, DecodeLess DEF Next, ConvertStep

(* What is read next comes after all that is in the line.                  *)
LineInv == Ordered(Line) /\ AllBefore(Line, Upcoming)

(* To come before is transitive.                                           *)
LEMMA BeforeThat ==
    ASSUME NEW x \in Pictures, NEW m \in Nat, NEW n \in Nat, NEW p \in Nat, NEW q \in Nat,
           Before(x, [seek |-> m, number |-> n]), m < p \/ (m = p /\ n <= q)
    PROVE  Before(x, [seek |-> p, number |-> q])
BY DEF Before, Pictures

(* The line and what will be read next.                                    *)
LEMMA LineKept ==
    ASSUME PipelineInv, TextureInv, PipelineInv', TextureInv', LineInv, [Next]_vars
    PROVE  LineInv'
<1>0. /\ PipelineTypeOK /\ PipelineTypeOK' /\ AreSequences /\ AreSequences'
      /\ Line \in Seq(Items) /\ Line' \in Seq(Items)
  BY PlacesHold, NextPlacesHold, Starts, NextStarts DEF PipelineInv, StartsAreSequences
<1>1. seeks \in Nat /\ next \in Nat /\ seeks' \in Nat /\ next' \in Nat
  BY <1>0 DEF PipelineTypeOK
<1>2. CASE ReadPacket
  <2>1. Upcoming \in Items /\ Line' = Append(Line, Upcoming)
    BY <1>2, ReadAdds
  <2>2. /\ Len(Line') = Len(Line) + 1 /\ Line'[Len(Line) + 1] = Upcoming /\ Len(Line) \in Nat
        /\ \A i \in 1 .. Len(Line) : Line'[i] = Line[i]
        /\ DOMAIN Line = 1 .. Len(Line) /\ DOMAIN Line' = 1 .. Len(Line) + 1
    BY <1>0, <2>1, AppendProperties, LenProperties
  <2>3. Ordered(Line')
    <3>1. ASSUME NEW i \in DOMAIN Line', NEW j \in DOMAIN Line', i < j
          PROVE  Before(Line'[i], Line'[j])
      <4>1. i \in 1 .. Len(Line)
        BY <2>2, <3>1
      <4>2. CASE j \in 1 .. Len(Line)
        BY <2>2, <3>1, <4>1, <4>2 DEF LineInv, Ordered
      <4>3. CASE j = Len(Line) + 1
        BY <2>2, <4>1, <4>3 DEF LineInv, AllBefore
      <4> QED
        BY <2>2, <4>2, <4>3
    <3> QED
      BY <3>1 DEF Ordered
  <2>4. seeks' = seeks /\ next' = next + 1
    BY <1>2 DEF ReadPacket
  <2>5. AllBefore(Line', Upcoming')
    <3>1. ASSUME NEW i \in DOMAIN Line'
          PROVE  Before(Line'[i], Upcoming')
      <4>1. CASE i \in 1 .. Len(Line)
        <5>1. Line[i] \in Pictures /\ Before(Line[i], Upcoming)
          BY <1>0, <2>2, <4>1, ElementOfSeq DEF LineInv, AllBefore
        <5> QED
          BY <1>1, <2>2, <2>4, <4>1, <5>1, BeforeThat DEF Upcoming
      <4>2. CASE i = Len(Line) + 1
        BY <1>1, <2>2, <2>4, <4>2 DEF Upcoming, Before
      <4> QED
        BY <2>2, <4>1, <4>2
    <3> QED
      BY <3>1 DEF AllBefore
  <2> QED
    BY <2>3, <2>5 DEF LineInv
<1>3. CASE ~ReadPacket
  <2>1. Ordered(Line') /\ AllBefore(Line', Upcoming)
    BY <1>0, <1>3, LineStep, WithinOrdered DEF LineInv
  <2>2. seeks < seeks' \/ (seeks = seeks' /\ next <= next')
    <3>1. CASE Reseek
      BY <1>1, <3>1 DEF Reseek
    <3>2. CASE ~Reseek
      <4>1. seeks' = seeks /\ next' = next
        BY <1>3, <3>2 DEF Next, StartSeek, ChangeState, Parse, DrawNext, VideoStep, ConvertStep,
               DecodeCall, SkipPacket, CopyPacket, CopyFails, SkipFailed, DecodeFull, DecodeStart,
               DecodeAlloc, DecodeError, DecodeOutput, DecodeNoOutput, DecodeAdvance, DecodeCount,
               Check, StartFlush, EndFlush, notVideo, GetImage, SkipImage, GetFails, ReleaseImage,
               MoveImage, UncountImage, WriteTexture, StoreTexture, DropFrame, ClearImages,
               notConvert, readVars, vars
      <4> QED
        BY <1>1, <4>1
    <3> QED
      BY <3>1, <3>2
  <2>3. AllBefore(Line', Upcoming')
    <3>1. ASSUME NEW i \in DOMAIN Line'
          PROVE  Before(Line'[i], Upcoming')
      <4>1. Line'[i] \in Pictures /\ Before(Line'[i], Upcoming)
        BY <1>0, <2>1, ElementOfSeq, LenProperties DEF AllBefore
      <4> QED
        BY <1>1, <2>2, <4>1, BeforeThat DEF Upcoming
    <3> QED
      BY <3>1 DEF AllBefore
  <2> QED
    BY <2>1, <2>3 DEF LineInv
<1> QED
  BY <1>2, <1>3

(* However many pictures the five threads hold between them, and whatever  *)
(* fails, is skipped or sought meanwhile: from the screen back to the file *)
(* they are in the order of the file, each of them once, and none of those *)
(* read before a seek comes after one read since.                          *)
THEOREM PicturesInOrder == Spec => []InOrder
<1>1. Init => LineInv
  <2> SUFFICES ASSUME Init PROVE LineInv
    OBVIOUS
  <2>1. PipelineInv /\ TextureInv /\ AreSequences
    BY PipelineInit, PlacesHold
  <2>2. /\ Shown = <<>> /\ Converted = <<>> /\ Filled = <<>> /\ held = <<>>
        /\ Decoded = <<>> /\ Copied = <<>> /\ packets = <<>>
    <3>1. texture[OnScreen] = Free
      BY <2>1, TexturePlaces DEF Init, PipelineInv
    <3> QED
      BY <3>1 DEF Init, RingInit, Shown, Converted, Filled, Decoded, Copied, Optional
  <2>3. Due = <<>>
    <3>1. BufferHealth = 0
      BY DEF Init, BufferHealth
    <3> QED
      BY <2>1, <3>1, DueOnes, EmptySeq DEF DueIs
  <2>4. Contents = <<>>
    BY InitFifo DEF Init, Buffer!Init
  <2>5. Line = <<>>
    BY <2>2, <2>3, <2>4 DEF Line, Shown, Converted, Filled, Decoded, Copied
  <2> QED
    BY <2>5 DEF LineInv, Ordered, AllBefore
<1>2. LineInv => InOrder
  BY DEF LineInv, Ordered, InOrder
<1>3. PipelineInv /\ TextureInv /\ PipelineInv' /\ TextureInv' /\ LineInv /\ [Next]_vars => LineInv'
  BY LineKept
<1>4. PipelineInv /\ PipelineInv' /\ TextureInv /\ [Next]_vars => TextureInv'
  BY TexturesKept
<1>5. Init => TextureInv
  BY PipelineInit
<1> QED
  BY <1>1, <1>2, <1>3, <1>4, <1>5, PipelineInvariant, PTL DEF Spec
=============================================================================
