---------------------------- MODULE PlayerProofs ----------------------------
(***************************************************************************)
(* Proofs about Player, for every set of settings, every size of the       *)
(* buffers and of the queues, and any number of requests and files.        *)
(*                                                                         *)
(* Of a queue the proofs look at two things only: which events are in it,  *)
(* and which events are behind a given one. A notification that must be    *)
(* the only one of its kind is one that is never behind itself; one that   *)
(* must come after some others is one that has none of them behind it.     *)
(***************************************************************************)
EXTENDS Player, FiniteSetTheorems, TLAPS

Ids(q) == {q[i].id : i \in 1 .. Len(q)}
Behind(q, x) == {q[j].id : j \in {k \in 1 .. Len(q) : \E i \in 1 .. k - 1 : q[i].id = x}}

(* What a call of Util_queue_add at the back does, if there is room.       *)
Grown(q2, q, id) ==
    /\ \A x : x \in Ids(q) => x \in Ids(q2)
    /\ \A x : x \in Ids(q2) => x \in Ids(q) \/ x = id
    /\ \A x, y : y \in Behind(q2, x) => y \in Behind(q, x) \/ (y = id /\ x \in Ids(q))
    /\ Len(q) < QueueSize => id \in Ids(q2)

(* What a call of Util_queue_get does that takes an event id.              *)
Taken(q2, q, id) ==
    /\ id \in Ids(q)
    /\ \A x : x \in Ids(q2) => x \in Ids(q) /\ x \in Behind(q, id)
    /\ \A x : x \in Ids(q) => x \in Ids(q2) \/ x = id
    /\ \A x, y : y \in Behind(q2, x) => y \in Behind(q, x)

-----------------------------------------------------------------------------
(* Lemmas about queues.                                                    *)

(* The events of an empty queue, and a queue without events.               *)
LEMMA NoEvents ==
    /\ Ids(<<>>) = {} /\ \A x : Behind(<<>>, x) = {}
    /\ \A T : \A q \in Seq(T) : Ids(q) = {} => q = <<>>
<1>1. Ids(<<>>) = {} /\ \A x : Behind(<<>>, x) = {}
  BY DEF Ids, Behind
<1>2. ASSUME NEW T, NEW q \in Seq(T), Ids(q) = {}
      PROVE  q = <<>>
  <2>1. Len(q) \in Nat
    OBVIOUS
  <2>2. CASE Len(q) = 0
    BY <2>2
  <2>3. CASE Len(q) # 0
    <3>1. 1 \in 1 .. Len(q)
      BY <2>1, <2>3
    <3>2. q[1].id \in Ids(q)
      BY <3>1 DEF Ids
    <3> QED
      BY <3>2, <1>2
  <2> QED
    BY <2>2, <2>3
<1> QED
  BY <1>1, <1>2

(* HasEvent in terms of Ids.                                               *)
LEMMA HasEventIds ==
    ASSUME NEW q, NEW x
    PROVE  HasEvent(q, x) <=> x \in Ids(q)
BY DEF HasEvent, Ids

(* What is behind an event is in the queue, and so is the event.           *)
LEMMA BehindIds ==
    ASSUME NEW q, NEW x, NEW y \in Behind(q, x), NEW T, q \in Seq(T)
    PROVE  y \in Ids(q) /\ x \in Ids(q)
BY DEF Behind, Ids

(* An item appended to a queue.                                            *)
LEMMA AppendGrows ==
    ASSUME NEW T, NEW q \in Seq(T), NEW e \in T
    PROVE  /\ Grown(Append(q, e), q, e.id)
           /\ e.id \in Ids(Append(q, e))
<1> DEFINE r == Append(q, e)
<1>1. /\ Len(r) = Len(q) + 1 /\ Len(q) \in Nat /\ r[Len(q) + 1] = e
      /\ \A i \in 1 .. Len(q) : r[i] = q[i]
  OBVIOUS
<1> HIDE DEF r
<1>2. \A x : x \in Ids(q) => x \in Ids(r)
  BY <1>1 DEF Ids
<1>3. e.id \in Ids(r)
  BY <1>1 DEF Ids
<1>4. ASSUME NEW x \in Ids(r)
      PROVE  x \in Ids(q) \/ x = e.id
  <2>1. PICK i \in 1 .. Len(r) : x = r[i].id
    BY DEF Ids
  <2>2. CASE i = Len(q) + 1
    BY <2>1, <2>2, <1>1
  <2>3. CASE i \in 1 .. Len(q)
    BY <2>1, <2>3, <1>1 DEF Ids
  <2> QED
    BY <2>2, <2>3, <1>1
<1>5. ASSUME NEW x, NEW y \in Behind(r, x)
      PROVE  y \in Behind(q, x) \/ (y = e.id /\ x \in Ids(q))
  <2>1. PICK j \in 1 .. Len(r) : y = r[j].id /\ \E i \in 1 .. j - 1 : r[i].id = x
    BY DEF Behind
  <2>2. PICK i \in 1 .. j - 1 : r[i].id = x
    BY <2>1
  <2>3. i \in 1 .. Len(q) /\ q[i].id = x
    BY <2>2, <1>1
  <2>4. CASE j = Len(q) + 1
    BY <2>1, <2>3, <2>4, <1>1 DEF Ids
  <2>5. CASE j \in 1 .. Len(q)
    BY <2>1, <2>2, <2>3, <2>5, <1>1 DEF Behind
  <2> QED
    BY <2>4, <2>5, <1>1
<1> QED
  BY <1>2, <1>3, <1>4, <1>5 DEF Grown, r

(* A call that adds nothing, because the queue is full or the event is     *)
(* there already.                                                          *)
LEMMA SameGrows ==
    ASSUME NEW q, NEW id, Len(q) < QueueSize => id \in Ids(q)
    PROVE  Grown(q, q, id)
BY DEF Grown

(* The calls of Util_queue_add in video_player.c keep the type of the      *)
(* queue; those at the back make it grow.                                  *)
LEMMA AddGrows ==
    ASSUME NEW S, NEW q \in Seq(Item1(S)), NEW id \in S
    PROVE  /\ Add(q, id) \in Seq(Item1(S)) /\ AddOnce(q, id) \in Seq(Item1(S))
           /\ AddFront(q, id) \in Seq(Item1(S))
           /\ Grown(Add(q, id), q, id) /\ Grown(AddOnce(q, id), q, id)
<1> DEFINE e == Item(id, "none")
<1>0. e \in Item1(S) /\ e.id = id
  BY DEF Item, Item1
<1>1. Append(q, e) \in Seq(Item1(S)) /\ <<e>> \o q \in Seq(Item1(S))
  BY <1>0
<1>2. Grown(Append(q, e), q, id)
  BY <1>0, AppendGrows
<1>3. Len(q) \in Nat /\ QueueSize \in Nat
  BY PlayerAssumption
<1>4. Add(q, id) = Append(q, e) \/ (Add(q, id) = q /\ ~(Len(q) < QueueSize))
  BY <1>3 DEF Add, AfterAdd, WillStore, InsertItem, IsFull
<1>5. \/ AddOnce(q, id) = Append(q, e)
      \/ AddOnce(q, id) = q /\ (Len(q) < QueueSize => id \in Ids(q))
  BY <1>3, HasEventIds DEF AddOnce, AfterAdd, WillStore, InsertItem, IsFull
<1>6. AddFront(q, id) \in {q, <<e>> \o q}
  BY DEF AddFront, AfterAdd, WillStore, InsertItem
<1> HIDE DEF e
<1> QED
  BY <1>1, <1>2, <1>4, <1>5, <1>6, SameGrows

(* A call of Util_queue_get takes the first event.                         *)
LEMMA TailTaken ==
    ASSUME NEW T, NEW q \in Seq(T), q # <<>>
    PROVE  Taken(Tail(q), q, Head(q).id) /\ Tail(q) \in Seq(T) /\ Head(q) \in T
<1> DEFINE r == Tail(q)
<1>1. /\ Len(q) \in Nat /\ Len(q) > 0 /\ Len(r) = Len(q) - 1
      /\ \A i \in 1 .. Len(r) : r[i] = q[i + 1]
      /\ Head(q) = q[1] /\ r \in Seq(T) /\ q[1] \in T
  OBVIOUS
<1> HIDE DEF r
<1>2. Head(q).id \in Ids(q)
  BY <1>1 DEF Ids
<1>3. ASSUME NEW x \in Ids(r)
      PROVE  x \in Ids(q) /\ x \in Behind(q, Head(q).id)
  <2>1. PICK i \in 1 .. Len(r) : x = r[i].id
    BY DEF Ids
  <2>2. i + 1 \in 1 .. Len(q) /\ x = q[i + 1].id /\ 1 \in 1 .. (i + 1) - 1
    BY <2>1, <1>1
  <2> QED
    BY <2>2, <1>1 DEF Ids, Behind
<1>4. ASSUME NEW x \in Ids(q)
      PROVE  x \in Ids(r) \/ x = Head(q).id
  <2>1. PICK i \in 1 .. Len(q) : x = q[i].id
    BY DEF Ids
  <2>2. CASE i = 1
    BY <2>1, <2>2, <1>1
  <2>3. CASE i # 1
    <3>1. i - 1 \in 1 .. Len(r) /\ r[i - 1] = q[i]
      BY <2>3, <1>1
    <3> QED
      BY <3>1, <2>1 DEF Ids
  <2> QED
    BY <2>2, <2>3
<1>5. ASSUME NEW x, NEW y \in Behind(r, x)
      PROVE  y \in Behind(q, x)
  <2>1. PICK j \in 1 .. Len(r) : y = r[j].id /\ \E i \in 1 .. j - 1 : r[i].id = x
    BY DEF Behind
  <2>2. PICK i \in 1 .. j - 1 : r[i].id = x
    BY <2>1
  <2>3. j + 1 \in 1 .. Len(q) /\ i + 1 \in 1 .. (j + 1) - 1 /\ i \in 1 .. Len(r)
    BY <2>1, <2>2, <1>1
  <2>4. q[j + 1].id = y /\ q[i + 1].id = x
    BY <2>1, <2>2, <2>3, <1>1
  <2> QED
    BY <2>3, <2>4 DEF Behind
<1> QED
  BY <1>1, <1>2, <1>3, <1>4, <1>5 DEF Taken, r

(* A queue of three kinds of events, none twice, has three events at most. *)
LEMMA OfEachOne ==
    ASSUME NEW a, NEW b, NEW c, NEW q \in Seq(Item1({a, b, c})),
           \A x \in {a, b, c} : x \notin Behind(q, x)
    PROVE  Len(q) <= 3
<1> SUFFICES ASSUME Len(q) > 3
             PROVE  FALSE
  OBVIOUS
<1>1. \A i \in 1 .. 4 : i \in 1 .. Len(q) /\ q[i].id \in {a, b, c}
  <2>1. ASSUME NEW i \in 1 .. 4
        PROVE  i \in 1 .. Len(q)
    OBVIOUS
  <2>2. ASSUME NEW i \in 1 .. Len(q)
        PROVE  q[i].id \in {a, b, c}
    <3>1. q[i] \in Item1({a, b, c})
      OBVIOUS
    <3> QED
      BY <3>1 DEF Item1
  <2> QED
    BY <2>1, <2>2
<1>2. ASSUME NEW i \in 1 .. 4, NEW j \in 1 .. 4, i < j
      PROVE  q[i].id # q[j].id
  <2>1. j \in 1 .. Len(q) /\ i \in 1 .. j - 1
    BY <1>1, <1>2
  <2>2. q[j].id \in Behind(q, q[i].id)
    BY <2>1 DEF Behind
  <2> QED
    BY <2>2, <1>1
<1> QED
  BY <1>1, <1>2

-----------------------------------------------------------------------------
(* The inductive invariant, in parts.                                      *)

(* The playback state and what the user wants; a file is being opened only *)
(* in the state of one that plays.                                         *)
Intent == IntentKept /\ (dpc = "open" => state = "PLAYING" /\ wants)

(* No file is read: there is none, it is being opened, or the workers have *)
(* all answered the abort.                                                 *)
AtRest == dpc \in {"open", "close"} \/ ~FileOpen

Answers == {"FINISHED_READING", "EOF", "FINISHED_SEEKING"}

ReaderQuiet == readQ = <<>> /\ rpc = "take"
VideoQuiet == videoQ = <<>> /\ vpc = "take"
ConvertQuiet ==
    /\ ~shouldConvert /\ cpc \in {"take", "clear", "look"}
    /\ \A x \in Ids(convertQ) : x = "CLEAR"

(* The abort goes from worker to worker. One that has been asked for its   *)
(* answer does nothing after it, except that the convert thread may still  *)
(* clear the images for the video decoder, and nothing it said before is   *)
(* behind the answer.                                                      *)
ReaderPhase ==
    /\ "ABORT" \in Ids(readQ) \/ "READ_ABORTED" \in Ids(notifQ) => dpc = "abortRead"
    /\ "ABORT" \notin Behind(readQ, "ABORT")
    /\ "READ_ABORTED" \in Ids(notifQ) =>
        /\ ReaderQuiet
        /\ \A x \in Behind(notifQ, "READ_ABORTED") : x \notin Answers \cup {"READ_ABORTED"}
    /\ dpc \in {"abortConvert", "abortVideo"} \/ AtRest =>
        /\ ReaderQuiet
        /\ \A x \in Ids(notifQ) : x \notin Answers

ConvertPhase ==
    /\ "ABORT" \in Ids(convertQ) \/ "CONVERT_ABORTED" \in Ids(notifQ) => dpc = "abortConvert"
    /\ "ABORT" \notin Behind(convertQ, "ABORT")
    /\ "CONVERT_ABORTED" \in Ids(notifQ) =>
        /\ ConvertQuiet
        /\ \A x \in Behind(notifQ, "CONVERT_ABORTED") : x \in {"FINISHED_COPYING", "FINISHED_CLEARING"}
    /\ dpc = "abortVideo" \/ AtRest =>
        /\ ConvertQuiet
        /\ \A x \in Ids(notifQ) : x \in {"FINISHED_COPYING", "FINISHED_CLEARING", "VIDEO_ABORTED"}

VideoPhase ==
    /\ "ABORT" \in Ids(videoQ) \/ "VIDEO_ABORTED" \in Ids(notifQ) => dpc = "abortVideo"
    /\ "ABORT" \notin Behind(videoQ, "ABORT")
    /\ "VIDEO_ABORTED" \in Ids(notifQ) =>
        /\ VideoQuiet
        /\ \A x \in Behind(notifQ, "VIDEO_ABORTED") : x = "FINISHED_CLEARING"
    /\ AtRest =>
        /\ VideoQuiet
        /\ \A x \in Ids(notifQ) : x = "FINISHED_CLEARING"

Phases == (Ending => FileOpen) /\ ReaderPhase /\ ConvertPhase /\ VideoPhase

(* There is one request to read at most, or one answer to it, and then     *)
(* is_read_packet_thread_active is set.                                    *)
Reading == rpc \in {"read", "check"}
ReadOnce ==
    /\ "READ" \in Ids(readQ) \/ Reading => active
    /\ "READ" \in Ids(readQ) => ~Reading
    /\ "READ" \notin Behind(readQ, "READ")
    /\ \A x \in {"FINISHED_READING", "EOF"} :
        /\ x \notin Behind(notifQ, x)
        /\ x \in Ids(notifQ) => active /\ "READ" \notin Ids(readQ) /\ ~Reading
    /\ ~("FINISHED_READING" \in Ids(notifQ) /\ "EOF" \in Ids(notifQ))

(* The same about a packet to decode and is_waiting_video_decoder.         *)
CopyOnce ==
    /\ "DECODE" \in Ids(videoQ) \/ vpc = "copy" \/ "FINISHED_COPYING" \in Ids(notifQ) => waiting
    /\ "DECODE" \in Ids(videoQ) => vpc # "copy"
    /\ "DECODE" \notin Behind(videoQ, "DECODE")
    /\ "FINISHED_COPYING" \in Ids(notifQ) => "DECODE" \notin Ids(videoQ) /\ vpc # "copy"
    /\ "FINISHED_COPYING" \notin Behind(notifQ, "FINISHED_COPYING")

(* The slot is in use only by the packet the decode thread waits for, or   *)
(* by one whose copy has failed and that is about to be skipped.           *)
SlotHeld ==
    cached =>
        /\ FileOpen
        /\ vpc = "skip" \/ (waiting /\ "FINISHED_COPYING" \notin Ids(notifQ))

(* Without video nothing is decoded, converted, cleared or buffered.       *)
AudioOnly ==
    ~HasVideo =>
        /\ state # "BUFFERING" /\ ~shouldConvert /\ cpc \in {"take", "look"} /\ vpc = "take"
        /\ \A x \in Ids(videoQ) : x = "ABORT"
        /\ "CLEAR" \notin Ids(convertQ)
        /\ \A x \in {"FINISHED_COPYING", "FINISHED_CLEARING", "FINISHED_BUFFERING", "OUT_OF_BUFFER"} :
               x \notin Ids(notifQ)

(* Where the seek is. In a session that did not begin with a late clear it *)
(* is in one place at most, once, and only while the player prepares it.   *)
InReader == "SEEK" \in Ids(readQ) \/ rpc = "seek"
IsSought == "FINISHED_SEEKING" \in Ids(notifQ)
InDecoder == "CLEAR" \in Ids(videoQ) \/ vpc = "flush"
InConverter == "CLEAR" \in Ids(convertQ) \/ cpc = "clear"
IsCleared == "FINISHED_CLEARING" \in Ids(notifQ)

SeekOnce ==
    /\ "SEEK" \in Ids(readQ) => rpc # "seek"
    /\ "SEEK" \notin Behind(readQ, "SEEK")
    /\ "FINISHED_SEEKING" \notin Behind(notifQ, "FINISHED_SEEKING")
    /\ "CLEAR" \in Ids(videoQ) => vpc # "flush"
    /\ "CLEAR" \notin Behind(videoQ, "CLEAR")
    /\ "CLEAR" \in Ids(convertQ) => cpc # "clear"
    /\ "FINISHED_CLEARING" \notin Behind(notifQ, "FINISHED_CLEARING")

SeekInOnePlace ==
    /\ InReader \/ IsSought \/ InDecoder \/ InConverter \/ IsCleared => state = "PREPARE_SEEKING"
    /\ InReader => ~IsSought /\ ~InDecoder /\ ~InConverter /\ ~IsCleared
    /\ IsSought => ~InDecoder /\ ~InConverter /\ ~IsCleared
    /\ InDecoder => ~InConverter /\ ~IsCleared
    /\ InConverter => ~IsCleared

(* The video decoder has nothing to do once it was asked to clear, and the *)
(* images buffered before a seek are not spoken of after it.               *)
SeekInOrder ==
    /\ \A x \in Behind(videoQ, "CLEAR") : x = "ABORT"
    /\ vpc = "flush" \/ InConverter \/ IsCleared => \A x \in Ids(videoQ) : x = "ABORT"
    /\ InConverter \/ IsCleared => vpc = "take"
    /\ IsCleared => "FINISHED_BUFFERING" \notin Behind(notifQ, "FINISHED_CLEARING") /\ cpc # "full"
    /\ state = "SEEKING" => "FINISHED_BUFFERING" \notin Ids(notifQ) /\ cpc # "full"

SeekAlone ==
    ~late =>
        /\ FileOpen => SeekOnce /\ SeekInOnePlace /\ SeekInOrder
        /\ "CLEAR" \notin Behind(convertQ, "CLEAR")

(* The convert thread is told once per session that a file is open.        *)
ConvertOnce == "CONVERT" \notin Behind(convertQ, "CONVERT")

Inv ==
    /\ TypeOK /\ Intent /\ Phases /\ ReadOnce /\ CopyOnce /\ SlotHeld
    /\ AudioOnly /\ SeekAlone /\ ConvertOnce

-----------------------------------------------------------------------------
(* What is known of the constants.                                         *)
LEMMA SettingTypes ==
    ASSUME setting \in Settings
    PROVE  /\ FileLen \in Nat /\ MaxPackets \in Nat /\ MaxPackets >= 2
           /\ HasVideo \in BOOLEAN /\ Repeat \in BOOLEAN
           /\ setting.requests \in [RequestKinds -> Nat]
BY PlayerAssumption DEF Setting, FileLen, MaxPackets, HasVideo, Repeat

(* The bounds are numbers.                                                 *)
LEMMA BoundTypes ==
    /\ MaxImages \in Nat /\ MaxImages >= 2 /\ Threshold \in Nat
    /\ MaxDup \in Nat /\ QueueSize \in Nat
BY PlayerAssumption

(* The invariant holds before the first step.                              *)
LEMMA InitInv == Init => Inv
<1> SUFFICES ASSUME Init
             PROVE  Inv
  OBVIOUS
<1> USE DEF Init
<1>1. TypeOK
  <2>1. setting \in Settings /\ budget \in [RequestKinds -> Nat]
    BY SettingTypes
  <2>2. packets \in 0 .. MaxPackets - 1 /\ left \in 0 .. FileLen /\ images \in 0 .. MaxImages - 1
    BY <2>1, SettingTypes, BoundTypes
  <2>3. /\ cmdQ \in Seq(Item1(Commands)) /\ notifQ \in Seq(Item1(Notifications))
        /\ readQ \in Seq(Item1({"READ", "SEEK", "ABORT"}))
        /\ videoQ \in Seq(Item1({"DECODE", "CLEAR", "ABORT"}))
        /\ convertQ \in Seq(Item1({"CONVERT", "CLEAR", "ABORT"}))
    OBVIOUS
  <2>4. seen \in 0 .. MaxImages - 1
    BY BoundTypes
  <2>5. /\ {resumeLater, eof, run, active, waiting, ready, cached, shouldConvert, mustResume} \subseteq BOOLEAN
        /\ {wants, late} \subseteq BOOLEAN
    OBVIOUS
  <2> QED
    BY <2>1, <2>2, <2>3, <2>4, <2>5 DEF TypeOK, NoFile, Ends
<1>2. Intent
  BY DEF Intent, IntentKept
<1>3. AtRest /\ ~Ending
  BY DEF AtRest, FileOpen, NoFile, Ending, Aborting
<1>4. Phases
  BY <1>3, NoEvents DEF Phases, ReaderPhase, ConvertPhase, VideoPhase, ReaderQuiet, ConvertQuiet, VideoQuiet
<1>5. ReadOnce /\ CopyOnce /\ SlotHeld /\ ConvertOnce
  BY NoEvents DEF ReadOnce, CopyOnce, SlotHeld, ConvertOnce, Reading
<1>6. AudioOnly
  BY NoEvents DEF AudioOnly
<1>7. SeekAlone
  BY NoEvents DEF SeekAlone, FileOpen, NoFile
<1> QED
  BY <1>1, <1>2, <1>4, <1>5, <1>6, <1>7 DEF Inv

(* What the calls on the queues do.                                        *)
ReadEvents == {"READ", "SEEK", "ABORT"}
VideoEvents == {"DECODE", "CLEAR", "ABORT"}
ConvertEvents == {"CONVERT", "CLEAR", "ABORT"}

(* ... on the workers' queues and on the notifications, at the back,       *)
LEMMA Calls ==
    ASSUME TypeOK
    PROVE  /\ \A id \in Notifications :
                  /\ Add(notifQ, id) \in Seq(Item1(Notifications)) /\ Grown(Add(notifQ, id), notifQ, id)
                  /\ AddOnce(notifQ, id) \in Seq(Item1(Notifications)) /\ Grown(AddOnce(notifQ, id), notifQ, id)
           /\ \A id \in ReadEvents :
                  Add(readQ, id) \in Seq(Item1(ReadEvents)) /\ Grown(Add(readQ, id), readQ, id)
           /\ \A id \in VideoEvents :
                  Add(videoQ, id) \in Seq(Item1(VideoEvents)) /\ Grown(Add(videoQ, id), videoQ, id)
           /\ \A id \in ConvertEvents :
                  Add(convertQ, id) \in Seq(Item1(ConvertEvents)) /\ Grown(Add(convertQ, id), convertQ, id)
BY AddGrows DEF TypeOK, ReadEvents, VideoEvents, ConvertEvents

(* ... and at the front.                                                   *)
LEMMA Takes ==
    ASSUME TypeOK
    PROVE  /\ notifQ # <<>> => /\ Tail(notifQ) \in Seq(Item1(Notifications)) /\ Taken(Tail(notifQ), notifQ, Head(notifQ).id)
                               /\ Head(notifQ).id \in Notifications
           /\ readQ # <<>> => /\ Tail(readQ) \in Seq(Item1(ReadEvents)) /\ Taken(Tail(readQ), readQ, Head(readQ).id)
                              /\ Head(readQ).id \in ReadEvents
           /\ videoQ # <<>> => /\ Tail(videoQ) \in Seq(Item1(VideoEvents)) /\ Taken(Tail(videoQ), videoQ, Head(videoQ).id)
                               /\ Head(videoQ).id \in VideoEvents
           /\ convertQ # <<>> => /\ Tail(convertQ) \in Seq(Item1(ConvertEvents)) /\ Taken(Tail(convertQ), convertQ, Head(convertQ).id)
                                 /\ Head(convertQ).id \in ConvertEvents
<1>1. ASSUME NEW S, NEW e \in Item1(S)
      PROVE  e.id \in S
  BY DEF Item1
<1> QED
  BY <1>1, TailTaken DEF TypeOK, ReadEvents, VideoEvents, ConvertEvents

(* The requests to the decode thread only have their types.                *)
LEMMA Requests ==
    ASSUME TypeOK
    PROVE  /\ \A id \in Commands :
                  /\ Add(cmdQ, id) \in Seq(Item1(Commands)) /\ AddOnce(cmdQ, id) \in Seq(Item1(Commands))
                  /\ AddFront(cmdQ, id) \in Seq(Item1(Commands))
           /\ cmdQ # <<>> =>
                  /\ Tail(cmdQ) \in Seq(Item1(Commands))
                  /\ \A id \in Commands : AddOnce(Tail(cmdQ), id) \in Seq(Item1(Commands))
                  /\ \A x \in Commands, y \in Commands : Add(Add(Tail(cmdQ), x), y) \in Seq(Item1(Commands))
<1>1. cmdQ \in Seq(Item1(Commands))
  BY DEF TypeOK
<1>2. cmdQ # <<>> => Tail(cmdQ) \in Seq(Item1(Commands))
  BY <1>1, TailTaken
<1> QED
  BY <1>1, <1>2, AddGrows

-----------------------------------------------------------------------------
(* Types.                                                                  *)

(* The user's side only makes requests.                                    *)
LEMMA UserLeaves ==
    ASSUME User \/ HomeWaited
    PROVE  UNCHANGED <<state, resumeLater, eof, run, dpc, event, active, waiting, notifQ, readQ,
                       videoQ, convertQ, left, packets, images, ready, cached, rpc, vpc, cpc,
                       shouldConvert, seen, setting, wants, late>>
BY DEF User, HomeWaited, AskPlay, AskPause, AskResume, AskSeek, AskAbort, AskPick, AskShutdown,
       HomePressed, KeyboardAsked, HomeLeft, Ask, Interrupt,
       playerVars, decodeVars, mediaVars, convertVars, history

(* The user's side keeps the types of what it changes.                     *)
LEMMA UserTypes ==
    ASSUME TypeOK, User \/ HomeWaited
    PROVE  /\ cmdQ' \in Seq(Item1(Commands)) /\ budget' \in [RequestKinds -> Nat]
           /\ home' \in {"none", "waiting", "asked", "menu", "keyboard"} /\ mustResume' \in BOOLEAN
<1>1. cmdQ' \in Seq(Item1(Commands))
  <2>1. cmdQ \in Seq(Item1(Commands))
    BY DEF TypeOK
  <2> QED
    BY <2>1, Requests DEF User, HomeWaited, AskPlay, AskPause, AskResume, AskSeek, AskAbort, AskPick, AskShutdown,
       HomePressed, KeyboardAsked, HomeLeft, Commands, RequestKinds
<1>2. ASSUME NEW kind \in RequestKinds, Spend(kind)
      PROVE  budget' \in [RequestKinds -> Nat]
  BY <1>2 DEF Spend, TypeOK
<1>3. budget' \in [RequestKinds -> Nat]
  <2>1. budget \in [RequestKinds -> Nat]
    BY DEF TypeOK
  <2>2. \/ \E kind \in RequestKinds : Spend(kind)
        \/ budget' = [kind \in RequestKinds |-> 0]
        \/ budget' = budget
    BY DEF User, HomeWaited, AskPlay, AskPause, AskResume, AskSeek, AskAbort, AskPick, AskShutdown,
           HomePressed, KeyboardAsked, HomeLeft, Ask, Interrupt, RequestKinds
  <2> QED
    BY <1>2, <2>1, <2>2
<1>4. home' \in {"none", "waiting", "asked", "menu", "keyboard"}
  BY DEF TypeOK, User, HomeWaited, AskPlay, AskPause, AskResume, AskSeek, AskAbort, AskPick, AskShutdown,
       HomePressed, KeyboardAsked, HomeLeft, Ask, Interrupt
<1>5. mustResume' \in BOOLEAN
  <2>1. mustResume \in BOOLEAN
    BY DEF TypeOK
  <2> QED
  BY <2>1 DEF User, HomeWaited, AskPlay, AskPause, AskResume, AskSeek, AskAbort, AskPick, AskShutdown,
       HomePressed, KeyboardAsked, HomeLeft, Ask, Interrupt
<1> QED
  BY <1>1, <1>3, <1>4, <1>5

(* What the decode thread leaves alone.                                    *)
LEMMA DecodeLeaves ==
    ASSUME DecodeThread
    PROVE  UNCHANGED <<rpc, vpc, cpc, shouldConvert, seen, budget, home, mustResume, setting>>
<1> USE DEF workersVars, userVars, convertVars
<1>1. Command => UNCHANGED <<rpc, vpc, cpc, shouldConvert, seen, budget, home, mustResume, setting>>
  BY DEF Command, NoCommand, Play, PlayOpened, PlayFailed, PlayLater, Pause, Resume, KeepRam, SeekIgnored, SeekLater,
         Seek, Simple, EndIdle, End, Take
<1>2. Abort => UNCHANGED <<rpc, vpc, cpc, shouldConvert, seen, budget, home, mustResume, setting>>
  BY DEF Abort, Drain, Answered, ReadAborted, ConvertAborted, VideoAborted, Close
<1>3. Notification => UNCHANGED <<rpc, vpc, cpc, shouldConvert, seen, budget, home, mustResume, setting>>
  BY DEF Notification, NoNotification, NoteRead, NoteSeeking, NoteCopying, NoteBuffering, NoteOutOfBuffer,
         NoteCleared, Noted
<1>4. DecodeStep => UNCHANGED <<rpc, vpc, cpc, shouldConvert, seen, budget, home, mustResume, setting>>
  BY DEF DecodeStep, StepNothing, StepEnd, StepWait, StepFull, StepTryAgain, StepParse, Step
<1> QED
  BY <1>1, <1>2, <1>3, <1>4 DEF DecodeThread

(* The decode thread keeps the types of the queues,                        *)
LEMMA DecodeQueues ==
    ASSUME TypeOK, DecodeThread
    PROVE  /\ cmdQ' \in Seq(Item1(Commands)) /\ notifQ' \in Seq(Item1(Notifications))
           /\ readQ' \in Seq(Item1(ReadEvents)) /\ videoQ' \in Seq(Item1(VideoEvents))
           /\ convertQ' \in Seq(Item1(ConvertEvents))
<1>1. /\ cmdQ \in Seq(Item1(Commands)) /\ notifQ \in Seq(Item1(Notifications))
      /\ readQ \in Seq(Item1(ReadEvents)) /\ videoQ \in Seq(Item1(VideoEvents))
      /\ convertQ \in Seq(Item1(ConvertEvents))
  BY DEF TypeOK, ReadEvents, VideoEvents, ConvertEvents
<1>2. Command => cmdQ' \in Seq(Item1(Commands))
  BY <1>1, Requests DEF Command, NoCommand, Play, PlayOpened, PlayFailed, PlayLater, Pause, Resume, KeepRam, SeekIgnored, SeekLater,
         Seek, Simple, EndIdle, End, Take, Next1, Commands, RequestKinds
<1>3. Command => /\ notifQ' \in Seq(Item1(Notifications))
      /\ readQ' \in Seq(Item1(ReadEvents)) /\ videoQ' \in Seq(Item1(VideoEvents))
      /\ convertQ' \in Seq(Item1(ConvertEvents))
  BY <1>1, Calls DEF Command, NoCommand, Play, PlayOpened, PlayFailed, PlayLater, Pause, Resume, KeepRam, SeekIgnored, SeekLater,
         Seek, Simple, EndIdle, End, Take, ReadEvents, ConvertEvents
<1>4. Abort => /\ cmdQ' \in Seq(Item1(Commands)) /\ notifQ' \in Seq(Item1(Notifications))
      /\ readQ' \in Seq(Item1(ReadEvents)) /\ videoQ' \in Seq(Item1(VideoEvents))
      /\ convertQ' \in Seq(Item1(ConvertEvents))
  BY <1>1, Calls, Takes, Requests DEF Abort, Drain, Answered, ReadAborted, ConvertAborted, VideoAborted, Close, Next1, Commands, RequestKinds,
     VideoEvents, ConvertEvents
<1>5. Notification => /\ cmdQ' \in Seq(Item1(Commands)) /\ notifQ' \in Seq(Item1(Notifications))
      /\ readQ' \in Seq(Item1(ReadEvents)) /\ videoQ' \in Seq(Item1(VideoEvents))
      /\ convertQ' \in Seq(Item1(ConvertEvents))
  BY <1>1, Calls, Takes DEF Notification, NoNotification, NoteRead, NoteSeeking, NoteCopying, NoteBuffering, NoteOutOfBuffer,
         NoteCleared, Noted, VideoEvents
<1>6. DecodeStep => /\ cmdQ' \in Seq(Item1(Commands)) /\ notifQ' \in Seq(Item1(Notifications))
      /\ readQ' \in Seq(Item1(ReadEvents)) /\ videoQ' \in Seq(Item1(VideoEvents))
      /\ convertQ' \in Seq(Item1(ConvertEvents))
  BY <1>1, Calls, Requests DEF DecodeStep, StepNothing, StepEnd, StepWait, StepFull, StepTryAgain, StepParse, Step, Refill, StopBuffering,
     Notifications, ReadEvents, VideoEvents, Commands
<1> QED
  BY <1>2, <1>3, <1>4, <1>5, <1>6 DEF DecodeThread

(* ... of the state and of where it is,                                    *)
LEMMA DecodePlaces ==
    ASSUME TypeOK, DecodeThread
    PROVE  /\ state' \in NoFile \cup Decoding \cup {"PREPARE_SEEKING"}
           /\ dpc' \in {"command", "open", "notification", "step", "exited"} \cup Aborting
           /\ event' \in Ends \cup {"NONE"}
<1>1. /\ state \in NoFile \cup Decoding \cup {"PREPARE_SEEKING"}
           /\ dpc \in {"command", "open", "notification", "step", "exited"} \cup Aborting
           /\ event \in Ends \cup {"NONE"}
  BY DEF TypeOK
<1> USE DEF NoFile, Decoding, Aborting, Ends
<1>2. CASE Command
  BY <1>1, <1>2 DEF Command, NoCommand, Play, PlayOpened, PlayFailed, PlayLater, Pause, Resume, KeepRam, SeekIgnored, SeekLater,
         Seek, Simple, EndIdle, End, Take, playerVars
<1>3. CASE Abort
  BY <1>1, <1>3 DEF Abort, Drain, Answered, ReadAborted, ConvertAborted, VideoAborted, Close, playerVars, decodeVars
<1>4. CASE Notification
  BY <1>1, <1>4 DEF Notification, NoNotification, NoteRead, NoteSeeking, NoteCopying, NoteBuffering, NoteOutOfBuffer,
         NoteCleared, Noted, playerVars
<1>5. CASE DecodeStep
  BY <1>1, <1>5 DEF DecodeStep, StepNothing, StepEnd, StepWait, StepFull, StepTryAgain, StepParse, Step, StopBuffering
<1> QED
  BY <1>2, <1>3, <1>4, <1>5 DEF DecodeThread

Flags == {resumeLater, eof, run, active, waiting, ready, cached, wants, late} \subseteq BOOLEAN

(* ... of the flags,                                                       *)
LEMMA DecodeFlags ==
    ASSUME TypeOK, DecodeThread
    PROVE  Flags'
<1>0. Flags
  BY DEF TypeOK, Flags
<1>h. HasVideo \in BOOLEAN
  BY SettingTypes DEF TypeOK
<1> USE DEF Flags
<1>2. CASE Command
  BY <1>0, <1>h, <1>2 DEF Command, NoCommand, Play, PlayOpened, PlayFailed, PlayLater, Pause, Resume, KeepRam, SeekIgnored, SeekLater,
         Seek, Simple, EndIdle, End, Take, playerVars, mediaVars, history
<1>3. CASE Abort
  BY <1>0, <1>3 DEF Abort, Drain, Answered, ReadAborted, ConvertAborted, VideoAborted, Close, playerVars, decodeVars, mediaVars, history
<1>4. CASE Notification
  BY <1>0, <1>4 DEF Notification, NoNotification, NoteRead, NoteSeeking, NoteCopying, NoteBuffering, NoteOutOfBuffer,
         NoteCleared, Noted, playerVars, mediaVars, history
<1>5. CASE DecodeStep
  BY <1>0, <1>h, <1>5 DEF DecodeStep, StepNothing, StepEnd, StepWait, StepFull, StepTryAgain, StepParse, Step, StopBuffering, Refill, history
<1> QED
  BY <1>2, <1>3, <1>4, <1>5 DEF DecodeThread

Sizes ==
    /\ setting \in Settings
    /\ left \in 0 .. FileLen /\ packets \in 0 .. MaxPackets - 1 /\ images \in 0 .. MaxImages - 1

(* ... and of the file and the buffers.                                    *)
LEMMA DecodeSizes ==
    ASSUME TypeOK, DecodeThread
    PROVE  Sizes'
<1>0. Sizes /\ UNCHANGED setting
  BY DecodeLeaves DEF TypeOK, Sizes
<1>1. UNCHANGED <<FileLen, MaxPackets, HasVideo>>
  BY <1>0 DEF FileLen, MaxPackets, HasVideo
<1>2. FileLen \in Nat /\ MaxPackets \in Nat /\ MaxPackets >= 2
  BY <1>0, SettingTypes DEF Sizes
<1> USE <1>0, <1>1, <1>2, BoundTypes DEF Sizes
<1>3. CASE Command
  BY <1>3 DEF Command, NoCommand, Play, PlayOpened, PlayFailed, PlayLater, Pause, Resume, KeepRam, SeekIgnored, SeekLater,
         Seek, Simple, EndIdle, End, Take, mediaVars
<1>4. CASE Abort
  BY <1>4 DEF Abort, Drain, Answered, ReadAborted, ConvertAborted, VideoAborted, Close, mediaVars
<1>5. CASE Notification
  BY <1>5 DEF Notification, NoNotification, NoteRead, NoteSeeking, NoteCopying, NoteBuffering, NoteOutOfBuffer,
         NoteCleared, Noted, mediaVars
<1>6. CASE DecodeStep
  BY <1>6 DEF DecodeStep, StepNothing, StepEnd, StepWait, StepFull, StepTryAgain, StepParse, Step, StopBuffering
<1> QED
  BY <1>3, <1>4, <1>5, <1>6 DEF DecodeThread

(* The types are kept by the user's side,                                  *)
LEMMA UserTypesKept ==
    ASSUME TypeOK, User \/ HomeWaited
    PROVE  TypeOK'
<1>1. UNCHANGED <<FileLen, MaxPackets>>
  BY UserLeaves DEF FileLen, MaxPackets
<1> QED
  BY <1>1, UserTypes, UserLeaves DEF TypeOK

(* ... by the decode thread,                                               *)
LEMMA DecodeTypesKept ==
    ASSUME TypeOK, DecodeThread
    PROVE  TypeOK'
<1>1. /\ {resumeLater, eof, run, active, waiting, ready, cached, shouldConvert, mustResume}' \subseteq BOOLEAN
      /\ {wants, late}' \subseteq BOOLEAN
  <2>1. {shouldConvert, mustResume} \subseteq BOOLEAN /\ UNCHANGED <<shouldConvert, mustResume>>
    BY DecodeLeaves DEF TypeOK
  <2> QED
    BY <2>1, DecodeFlags DEF Flags
<1>2. rpc' \in {"take", "read", "check", "seek"} /\ vpc' \in {"take", "copy", "skip", "decode", "check", "flush"}
      /\ cpc' \in {"take", "clear", "look", "turn", "empty", "full"} /\ seen' \in 0 .. MaxImages - 1
      /\ budget' \in [RequestKinds -> Nat] /\ home' \in {"none", "waiting", "asked", "menu", "keyboard"}
  BY DecodeLeaves DEF TypeOK
<1> QED
  BY <1>1, <1>2, DecodeQueues, DecodePlaces, DecodeSizes
     DEF TypeOK, Sizes, ReadEvents, VideoEvents, ConvertEvents

(* ... by the read packet thread,                                          *)
LEMMA ReadTypesKept ==
    ASSUME TypeOK, ReadThread
    PROVE  TypeOK'
<1>1. UNCHANGED <<state, resumeLater, eof, run, dpc, event, active, waiting, cmdQ, videoQ, convertQ,
                  images, ready, cached, vpc, cpc, shouldConvert, seen, budget, home, mustResume, setting,
                  wants, late, FileLen, MaxPackets>>
  BY DEF ReadThread, ReadTake, ReadPacket, ReadCheck, ReadSeek, notReadVars, playerVars, decodeVars,
         convertVars, userVars, history, FileLen, MaxPackets
<1>2. readQ' \in Seq(Item1(ReadEvents)) /\ notifQ' \in Seq(Item1(Notifications))
  <2>1. readQ \in Seq(Item1(ReadEvents)) /\ notifQ \in Seq(Item1(Notifications))
    BY DEF TypeOK, ReadEvents
  <2>2. <<>> \in Seq(Item1(ReadEvents))
    OBVIOUS
  <2> QED
    BY <2>1, <2>2, Calls, Takes
       DEF ReadThread, ReadTake, ReadPacket, ReadCheck, ReadSeek, ReadDone, Notifications
<1>3. rpc' \in {"take", "read", "check", "seek"}
  BY DEF TypeOK, ReadThread, ReadTake, ReadPacket, ReadCheck, ReadSeek, ReadDone
<1>4. left' \in 0 .. FileLen /\ packets' \in 0 .. MaxPackets - 1
  <2>1. /\ left \in 0 .. FileLen /\ packets \in 0 .. MaxPackets - 1
        /\ FileLen \in Nat /\ MaxPackets \in Nat /\ MaxPackets >= 2
    BY SettingTypes DEF TypeOK
  <2> QED
    BY <2>1 DEF ReadThread, ReadTake, ReadPacket, ReadCheck, ReadSeek
<1> QED
  BY <1>1, <1>2, <1>3, <1>4 DEF TypeOK, ReadEvents

(* ... by the decode video thread,                                         *)
LEMMA VideoTypesKept ==
    ASSUME TypeOK, VideoThread
    PROVE  TypeOK'
<1>1. UNCHANGED <<state, resumeLater, eof, run, dpc, event, active, waiting, readQ, left, packets,
                  rpc, cpc, shouldConvert, seen, budget, home, mustResume, setting,
                  wants, late, FileLen, MaxPackets>>
  BY DEF VideoThread, VideoTake, VideoSkip, VideoCopy, VideoCopyFails, VideoSkipFailed,
     VideoDecode, VideoNoMemory, VideoCheck, VideoFlush,
         notVideoVars, playerVars, decodeVars, convertVars, userVars, history, FileLen, MaxPackets
<1>2. /\ cmdQ' \in Seq(Item1(Commands)) /\ notifQ' \in Seq(Item1(Notifications))
      /\ videoQ' \in Seq(Item1(VideoEvents)) /\ convertQ' \in Seq(Item1(ConvertEvents))
  <2>1. /\ cmdQ \in Seq(Item1(Commands)) /\ notifQ \in Seq(Item1(Notifications))
        /\ videoQ \in Seq(Item1(VideoEvents)) /\ convertQ \in Seq(Item1(ConvertEvents))
    BY DEF TypeOK, VideoEvents, ConvertEvents
  <2>2. <<>> \in Seq(Item1(VideoEvents))
    OBVIOUS
  <2> QED
    BY <2>1, <2>2, Calls, Takes, Requests
       DEF VideoThread, VideoTake, VideoSkip, VideoCopy, VideoCopyFails, VideoSkipFailed,
     VideoDecode, VideoNoMemory, VideoCheck,
           VideoFlush, Notifications, Commands, ConvertEvents
<1>3. vpc' \in {"take", "copy", "skip", "decode", "check", "flush"} /\ ready' \in BOOLEAN /\ cached' \in BOOLEAN
  <2>1. vpc \in {"take", "copy", "skip", "decode", "check", "flush"} /\ ready \in BOOLEAN /\ cached \in BOOLEAN
    BY DEF TypeOK
  <2>2. MemoryFails \in BOOLEAN
    BY PlayerAssumption DEF TypeOK, Setting, MemoryFails
  <2> QED
    BY <2>1, <2>2 DEF VideoThread, VideoTake, VideoSkip, VideoCopy, VideoCopyFails, VideoSkipFailed,
     VideoDecode, VideoNoMemory, VideoCheck,
           VideoFlush, Flush
<1>4. images' \in 0 .. MaxImages - 1
  <2>1. images \in 0 .. MaxImages - 1 /\ MaxImages \in Nat
    BY BoundTypes DEF TypeOK
  <2>2. VideoDecode => images' \in 0 .. MaxImages - 1
    BY <2>1 DEF VideoDecode, ImagesFull
  <2>3. VideoFlush => images' \in 0 .. MaxImages - 1
    <3>1. VideoFlush => images' \in images .. MaxImages - 1 \/ images' = images
      BY Zenon DEF VideoFlush, Flush
    <3> QED
      BY <2>1, <3>1
  <2> QED
    BY <2>1, <2>2, <2>3 DEF VideoThread, VideoTake, VideoSkip, VideoCopy, VideoCopyFails, VideoSkipFailed,
     VideoNoMemory, VideoCheck
<1> QED
  BY <1>1, <1>2, <1>3, <1>4 DEF TypeOK, VideoEvents, ConvertEvents

(* ... by the convert thread,                                              *)
LEMMA ConvertTypesKept ==
    ASSUME TypeOK, ConvertThread
    PROVE  TypeOK'
<1> USE DEF ConvertThread, ConvertTake, ConvertIdle, ConvertClear, ConvertLook, ConvertImage,
            ConvertEmpty, ConvertFull, ConvertNothing, ConvertTellEmpty, ConvertTellFull, Turn
<1>1. UNCHANGED <<state, resumeLater, eof, run, dpc, event, active, waiting, readQ, videoQ, left, packets,
                  ready, cached, rpc, vpc, budget, home, mustResume, setting,
                  wants, late, FileLen, MaxPackets>>
  BY DEF notConvertVars, playerVars, decodeVars, userVars, history, FileLen, MaxPackets
<1>2. /\ cmdQ' \in Seq(Item1(Commands)) /\ notifQ' \in Seq(Item1(Notifications))
      /\ convertQ' \in Seq(Item1(ConvertEvents))
  <2>1. /\ cmdQ \in Seq(Item1(Commands)) /\ notifQ \in Seq(Item1(Notifications))
        /\ convertQ \in Seq(Item1(ConvertEvents))
    BY DEF TypeOK, ConvertEvents
  <2>2. <<>> \in Seq(Item1(ConvertEvents))
    OBVIOUS
  <2> QED
    BY <2>1, <2>2, Calls, Takes, Requests DEF Notifications, Commands
<1>3. cpc' \in {"take", "clear", "look", "turn", "empty", "full"} /\ shouldConvert' \in BOOLEAN
  <2>1. cpc \in {"take", "clear", "look", "turn", "empty", "full"} /\ shouldConvert \in BOOLEAN
    BY DEF TypeOK
  <2> QED
    BY <2>1
<1>4. images' \in 0 .. MaxImages - 1 /\ seen' \in 0 .. MaxImages - 1
  <2>1. images \in 0 .. MaxImages - 1 /\ seen \in 0 .. MaxImages - 1 /\ MaxImages \in Nat /\ MaxImages >= 2
    BY BoundTypes DEF TypeOK
  <2> QED
    BY <2>1
<1> QED
  BY <1>1, <1>2, <1>3, <1>4 DEF TypeOK, ConvertEvents

(* ... and so by every step.                                               *)
LEMMA TypesKept == TypeOK /\ [Next]_vars => TypeOK'
<1> SUFFICES ASSUME TypeOK, [Next]_vars
             PROVE  TypeOK'
  OBVIOUS
<1>1. CASE UNCHANGED vars
  BY <1>1 DEF TypeOK, vars, playerVars, decodeVars, mediaVars, convertVars, userVars, history,
     FileLen, MaxPackets
<1> QED
  BY <1>1, UserTypesKept, DecodeTypesKept, ReadTypesKept, VideoTypesKept, ConvertTypesKept DEF Next

-----------------------------------------------------------------------------
(* What the user wants.                                                    *)
LEMMA IntentStep ==
    ASSUME TypeOK, Intent, AudioOnly, [Next]_vars
    PROVE  Intent'
<1>t. /\ state \in NoFile \cup Decoding \cup {"PREPARE_SEEKING"}
      /\ resumeLater \in BOOLEAN /\ wants \in BOOLEAN /\ HasVideo \in BOOLEAN
      /\ ~HasVideo => state # "BUFFERING"
  BY SettingTypes DEF TypeOK, AudioOnly
<1> USE <1>t DEF Intent, IntentKept, NoFile, Decoding
<1>0. CASE UNCHANGED <<state, resumeLater, wants>> /\ (dpc' = dpc \/ dpc' # "open")
  BY <1>0
<1>1. CASE User \/ HomeWaited
  BY <1>0, <1>1, UserLeaves
<1>2. CASE Command
  <2>1. CASE NoCommand \/ PlayFailed \/ PlayLater \/ KeepRam \/ SeekIgnored \/ SeekLater
             \/ \E id \in Ends : End(id)
    BY <2>1, <1>0 DEF NoCommand, PlayFailed, PlayLater, KeepRam,
       SeekIgnored, SeekLater, Simple, End, Take, playerVars, history
  <2>2. CASE Play
    BY <2>2 DEF Play
  <2>3. CASE PlayOpened
    <3>1. /\ dpc' = "notification" /\ wants' = wants /\ wants
          /\ state' = IF resumeLater' THEN "BUFFERING" ELSE "PLAYING"
      BY <2>3 DEF PlayOpened, history
    <3>2. CASE resumeLater'
      BY <3>1, <3>2
    <3>3. CASE ~resumeLater'
      BY <3>1, <3>3
    <3> QED
      BY <3>2, <3>3
  <2>4. CASE Pause
    BY <2>4 DEF Pause, Simple, Take
  <2>5. CASE Resume
    BY <2>5 DEF Resume, Simple, Take
  <2>6. CASE Seek
    BY <2>6 DEF Seek, Take, history
  <2>7. CASE \E id \in Ends : EndIdle(id)
    BY <2>7 DEF EndIdle
  <2> QED
    BY <1>2, <2>1, <2>2, <2>3, <2>4, <2>5, <2>6, <2>7 DEF Command
<1>3. CASE Abort
  BY <1>3 DEF Abort, Drain, Answered, ReadAborted, ConvertAborted, VideoAborted, Close, playerVars,
     decodeVars, history
<1>4. CASE Notification
  <2>1. CASE NoNotification \/ NoteRead \/ NoteCopying
    BY <2>1, <1>0 DEF NoNotification, NoteRead, NoteCopying, Noted, playerVars, history
  <2>2. CASE NoteSeeking
    BY <2>2 DEF NoteSeeking, Noted, history
  <2>3. CASE NoteBuffering
    BY <2>3 DEF NoteBuffering, Noted, history
  <2>4. CASE NoteOutOfBuffer
    BY <2>4 DEF NoteOutOfBuffer, Noted, history
  <2>5. CASE NoteCleared
    BY <2>5 DEF NoteCleared, Noted, history
  <2> QED
    BY <1>4, <2>1, <2>2, <2>3, <2>4, <2>5 DEF Notification
<1>5. CASE DecodeStep
  <2>1. CASE StepNothing \/ StepEnd \/ StepWait \/ StepFull \/ StepTryAgain
    BY <2>1, <1>0 DEF StepNothing, StepEnd, StepWait, StepFull, StepTryAgain, Step, StopBuffering, history
  <2>2. ASSUME NEW type \in Types, StepParse(type)
        PROVE  Intent'
    <3>1. /\ dpc' = "command" /\ wants' = wants
          /\ \/ UNCHANGED <<state, resumeLater>>
             \/ /\ state = "SEEKING"
                /\ state' = IF HasVideo THEN "BUFFERING" ELSE IF resumeLater THEN "PLAYING" ELSE "PAUSE"
                /\ resumeLater' = (resumeLater /\ HasVideo)
      BY <2>2, Zenon DEF StepParse, SeekEnds, history
    <3> QED
      BY <3>1
  <2> QED
    BY <1>5, <2>1, <2>2 DEF DecodeStep
<1>6. CASE ReadThread \/ VideoThread \/ ConvertThread
  BY <1>0, <1>6 DEF ReadThread, ReadTake, ReadPacket, ReadCheck, ReadSeek, notReadVars,
     VideoThread, VideoTake, VideoSkip, VideoCopy, VideoCopyFails, VideoSkipFailed,
     VideoDecode, VideoNoMemory, VideoCheck, VideoFlush,
     notVideoVars,
     ConvertThread, ConvertTake, ConvertIdle, ConvertClear, ConvertLook, ConvertImage, ConvertEmpty,
     ConvertFull, ConvertNothing, ConvertTellEmpty, ConvertTellFull, Turn, notConvertVars,
     playerVars, decodeVars, history
<1>7. CASE UNCHANGED vars
  BY <1>0, <1>7 DEF vars, playerVars, decodeVars, history
<1> QED
  BY <1>1, <1>2, <1>3, <1>4, <1>5, <1>6, <1>7 DEF Next, DecodeThread

-----------------------------------------------------------------------------
(* What is behind an event is in the queue, and so is the event.           *)
LEMMA BehindThere ==
    ASSUME TypeOK
    PROVE  \A x, y :
              /\ y \in Behind(notifQ, x) => y \in Ids(notifQ) /\ x \in Ids(notifQ)
              /\ y \in Behind(readQ, x) => y \in Ids(readQ) /\ x \in Ids(readQ)
              /\ y \in Behind(videoQ, x) => y \in Ids(videoQ) /\ x \in Ids(videoQ)
              /\ y \in Behind(convertQ, x) => y \in Ids(convertQ) /\ x \in Ids(convertQ)
BY BehindIds DEF TypeOK

(* What the workers leave alone.                                           *)
LEMMA ReadLeaves ==
    ASSUME ReadThread
    PROVE  UNCHANGED <<state, resumeLater, eof, run, dpc, event, active, waiting, cmdQ, videoQ, convertQ,
                       images, ready, cached, vpc, cpc, shouldConvert, seen, setting, wants, late>>
BY DEF ReadThread, ReadTake, ReadPacket, ReadCheck, ReadSeek, notReadVars, playerVars, decodeVars,
       convertVars, userVars, history

(* ... the decode video thread,                                            *)
LEMMA VideoLeaves ==
    ASSUME VideoThread
    PROVE  UNCHANGED <<state, resumeLater, eof, run, dpc, event, active, waiting, readQ, left, packets,
                       rpc, cpc, shouldConvert, seen, setting, wants, late>>
BY DEF VideoThread, VideoTake, VideoSkip, VideoCopy, VideoCopyFails, VideoSkipFailed,
     VideoDecode, VideoNoMemory, VideoCheck, VideoFlush,
       notVideoVars, playerVars, decodeVars, convertVars, userVars, history

(* ... the convert thread.                                                 *)
LEMMA ConvertLeaves ==
    ASSUME ConvertThread
    PROVE  UNCHANGED <<state, resumeLater, eof, run, dpc, event, active, waiting, readQ, videoQ, left,
                       packets, ready, cached, rpc, vpc, setting, wants, late>>
BY DEF ConvertThread, ConvertTake, ConvertIdle, ConvertClear, ConvertLook, ConvertImage,
       ConvertEmpty, ConvertFull, ConvertNothing, ConvertTellEmpty, ConvertTellFull, Turn,
       notConvertVars, playerVars, decodeVars, userVars, history

-----------------------------------------------------------------------------
(* The steps of the threads, by what they do to the events in the queues.  *)
ReadDoes ==
    \/ /\ rpc = "take" /\ "ABORT" \in Ids(readQ)
       /\ rpc' = "take" /\ readQ' = <<>> /\ Grown(notifQ', notifQ, "READ_ABORTED")
    \/ /\ rpc = "take" /\ Taken(readQ', readQ, "READ")
       /\ rpc' = (IF FileOpen THEN "read" ELSE "take") /\ UNCHANGED notifQ
    \/ /\ rpc = "take" /\ Taken(readQ', readQ, "SEEK")
       /\ rpc' = (IF FileOpen THEN "seek" ELSE "take") /\ UNCHANGED notifQ
    \/ /\ Reading /\ rpc' = "take" /\ UNCHANGED readQ
       /\ Grown(notifQ', notifQ, "FINISHED_READING") \/ Grown(notifQ', notifQ, "EOF")
    \/ Reading /\ Reading' /\ rpc' # "seek" /\ UNCHANGED <<readQ, notifQ>>
    \/ rpc = "seek" /\ rpc' = "take" /\ UNCHANGED readQ /\ Grown(notifQ', notifQ, "FINISHED_SEEKING")

(* These are the steps of the read packet thread.                          *)
LEMMA ReadEffects == TypeOK /\ ReadThread => ReadDoes
<1> SUFFICES ASSUME TypeOK, ReadThread
             PROVE  ReadDoes
  OBVIOUS
<1>1. CASE ReadTake
  <2>1. rpc = "take" /\ readQ # <<>>
    BY <1>1 DEF ReadTake
  <2>2. Head(readQ).id \in ReadEvents /\ Taken(Tail(readQ), readQ, Head(readQ).id)
    BY <2>1, Takes DEF Taken
  <2>3. CASE Head(readQ).id = "ABORT"
    <3>1. Grown(notifQ', notifQ, "READ_ABORTED") /\ readQ' = <<>> /\ rpc' = rpc
      BY <1>1, <2>3, Calls DEF ReadTake, Notifications
    <3> QED
      BY <3>1, <2>1, <2>2, <2>3 DEF ReadDoes, Taken
  <2>4. CASE Head(readQ).id # "ABORT"
    BY <1>1, <2>1, <2>2, <2>4 DEF ReadTake, ReadDoes, ReadEvents, FileOpen
  <2> QED
    BY <2>3, <2>4
<1>2. CASE ReadPacket \/ ReadCheck
  <2>1. /\ Reading /\ UNCHANGED readQ
        /\ \/ Reading' /\ rpc' # "seek" /\ UNCHANGED notifQ
           \/ rpc' = "take" /\ notifQ' \in {Add(notifQ, "FINISHED_READING"), Add(notifQ, "EOF")}
    BY <1>2 DEF ReadPacket, ReadCheck, ReadDone, Reading
  <2> QED
    BY <2>1, Calls DEF ReadDoes, Notifications
<1>3. CASE ReadSeek
  BY <1>3, Calls DEF ReadSeek, ReadDone, ReadDoes, Notifications
<1> QED
  BY <1>1, <1>2, <1>3 DEF ReadThread

VideoDoes ==
    \/ /\ vpc = "take" /\ "ABORT" \in Ids(videoQ)
       /\ vpc' = "take" /\ videoQ' = <<>> /\ Grown(notifQ', notifQ, "VIDEO_ABORTED")
       /\ UNCHANGED <<convertQ, cached>>
    \/ /\ vpc = "take" /\ Taken(videoQ', videoQ, "DECODE")
       /\ vpc' = (IF FileOpen THEN "copy" ELSE "take") /\ UNCHANGED <<notifQ, convertQ, cached>>
    \/ /\ vpc = "take" /\ Taken(videoQ', videoQ, "CLEAR")
       /\ vpc' = (IF FileOpen THEN "flush" ELSE "take") /\ UNCHANGED <<notifQ, convertQ, cached>>
    \/ /\ vpc = "copy" /\ vpc' \notin {"copy", "flush"}
       /\ Grown(notifQ', notifQ, "FINISHED_COPYING") /\ UNCHANGED <<videoQ, convertQ>>
       /\ ~cached' \/ (vpc' = "skip" /\ cached' = cached)
    \/ /\ vpc \notin {"take", "copy", "flush"} /\ vpc' \notin {"copy", "skip", "flush"}
       /\ UNCHANGED <<notifQ, videoQ, convertQ>>
       /\ IF vpc = "skip" THEN ~cached' ELSE cached' = cached
    \/ /\ vpc = "flush" /\ vpc' = "take"
       /\ Grown(convertQ', convertQ, "CLEAR") /\ UNCHANGED <<notifQ, videoQ, cached>>

(* These are the steps of the decode video thread.                         *)
LEMMA VideoEffects == TypeOK /\ VideoThread => VideoDoes
<1> SUFFICES ASSUME TypeOK, VideoThread
             PROVE  VideoDoes
  OBVIOUS
<1>1. CASE VideoTake
  <2>1. vpc = "take" /\ videoQ # <<>>
    BY <1>1 DEF VideoTake
  <2>2. Head(videoQ).id \in VideoEvents /\ Taken(Tail(videoQ), videoQ, Head(videoQ).id)
    BY <2>1, Takes DEF Taken
  <2>3. CASE Head(videoQ).id = "ABORT"
    <3>1. /\ Grown(notifQ', notifQ, "VIDEO_ABORTED") /\ videoQ' = <<>>
          /\ UNCHANGED <<vpc, convertQ, cached>>
      BY <1>1, <2>3, Calls DEF VideoTake, Notifications
    <3> QED
      BY <3>1, <2>1, <2>2, <2>3 DEF VideoDoes, Taken
  <2>4. CASE Head(videoQ).id # "ABORT"
    BY <1>1, <2>1, <2>2, <2>4 DEF VideoTake, VideoDoes, VideoEvents, FileOpen
  <2> QED
    BY <2>3, <2>4
<1>2. CASE VideoSkip \/ VideoCopy \/ VideoCopyFails
  BY <1>2, Calls DEF VideoSkip, VideoCopy, VideoCopyFails, VideoDoes, Notifications
<1>3. CASE VideoSkipFailed \/ VideoDecode \/ VideoNoMemory \/ VideoCheck
  BY <1>3 DEF VideoSkipFailed, VideoDecode, VideoNoMemory, VideoCheck, VideoDoes
<1>4. CASE VideoFlush
  BY <1>4, Calls DEF VideoFlush, VideoDoes, ConvertEvents
<1> QED
  BY <1>1, <1>2, <1>3, <1>4 DEF VideoThread

ConvertDoes ==
    \/ /\ cpc = "take" /\ "ABORT" \in Ids(convertQ)
       /\ cpc' = "take" /\ convertQ' = <<>> /\ ~shouldConvert'
       /\ Grown(notifQ', notifQ, "CONVERT_ABORTED")
    \/ /\ cpc = "take" /\ Taken(convertQ', convertQ, "CONVERT") /\ UNCHANGED notifQ
       /\ cpc' = "look" /\ (shouldConvert' <=> shouldConvert \/ (FileOpen /\ HasVideo))
    \/ /\ cpc = "take" /\ Taken(convertQ', convertQ, "CLEAR") /\ UNCHANGED notifQ
       /\ cpc' = (IF FileOpen /\ HasVideo THEN "clear" ELSE "look") /\ (shouldConvert' <=> shouldConvert)
    \/ /\ cpc = "clear" /\ cpc' = "look"
       /\ Grown(notifQ', notifQ, "FINISHED_CLEARING") /\ UNCHANGED <<convertQ, shouldConvert>>
    \/ /\ \/ cpc = "take" /\ cpc' = "look"
          \/ cpc = "look" /\ cpc' = "take"
          \/ /\ cpc = "look" /\ cpc' = "turn"
             /\ shouldConvert /\ FileOpen /\ state # "PREPARE_SEEKING"
          \/ cpc = "turn" /\ cpc' = "take"
          \/ cpc = "turn" /\ cpc' = "empty"
          \/ cpc = "turn" /\ cpc' = "full" /\ state = "BUFFERING"
       /\ UNCHANGED <<notifQ, convertQ, shouldConvert>>
    \/ /\ cpc = "empty" /\ cpc' = "take"
       /\ Grown(notifQ', notifQ, "OUT_OF_BUFFER") /\ UNCHANGED <<convertQ, shouldConvert>>
    \/ /\ cpc = "full" /\ cpc' = "take"
       /\ Grown(notifQ', notifQ, "FINISHED_BUFFERING") /\ UNCHANGED <<convertQ, shouldConvert>>

(* These are the steps of the convert thread.                              *)
LEMMA ConvertEffects == TypeOK /\ ConvertThread => ConvertDoes
<1> SUFFICES ASSUME TypeOK, ConvertThread
             PROVE  ConvertDoes
  OBVIOUS
<1>1. CASE ConvertTake
  <2>1. cpc = "take" /\ convertQ # <<>>
    BY <1>1 DEF ConvertTake
  <2>2. Head(convertQ).id \in ConvertEvents /\ Taken(Tail(convertQ), convertQ, Head(convertQ).id)
    BY <2>1, Takes DEF Taken
  <2>3. CASE Head(convertQ).id = "ABORT"
    <3>1. /\ Grown(notifQ', notifQ, "CONVERT_ABORTED") /\ convertQ' = <<>> /\ cpc' = cpc
          /\ shouldConvert' = FALSE
      BY <1>1, <2>3, Calls DEF ConvertTake, Notifications
    <3> QED
      BY <3>1, <2>1, <2>2, <2>3 DEF ConvertDoes, Taken
  <2>4. CASE Head(convertQ).id # "ABORT"
    <3>1. /\ convertQ' = Tail(convertQ) /\ UNCHANGED notifQ
          /\ shouldConvert' <=> shouldConvert \/ (FileOpen /\ HasVideo /\ Head(convertQ).id = "CONVERT")
          /\ cpc' = IF FileOpen /\ HasVideo /\ Head(convertQ).id = "CLEAR" THEN "clear" ELSE "look"
      BY <1>1, <2>4 DEF ConvertTake, FileOpen
    <3>2. CASE Head(convertQ).id = "CONVERT"
      BY <3>1, <3>2, <2>1, <2>2 DEF ConvertDoes
    <3>3. CASE Head(convertQ).id = "CLEAR"
      BY <3>1, <3>3, <2>1, <2>2 DEF ConvertDoes
    <3> QED
      BY <2>2, <2>4, <3>2, <3>3 DEF ConvertEvents
  <2> QED
    BY <2>3, <2>4
<1>2. CASE ConvertClear
  BY <1>2, Calls DEF ConvertClear, ConvertDoes, Notifications
<1>3. CASE ConvertIdle \/ ConvertLook \/ ConvertImage \/ ConvertEmpty \/ ConvertFull \/ ConvertNothing
  BY <1>3 DEF ConvertIdle, ConvertLook, ConvertImage, ConvertEmpty, ConvertFull, ConvertNothing, Turn,
     ConvertDoes, FileOpen
<1>4. CASE ConvertTellEmpty
  BY <1>4, Calls DEF ConvertTellEmpty, ConvertDoes, Notifications
<1>5. CASE ConvertTellFull
  BY <1>5, Calls DEF ConvertTellFull, ConvertDoes, Notifications
<1> QED
  BY <1>1, <1>2, <1>3, <1>4, <1>5 DEF ConvertThread

workerQueues == <<readQ, videoQ, convertQ>>
flags == <<active, waiting, late>>

(* The command part: a request that leaves the workers alone, the start of *)
(* a file, a seek, and the end of a file.                                  *)
CommandDoes ==
    \/ /\ dpc = "command" /\ dpc' = "notification"
       /\ state' = state \/ {state, state'} \subseteq {"PLAYING", "PAUSE"}
       /\ UNCHANGED <<notifQ, workerQueues, flags>>
    \/ /\ dpc = "command" /\ dpc' = "open" /\ ~FileOpen /\ state' = "PLAYING"
       /\ ~active' /\ ~waiting'
       /\ late' <=> "CLEAR" \in Ids(convertQ) \/ cpc = "clear" \/ "FINISHED_CLEARING" \in Ids(notifQ)
       /\ UNCHANGED <<notifQ, workerQueues>>
    \/ /\ dpc = "open" /\ dpc' = "command" /\ UNCHANGED <<state, notifQ, workerQueues, flags>>
    \/ /\ dpc = "open" /\ dpc' = "notification"
       /\ state' = "PLAYING" \/ (state' = "BUFFERING" /\ HasVideo)
       /\ active' /\ Grown(readQ', readQ, "READ") /\ Grown(convertQ', convertQ, "CONVERT")
       /\ UNCHANGED <<notifQ, videoQ, waiting, late>>
    \/ /\ dpc = "command" /\ dpc' = "notification"
       /\ state \in Decoding /\ state' = "PREPARE_SEEKING" /\ Grown(readQ', readQ, "SEEK")
       /\ UNCHANGED <<notifQ, videoQ, convertQ, flags>>
    \/ /\ dpc = "command" /\ dpc' \in {"notification", "exited"}
       /\ ~FileOpen /\ state' \in NoFile
       /\ UNCHANGED <<notifQ, workerQueues, flags>>
    \/ /\ dpc = "command" /\ dpc' = "abortRead" /\ FileOpen /\ Grown(readQ', readQ, "ABORT")
       /\ UNCHANGED <<state, notifQ, videoQ, convertQ, flags>>

(* These are the steps of the first part of the decode thread's loop.      *)
LEMMA CommandEffects == TypeOK /\ Command => CommandDoes
<1> SUFFICES ASSUME TypeOK, Command
             PROVE  CommandDoes
  OBVIOUS
<1> USE DEF workerQueues, flags, FileOpen
<1>1. CASE NoCommand \/ PlayLater \/ KeepRam \/ SeekIgnored \/ SeekLater \/ Pause \/ Resume
  BY <1>1 DEF NoCommand, PlayLater, KeepRam, SeekIgnored, SeekLater, Pause, Resume, Simple, Take,
     playerVars, history, CommandDoes
<1>2. CASE Play
  BY <1>2, HasEventIds DEF Play, Take, CommandDoes
<1>3. CASE PlayFailed
  BY <1>3 DEF PlayFailed, playerVars, history, CommandDoes
<1>4. CASE PlayOpened
  <2>1. /\ dpc = "open" /\ dpc' = "notification" /\ active' = TRUE
        /\ readQ' = Add(readQ, "READ") /\ convertQ' = Add(convertQ, "CONVERT")
        /\ UNCHANGED <<notifQ, videoQ, waiting, late>>
    BY <1>4 DEF PlayOpened, history
  <2>2. state' = "PLAYING" \/ (state' = "BUFFERING" /\ HasVideo)
    BY <1>4, Zenon DEF PlayOpened
  <2> QED
    BY <2>1, <2>2, Calls DEF CommandDoes, ReadEvents, ConvertEvents
<1>5. CASE Seek
  BY <1>5, Calls DEF Seek, Take, history, CommandDoes, ReadEvents
<1>6. ASSUME NEW id \in Ends, EndIdle(id)
      PROVE  CommandDoes
  BY <1>6 DEF EndIdle, NoFile, history, CommandDoes
<1>7. ASSUME NEW id \in Ends, End(id)
      PROVE  CommandDoes
  BY <1>7, Calls DEF End, playerVars, history, CommandDoes, ReadEvents
<1> QED
  BY <1>1, <1>2, <1>3, <1>4, <1>5, <1>6, <1>7 DEF Command

(* The abort: from one answer to the next.                                 *)
AbortDoes ==
    /\ UNCHANGED flags
    /\ \/ /\ \E x : /\ Taken(notifQ', notifQ, x)
                    /\ \/ dpc = "abortRead" /\ x # "READ_ABORTED"
                       \/ dpc = "abortConvert" /\ x # "CONVERT_ABORTED"
                       \/ dpc = "abortVideo" /\ x # "VIDEO_ABORTED"
          /\ UNCHANGED <<dpc, state, workerQueues>>
       \/ /\ dpc = "abortRead" /\ dpc' = "abortConvert"
          /\ Taken(notifQ', notifQ, "READ_ABORTED") /\ Grown(convertQ', convertQ, "ABORT")
          /\ UNCHANGED <<state, readQ, videoQ>>
       \/ /\ dpc = "abortConvert" /\ dpc' = "abortVideo"
          /\ Taken(notifQ', notifQ, "CONVERT_ABORTED") /\ Grown(videoQ', videoQ, "ABORT")
          /\ UNCHANGED <<state, readQ, convertQ>>
       \/ /\ dpc = "abortVideo" /\ dpc' = "close" /\ Taken(notifQ', notifQ, "VIDEO_ABORTED")
          /\ UNCHANGED <<state, workerQueues>>
       \/ /\ dpc = "close" /\ dpc' \in {"notification", "exited"} /\ state' \in NoFile /\ ~cached'
          /\ UNCHANGED <<notifQ, workerQueues>>

(* A notification that the decode thread takes.                            *)
LEMMA FirstTaken ==
    ASSUME TypeOK, notifQ # <<>>
    PROVE  Head(notifQ).id \in Notifications /\ Taken(Tail(notifQ), notifQ, Head(notifQ).id)
BY Takes DEF Taken

(* These are the steps of an abort.                                        *)
LEMMA AbortEffects == TypeOK /\ Abort => AbortDoes
<1> SUFFICES ASSUME TypeOK, Abort
             PROVE  AbortDoes
  OBVIOUS
<1> USE DEF workerQueues, flags
<1>1. CASE Drain("abortRead", "READ_ABORTED")
  BY <1>1, FirstTaken DEF Drain, AbortDoes, playerVars, decodeVars, history
<1>2. CASE Drain("abortConvert", "CONVERT_ABORTED")
  BY <1>2, FirstTaken DEF Drain, AbortDoes, playerVars, decodeVars, history
<1>3. CASE Drain("abortVideo", "VIDEO_ABORTED")
  BY <1>3, FirstTaken DEF Drain, AbortDoes, playerVars, decodeVars, history
<1>4. CASE ReadAborted
  BY <1>4, FirstTaken, Calls DEF ReadAborted, Answered, Next1, AbortDoes, playerVars, history, ConvertEvents
<1>5. CASE ConvertAborted
  BY <1>5, FirstTaken, Calls DEF ConvertAborted, Answered, Next1, AbortDoes, playerVars, history, VideoEvents
<1>6. CASE VideoAborted
  BY <1>6, FirstTaken DEF VideoAborted, Answered, Next1, AbortDoes, playerVars, history
<1>7. CASE Close
  BY <1>7 DEF Close, AbortDoes, NoFile, history
<1> QED
  BY <1>1, <1>2, <1>3, <1>4, <1>5, <1>6, <1>7 DEF Abort

(* The notification part.                                                  *)
NotificationDoes ==
    /\ dpc = "notification" /\ dpc' = "step" /\ UNCHANGED <<readQ, convertQ, late>>
    /\ \/ UNCHANGED <<notifQ, state, active, waiting, videoQ>>
       \/ /\ \E x \in {"FINISHED_READING", "EOF"} : Taken(notifQ', notifQ, x)
          /\ ~active' /\ UNCHANGED <<state, waiting, videoQ>>
       \/ /\ Taken(notifQ', notifQ, "FINISHED_SEEKING")
          /\ \/ ~HasVideo /\ state = "PREPARE_SEEKING" /\ state' = "SEEKING" /\ UNCHANGED videoQ
             \/ state # "PREPARE_SEEKING" /\ UNCHANGED <<state, videoQ>>
             \/ /\ HasVideo /\ state = "PREPARE_SEEKING" /\ UNCHANGED state
                /\ Grown(videoQ', videoQ, "CLEAR")
          /\ UNCHANGED <<active, waiting>>
       \/ /\ Taken(notifQ', notifQ, "FINISHED_COPYING")
          /\ ~waiting' /\ UNCHANGED <<state, active, videoQ>>
       \/ /\ Taken(notifQ', notifQ, "FINISHED_BUFFERING")
          /\ IF state = "BUFFERING" THEN state' \in {"PLAYING", "PAUSE"} ELSE state' = state
          /\ UNCHANGED <<active, waiting, videoQ>>
       \/ /\ Taken(notifQ', notifQ, "OUT_OF_BUFFER")
          /\ (state \in {"PLAYING", "PAUSE"} /\ state' = "BUFFERING") \/ state' = state
          /\ UNCHANGED <<active, waiting, videoQ>>
       \/ /\ Taken(notifQ', notifQ, "FINISHED_CLEARING")
          /\ state' = IF state = "PREPARE_SEEKING" THEN "SEEKING" ELSE state
          /\ UNCHANGED <<active, waiting, videoQ>>

(* These are the steps of the second part of the loop.                     *)
LEMMA NotificationEffects == TypeOK /\ Notification => NotificationDoes
<1> SUFFICES ASSUME TypeOK, Notification
             PROVE  NotificationDoes
  OBVIOUS
<1>1. CASE NoNotification
  BY <1>1 DEF NoNotification, NotificationDoes, playerVars, history
<1>2. ASSUME NEW ids, Noted(ids)
      PROVE  /\ dpc = "notification" /\ dpc' = "step" /\ UNCHANGED <<readQ, convertQ, late>>
             /\ \E x \in ids : Taken(notifQ', notifQ, x) /\ Head(notifQ).id = x
  BY <1>2, FirstTaken DEF Noted, history
<1>3. CASE NoteRead
  BY <1>3, <1>2 DEF NoteRead, NotificationDoes
<1>4. CASE NoteSeeking
  <2>1. /\ dpc = "notification" /\ dpc' = "step" /\ UNCHANGED <<readQ, convertQ, late>>
        /\ Taken(notifQ', notifQ, "FINISHED_SEEKING")
    BY <1>4, <1>2 DEF NoteSeeking
  <2>2. /\ state' = IF state = "PREPARE_SEEKING" /\ ~HasVideo THEN "SEEKING" ELSE state
        /\ videoQ' = IF state = "PREPARE_SEEKING" /\ HasVideo THEN Add(videoQ, "CLEAR") ELSE videoQ
        /\ UNCHANGED <<active, waiting>>
    BY <1>4 DEF NoteSeeking
  <2>3. HasVideo \in BOOLEAN /\ Grown(Add(videoQ, "CLEAR"), videoQ, "CLEAR")
    BY Calls, SettingTypes DEF TypeOK, VideoEvents
  <2> QED
    BY <2>1, <2>2, <2>3 DEF NotificationDoes
<1>5. CASE NoteCopying
  BY <1>5, <1>2 DEF NoteCopying, NotificationDoes
<1>6. CASE NoteBuffering
  <2>1. state' = IF state = "BUFFERING" THEN (IF resumeLater THEN "PLAYING" ELSE "PAUSE") ELSE state
    BY <1>6 DEF NoteBuffering
  <2>2. IF state = "BUFFERING" THEN state' \in {"PLAYING", "PAUSE"} ELSE state' = state
    BY <2>1
  <2> QED
    BY <2>2, <1>6, <1>2 DEF NoteBuffering, NotificationDoes
<1>7. CASE NoteOutOfBuffer
  BY <1>7, <1>2 DEF NoteOutOfBuffer, NotificationDoes
<1>8. CASE NoteCleared
  BY <1>8, <1>2 DEF NoteCleared, NotificationDoes
<1> QED
  BY <1>1, <1>3, <1>4, <1>5, <1>6, <1>7, <1>8 DEF Notification

(* The decoding part: perhaps more packets are asked for, perhaps a packet *)
(* goes to the video decoder, perhaps the decode thread tells itself that  *)
(* buffering ends.                                                         *)
StepDoes ==
    /\ dpc = "step" /\ dpc' = "command" /\ UNCHANGED <<convertQ, late>>
    /\ \/ UNCHANGED <<readQ, active>>
       \/ ~active /\ active' /\ state \in Decoding /\ Grown(readQ', readQ, "READ")
    /\ \/ UNCHANGED <<state, waiting, notifQ, videoQ>>
       \/ /\ state = "BUFFERING" /\ Grown(notifQ', notifQ, "FINISHED_BUFFERING")
          /\ UNCHANGED <<state, waiting, videoQ>>
       \/ /\ ~waiting /\ state \in Decoding /\ UNCHANGED notifQ
          /\ \/ state' = state
             \/ state = "SEEKING" /\ state' \in {"BUFFERING", "PLAYING", "PAUSE"}
          /\ state' = "BUFFERING" => state = "BUFFERING" \/ HasVideo
          /\ \/ ~waiting' /\ UNCHANGED videoQ
             \/ HasVideo /\ waiting' /\ Grown(videoQ', videoQ, "DECODE")

(* These are the steps of the third part of the loop.                      *)
LEMMA StepEffects == TypeOK /\ DecodeStep => StepDoes
<1> SUFFICES ASSUME TypeOK, DecodeStep
             PROVE  StepDoes
  OBVIOUS
<1>r. ASSUME Refill, state \in Decoding
      PROVE  \/ UNCHANGED <<readQ, active>>
             \/ ~active /\ active' /\ state \in Decoding /\ Grown(readQ', readQ, "READ")
  <2> DEFINE ask == packets < MaxPackets \div 2 /\ ~active /\ ~eof
  <2>1. active' = (active \/ ask) /\ readQ' = IF ask THEN Add(readQ, "READ") ELSE readQ
    BY <1>r DEF Refill
  <2>2. active \in BOOLEAN /\ Grown(Add(readQ, "READ"), readQ, "READ")
    BY Calls DEF TypeOK, ReadEvents
  <2>3. CASE ask
    BY <2>1, <2>2, <2>3, <1>r
  <2>4. CASE ~ask
    <3> HIDE DEF ask
    <3>1. readQ' = readQ /\ active' = (active \/ FALSE)
      BY <2>1, <2>4, Zenon
    <3> QED
      BY <3>1, <2>2
  <2> QED
    BY <2>3, <2>4
<1>s. ASSUME StopBuffering
      PROVE  /\ UNCHANGED <<state, waiting, videoQ>>
             /\ \/ UNCHANGED notifQ
                \/ state = "BUFFERING" /\ Grown(notifQ', notifQ, "FINISHED_BUFFERING")
  BY <1>s, Calls DEF StopBuffering, Notifications
<1>1. CASE StepNothing
  BY <1>1 DEF StepNothing, Step, StepDoes, history
<1>2. CASE StepEnd
  BY <1>2, <1>s DEF StepEnd, Step, StepDoes, history
<1>3. CASE StepWait \/ StepTryAgain
  BY <1>3, <1>r DEF StepWait, StepTryAgain, Step, StepDoes, history
<1>4. CASE StepFull
  BY <1>4, <1>r, <1>s DEF StepFull, Step, StepDoes, history
<1>5. ASSUME NEW type \in Types, StepParse(type)
      PROVE  StepDoes
  <2>1. /\ dpc = "step" /\ dpc' = "command" /\ state \in Decoding /\ ~waiting /\ Refill
        /\ UNCHANGED <<convertQ, late, notifQ>>
    BY <1>5 DEF StepParse, history
  <2>2. \/ state' = state
        \/ /\ state = "SEEKING"
           /\ state' = IF HasVideo THEN "BUFFERING" ELSE IF resumeLater THEN "PLAYING" ELSE "PAUSE"
    BY <1>5, Zenon DEF StepParse, SeekEnds
  <2>3. /\ state' = state \/ (state = "SEEKING" /\ state' \in {"BUFFERING", "PLAYING", "PAUSE"})
        /\ state' = "BUFFERING" => state = "BUFFERING" \/ HasVideo
    BY <2>2
  <2>4. waiting' = (type = "video") /\ videoQ' = IF type = "video" THEN Add(videoQ, "DECODE") ELSE videoQ
    BY <1>5 DEF StepParse
  <2>5. \/ ~waiting' /\ UNCHANGED videoQ
        \/ HasVideo /\ waiting' /\ Grown(videoQ', videoQ, "DECODE")
    BY <2>4, Calls DEF VideoEvents, Types
  <2> QED
    BY <1>r, <2>1, <2>3, <2>5 DEF StepDoes
<1> QED
  BY <1>1, <1>2, <1>3, <1>4, <1>5 DEF DecodeStep

-----------------------------------------------------------------------------
(* The reader at rest once it answered: it has nothing to answer before a  *)
(* file is open again.                                                     *)
LEMMA ReaderPhaseStep ==
    ASSUME TypeOK, ReaderPhase, Next
    PROVE  ReaderPhase'
<1> USE BehindThere, NoEvents DEF ReaderPhase, ReaderQuiet, AtRest, FileOpen, Answers, Grown, Taken
<1>1. CASE User \/ HomeWaited
  BY <1>1, UserLeaves
<1>2. CASE ReadThread
  BY <1>2, ReadEffects, ReadLeaves DEF ReadDoes, Reading
<1>3. CASE VideoThread
  BY <1>3, VideoEffects, VideoLeaves DEF VideoDoes
<1>4. CASE ConvertThread
  BY <1>4, ConvertEffects, ConvertLeaves DEF ConvertDoes
<1>5. CASE Command
  BY <1>5, CommandEffects, DecodeLeaves DEF CommandDoes, workerQueues, NoFile, Decoding, DecodeThread
<1>6. CASE Abort
  BY <1>6, AbortEffects, DecodeLeaves DEF AbortDoes, workerQueues, NoFile, DecodeThread
<1>7. CASE Notification
  BY <1>7, NotificationEffects, DecodeLeaves DEF NotificationDoes, NoFile, DecodeThread
<1>8. CASE DecodeStep
  BY <1>8, StepEffects, DecodeLeaves DEF StepDoes, NoFile, Decoding, DecodeThread
<1> QED
  BY <1>1, <1>2, <1>3, <1>4, <1>5, <1>6, <1>7, <1>8 DEF Next, DecodeThread

(* The convert thread likewise, up to the images it clears for the video   *)
(* decoder, which is still at work.                                        *)
LEMMA ConvertPhaseStep ==
    ASSUME TypeOK, ReaderPhase, ConvertPhase, VideoPhase, Next
    PROVE  ConvertPhase'
<1> USE BehindThere, NoEvents DEF ReaderPhase, ReaderQuiet, ConvertPhase, ConvertQuiet, VideoPhase, VideoQuiet, AtRest, FileOpen, Answers, Grown, Taken
<1>1. CASE User \/ HomeWaited
  BY <1>1, UserLeaves
<1>2. CASE ReadThread
  BY <1>2, ReadEffects, ReadLeaves DEF ReadDoes, Reading
<1>3. CASE VideoThread
  BY <1>3, VideoEffects, VideoLeaves DEF VideoDoes
<1>4. CASE ConvertThread
  BY <1>4, ConvertEffects, ConvertLeaves DEF ConvertDoes
<1>5. CASE Command
  BY <1>5, CommandEffects, DecodeLeaves DEF CommandDoes, workerQueues, flags, NoFile, Decoding, DecodeThread
<1>6. CASE Abort
  BY <1>6, AbortEffects, DecodeLeaves DEF AbortDoes, workerQueues, flags, NoFile, DecodeThread
<1>7. CASE Notification
  BY <1>7, NotificationEffects, DecodeLeaves DEF NotificationDoes, NoFile, DecodeThread
<1>8. CASE DecodeStep
  BY <1>8, StepEffects, DecodeLeaves DEF StepDoes, NoFile, Decoding, DecodeThread
<1> QED
  BY <1>1, <1>2, <1>3, <1>4, <1>5, <1>6, <1>7, <1>8 DEF Next, DecodeThread

(* The video decoder likewise; it is the last of the three.                *)
LEMMA VideoPhaseStep ==
    ASSUME TypeOK, ReaderPhase, ConvertPhase, VideoPhase, Next
    PROVE  VideoPhase'
<1> USE BehindThere, NoEvents DEF ReaderPhase, ReaderQuiet, ConvertPhase, ConvertQuiet, VideoPhase, VideoQuiet, AtRest, FileOpen, Answers, Grown, Taken
<1>1. CASE User \/ HomeWaited
  BY <1>1, UserLeaves
<1>2. CASE ReadThread
  BY <1>2, ReadEffects, ReadLeaves DEF ReadDoes, Reading
<1>3. CASE VideoThread
  BY <1>3, VideoEffects, VideoLeaves DEF VideoDoes
<1>4. CASE ConvertThread
  BY <1>4, ConvertEffects, ConvertLeaves DEF ConvertDoes
<1>5. CASE Command
  BY <1>5, CommandEffects, DecodeLeaves DEF CommandDoes, workerQueues, flags, NoFile, Decoding, DecodeThread
<1>6. CASE Abort
  BY <1>6, AbortEffects, DecodeLeaves DEF AbortDoes, workerQueues, flags, NoFile, DecodeThread
<1>7. CASE Notification
  BY <1>7, NotificationEffects, DecodeLeaves DEF NotificationDoes, NoFile, DecodeThread
<1>8. CASE DecodeStep
  BY <1>8, StepEffects, DecodeLeaves DEF StepDoes, NoFile, Decoding, DecodeThread
<1> QED
  BY <1>1, <1>2, <1>3, <1>4, <1>5, <1>6, <1>7, <1>8 DEF Next, DecodeThread

(* An abort happens with a file open.                                      *)
LEMMA EndingStep ==
    ASSUME TypeOK, Ending => FileOpen, Next
    PROVE  (Ending => FileOpen)'
<1> USE DEF Ending, Aborting, FileOpen
<1>1. CASE User \/ HomeWaited
  BY <1>1, UserLeaves
<1>2. CASE ReadThread
  BY <1>2, ReadEffects, ReadLeaves DEF ReadDoes, Reading
<1>3. CASE VideoThread
  BY <1>3, VideoEffects, VideoLeaves DEF VideoDoes
<1>4. CASE ConvertThread
  BY <1>4, ConvertEffects, ConvertLeaves DEF ConvertDoes
<1>5. CASE Command
  BY <1>5, CommandEffects, DecodeLeaves DEF CommandDoes, workerQueues, flags, NoFile, Decoding, DecodeThread
<1>6. CASE Abort
  BY <1>6, AbortEffects, DecodeLeaves DEF AbortDoes, workerQueues, flags, NoFile, DecodeThread
<1>7. CASE Notification
  BY <1>7, NotificationEffects, DecodeLeaves DEF NotificationDoes, NoFile, DecodeThread
<1>8. CASE DecodeStep
  BY <1>8, StepEffects, DecodeLeaves DEF StepDoes, NoFile, Decoding, DecodeThread
<1> QED
  BY <1>1, <1>2, <1>3, <1>4, <1>5, <1>6, <1>7, <1>8 DEF Next, DecodeThread

(* One request to read is under way at most: another one is only made when *)
(* is_read_packet_thread_active is clear, which the answer clears.         *)
LEMMA ReadOnceStep ==
    ASSUME TypeOK, ReadOnce, Phases, Next
    PROVE  ReadOnce'
<1> USE BehindThere, NoEvents DEF ReadOnce, Reading, Phases, ReaderPhase, ReaderQuiet, AtRest, Answers, Grown, Taken
<1>1. CASE User \/ HomeWaited
  BY <1>1, UserLeaves
<1>2. CASE ReadThread
  BY <1>2, ReadEffects, ReadLeaves DEF ReadDoes, Reading
<1>3. CASE VideoThread
  BY <1>3, VideoEffects, VideoLeaves DEF VideoDoes
<1>4. CASE ConvertThread
  BY <1>4, ConvertEffects, ConvertLeaves DEF ConvertDoes
<1>5. CASE Command
  BY <1>5, CommandEffects, DecodeLeaves DEF CommandDoes, workerQueues, flags, NoFile, Decoding, DecodeThread
<1>6. CASE Abort
  BY <1>6, AbortEffects, DecodeLeaves DEF AbortDoes, workerQueues, flags, NoFile, DecodeThread
<1>7. CASE Notification
  BY <1>7, NotificationEffects, DecodeLeaves DEF NotificationDoes, NoFile, DecodeThread
<1>8. CASE DecodeStep
  BY <1>8, StepEffects, DecodeLeaves DEF StepDoes, NoFile, Decoding, DecodeThread
<1> QED
  BY <1>1, <1>2, <1>3, <1>4, <1>5, <1>6, <1>7, <1>8 DEF Next, DecodeThread

(* One packet to decode is under way at most: while                        *)
(* is_waiting_video_decoder is set no packet is parsed.                    *)
LEMMA CopyOnceStep ==
    ASSUME TypeOK, CopyOnce, Phases, Next
    PROVE  CopyOnce'
<1> USE BehindThere, NoEvents DEF CopyOnce, Phases, VideoPhase, VideoQuiet, AtRest, FileOpen, Grown, Taken
<1>1. CASE User \/ HomeWaited
  BY <1>1, UserLeaves
<1>2. CASE ReadThread
  BY <1>2, ReadEffects, ReadLeaves DEF ReadDoes, Reading
<1>3. CASE VideoThread
  BY <1>3, VideoEffects, VideoLeaves DEF VideoDoes
<1>4. CASE ConvertThread
  BY <1>4, ConvertEffects, ConvertLeaves DEF ConvertDoes
<1>5. CASE Command
  BY <1>5, CommandEffects, DecodeLeaves DEF CommandDoes, workerQueues, flags, NoFile, Decoding, DecodeThread
<1>6. CASE Abort
  BY <1>6, AbortEffects, DecodeLeaves DEF AbortDoes, workerQueues, flags, NoFile, DecodeThread
<1>7. CASE Notification
  BY <1>7, NotificationEffects, DecodeLeaves DEF NotificationDoes, NoFile, DecodeThread
<1>8. CASE DecodeStep
  BY <1>8, StepEffects, DecodeLeaves DEF StepDoes, NoFile, Decoding, DecodeThread
<1> QED
  BY <1>1, <1>2, <1>3, <1>4, <1>5, <1>6, <1>7, <1>8 DEF Next, DecodeThread

(* The decode thread fills the slot and empties it with the file.          *)
LEMMA DecodeSlot ==
    ASSUME TypeOK, DecodeThread
    PROVE  \/ cached' = cached
           \/ ~cached'
           \/ DecodeStep /\ cached' /\ waiting' /\ UNCHANGED notifQ /\ ~waiting /\ FileOpen'
<1>1. CASE Command
  BY <1>1 DEF Command, NoCommand, Play, PlayOpened, PlayFailed, PlayLater, Pause, Resume, KeepRam, SeekIgnored, SeekLater,
         Seek, Simple, EndIdle, End, Take, mediaVars
<1>2. CASE Abort
  BY <1>2 DEF Abort, Drain, Answered, ReadAborted, ConvertAborted, VideoAborted, Close, mediaVars
<1>3. CASE Notification
  BY <1>3 DEF Notification, NoNotification, NoteRead, NoteSeeking, NoteCopying, NoteBuffering, NoteOutOfBuffer,
         NoteCleared, Noted, mediaVars
<1>4. CASE StepNothing \/ StepEnd \/ StepWait \/ StepFull \/ StepTryAgain
  BY <1>4 DEF StepNothing, StepEnd, StepWait, StepFull, StepTryAgain, Step
<1>5. ASSUME NEW type \in Types, StepParse(type)
      PROVE  \/ cached' = cached
             \/ DecodeStep /\ cached' /\ waiting' /\ UNCHANGED notifQ /\ ~waiting /\ FileOpen'
  <2>1. /\ cached' = (cached \/ type = "video") /\ waiting' = (type = "video")
        /\ UNCHANGED notifQ /\ ~waiting /\ state \in Decoding
    BY <1>5 DEF StepParse
  <2>2. FileOpen'
    BY <1>5, <2>1, StepEffects DEF DecodeStep, StepDoes, FileOpen, NoFile, Decoding
  <2>3. cached \in BOOLEAN
    BY DEF TypeOK
  <2>4. CASE type = "video"
    BY <1>5, <2>1, <2>2, <2>4 DEF DecodeStep
  <2>5. CASE type # "video"
    <3>1. cached' = (cached \/ FALSE)
      BY <2>1, <2>5, Zenon
    <3> QED
      BY <2>3, <3>1
  <2> QED
    BY <2>4, <2>5
<1> QED
  BY <1>1, <1>2, <1>3, <1>4, <1>5 DEF DecodeThread, DecodeStep

(* The slot is freed before the decode thread is told so, but for a packet *)
(* that is skipped next.                                                   *)
LEMMA SlotHeldStep ==
    ASSUME TypeOK, CopyOnce, SlotHeld, Phases, Next
    PROVE  SlotHeld'
<1> USE BehindThere, NoEvents DEF SlotHeld, CopyOnce, Phases, VideoPhase, VideoQuiet, AtRest, FileOpen, Grown, Taken
<1>1. CASE User \/ HomeWaited
  BY <1>1, UserLeaves
<1>2. CASE ReadThread
  BY <1>2, ReadEffects, ReadLeaves DEF ReadDoes, Reading
<1>3. CASE VideoThread
  BY <1>3, VideoEffects, VideoLeaves DEF VideoDoes
<1>4. CASE ConvertThread
  BY <1>4, ConvertEffects, ConvertLeaves DEF ConvertDoes
<1>5. CASE Command
  BY <1>5, CommandEffects, DecodeLeaves, DecodeSlot, StepEffects DEF StepDoes, CommandDoes, workerQueues, flags, NoFile, Decoding, DecodeThread
<1>6. CASE Abort
  BY <1>6, AbortEffects, DecodeLeaves, DecodeSlot, StepEffects DEF StepDoes, AbortDoes, workerQueues, flags, NoFile, DecodeThread
<1>7. CASE Notification
  BY <1>7, NotificationEffects, DecodeLeaves, DecodeSlot, StepEffects DEF StepDoes, NotificationDoes, NoFile, DecodeThread
<1>8. CASE DecodeStep
  BY <1>8, StepEffects, DecodeLeaves, DecodeSlot DEF StepDoes, NoFile, Decoding, DecodeThread
<1> QED
  BY <1>1, <1>2, <1>3, <1>4, <1>5, <1>6, <1>7, <1>8 DEF Next, DecodeThread

(* The convert thread is told once of a file: its queue is cleared of it   *)
(* before the next one is open.                                            *)
LEMMA ConvertOnceStep ==
    ASSUME TypeOK, ConvertOnce, Phases, Next
    PROVE  ConvertOnce'
<1> USE BehindThere, NoEvents DEF ConvertOnce, Phases, ConvertPhase, ConvertQuiet, AtRest, FileOpen, Grown, Taken
<1>1. CASE User \/ HomeWaited
  BY <1>1, UserLeaves
<1>2. CASE ReadThread
  BY <1>2, ReadEffects, ReadLeaves DEF ReadDoes, Reading
<1>3. CASE VideoThread
  BY <1>3, VideoEffects, VideoLeaves DEF VideoDoes
<1>4. CASE ConvertThread
  BY <1>4, ConvertEffects, ConvertLeaves DEF ConvertDoes
<1>5. CASE Command
  BY <1>5, CommandEffects, DecodeLeaves DEF CommandDoes, workerQueues, flags, NoFile, Decoding, DecodeThread
<1>6. CASE Abort
  BY <1>6, AbortEffects, DecodeLeaves DEF AbortDoes, workerQueues, flags, NoFile, DecodeThread
<1>7. CASE Notification
  BY <1>7, NotificationEffects, DecodeLeaves DEF NotificationDoes, NoFile, DecodeThread
<1>8. CASE DecodeStep
  BY <1>8, StepEffects, DecodeLeaves DEF StepDoes, NoFile, Decoding, DecodeThread
<1> QED
  BY <1>1, <1>2, <1>3, <1>4, <1>5, <1>6, <1>7, <1>8 DEF Next, DecodeThread

(* Without video there is nothing to decode, to convert or to clear.       *)
LEMMA AudioOnlyStep ==
    ASSUME TypeOK, AudioOnly, Phases, Next
    PROVE  AudioOnly'
<1> USE BehindThere, NoEvents DEF AudioOnly, HasVideo, Grown, Taken
<1>1. CASE User \/ HomeWaited
  BY <1>1, UserLeaves
<1>2. CASE ReadThread
  BY <1>2, ReadEffects, ReadLeaves DEF ReadDoes, Reading
<1>3. CASE VideoThread
  BY <1>3, VideoEffects, VideoLeaves DEF VideoDoes
<1>4. CASE ConvertThread
  BY <1>4, ConvertEffects, ConvertLeaves DEF ConvertDoes
<1>5. CASE Command
  BY <1>5, CommandEffects, DecodeLeaves DEF CommandDoes, workerQueues, flags, NoFile, Decoding, DecodeThread
<1>6. CASE Abort
  BY <1>6, AbortEffects, DecodeLeaves DEF AbortDoes, workerQueues, flags, NoFile, DecodeThread
<1>7. CASE Notification
  BY <1>7, NotificationEffects, DecodeLeaves DEF NotificationDoes, NoFile, DecodeThread
<1>8. CASE DecodeStep
  BY <1>8, StepEffects, DecodeLeaves DEF StepDoes, NoFile, Decoding, DecodeThread
<1> QED
  BY <1>1, <1>2, <1>3, <1>4, <1>5, <1>6, <1>7, <1>8 DEF Next, DecodeThread

(* A seek goes from one thread to the next: the step that puts it in a     *)
(* place takes it from the place before.                                   *)
LEMMA SeekAloneStep ==
    ASSUME TypeOK, Intent, SeekAlone, Phases, AudioOnly, ReadOnce, CopyOnce, Next
    PROVE  SeekAlone'
<1> USE BehindThere, NoEvents DEF Intent, AudioOnly, SeekAlone, SeekOnce, SeekInOnePlace, SeekInOrder, InReader, IsSought, InDecoder, InConverter, IsCleared, Phases, AtRest, ReaderPhase, ReaderQuiet, VideoPhase, VideoQuiet, ConvertPhase, ConvertQuiet, FileOpen, Grown, Taken
<1>1. CASE User \/ HomeWaited
  BY <1>1, UserLeaves
<1>2. CASE ReadThread
  BY <1>2, ReadEffects, ReadLeaves DEF ReadDoes, Reading
<1>3. CASE VideoThread
  BY <1>3, VideoEffects, VideoLeaves DEF VideoDoes
<1>4. CASE ConvertThread
  BY <1>4, ConvertEffects, ConvertLeaves DEF ConvertDoes
<1>5. CASE Command
  BY <1>5, CommandEffects, DecodeLeaves DEF CommandDoes, workerQueues, flags, NoFile, Decoding, DecodeThread
<1>6. CASE Abort
  BY <1>6, AbortEffects, DecodeLeaves DEF AbortDoes, workerQueues, flags, NoFile, DecodeThread
<1>7. CASE Notification
  BY <1>7, NotificationEffects, DecodeLeaves DEF NotificationDoes, NoFile, DecodeThread
<1>8. CASE DecodeStep
  BY <1>8, StepEffects, DecodeLeaves DEF StepDoes, NoFile, Decoding, DecodeThread
<1> QED
  BY <1>1, <1>2, <1>3, <1>4, <1>5, <1>6, <1>7, <1>8 DEF Next, DecodeThread

-----------------------------------------------------------------------------
(* The invariant.                                                          *)
LEMMA InvStep == Inv /\ [Next]_vars => Inv'
<1>1. ASSUME Inv, Next
      PROVE  Inv'
  <2>1. TypeOK' /\ Intent'
    BY <1>1, TypesKept, IntentStep DEF Inv
  <2>2. Phases'
    BY <1>1, ReaderPhaseStep, ConvertPhaseStep, VideoPhaseStep, EndingStep DEF Inv, Phases
  <2>3. ReadOnce' /\ CopyOnce' /\ SlotHeld' /\ ConvertOnce' /\ AudioOnly' /\ SeekAlone'
    BY <1>1, ReadOnceStep, CopyOnceStep, SlotHeldStep, ConvertOnceStep, AudioOnlyStep, SeekAloneStep DEF Inv
  <2> QED
    BY <2>1, <2>2, <2>3 DEF Inv
<1>2. ASSUME Inv, UNCHANGED vars
      PROVE  Inv'
  <2>1. TypeOK' /\ Intent'
    BY <1>2, TypesKept, IntentStep DEF Inv
  <2> QED
    BY <1>2, <2>1 DEF Inv, vars, playerVars, decodeVars, mediaVars, convertVars, userVars, history,
       Phases, ReaderPhase, ConvertPhase, VideoPhase, ReaderQuiet, ConvertQuiet, VideoQuiet, AtRest,
       FileOpen, Ending, ReadOnce, Reading, CopyOnce, SlotHeld, AudioOnly, HasVideo, ConvertOnce, SeekAlone,
       SeekOnce, SeekInOnePlace, SeekInOrder, InReader, IsSought, InDecoder, InConverter, IsCleared
<1> QED
  BY <1>1, <1>2

(* The inductive invariant holds whatever the user asks for, in whatever   *)
(* order the threads take their turns.                                     *)
THEOREM PlayerInvariant == Spec => []Inv
<1> QED
  BY InitInv, InvStep, PTL DEF Spec

(* The playback state always tells what the user asked for last.           *)
THEOREM IntentIsKept == Spec => []IntentKept
<1>1. Inv => IntentKept
  BY DEF Inv, Intent
<1> QED
  BY <1>1, PlayerInvariant, PTL

(* A file is closed with the reader and the video decoder at rest and none *)
(* of their answers on the way.                                            *)
THEOREM SessionsAreApart == Spec => []SessionsDontMix
<1>1. Inv => SessionsDontMix
  <2> SUFFICES ASSUME Inv, AtRest
               PROVE  /\ readQ = <<>> /\ videoQ = <<>>
                      /\ rpc = "take" /\ vpc = "take"
                      /\ \A i \in 1 .. Len(notifQ) : notifQ[i].id = "FINISHED_CLEARING"
    BY DEF SessionsDontMix, AtRest
  <2> QED
    BY DEF Inv, Phases, ReaderPhase, VideoPhase, ReaderQuiet, VideoQuiet, Ids
<1> QED
  BY <1>1, PlayerInvariant, PTL

(* While the reader or the convert thread clears a cache, nobody else uses *)
(* it.                                                                     *)
THEOREM CachesAreClearedAlone == Spec => []CachesClearedAlone
<1>1. Inv => CachesClearedAlone
  <2> SUFFICES ASSUME Inv, ~late, ~Ending
               PROVE  /\ rpc = "seek" => state \notin Decoding
                      /\ cpc = "clear" => vpc = "take" /\ videoQ = <<>>
    BY DEF CachesClearedAlone
  <2>1. CASE ~FileOpen
    BY <2>1 DEF Inv, Phases, AtRest, ReaderPhase, VideoPhase, ReaderQuiet, VideoQuiet
  <2>2. CASE FileOpen
    <3>1. rpc = "seek" => state \notin Decoding
      BY <2>2 DEF Inv, SeekAlone, SeekInOnePlace, InReader, Decoding
    <3>2. ASSUME cpc = "clear"
          PROVE  vpc = "take" /\ Ids(videoQ) = {}
      <4>1. vpc = "take" /\ \A x \in Ids(videoQ) : x = "ABORT"
        BY <2>2, <3>2 DEF Inv, SeekAlone, SeekInOrder, InConverter
      <4>2. "ABORT" \notin Ids(videoQ)
        BY DEF Inv, Phases, VideoPhase, Ending, Aborting
      <4> QED
        BY <4>1, <4>2
    <3>3. Ids(videoQ) = {} => videoQ = <<>>
      BY NoEvents DEF Inv, TypeOK
    <3> QED
      BY <3>1, <3>2, <3>3
  <2> QED
    BY <2>1, <2>2
<1> QED
  BY <1>1, PlayerInvariant, PTL

(* No "buffering is finished" sent before a seek is left when the player   *)
(* decodes towards the new position.                                       *)
THEOREM BufferingStaysFresh == Spec => []BufferingIsFresh
<1>1. Inv => BufferingIsFresh
  BY HasEventIds DEF Inv, SeekAlone, SeekInOrder, BufferingIsFresh, FileOpen, NoFile
<1> QED
  BY <1>1, PlayerInvariant, PTL

(* No packet that the video decoder has still to copy is overwritten in    *)
(* the slot: if one is, its copy has failed and it is about to be skipped. *)
THEOREM PacketIsNotOverwritten == Spec => PacketNotOverwritten
<1>1. ASSUME Inv, StepParse("video"), cached
      PROVE  vpc = "skip"
  BY <1>1 DEF Inv, SlotHeld, StepParse
<1>2. Inv /\ [Next]_vars => [StepParse("video") /\ cached => vpc = "skip"]_vars
  BY <1>1
<1> QED
  BY <1>2, PlayerInvariant, PTL DEF Spec, PacketNotOverwritten

(* Three requests at most wait for a worker.                               *)
THEOREM ThreeRequestsAtMost == Spec => []WorkersKeepUp
<1>1. Inv => WorkersKeepUp
  <2> SUFFICES ASSUME Inv, ~late
               PROVE  Len(readQ) <= 3 /\ Len(videoQ) <= 3 /\ Len(convertQ) <= 3
    BY DEF WorkersKeepUp
  <2>0. /\ readQ \in Seq(Item1({"READ", "SEEK", "ABORT"}))
        /\ videoQ \in Seq(Item1({"DECODE", "CLEAR", "ABORT"}))
        /\ convertQ \in Seq(Item1({"CONVERT", "CLEAR", "ABORT"}))
    BY DEF Inv, TypeOK
  <2>1. Len(convertQ) <= 3
    BY <2>0, OfEachOne DEF Inv, SeekAlone, ConvertOnce, Phases, ConvertPhase
  <2>2. CASE ~FileOpen
    BY <2>1, <2>2 DEF Inv, Phases, AtRest, ReaderPhase, VideoPhase, ReaderQuiet, VideoQuiet
  <2>3. CASE FileOpen
    <3>1. Len(readQ) <= 3
      BY <2>0, <2>3, OfEachOne DEF Inv, SeekAlone, SeekOnce, ReadOnce, Phases, ReaderPhase
    <3>2. Len(videoQ) <= 3
      BY <2>0, <2>3, OfEachOne DEF Inv, SeekAlone, SeekOnce, CopyOnce, Phases, VideoPhase
    <3> QED
      BY <2>1, <3>1, <3>2
  <2> QED
    BY <2>2, <2>3
<1> QED
  BY <1>1, PlayerInvariant, PTL

-----------------------------------------------------------------------------
(* What is not lost as long as no queue is full: somebody has the request  *)
(* that the decode thread waits for.                                       *)
ReadSomewhere ==
    active /\ FileOpen /\ ~Ending =>
        "READ" \in Ids(readQ) \/ Reading \/ "FINISHED_READING" \in Ids(notifQ) \/ "EOF" \in Ids(notifQ)

CopySomewhere ==
    waiting /\ FileOpen /\ ~Ending =>
        "DECODE" \in Ids(videoQ) \/ vpc = "copy" \/ "FINISHED_COPYING" \in Ids(notifQ)

SeekSomewhere ==
    state = "PREPARE_SEEKING" /\ ~Ending =>
        InReader \/ IsSought \/ InDecoder \/ InConverter \/ IsCleared

Somewhere == ReadSomewhere /\ CopySomewhere /\ SeekSomewhere

(* A request to read gets its answer.                                      *)
LEMMA ReadSomewhereStep ==
    ASSUME TypeOK, Phases, Roomy, ReadSomewhere, Next
    PROVE  ReadSomewhere'
<1> USE DEF ReadSomewhere, Reading, Phases, ReaderPhase, FileOpen, Ending, Aborting, Roomy, Grown, Taken
<1>1. CASE User \/ HomeWaited
  BY <1>1, UserLeaves
<1>2. CASE ReadThread
  BY <1>2, ReadEffects, ReadLeaves DEF ReadDoes
<1>3. CASE VideoThread
  BY <1>3, VideoEffects, VideoLeaves DEF VideoDoes
<1>4. CASE ConvertThread
  BY <1>4, ConvertEffects, ConvertLeaves DEF ConvertDoes
<1>5. CASE Command
  BY <1>5, CommandEffects, DecodeLeaves DEF CommandDoes, workerQueues, flags, NoFile, Decoding, DecodeThread
<1>6. CASE Abort
  BY <1>6, AbortEffects, DecodeLeaves DEF AbortDoes, workerQueues, flags, NoFile, DecodeThread
<1>7. CASE Notification
  BY <1>7, NotificationEffects, DecodeLeaves DEF NotificationDoes, NoFile, DecodeThread
<1>8. CASE DecodeStep
  BY <1>8, StepEffects, DecodeLeaves DEF StepDoes, NoFile, Decoding, DecodeThread
<1> QED
  BY <1>1, <1>2, <1>3, <1>4, <1>5, <1>6, <1>7, <1>8 DEF Next, DecodeThread

(* A packet to decode gets its answer.                                     *)
LEMMA CopySomewhereStep ==
    ASSUME TypeOK, Phases, Intent, Roomy, CopySomewhere, Next
    PROVE  CopySomewhere'
<1> USE DEF CopySomewhere, Intent, Phases, VideoPhase, FileOpen, Ending, Aborting, Roomy, Grown, Taken
<1>1. CASE User \/ HomeWaited
  BY <1>1, UserLeaves
<1>2. CASE ReadThread
  BY <1>2, ReadEffects, ReadLeaves DEF ReadDoes
<1>3. CASE VideoThread
  BY <1>3, VideoEffects, VideoLeaves DEF VideoDoes
<1>4. CASE ConvertThread
  BY <1>4, ConvertEffects, ConvertLeaves DEF ConvertDoes
<1>5. CASE Command
  BY <1>5, CommandEffects, DecodeLeaves DEF CommandDoes, workerQueues, flags, NoFile, Decoding, DecodeThread
<1>6. CASE Abort
  BY <1>6, AbortEffects, DecodeLeaves DEF AbortDoes, workerQueues, flags, NoFile, DecodeThread
<1>7. CASE Notification
  BY <1>7, NotificationEffects, DecodeLeaves DEF NotificationDoes, NoFile, DecodeThread
<1>8. CASE DecodeStep
  BY <1>8, StepEffects, DecodeLeaves DEF StepDoes, NoFile, Decoding, DecodeThread
<1> QED
  BY <1>1, <1>2, <1>3, <1>4, <1>5, <1>6, <1>7, <1>8 DEF Next, DecodeThread

(* A seek goes on to the next thread.                                      *)
LEMMA SeekSomewhereStep ==
    ASSUME TypeOK, Phases, AudioOnly, Roomy, SeekSomewhere, Next
    PROVE  SeekSomewhere'
<1> USE DEF SeekSomewhere, NoFile, Reading, InReader, IsSought, InDecoder, InConverter, IsCleared, AudioOnly, Phases, ReaderPhase, ConvertPhase, VideoPhase, FileOpen, Ending, Aborting, Roomy, Grown, Taken
<1>1. CASE User \/ HomeWaited
  BY <1>1, UserLeaves
<1>2. CASE ReadThread
  BY <1>2, ReadEffects, ReadLeaves DEF ReadDoes
<1>3. CASE VideoThread
  BY <1>3, VideoEffects, VideoLeaves DEF VideoDoes
<1>4. CASE ConvertThread
  BY <1>4, ConvertEffects, ConvertLeaves DEF ConvertDoes
<1>5. CASE Command
  BY <1>5, CommandEffects, DecodeLeaves DEF CommandDoes, workerQueues, flags, NoFile, Decoding, DecodeThread
<1>6. CASE Abort
  BY <1>6, AbortEffects, DecodeLeaves DEF AbortDoes, workerQueues, flags, NoFile, DecodeThread
<1>7. CASE Notification
  BY <1>7, NotificationEffects, DecodeLeaves DEF NotificationDoes, NoFile, DecodeThread
<1>8. CASE DecodeStep
  BY <1>8, StepEffects, DecodeLeaves DEF StepDoes, NoFile, Decoding, DecodeThread
<1> QED
  BY <1>1, <1>2, <1>3, <1>4, <1>5, <1>6, <1>7, <1>8 DEF Next, DecodeThread

(* The set of the places of OneSeek.                                       *)
LEMMA Places ==
    /\ SeekPlaces = {} <=> ~InReader /\ ~IsSought /\ ~InDecoder /\ ~InConverter /\ ~IsCleared
    /\ SeekInOnePlace /\ SeekPlaces # {} => \E p : SeekPlaces = {p}
<1> DEFINE a == <<"reader", HasEvent(readQ, "SEEK") \/ rpc = "seek">>
           b == <<"read", HasEvent(notifQ, "FINISHED_SEEKING")>>
           c == <<"decoder", HasEvent(videoQ, "CLEAR") \/ vpc = "flush">>
           d == <<"converter", HasEvent(convertQ, "CLEAR") \/ cpc = "clear">>
           e == <<"cleared", HasEvent(notifQ, "FINISHED_CLEARING")>>
<1>1. SeekPlaces = {p \in {a, b, c, d, e} : p[2]}
  BY DEF SeekPlaces
<1>2. /\ a[2] <=> InReader
      /\ b[2] <=> IsSought
      /\ c[2] <=> InDecoder
      /\ d[2] <=> InConverter
      /\ e[2] <=> IsCleared
  BY HasEventIds DEF InReader, IsSought, InDecoder, InConverter, IsCleared
<1> HIDE DEF a, b, c, d, e
<1>3. SeekPlaces = {} <=> ~InReader /\ ~IsSought /\ ~InDecoder /\ ~InConverter /\ ~IsCleared
  BY <1>1, <1>2, Zenon
<1>4. ASSUME SeekInOnePlace, SeekPlaces # {}
      PROVE  \E p : SeekPlaces = {p}
  <2>1. CASE InReader
    <3>1. SeekPlaces = {a}
      BY <1>1, <1>2, <1>4, <2>1 DEF SeekInOnePlace
    <3> QED
      BY <3>1
  <2>2. CASE IsSought
    <3>1. SeekPlaces = {b}
      BY <1>1, <1>2, <1>4, <2>2 DEF SeekInOnePlace
    <3> QED
      BY <3>1
  <2>3. CASE InDecoder
    <3>1. SeekPlaces = {c}
      BY <1>1, <1>2, <1>4, <2>3 DEF SeekInOnePlace
    <3> QED
      BY <3>1
  <2>4. CASE InConverter
    <3>1. SeekPlaces = {d}
      BY <1>1, <1>2, <1>4, <2>4 DEF SeekInOnePlace
    <3> QED
      BY <3>1
  <2>5. CASE IsCleared
    <3>1. SeekPlaces = {e}
      BY <1>1, <1>2, <1>4, <2>5 DEF SeekInOnePlace
    <3> QED
      BY <3>1
  <2> QED
    BY <1>3, <1>4, <2>1, <2>2, <2>3, <2>4, <2>5
<1> QED
  BY <1>3, <1>4

(* Nothing is waited for at first.                                         *)
LEMMA SomewhereInit == Init => Somewhere
BY DEF Init, Somewhere, ReadSomewhere, CopySomewhere, SeekSomewhere

(* What is waited for stays somewhere as long as no queue is full.         *)
LEMMA SomewhereStep == Inv /\ Somewhere /\ Roomy /\ [Next]_vars => Somewhere'
<1>1. ASSUME Inv, Somewhere, Roomy, Next
      PROVE  Somewhere'
  BY <1>1, ReadSomewhereStep, CopySomewhereStep, SeekSomewhereStep DEF Inv, Somewhere
<1>2. ASSUME Somewhere, UNCHANGED vars
      PROVE  Somewhere'
  BY <1>2 DEF Somewhere, ReadSomewhere, CopySomewhere, SeekSomewhere, vars, playerVars, decodeVars,
     convertVars, FileOpen, Ending, Reading, InReader, IsSought, InDecoder, InConverter, IsCleared
<1> QED
  BY <1>1, <1>2

(* So it always is, in a behaviour in which no queue is ever full.         *)
LEMMA AlwaysSomewhere == Spec /\ []Roomy => []Somewhere
<1> QED
  BY SomewhereInit, SomewhereStep, PlayerInvariant, PTL DEF Spec

(* Where no queue is ever full, what the decode thread waits for is on its *)
(* way: is_read_packet_thread_active and is_waiting_video_decoder are never *)
(* left set with nobody to clear them.                                     *)
THEOREM WorkersDoAnswer == Spec /\ []Roomy => []WorkersAnswer
<1>1. Inv /\ Somewhere => ReaderAnswers /\ DecoderAnswers
  BY HasEventIds DEF Somewhere, ReadSomewhere, CopySomewhere, Reading, ReaderAnswers, DecoderAnswers
<1>2. Inv /\ Somewhere /\ WorkersKeepUp /\ Roomy => WorkersAnswer
  BY <1>1 DEF WorkersAnswer, Inv
<1> QED
  BY <1>2, AlwaysSomewhere, PlayerInvariant, ThreeRequestsAtMost, PTL

(* Where no queue is ever full, a seek that is being prepared is with one  *)
(* of the threads or on its way between two; in a session that began with  *)
(* no late clear it is in one place, and in none when it is over.          *)
THEOREM SeekIsOne == Spec /\ []Roomy => []OneSeek
<1>1. ASSUME Inv, Somewhere
      PROVE  OneSeek
  <2> SUFFICES ASSUME FileOpen, ~Ending
               PROVE  /\ state = "PREPARE_SEEKING" => SeekPlaces # {}
                      /\ ~late => Cardinality(SeekPlaces) = IF state = "PREPARE_SEEKING" THEN 1 ELSE 0
    BY DEF OneSeek
  <2>1. state = "PREPARE_SEEKING" => SeekPlaces # {}
    BY <1>1, Places DEF Somewhere, SeekSomewhere
  <2>2. ASSUME ~late
        PROVE  Cardinality(SeekPlaces) = IF state = "PREPARE_SEEKING" THEN 1 ELSE 0
    <3>1. SeekInOnePlace
      BY <1>1, <2>2 DEF Inv, SeekAlone
    <3>2. CASE state = "PREPARE_SEEKING"
      BY <2>1, <3>1, <3>2, Places, FS_Singleton
    <3>3. CASE state # "PREPARE_SEEKING"
      <4>1. SeekPlaces = {}
        BY <3>1, <3>3, Places DEF SeekInOnePlace
      <4> QED
        BY <4>1, <3>3, FS_EmptySet
    <3> QED
      BY <3>2, <3>3
  <2> QED
    BY <2>1, <2>2
<1> QED
  BY <1>1, AlwaysSomewhere, PlayerInvariant, PTL

(* Whether or not a queue is full: in such a session no trace of a seek is *)
(* left when the player does not prepare one, so that no answer to an      *)
(* earlier seek can end a later one, and the one it prepares is in one     *)
(* place at most.                                                          *)
THEOREM NoStraySeek ==
    Spec => [](FileOpen /\ ~late =>
                   /\ state # "PREPARE_SEEKING" => SeekPlaces = {}
                   /\ SeekPlaces # {} => Cardinality(SeekPlaces) = 1)
<1>1. ASSUME Inv, FileOpen, ~late
      PROVE  /\ state # "PREPARE_SEEKING" => SeekPlaces = {}
             /\ SeekPlaces # {} => Cardinality(SeekPlaces) = 1
  <2>1. SeekInOnePlace
    BY <1>1 DEF Inv, SeekAlone
  <2>2. state # "PREPARE_SEEKING" => SeekPlaces = {}
    BY <2>1, Places DEF SeekInOnePlace
  <2>3. SeekPlaces # {} => Cardinality(SeekPlaces) = 1
    BY <2>1, Places, FS_Singleton
  <2> QED
    BY <2>2, <2>3
<1> QED
  BY <1>1, PlayerInvariant, PTL
=============================================================================
