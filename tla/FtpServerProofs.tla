--------------------------- MODULE FtpServerProofs ---------------------------
(* Proofs about FtpServer: what two threads that pass commands and answers *)
(* through two bounded queues may rely on, for every number of clients,    *)
(* size of the queues and of the buffers, and size of the files.           *)
(*                                                                         *)
(* Every step of the server thread is first shown to be one of a few       *)
(* effects on one client and the queues (ServerDoes), every step of the    *)
(* I/O thread likewise (IoDoes).  Each part of the invariant is then kept  *)
(* by the effects:                                                         *)
(*   Basics    types, room in the buffers, reads within their files;       *)
(*   Own       the messages about a transfer are its own;                  *)
(*   Await     an answer that is waited for has something it comes of;     *)
(*   Retrieve  the blocks of a RETR that are on their way follow on those  *)
(*             sent, and the read state on them;                           *)
(*   Store     the data of a STOR in the file, in the queue and in the     *)
(*             buffer follow on each other, and the first answer is the    *)
(*             last of a transfer that went well.                          *)
EXTENDS FtpServer, SequenceTheorems, TLAPS

(* Lemmas about the elements of a queue.                                   *)
LEMMA Elements ==
    ASSUME NEW T
    PROVE  /\ ToSet(<<>>) = {}
           /\ \A q \in Seq(T), m \in T : /\ Append(q, m) \in Seq(T) /\ Len(Append(q, m)) = Len(q) + 1
                                         /\ ToSet(Append(q, m)) = ToSet(q) \cup {m}
           /\ \A q \in Seq(T) : q # <<>> => /\ Head(q) \in ToSet(q) /\ Head(q) \in T
                                            /\ Tail(q) \in Seq(T) /\ Len(Tail(q)) = Len(q) - 1
                                            /\ ToSet(Tail(q)) \subseteq ToSet(q)
                                            /\ ToSet(q) \subseteq ToSet(Tail(q)) \cup {Head(q)}
           /\ \A q \in Seq(T) : ToSet(q) \subseteq T
<1>0. \A q \in Seq(T) : \A i \in 1 .. Len(q) : q[i] \in ToSet(q)
  BY DEF ToSet
<1>1. ToSet(<<>>) = {}
  BY DEF ToSet
<1>2. ASSUME NEW q \in Seq(T), NEW m \in T
      PROVE  /\ Append(q, m) \in Seq(T) /\ Len(Append(q, m)) = Len(q) + 1
             /\ ToSet(Append(q, m)) = ToSet(q) \cup {m}
  <2>1. /\ Append(q, m) \in Seq(T) /\ Len(Append(q, m)) = Len(q) + 1 /\ Len(q) \in Nat
        /\ \A i \in 1 .. Len(q) : Append(q, m)[i] = q[i]
        /\ Append(q, m)[Len(q) + 1] = m
    OBVIOUS
  <2>2. 1 .. Len(q) + 1 = (1 .. Len(q)) \cup {Len(q) + 1}
    BY <2>1
  <2> DEFINE r == Append(q, m)
  <2>3. ToSet(r) = {r[i] : i \in 1 .. Len(q) + 1}
    BY <2>1 DEF ToSet
  <2> HIDE DEF r
  <2>4. ToSet(r) = ToSet(q) \cup {m}
    <3>1. ToSet(q) = {r[i] : i \in 1 .. Len(q)}
      BY <2>1 DEF ToSet, r
    <3> QED
      BY <2>1, <2>2, <2>3, <3>1 DEF r
  <2> QED
    BY <2>1, <2>4 DEF r
<1>3. ASSUME NEW q \in Seq(T), q # <<>>
      PROVE  /\ Head(q) \in ToSet(q) /\ Head(q) \in T
             /\ Tail(q) \in Seq(T) /\ Len(Tail(q)) = Len(q) - 1
             /\ ToSet(Tail(q)) \subseteq ToSet(q)
             /\ ToSet(q) \subseteq ToSet(Tail(q)) \cup {Head(q)}
  <2>1. /\ Tail(q) \in Seq(T) /\ Len(Tail(q)) = Len(q) - 1 /\ Len(q) \in Nat /\ Len(q) > 0
        /\ \A i \in 1 .. Len(q) - 1 : Tail(q)[i] = q[i + 1]
        /\ Head(q) = q[1] /\ q[1] \in T
    BY <1>3
  <2> DEFINE r == Tail(q)
  <2> HIDE DEF r
  <2>2. ToSet(r) \subseteq ToSet(q)
    BY <2>1 DEF ToSet, r
  <2>3. ASSUME NEW x \in ToSet(q)
        PROVE  x \in ToSet(r) \cup {q[1]}
    <3>1. PICK i \in 1 .. Len(q) : x = q[i]
      BY DEF ToSet
    <3>2. CASE i # 1
      <4>1. i - 1 \in 1 .. Len(r) /\ r[i - 1] = q[i]
        BY <2>1, <3>2 DEF r
      <4>2. r[i - 1] \in ToSet(r)
        BY <1>0, <4>1, <2>1 DEF r
      <4> QED
        BY <4>1, <4>2, <3>1
    <3> QED
      BY <3>1, <3>2
  <2> QED
    BY <2>1, <2>2, <2>3 DEF ToSet, r
<1>4. \A q \in Seq(T) : ToSet(q) \subseteq T
  BY DEF ToSet
<1> QED
  BY <1>1, <1>2, <1>3, <1>4

-----------------------------------------------------------------------------
(* The first part of the invariant: types, room in the buffers, and what a *)
(* transfer under way is known to be.                                      *)
Room ==
    \A c \in Clients :
        Len(client[c].buffer) < BufferSize \/ (spc = "adding" /\ cmd.client = c /\ cmd.type = "write")

Transferring == {"RETR", "STOR"}

Busy ==
    \A c \in Clients :
        /\ story[c].cur # 0 => client[c].pending \in Transferring
        /\ client[c].pending = "RETR" => story[c].size \in FileSizes

(* While the I/O thread waits for room for a block, the block is the one   *)
(* at the offset of its read state.                                        *)
BlockWaits ==
    iopc = "addRead" =>
        /\ index \in ReadSlots /\ reads[index] # None
        /\ \E failed \in BOOLEAN : res = Block(reads[index], failed)

(* The offset of a read state is in its file.                              *)
InFile == \A i \in ReadSlots : reads[i] # None => reads[i].offset <= reads[i].size

Basics == TypeOK /\ Room /\ Busy /\ InFile /\ BlockWaits

(* The state of client c and its story are replaced.                       *)
Sets(c, cl, s) ==
    /\ cl \in ClientRecord /\ s \in StoryRecord
    /\ client' = [client EXCEPT ![c] = cl] /\ story' = [story EXCEPT ![c] = s]

(* What the declarations and FtpAssumption say of the constants and of the *)
(* initial states.                                                         *)
LEMMA Constants ==
    /\ NumClients \in Nat /\ BufferSize \in Nat /\ BufferSize > 0
    /\ ServerQueueSize \in Nat /\ IoQueueSize \in Nat
    /\ FileSizes \subseteq Nat
    /\ Cleared \in ClientRecord /\ NewStory \in StoryRecord
    /\ <<>> \in Seq(Nat \X Nat) /\ Cleared.buffer = <<>> /\ Cleared.pending = "none" /\ Len(Cleared.buffer) = 0
BY FtpAssumption DEF Cleared, NewStory, ClientRecord, StoryRecord

(* The end of a transfer: by Ftpd_process_eof or with the connection.      *)
Rests(c) ==
    \E cl \in ClientRecord, s \in StoryRecord :
        /\ Sets(c, cl, s) /\ s.cur = 0
        /\ cl.pending \notin Transferring /\ Len(cl.buffer) < BufferSize

(* A story that ends keeps its type.                                       *)
LEMMA EndedTypes ==
    ASSUME NEW s \in StoryRecord, NEW r \in {"none", "226", "421", "425", "426"}
    PROVE  Ended(s, r) \in StoryRecord /\ Ended(s, r).cur = 0
BY DEF Ended, StoryRecord

(* Dropping a connection leaves its client at rest: no transfer, nothing   *)
(* kept of one.                                                            *)
LEMMA DropRests ==
    ASSUME TypeOK, NEW c \in Clients, NEW r \in {"none", "226", "421", "425", "426"}, Drop(c, r)
    PROVE  Rests(c)
<1> DEFINE s == Ended([story[c] EXCEPT !.wire = <<>>], r)
<1>1. s \in StoryRecord /\ s.cur = 0
  <2>1. [story[c] EXCEPT !.wire = <<>>] \in StoryRecord
    <3>1. story[c] \in StoryRecord
      BY DEF TypeOK
    <3> QED
      BY <3>1, Constants DEF StoryRecord
  <2> QED
    BY <2>1, EndedTypes
<1>2. Sets(c, Cleared, s)
  BY <1>1, Constants DEF Drop, Sets
<1> QED
  BY <1>1, <1>2, Constants DEF Rests, Transferring

(* So does Ftpd_process_eof, whose 226 follows when the buffer has room    *)
(* for what is received next.                                              *)
LEMMA EofRests ==
    ASSUME TypeOK, NEW c \in Clients, NEW s \in StoryRecord,
           NEW response \in {"226", "421"}, ProcessEof(c, response, s),
           response = "226" => Len(client[c].buffer) < BufferSize
    PROVE  Rests(c)
<1> DEFINE cl == client[c]
<1>0. cl \in ClientRecord
  BY DEF TypeOK
<1>1. CASE /\ client' = [client EXCEPT ![c] = Cleared]
           /\ story' = [story EXCEPT ![c] = Ended(s, IF cl.control /\ response = "421" THEN "421" ELSE "none")]
  <2>1. (IF cl.control /\ response = "421" THEN "421" ELSE "none") \in {"none", "421"}
    OBVIOUS
  <2> QED
    BY <1>1, <2>1, EndedTypes, Constants DEF Rests, Sets, Transferring
<1> DEFINE done == CASE cl.pending = "RETR" ->
                       [cl EXCEPT !.started = FALSE, !.data = FALSE, !.pending = "none"]
                  [] cl.pending = "STOR" ->
                       [cl EXCEPT !.eofSent = FALSE, !.buffer = <<>>, !.append = FALSE,
                                  !.data = FALSE, !.pending = "none"]
                  [] OTHER -> cl
<1>2. CASE /\ response = "226"
           /\ client' = [client EXCEPT ![c] = done]
           /\ story' = [story EXCEPT ![c] = Ended(s, "226")]
  <2>1. /\ done \in ClientRecord /\ done.pending \notin Transferring
        /\ done.buffer = cl.buffer \/ done.buffer = <<>>
    <3>1. CASE cl.pending = "RETR"
      BY <1>0, <3>1 DEF ClientRecord, Transferring
    <3>2. CASE cl.pending = "STOR"
      BY <1>0, <3>2, Constants DEF ClientRecord, Transferring
    <3>3. CASE cl.pending \notin Transferring
      BY <1>0, <3>3 DEF Transferring
    <3> QED
      BY <3>1, <3>2, <3>3 DEF Transferring
  <2>2. Len(done.buffer) < BufferSize
    BY <1>2, <2>1, Constants
  <2> HIDE DEF done
  <2> QED
    BY <1>2, <2>1, <2>2, EndedTypes DEF Rests, Sets
<1> QED
  BY <1>1, <1>2 DEF ProcessEof

(* A command goes to the I/O thread, at once or as soon as there is room.  *)
Queues(c, m, cl, s) ==
    /\ m \in IoCommands /\ m.client = c
    /\ \/ /\ Len(ioQueue) < IoQueueSize /\ ioQueue' = Append(ioQueue, m)
          /\ Sets(c, Stored(cl, m), s) /\ UNCHANGED <<spc, cmd>>
       \/ /\ spc' = "adding" /\ cmd' = m /\ UNCHANGED ioQueue
          /\ Sets(c, cl, s)

(* What Util_queue_add leaves of a client when the I/O thread's queue took *)
(* its command.                                                            *)
LEMMA StoredTypes ==
    ASSUME NEW cl \in ClientRecord, NEW m \in IoCommands
    PROVE  /\ Stored(cl, m) \in ClientRecord
           /\ m.type = "read" => Stored(cl, m) = [cl EXCEPT !.started = TRUE]
           /\ m.type = "write" => Stored(cl, m).buffer = <<>>
           /\ m.type \in {"read", "write"}
           /\ m.type = "write" => m.eof \in BOOLEAN
<1>1. CASE m.type = "read"
  BY <1>1 DEF Stored, ClientRecord
<1>2. CASE m.type # "read"
  <2>1. m.type = "write" /\ m.eof \in BOOLEAN
    BY <1>2 DEF IoCommands
  <2>2. Stored(cl, m) = [cl EXCEPT !.append = TRUE, !.buffer = <<>>, !.eofSent = m.eof]
    BY <1>2 DEF Stored
  <2>3. Stored(cl, m) \in ClientRecord /\ Stored(cl, m).buffer = <<>>
    BY <2>1, <2>2, Constants DEF ClientRecord
  <2> QED
    BY <2>1, <2>2, <2>3
<1> QED
  BY <1>1, <1>2

(* Sending a command stores it, makes the server thread wait for room, or  *)
(* loses the client.                                                       *)
LEMMA SendDoes ==
    ASSUME TypeOK, NEW c \in Clients, NEW m \in IoCommands, m.client = c,
           NEW cl \in ClientRecord, NEW s \in StoryRecord, SendCommand(m, cl, s)
    PROVE  Queues(c, m, cl, s) \/ (Rests(c) /\ UNCHANGED <<spc, cmd, ioQueue>>)
<1>1. CASE /\ Len(ioQueue) < IoQueueSize /\ ioQueue' = Append(ioQueue, m)
           /\ client' = [client EXCEPT ![c] = Stored(cl, m)]
           /\ story' = [story EXCEPT ![c] = s]
           /\ UNCHANGED <<spc, cmd>>
  BY <1>1, StoredTypes DEF Queues, Sets
<1>2. CASE /\ spc' = "adding" /\ cmd' = m
           /\ client' = [client EXCEPT ![c] = cl]
           /\ story' = [story EXCEPT ![c] = s]
           /\ UNCHANGED ioQueue
  BY <1>2 DEF Queues, Sets
<1>3. CASE ProcessEof(c, "421", s) /\ UNCHANGED <<spc, cmd, ioQueue>>
  BY <1>3, EofRests
<1> QED
  BY <1>1, <1>2, <1>3 DEF SendCommand

ReadCommand(c, s) == [type |-> "read", client |-> c, xfer |-> s.cur, size |-> s.size]

(* Ftpd_process_bof asks for the file of a RETR, or ends the transfer.     *)
LEMMA BofDoes ==
    ASSUME TypeOK, NEW c \in Clients, NEW cl \in ClientRecord, NEW s \in StoryRecord,
           ProcessBof(c, cl, s), Len(cl.buffer) < BufferSize,
           cl.pending = "RETR" => s.size \in FileSizes,
           s.cur # 0 => cl.pending \in Transferring
    PROVE  \/ cl.pending = "RETR" /\ ~cl.started /\ Queues(c, ReadCommand(c, s), cl, s)
           \/ Rests(c) /\ UNCHANGED <<spc, cmd, ioQueue>>
           \/ /\ cl.pending \in Transferring /\ (cl.pending = "RETR" => cl.started)
              /\ Sets(c, cl, s) /\ UNCHANGED <<spc, cmd, ioQueue>>
<1>1. CASE cl.pending = "RETR" /\ ~cl.started /\ SendCommand(ReadCommand(c, s), cl, s)
  <2>1. ReadCommand(c, s) \in IoCommands /\ ReadCommand(c, s).client = c
    BY <1>1 DEF ReadCommand, IoCommands, StoryRecord
  <2> QED
    BY <1>1, <2>1, SendDoes
<1>2. CASE /\ cl.pending = "LIST"
           /\ \/ client' = [client EXCEPT ![c] = [cl EXCEPT !.data = FALSE, !.pending = "none"]]
              \/ client' = [client EXCEPT ![c] = Cleared]
           /\ story' = [story EXCEPT ![c] = s]
           /\ UNCHANGED <<spc, cmd, ioQueue>>
  <2>1. /\ [cl EXCEPT !.data = FALSE, !.pending = "none"] \in ClientRecord
        /\ [cl EXCEPT !.data = FALSE, !.pending = "none"].buffer = cl.buffer
        /\ [cl EXCEPT !.data = FALSE, !.pending = "none"].pending = "none"
    BY DEF ClientRecord
  <2>2. s.cur = 0
    BY <1>2 DEF Transferring
  <2> QED
    BY <1>2, <2>1, <2>2, Constants DEF Rests, Sets, Transferring
<1>3. CASE /\ cl.pending = "RETR" => cl.started
           /\ cl.pending # "LIST"
           /\ Sets(c, cl, s)
           /\ UNCHANGED <<spc, cmd, ioQueue>>
  BY <1>3 DEF Rests, Transferring
<1> QED
  BY <1>1, <1>2, <1>3 DEF ProcessBof, ReadCommand, Sets

(* What the handlers of the server thread do to their client.              *)

(* A connection is accepted or listened for, or nothing happens.           *)
Calm(c) ==
    /\ \E cl \in ClientRecord :
          /\ client' = [client EXCEPT ![c] = cl]
          /\ cl.data = client[c].data /\ cl.pending = client[c].pending
          /\ cl.started = client[c].started /\ cl.eofSent = client[c].eofSent
          /\ cl.append = client[c].append /\ cl.buffer = client[c].buffer
    /\ UNCHANGED <<spc, cmd, ioQueue, story>>

(* A transfer begins, or gets its data connection.                         *)
Fresh(c, cl, s) ==
    /\ cl \in ClientRecord /\ s \in StoryRecord
    /\ cl.pending \in Transferring /\ (cl.pending = "RETR" => s.size \in FileSizes)
    /\ cl.started = client[c].started /\ cl.eofSent = client[c].eofSent /\ cl.buffer = client[c].buffer
    /\ \/ /\ client[c].pending = "none" /\ transfers' = transfers + 1
          /\ \E size \in Nat : s = Begin(c, size)
          /\ cl.pending = "STOR" => ~cl.append
       \/ /\ client[c].pending = cl.pending /\ cl.append = client[c].append
          /\ ~client[c].data /\ transfers' = transfers
          /\ s = [story[c] EXCEPT !.wire = <<>>]

Starts(c) ==
    \E cl \in ClientRecord, s \in StoryRecord :
        /\ Fresh(c, cl, s)
        /\ \/ cl.pending = "RETR" /\ ~cl.started /\ cl.data /\ Queues(c, ReadCommand(c, s), cl, s)
           \/ /\ cl.pending = "RETR" /\ cl.data => cl.started
              /\ Sets(c, cl, s) /\ UNCHANGED <<spc, cmd, ioQueue>>

(* Data of a STOR is received, and passed on or kept.                      *)
WriteCommand(c, b, n) ==
    [type |-> "write", client |-> c, xfer |-> story[c].cur, units |-> b,
     append |-> client[c].append, eof |-> n = 0]

Receives(c) ==
    /\ client[c].pending = "STOR" /\ ~client[c].eofSent
    /\ \E n \in Nat : LET b == client[c].buffer \o [k \in 1 .. n |-> Unit(story[c].cur, story[c].got + k)]
                          cl == [client[c] EXCEPT !.buffer = b]
                          s == [story[c] EXCEPT !.got = @ + n]
                      IN  \/ Queues(c, WriteCommand(c, b, n), cl, s)
                          \/ /\ n # 0 /\ Len(b) < BufferSize
                             /\ Sets(c, cl, s) /\ UNCHANGED <<spc, cmd, ioQueue>>

(* Opening the data connection ends the transfer, begins it, or leaves it  *)
(* for the connection to come.                                             *)
LEMMA OpenDoes ==
    ASSUME TypeOK, NEW c \in Clients, NEW cl \in ClientRecord, NEW s \in StoryRecord,
           OpenData(c, cl, s), Len(cl.buffer) < BufferSize,
           cl.pending = "RETR" => s.size \in FileSizes,
           s.cur # 0 => cl.pending \in Transferring
    PROVE  \/ Rests(c) /\ UNCHANGED <<spc, cmd, ioQueue>>
           \/ \E cl2 \in {cl, [cl EXCEPT !.data = TRUE]} :
                 \/ cl2.pending = "RETR" /\ ~cl2.started /\ cl2.data /\ Queues(c, ReadCommand(c, s), cl2, s)
                 \/ /\ cl2.pending = "RETR" /\ cl2.data => cl2.started
                    /\ Sets(c, cl2, s) /\ UNCHANGED <<spc, cmd, ioQueue>>
<1>1. CASE cl.data /\ ProcessBof(c, cl, s)
  BY <1>1, BofDoes
<1>2. CASE /\ ~cl.data
           /\ client' = [client EXCEPT ![c] = cl]
           /\ story' = [story EXCEPT ![c] = s]
           /\ UNCHANGED <<spc, cmd, ioQueue>>
  BY <1>2 DEF Sets
<1>3. CASE ProcessBof(c, [cl EXCEPT !.data = TRUE], s)
  <2> DEFINE cl2 == [cl EXCEPT !.data = TRUE]
  <2>1. /\ cl2 \in ClientRecord /\ cl2.buffer = cl.buffer /\ cl2.pending = cl.pending
        /\ cl2.started = cl.started /\ cl2.data = TRUE
    BY DEF ClientRecord
  <2> HIDE DEF cl2
  <2>2. ProcessBof(c, cl2, s)
    BY <1>3 DEF cl2
  <2>3. \/ cl2.pending = "RETR" /\ ~cl2.started /\ Queues(c, ReadCommand(c, s), cl2, s)
        \/ Rests(c) /\ UNCHANGED <<spc, cmd, ioQueue>>
        \/ /\ cl2.pending \in Transferring /\ (cl2.pending = "RETR" => cl2.started)
           /\ Sets(c, cl2, s) /\ UNCHANGED <<spc, cmd, ioQueue>>
    BY <2>1, <2>2, BofDoes
  <2> QED
    BY <2>1, <2>3 DEF cl2
<1>4. CASE Drop(c, "425") /\ UNCHANGED <<spc, cmd, ioQueue>>
  BY <1>4, DropRests
<1> QED
  BY <1>1, <1>2, <1>3, <1>4 DEF OpenData

(* The story of a transfer that begins.                                    *)
LEMMA BeginTypes ==
    ASSUME TypeOK, NEW c \in Clients, NEW size \in Nat
    PROVE  /\ Begin(c, size) \in StoryRecord
           /\ Begin(c, size).cur = transfers + 1 /\ Begin(c, size).size = size
           /\ Begin(c, size).clean <=> NothingLeftOf(c)
           /\ Begin(c, size).wire = IF client[c].data THEN story[c].wire ELSE <<>>
           /\ Begin(c, size).got = 0 /\ Begin(c, size).file = <<Old>> /\ ~Begin(c, size).lost
<1>1. story[c].wire \in Seq(Nat \X Nat) /\ transfers \in Nat
  BY DEF TypeOK, StoryRecord
<1>2. <<Old>> \in Seq(Nat \X Nat)
  BY DEF Old
<1> HIDE DEF NothingLeftOf, Old
<1>3. NothingLeftOf(c) \in BOOLEAN
  BY DEF NothingLeftOf
<1> DEFINE w == IF client[c].data THEN story[c].wire ELSE <<>>
           N == NothingLeftOf(c)
<1>4. w \in Seq(Nat \X Nat)
  BY <1>1, Constants
<1>5. Begin(c, size) = [cur |-> transfers + 1, clean |-> N, wire |-> w, got |-> 0, size |-> size,
                        file |-> <<Old>>, lost |-> FALSE, reply |-> "none"]
  <2>1. Begin(c, size) = [NewStory EXCEPT !.cur = transfers + 1, !.clean = N, !.wire = w,
                                          !.size = size, !.file = <<Old>>]
    BY DEF Begin
  <2> HIDE DEF w, N
  <2> QED
    BY <2>1 DEF NewStory
<1> HIDE DEF w, N
<1>6. N \in BOOLEAN
  BY <1>3 DEF N
<1>7. /\ Begin(c, size) \in StoryRecord
      /\ Begin(c, size).cur = transfers + 1 /\ Begin(c, size).size = size
      /\ Begin(c, size).clean = N
      /\ Begin(c, size).wire = w
      /\ Begin(c, size).got = 0 /\ Begin(c, size).file = <<Old>> /\ Begin(c, size).lost = FALSE
  BY <1>1, <1>2, <1>4, <1>5, <1>6 DEF StoryRecord
<1> QED
  BY <1>7 DEF w, N

(* RETR and STOR: the transfer starts or is refused.                       *)
LEMMA TransferDoes ==
    ASSUME Basics, NEW c \in Clients, NEW kind \in Transferring, NEW size \in Nat,
           kind = "RETR" => size \in FileSizes, Transfer(c, kind, size), spc = "events"
    PROVE  (Rests(c) /\ UNCHANGED <<spc, cmd, ioQueue>>) \/ Starts(c)
<1> DEFINE cl == [client[c] EXCEPT !.pending = kind, !.append = IF kind = "STOR" THEN FALSE ELSE @]
           s == Begin(c, size)
<1>1. client[c] \in ClientRecord /\ Len(client[c].buffer) < BufferSize
  BY DEF Basics, TypeOK, Room
<1>2. /\ cl \in ClientRecord /\ cl.pending = kind /\ cl.buffer = client[c].buffer
      /\ cl.started = client[c].started /\ cl.eofSent = client[c].eofSent
      /\ kind = "STOR" => cl.append = FALSE
  BY <1>1 DEF ClientRecord, Transferring
<1>3. client[c].pending = "none" /\ transfers' = transfers + 1 /\ OpenData(c, cl, s)
  BY DEF Transfer
<1>4. s \in StoryRecord /\ s.size = size
  BY BeginTypes DEF Basics
<1>5. \A cl2 \in {cl, [cl EXCEPT !.data = TRUE]} : Fresh(c, cl2, s)
  <2>1. ASSUME NEW cl2 \in {cl, [cl EXCEPT !.data = TRUE]}
        PROVE  /\ cl2 \in ClientRecord /\ cl2.pending = kind /\ cl2.buffer = client[c].buffer
               /\ cl2.started = client[c].started /\ cl2.eofSent = client[c].eofSent
               /\ kind = "STOR" => ~cl2.append
    BY <1>2 DEF ClientRecord
  <2> HIDE DEF cl, s
  <2>2. s = Begin(c, size)
    BY DEF s
  <2> QED
    BY <1>3, <1>4, <2>1, <2>2 DEF Fresh
<1> HIDE DEF cl, s
<1>6. \/ Rests(c) /\ UNCHANGED <<spc, cmd, ioQueue>>
      \/ \E cl2 \in {cl, [cl EXCEPT !.data = TRUE]} :
            \/ cl2.pending = "RETR" /\ ~cl2.started /\ cl2.data /\ Queues(c, ReadCommand(c, s), cl2, s)
            \/ /\ cl2.pending = "RETR" /\ cl2.data => cl2.started
               /\ Sets(c, cl2, s) /\ UNCHANGED <<spc, cmd, ioQueue>>
  BY <1>1, <1>2, <1>3, <1>4, OpenDoes DEF Basics
<1> QED
  BY <1>5, <1>6 DEF Starts, Fresh

(* What a step of the server thread at a handle is.                        *)
HandleDoes ==
    /\ spc = "events" /\ ready' \subseteq ready
    /\ UNCHANGED <<ioVars, serverQueue, exitVars>>
    /\ sessions' \in Nat /\ transfers' \in Nat
    /\ \E c \in Clients :
          \/ Calm(c)
          \/ Rests(c) /\ UNCHANGED <<spc, cmd, ioQueue>>
          \/ Starts(c)
          \/ Receives(c)

HandleFrame(h) ==
    /\ At(h)
    /\ UNCHANGED <<ioVars, serverQueue, exitVars>>
    /\ sessions' \in Nat /\ transfers' \in Nat

(* A step at a handle, put together: the frame and what is done to the     *)
(* client.                                                                 *)
LEMMA FrameDoes ==
    ASSUME NEW h, HandleFrame(h), NEW c \in Clients,
           Calm(c) \/ (Rests(c) /\ UNCHANGED <<spc, cmd, ioQueue>>) \/ Starts(c) \/ Receives(c)
    PROVE  HandleDoes
BY DEF HandleDoes, HandleFrame, At

(* A client that stays as it is.                                           *)
LEMMA SameIsCalm ==
    ASSUME TypeOK, NEW c \in Clients, client' = client, UNCHANGED <<spc, cmd, ioQueue, story>>
    PROVE  Calm(c)
<1>1. client[c] \in ClientRecord /\ client' = [client EXCEPT ![c] = client[c]]
  BY DEF TypeOK
<1> QED
  BY <1>1 DEF Calm

(* A handle of a connection that is closed by then.                        *)
LEMMA SkipDoes ==
    ASSUME TypeOK, SkipClosed
    PROVE  HandleDoes
<1>1. PICK h \in ready : At(h)
  BY DEF SkipClosed
<1>2. 1 \in Clients
  BY FtpAssumption DEF Clients
<1>3. HandleFrame(h)
  BY <1>1 DEF SkipClosed, HandleFrame, TypeOK
<1>4. Calm(1)
  BY <1>2, SameIsCalm DEF SkipClosed
<1> QED
  BY <1>2, <1>3, <1>4, FrameDoes

(* A control connection is accepted.                                       *)
LEMMA AcceptControlDoes ==
    ASSUME TypeOK, AcceptControl
    PROVE  HandleDoes
<1> DEFINE free == {c \in Clients : ~client[c].control}
           first(c) == c \in free /\ \A d \in free : c <= d
<1>1. client' = [c \in Clients |-> IF first(c) THEN [client[c] EXCEPT !.control = TRUE] ELSE client[c]]
  BY DEF AcceptControl
<1>2. HandleFrame(Listener)
  BY DEF AcceptControl, HandleFrame, TypeOK
<1>3. UNCHANGED <<spc, cmd, ioQueue, story>>
  BY DEF AcceptControl
<1>4. 1 \in Clients /\ Clients \subseteq Nat
  BY FtpAssumption DEF Clients
<1>5. CASE \E c \in Clients : first(c)
  <2>1. PICK c \in Clients : first(c)
    BY <1>5
  <2>2. \A d \in Clients : d # c => ~first(d)
    BY <1>4, <2>1
  <2> DEFINE cl == [client[c] EXCEPT !.control = TRUE]
  <2>3. client' = [client EXCEPT ![c] = cl]
    <3>1. client = [d \in Clients |-> client[d]]
      BY DEF TypeOK
    <3> HIDE DEF cl
    <3>2. \A d \in Clients : (IF first(d) THEN [client[d] EXCEPT !.control = TRUE] ELSE client[d])
                             = (IF d = c THEN cl ELSE client[d])
      BY <2>1, <2>2 DEF cl
    <3> HIDE DEF first
    <3>3. client' = [d \in Clients |-> IF d = c THEN cl ELSE client[d]]
      BY <1>1, <3>2
    <3> QED
      BY <3>1, <3>3
  <2>4. client[c] \in ClientRecord
    BY DEF TypeOK
  <2>5. /\ cl \in ClientRecord /\ cl.data = client[c].data /\ cl.pending = client[c].pending
        /\ cl.started = client[c].started /\ cl.eofSent = client[c].eofSent
        /\ cl.append = client[c].append /\ cl.buffer = client[c].buffer
    BY <2>4 DEF ClientRecord
  <2> HIDE DEF cl
  <2>6. Calm(c)
    BY <1>3, <2>3, <2>5 DEF Calm
  <2> QED
    BY <1>2, <2>6, FrameDoes
<1>6. CASE ~\E c \in Clients : first(c)
  <2> HIDE DEF first
  <2>1. client' = [c \in Clients |-> client[c]]
    BY <1>1, <1>6
  <2>2. client' = client
    BY <2>1 DEF TypeOK
  <2> QED
    BY <1>2, <1>3, <1>4, <2>2, SameIsCalm, FrameDoes
<1> QED
  BY <1>5, <1>6

(* A command is at a handle of the events.                                 *)
LEMMA ControlFrame ==
    ASSUME TypeOK, NEW c \in Clients, AtControl(c), transfers' \in Nat
    PROVE  HandleFrame(HandleOf("control", c)) /\ spc = "events"
BY DEF AtControl, HandleFrame, TypeOK, At

(* The handlers of the commands: RETR,                                     *)
LEMMA RetrDoes ==
    ASSUME Basics, NEW c \in Clients, Retr(c)
    PROVE  HandleDoes
<1>1. PICK size \in FileSizes : Transfer(c, "RETR", size)
  BY DEF Retr
<1>2. size \in Nat /\ "RETR" \in Transferring
  BY Constants DEF Transferring
<1>3. transfers' \in Nat /\ AtControl(c)
  BY <1>1 DEF Transfer, Basics, TypeOK
<1>4. spc = "events" /\ HandleFrame(HandleOf("control", c))
  BY <1>3, ControlFrame DEF Basics
<1> QED
  BY <1>1, <1>2, <1>4, TransferDoes, FrameDoes

(* ... STOR and APPE,                                                      *)
LEMMA StorDoes ==
    ASSUME Basics, NEW c \in Clients, Stor(c)
    PROVE  HandleDoes
<1>1. Transfer(c, "STOR", 0)
  BY DEF Stor
<1>2. "STOR" \in Transferring
  BY DEF Transferring
<1>3. transfers' \in Nat /\ AtControl(c)
  BY <1>1 DEF Transfer, Basics, TypeOK
<1>4. spc = "events" /\ HandleFrame(HandleOf("control", c))
  BY <1>3, ControlFrame DEF Basics
<1> QED
  BY <1>1, <1>2, <1>4, TransferDoes, FrameDoes

(* ... LIST,                                                               *)
LEMMA ListDoes ==
    ASSUME Basics, NEW c \in Clients, List(c)
    PROVE  HandleDoes
<1> DEFINE cl == [client[c] EXCEPT !.pending = "LIST"]
           s == story[c]
<1>0. transfers' \in Nat /\ AtControl(c)
  BY DEF List, Basics, TypeOK
<1>1. spc = "events" /\ HandleFrame(HandleOf("control", c))
  BY <1>0, ControlFrame DEF Basics
<1>2. client[c] \in ClientRecord /\ s \in StoryRecord /\ Len(client[c].buffer) < BufferSize
  BY <1>1 DEF Basics, TypeOK, Room
<1>3. client[c].pending = "none" /\ OpenData(c, cl, s)
  BY DEF List
<1>4. s.cur = 0
  BY <1>3 DEF Basics, Busy, Transferring
<1>5. cl \in ClientRecord /\ cl.pending = "LIST" /\ cl.buffer = client[c].buffer
  BY <1>2 DEF ClientRecord
<1>6. ASSUME NEW cl2 \in {cl, [cl EXCEPT !.data = TRUE]}
      PROVE  cl2 \in ClientRecord /\ cl2.pending = "LIST" /\ cl2.buffer = client[c].buffer
  BY <1>5 DEF ClientRecord
<1> HIDE DEF cl
<1>7. \/ Rests(c) /\ UNCHANGED <<spc, cmd, ioQueue>>
      \/ \E cl2 \in {cl, [cl EXCEPT !.data = TRUE]} :
            \/ cl2.pending = "RETR" /\ ~cl2.started /\ cl2.data /\ Queues(c, ReadCommand(c, s), cl2, s)
            \/ /\ cl2.pending = "RETR" /\ cl2.data => cl2.started
               /\ Sets(c, cl2, s) /\ UNCHANGED <<spc, cmd, ioQueue>>
  BY <1>2, <1>3, <1>4, <1>5, OpenDoes DEF Basics
<1>8. Rests(c) /\ UNCHANGED <<spc, cmd, ioQueue>>
  BY <1>2, <1>4, <1>6, <1>7 DEF Rests, Transferring
<1> QED
  BY <1>1, <1>8, FrameDoes

(* ... RNFR and RNTO,                                                      *)
LEMMA RenameDoes ==
    ASSUME Basics, NEW c \in Clients, Rename(c)
    PROVE  HandleDoes
<1> DEFINE cl == [client[c] EXCEPT !.pending = IF @ = "none" THEN "RNFR" ELSE "none"]
<1>0. transfers' \in Nat /\ AtControl(c)
  BY DEF Rename, Basics, TypeOK
<1>1. spc = "events" /\ HandleFrame(HandleOf("control", c))
  BY <1>0, ControlFrame DEF Basics
<1>2. /\ client[c] \in ClientRecord /\ story[c] \in StoryRecord /\ Len(client[c].buffer) < BufferSize
      /\ story = [d \in Clients |-> story[d]]
  BY <1>1 DEF Basics, TypeOK, Room
<1>3. client[c].pending \in {"none", "RNFR"} /\ client' = [client EXCEPT ![c] = cl]
  BY DEF Rename
<1>4. story[c].cur = 0
  BY <1>3 DEF Basics, Busy, Transferring
<1>5. cl \in ClientRecord /\ cl.pending \notin Transferring /\ cl.buffer = client[c].buffer
  BY <1>2, <1>3 DEF ClientRecord, Transferring
<1> HIDE DEF cl
<1>6. story' = [story EXCEPT ![c] = story[c]]
  BY <1>2 DEF Rename
<1>7. Rests(c)
  BY <1>2, <1>3, <1>4, <1>5, <1>6 DEF Rests, Sets
<1>8. UNCHANGED <<spc, cmd, ioQueue>>
  BY DEF Rename
<1> QED
  BY <1>1, <1>7, <1>8, FrameDoes

(* ... PASV and PORT,                                                      *)
LEMMA PasvDoes ==
    ASSUME Basics, NEW c \in Clients, Pasv(c)
    PROVE  HandleDoes
<1>0. transfers' \in Nat /\ AtControl(c) /\ UNCHANGED <<spc, cmd, ioQueue>>
  BY DEF Pasv, Basics, TypeOK
<1>1. spc = "events" /\ HandleFrame(HandleOf("control", c))
  BY <1>0, ControlFrame DEF Basics
<1>2. CASE client' = [client EXCEPT ![c].listen = TRUE] /\ UNCHANGED story
  <2> DEFINE cl == [client[c] EXCEPT !.listen = TRUE]
  <2>1. client[c] \in ClientRecord
    BY DEF Basics, TypeOK
  <2>2. /\ cl \in ClientRecord /\ cl.data = client[c].data /\ cl.pending = client[c].pending
        /\ cl.started = client[c].started /\ cl.eofSent = client[c].eofSent
        /\ cl.append = client[c].append /\ cl.buffer = client[c].buffer
    BY <2>1 DEF ClientRecord
  <2>3. client' = [client EXCEPT ![c] = cl]
    BY <1>2
  <2> HIDE DEF cl
  <2>4. Calm(c)
    BY <1>0, <1>2, <2>2, <2>3 DEF Calm
  <2> QED
    BY <1>1, <2>4, FrameDoes
<1>3. CASE Drop(c, "421")
  <2>1. Rests(c)
    BY <1>3, DropRests DEF Basics
  <2> QED
    BY <1>0, <1>1, <2>1, FrameDoes
<1> QED
  BY <1>2, <1>3 DEF Pasv

(* ... ABOR,                                                               *)
LEMMA AborDoes ==
    ASSUME Basics, NEW c \in Clients, Abor(c)
    PROVE  HandleDoes
<1> DEFINE b == client[c].buffer
           z == Zeros(b)
           cl == [client[c] EXCEPT !.data = (client[c].pending = "none") /\ client[c].data,
                     !.pending = "none", !.append = FALSE, !.buffer = z]
           s == IF client[c].pending = "none" THEN story[c] ELSE Ended(story[c], "426")
<1>0. transfers' \in Nat /\ AtControl(c) /\ UNCHANGED <<spc, cmd, ioQueue>>
  BY DEF Abor, Basics, TypeOK
<1>1. spc = "events" /\ HandleFrame(HandleOf("control", c))
  BY <1>0, ControlFrame DEF Basics
<1>2. client[c] \in ClientRecord /\ story[c] \in StoryRecord /\ Len(b) < BufferSize
  BY <1>1 DEF Basics, TypeOK, Room
<1>3. z \in Seq(Nat \X Nat) /\ Len(z) = Len(b)
  <2>1. b \in Seq(Nat \X Nat) /\ Zero \in Nat \X Nat
    BY <1>2 DEF ClientRecord, Zero
  <2> QED
    BY <2>1 DEF Zeros
<1>4. client' = [client EXCEPT ![c] = cl] /\ story' = [story EXCEPT ![c] = s]
  <2>1. client' = [client EXCEPT ![c] =
           [client[c] EXCEPT !.data = (client[c].pending = "none") /\ client[c].data,
                     !.pending = "none", !.append = FALSE, !.buffer = Zeros(client[c].buffer)]]
    BY DEF Abor
  <2>2. client' = [client EXCEPT ![c] = cl]
    BY <2>1
  <2>3. story' = [story EXCEPT ![c] = s]
    BY DEF Abor
  <2> QED
    BY <2>2, <2>3
<1> HIDE DEF z
<1>5. cl \in ClientRecord /\ cl.pending = "none" /\ cl.buffer = z
  BY <1>2, <1>3 DEF ClientRecord
<1>6. s \in StoryRecord /\ s.cur = 0
  BY <1>2, EndedTypes DEF Basics, Busy, Transferring
<1> HIDE DEF cl, s
<1>7. Rests(c)
  BY <1>2, <1>3, <1>4, <1>5, <1>6 DEF Rests, Sets, Transferring
<1> QED
  BY <1>0, <1>1, <1>7, FrameDoes

(* ... those that change nothing here,                                     *)
LEMMA OtherDoes ==
    ASSUME Basics, NEW c \in Clients, Other(c)
    PROVE  HandleDoes
<1>0. transfers' \in Nat /\ AtControl(c) /\ UNCHANGED <<client, spc, cmd, ioQueue, story>>
  BY DEF Other, Basics, TypeOK
<1>1. spc = "events" /\ HandleFrame(HandleOf("control", c))
  BY <1>0, ControlFrame DEF Basics
<1> QED
  BY <1>0, <1>1, SameIsCalm, FrameDoes DEF Basics

(* ... QUIT and the end of the connection,                                 *)
LEMMA QuitDoes ==
    ASSUME Basics, NEW c \in Clients, Quit(c)
    PROVE  HandleDoes
<1>0. transfers' \in Nat /\ AtControl(c) /\ UNCHANGED <<spc, cmd, ioQueue>> /\ Drop(c, "none")
  BY DEF Quit, Basics, TypeOK
<1>1. spc = "events" /\ HandleFrame(HandleOf("control", c))
  BY <1>0, ControlFrame DEF Basics
<1>2. Rests(c)
  BY <1>0, DropRests DEF Basics
<1> QED
  BY <1>0, <1>1, <1>2, FrameDoes

(* ... data that nobody waits for,                                         *)
LEMMA IgnoreDoes ==
    ASSUME Basics, NEW c \in Clients, IgnoreData(c)
    PROVE  HandleDoes
<1>1. HandleFrame(HandleOf("data", c)) /\ UNCHANGED <<client, spc, cmd, ioQueue, story>>
  BY DEF IgnoreData, HandleFrame, Basics, TypeOK
<1> QED
  BY <1>1, SameIsCalm, FrameDoes DEF Basics

(* ... the data connection,                                                *)
LEMMA AcceptDataDoes ==
    ASSUME Basics, NEW c \in Clients, AcceptData(c)
    PROVE  HandleDoes
<1> DEFINE cl == [client[c] EXCEPT !.listen = FALSE, !.data = TRUE]
           s == [story[c] EXCEPT !.wire = <<>>]
<1>1. HandleFrame(HandleOf("listen", c)) /\ spc = "events" /\ transfers' = transfers
  BY DEF AcceptData, HandleFrame, Basics, TypeOK, At
<1>2. client[c] \in ClientRecord /\ story[c] \in StoryRecord /\ Len(client[c].buffer) < BufferSize
  BY <1>1 DEF Basics, TypeOK, Room
<1>3. CASE ~client[c].data /\ ProcessBof(c, cl, s)
  <2>1. /\ cl \in ClientRecord /\ cl.pending = client[c].pending /\ cl.started = client[c].started
        /\ cl.eofSent = client[c].eofSent /\ cl.append = client[c].append
        /\ cl.buffer = client[c].buffer /\ cl.data = TRUE
    BY <1>2 DEF ClientRecord
  <2>2. s \in StoryRecord /\ s.cur = story[c].cur /\ s.size = story[c].size
    BY <1>2, Constants DEF StoryRecord
  <2>3. s = [story[c] EXCEPT !.wire = <<>>]
    OBVIOUS
  <2> HIDE DEF cl, s
  <2>4. cl.pending = "RETR" => s.size \in FileSizes
    BY <2>1, <2>2 DEF Basics, Busy
  <2>5. s.cur # 0 => cl.pending \in Transferring
    BY <2>1, <2>2 DEF Basics, Busy
  <2>6. cl.pending \in Transferring => Fresh(c, cl, s)
    BY <1>1, <1>3, <2>1, <2>2, <2>3, <2>4 DEF Fresh
  <2>7. \/ cl.pending = "RETR" /\ ~cl.started /\ Queues(c, ReadCommand(c, s), cl, s)
        \/ Rests(c) /\ UNCHANGED <<spc, cmd, ioQueue>>
        \/ /\ cl.pending \in Transferring /\ (cl.pending = "RETR" => cl.started)
           /\ Sets(c, cl, s) /\ UNCHANGED <<spc, cmd, ioQueue>>
    BY <1>2, <1>3, <2>1, <2>2, <2>4, <2>5, BofDoes DEF Basics
  <2>8. (Rests(c) /\ UNCHANGED <<spc, cmd, ioQueue>>) \/ Starts(c)
    <3>1. CASE cl.pending = "RETR" /\ ~cl.started /\ Queues(c, ReadCommand(c, s), cl, s)
      <4>1. Fresh(c, cl, s) /\ cl \in ClientRecord /\ s \in StoryRecord
        BY <2>1, <2>2, <2>6, <3>1 DEF Transferring
      <4> QED
        BY <2>1, <3>1, <4>1 DEF Starts
    <3>2. CASE /\ cl.pending \in Transferring /\ (cl.pending = "RETR" => cl.started)
               /\ Sets(c, cl, s) /\ UNCHANGED <<spc, cmd, ioQueue>>
      <4>1. Fresh(c, cl, s) /\ cl \in ClientRecord /\ s \in StoryRecord
        BY <2>1, <2>2, <2>6, <3>2
      <4> QED
        BY <3>2, <4>1 DEF Starts
    <3> QED
      BY <2>7, <3>1, <3>2
  <2> QED
    BY <1>1, <2>8, FrameDoes
<1>4. CASE Drop(c, "425") /\ UNCHANGED <<spc, cmd, ioQueue>>
  <2>1. Rests(c)
    BY <1>4, DropRests DEF Basics
  <2> QED
    BY <1>1, <1>4, <2>1, FrameDoes
<1> QED
  BY <1>3, <1>4 DEF AcceptData

(* The units of transfer x at the offsets o + 1 to o + n.                  *)
Stretch(x, o, n) == [k \in 1 .. n |-> Unit(x, o + k)]
Joined(s, t) == s \o t

(* Data received is a sequence of units.                                   *)
LEMMA Stretches ==
    ASSUME NEW x \in Nat, NEW g \in Nat, NEW n \in Nat
    PROVE  Stretch(x, g, n) \in Seq(Nat \X Nat) /\ Len(Stretch(x, g, n)) = n
<1>1. \A k \in 1 .. n : Unit(x, g + k) \in Nat \X Nat
  BY DEF Unit
<1> QED
  BY <1>1 DEF Stretch

(* ... and data received for a STOR.                                       *)
LEMMA ReceiveDoes ==
    ASSUME Basics, NEW c \in Clients, Receive(c)
    PROVE  HandleDoes
<1> DEFINE cl == client[c]
           s == story[c]
           b(n) == cl.buffer \o [k \in 1 .. n |-> Unit(s.cur, s.got + k)]
           full(n) == [cl EXCEPT !.buffer = b(n)]
           s2(n) == [s EXCEPT !.got = @ + n]
<1>1. HandleFrame(HandleOf("data", c)) /\ spc = "events"
  BY DEF Receive, HandleFrame, Basics, TypeOK, At
<1>2. client[c] \in ClientRecord /\ story[c] \in StoryRecord /\ Len(client[c].buffer) < BufferSize
  BY <1>1 DEF Basics, TypeOK, Room
<1>3. PICK n \in 0 .. (BufferSize - Len(cl.buffer)) :
        IF MustSend(n, b(n))
        THEN SendCommand([type |-> "write", client |-> c, xfer |-> s.cur,
                          units |-> b(n), append |-> cl.append, eof |-> n = 0], full(n), s2(n))
        ELSE /\ client' = [client EXCEPT ![c] = full(n)]
             /\ story' = [story EXCEPT ![c] = s2(n)]
             /\ UNCHANGED <<spc, cmd, ioQueue>>
  BY DEF Receive
<1>4. n \in Nat /\ client[c].pending = "STOR" /\ ~client[c].eofSent
  BY <1>2, Constants DEF ClientRecord, Receive
<1>5. b(n) \in Seq(Nat \X Nat) /\ Len(b(n)) = Len(cl.buffer) + n
  <2>1. cl.buffer \in Seq(Nat \X Nat) /\ s.cur \in Nat /\ s.got \in Nat
    BY <1>2 DEF ClientRecord, StoryRecord
  <2> DEFINE u == Stretch(s.cur, s.got, n)
  <2>2. b(n) = cl.buffer \o u
    BY DEF Stretch
  <2>3. u \in Seq(Nat \X Nat) /\ Len(u) = n
    <3> HIDE DEF s
    <3> QED
      BY <1>4, <2>1, Stretches
  <2> HIDE DEF u, b
  <2> QED
    BY <1>4, <2>1, <2>2, <2>3, ConcatProperties
<1> DEFINE bb == b(n)
           ss == s2(n)
           ff == full(n)
<1> HIDE DEF b
<1>6. ff \in ClientRecord /\ ff.buffer = bb
  BY <1>2, <1>5 DEF ClientRecord
<1>7. ss \in StoryRecord
  <2>1. s \in StoryRecord /\ s.got + n \in Nat
    BY <1>2, <1>4 DEF StoryRecord
  <2>2. ss = [s EXCEPT !.got = s.got + n]
    OBVIOUS
  <2> HIDE DEF ss, s
  <2> QED
    BY <2>1, <2>2 DEF StoryRecord
<1>8. WriteCommand(c, bb, n) \in IoCommands /\ WriteCommand(c, bb, n).client = c
  BY <1>2, <1>5 DEF WriteCommand, IoCommands, ClientRecord, StoryRecord
<1>9. (Rests(c) /\ UNCHANGED <<spc, cmd, ioQueue>>) \/ Queues(c, WriteCommand(c, bb, n), ff, ss)
         \/ (n # 0 /\ Len(bb) < BufferSize /\ Sets(c, ff, ss) /\ UNCHANGED <<spc, cmd, ioQueue>>)
  <2>1. CASE MustSend(n, bb)
    <3>1. SendCommand(WriteCommand(c, bb, n), ff, ss)
      BY <1>3, <2>1 DEF WriteCommand
    <3> HIDE DEF ff, ss, bb
    <3> QED
      BY <1>6, <1>7, <1>8, <3>1, SendDoes DEF Basics
  <2>2. CASE ~MustSend(n, bb)
    <3>1. /\ client' = [client EXCEPT ![c] = ff]
          /\ story' = [story EXCEPT ![c] = ss]
          /\ UNCHANGED <<spc, cmd, ioQueue>>
      BY <1>3, <2>2
    <3>2. n # 0 /\ Len(bb) < BufferSize
      BY <1>5, <2>2, Constants DEF MustSend
    <3> HIDE DEF ff, ss, bb
    <3> QED
      BY <1>6, <1>7, <3>1, <3>2 DEF Sets
  <2> QED
    BY <2>1, <2>2
<1>10. (Rests(c) /\ UNCHANGED <<spc, cmd, ioQueue>>) \/ Receives(c)
  BY <1>4, <1>9 DEF Receives, b
<1> QED
  BY <1>1, <1>10, FrameDoes

(* What a step of the server thread is.                                    *)

(* AddFinished: the command that waited is stored.                         *)
AddDoes ==
    /\ spc = "adding" /\ Len(ioQueue) < IoQueueSize
    /\ ioQueue' = Append(ioQueue, cmd) /\ cmd \in IoCommands
    /\ client' = [client EXCEPT ![cmd.client] = Stored(client[cmd.client], cmd)]
    /\ spc' = "events" /\ cmd' = None
    /\ UNCHANGED <<ready, ioVars, serverQueue, exitVars, sessions, transfers, story>>

(* AddTimedOut: the client gets a 421 instead.                             *)
AddFails ==
    /\ spc = "adding" /\ cmd \in IoCommands /\ Rests(cmd.client)
    /\ spc' = "events" /\ cmd' = None
    /\ UNCHANGED <<ready, ioVars, serverQueue, ioQueue, exitVars, sessions, transfers>>

(* An answer ends the transfer of its client.                              *)
AnswerFrame ==
    /\ AtAnswer /\ serverQueue # <<>> /\ ~Deleted
    /\ serverQueue' = Tail(serverQueue) /\ Head(serverQueue) \in Answers

AnswerEnds ==
    /\ AnswerFrame
    /\ Rests(Head(serverQueue).client)

(* The block of an answer is sent and others follow.                       *)
AnswerMoves ==
    LET m == Head(serverQueue)
        c == m.client
        s == [story[c] EXCEPT !.wire = @ \o m.units]
    IN  /\ AnswerFrame /\ m.type = "read" /\ ~m.eof /\ ~m.error
        /\ Sets(c, client[c], s) /\ client' = client
        /\ m.units # <<>> => client[c].data

ServerIdles ==
    /\ spc \in {"poll", "events"} /\ spc' \in {"poll", "events"} /\ ready' \subseteq Handles
    /\ UNCHANGED <<client, cmd, ioVars, serverQueue, ioQueue, exitVars, sessions, transfers, story>>

ServerDoes ==
    HandleDoes \/ AddDoes \/ AddFails \/ AnswerEnds \/ AnswerMoves \/ ServerIdles \/ ServerExit

(* There is room for the command the server thread waited with.            *)
LEMMA AddFinishedDoes ==
    ASSUME Basics, AddFinished
    PROVE  AddDoes
<1>1. spc = "adding" /\ cmd \in IoCommands
  BY DEF AddFinished, Basics, TypeOK
<1> QED
  BY <1>1 DEF AddFinished, AddDoes

(* There was none for too long.                                            *)
LEMMA AddTimedOutDoes ==
    ASSUME Basics, AddTimedOut
    PROVE  AddFails
<1>1. spc = "adding" /\ cmd \in IoCommands
  BY DEF AddTimedOut, Basics, TypeOK
<1>2. cmd.client \in Clients /\ story[cmd.client] \in StoryRecord
  BY <1>1 DEF IoCommands, Basics, TypeOK
<1>3. ProcessEof(cmd.client, "421", story[cmd.client])
  BY DEF AddTimedOut
<1>4. Rests(cmd.client)
  BY <1>2, <1>3, EofRests DEF Basics
<1> QED
  BY <1>1, <1>4 DEF AddTimedOut, AddFails

(* What is known of an answer that is about to be handled, and of its      *)
(* client.                                                                 *)
LEMMA AnswerTypes ==
    ASSUME Basics, AtAnswer, serverQueue # <<>>
    PROVE  LET m == Head(serverQueue)
           IN  /\ m \in Answers /\ m.client \in Clients /\ m.type \in {"read", "write"}
               /\ client[m.client] \in ClientRecord /\ story[m.client] \in StoryRecord
               /\ Len(client[m.client].buffer) < BufferSize
               /\ m.type = "read" => m.units \in Seq(Nat \X Nat) /\ m.eof \in BOOLEAN /\ m.error \in BOOLEAN
<1> DEFINE m == Head(serverQueue)
<1>1. m \in Answers
  BY DEF Basics, TypeOK
<1> HIDE DEF m
<1>2. m.client \in Clients /\ m.type \in {"read", "write"}
  BY <1>1 DEF Answers
<1>3. m.type = "read" => m.units \in Seq(Nat \X Nat) /\ m.eof \in BOOLEAN /\ m.error \in BOOLEAN
  BY <1>1 DEF Answers
<1>4. Len(client[m.client].buffer) < BufferSize
  BY <1>2 DEF Basics, Room, AtAnswer
<1>5. client[m.client] \in ClientRecord /\ story[m.client] \in StoryRecord
  BY <1>2 DEF Basics, TypeOK
<1> QED
  BY <1>1, <1>2, <1>3, <1>4, <1>5 DEF m

(* An answer with a block of a file is sent, and the transfer goes on or   *)
(* ends.                                                                   *)
LEMMA AnswerReadDoes ==
    ASSUME Basics, AnswerRead
    PROVE  AnswerEnds \/ AnswerMoves
<1> DEFINE m == Head(serverQueue)
           c == m.client
           S(sent) == IF sent THEN [story[c] EXCEPT !.wire = @ \o m.units] ELSE story[c]
<1>1. AtAnswer /\ serverQueue # <<>> /\ ~Deleted /\ m.type = "read" /\ serverQueue' = Tail(serverQueue)
  BY DEF AnswerRead
<1>2. PICK sent \in IF m.units = <<>> THEN {TRUE} ELSE {FALSE, client[c].data} :
         IF m.eof \/ m.error \/ ~sent
         THEN ProcessEof(c, IF m.error \/ ~sent THEN "421" ELSE "226", S(sent))
         ELSE /\ story' = [story EXCEPT ![c] = S(sent)]
              /\ UNCHANGED client
  BY DEF AnswerRead
<1>3. /\ m \in Answers /\ c \in Clients
      /\ client[c] \in ClientRecord /\ story[c] \in StoryRecord
      /\ Len(client[c].buffer) < BufferSize
      /\ m.units \in Seq(Nat \X Nat)
  BY <1>1, AnswerTypes
<1>4. AnswerFrame
  BY <1>1, <1>3 DEF AnswerFrame
<1> DEFINE s == S(sent)
<1>5. s \in StoryRecord
  <2>1. [story[c] EXCEPT !.wire = @ \o m.units] \in StoryRecord
    <3>1. story[c].wire \o m.units \in Seq(Nat \X Nat)
      BY <1>3, ConcatProperties DEF StoryRecord
    <3> HIDE DEF m
    <3> QED
      BY <1>3, <3>1 DEF StoryRecord
  <2> QED
    BY <1>3, <2>1
<1>6. CASE m.eof \/ m.error \/ ~sent
  <2>1. ProcessEof(c, IF m.error \/ ~sent THEN "421" ELSE "226", s)
    BY <1>2, <1>6
  <2> DEFINE response == IF m.error \/ ~sent THEN "421" ELSE "226"
  <2>2. response \in {"226", "421"}
    OBVIOUS
  <2> HIDE DEF s, response, m
  <2>3. ProcessEof(c, response, s)
    BY <2>1 DEF response
  <2>4. Rests(c)
    BY <1>3, <1>5, <2>2, <2>3, EofRests DEF Basics
  <2> QED
    BY <1>4, <2>4 DEF AnswerEnds, m
<1>7. CASE ~(m.eof \/ m.error \/ ~sent)
  <2>1. story' = [story EXCEPT ![c] = s] /\ client' = client
    BY <1>2, <1>7
  <2>2. s = [story[c] EXCEPT !.wire = @ \o m.units]
    BY <1>7
  <2>3. client' = [client EXCEPT ![c] = client[c]]
    BY <2>1 DEF Basics, TypeOK
  <2>4. m.units # <<>> => client[c].data
    BY <1>7
  <2> HIDE DEF s
  <2>5. Sets(c, client[c], s)
    BY <1>3, <1>5, <2>1, <2>3 DEF Sets
  <2> QED
    BY <1>1, <1>4, <1>7, <2>1, <2>2, <2>4, <2>5 DEF AnswerMoves
<1> QED
  BY <1>6, <1>7

(* An answer about a write ends the transfer, or tells that there was one  *)
(* too many.                                                               *)
LEMMA AnswerWriteDoes ==
    ASSUME Basics, AnswerWrite
    PROVE  AnswerEnds
<1> DEFINE m == Head(serverQueue)
           c == m.client
           response == IF m.error THEN "421" ELSE "226"
<1>1. AtAnswer /\ serverQueue # <<>> /\ ~Deleted /\ serverQueue' = Tail(serverQueue)
  BY DEF AnswerWrite
<1>2. ProcessEof(c, response, story[c])
  BY DEF AnswerWrite
<1>3. /\ m \in Answers /\ c \in Clients /\ story[c] \in StoryRecord
      /\ Len(client[c].buffer) < BufferSize
  BY <1>1, AnswerTypes
<1>4. response \in {"226", "421"}
  OBVIOUS
<1> HIDE DEF response, m
<1>5. Rests(c)
  BY <1>2, <1>3, <1>4, EofRests DEF Basics
<1> QED
  BY <1>1, <1>3, <1>5 DEF AnswerEnds, AnswerFrame, m

(* These are the steps of the server thread.                               *)
LEMMA ServerEffects ==
    ASSUME Basics, ServerStep
    PROVE  ServerDoes
<1>1. CASE Poll
  BY <1>1 DEF Poll, ServerIdles, ServerDoes
<1>2. CASE SkipClosed
  BY <1>2, SkipDoes DEF Basics, ServerDoes
<1>3. CASE AcceptControl
  BY <1>3, AcceptControlDoes DEF Basics, ServerDoes
<1>4. CASE AddFinished
  BY <1>4, AddFinishedDoes DEF ServerDoes
<1>5. CASE AddTimedOut
  BY <1>5, AddTimedOutDoes DEF ServerDoes
<1>6. ASSUME NEW c \in Clients,
             \/ Retr(c) \/ Stor(c) \/ List(c) \/ Rename(c) \/ Pasv(c) \/ Abor(c)
             \/ Other(c) \/ Quit(c) \/ Receive(c) \/ IgnoreData(c) \/ AcceptData(c)
      PROVE  HandleDoes
  BY <1>6, RetrDoes, StorDoes, ListDoes, RenameDoes, PasvDoes, AborDoes, OtherDoes, QuitDoes,
     ReceiveDoes, IgnoreDoes, AcceptDataDoes
<1>7. CASE NoAnswer
  BY <1>7 DEF NoAnswer, AtAnswer, ServerIdles, ServerDoes, Basics, TypeOK
<1>8. CASE AnswerRead
  BY <1>8, AnswerReadDoes DEF ServerDoes
<1>9. CASE AnswerWrite
  BY <1>9, AnswerWriteDoes DEF ServerDoes
<1>10. CASE ServerExit
  BY <1>10 DEF ServerDoes
<1> QED
  BY <1>1, <1>2, <1>3, <1>4, <1>5, <1>6, <1>7, <1>8, <1>9, <1>10 DEF ServerStep, ServerDoes

-----------------------------------------------------------------------------
(* What a step of the I/O thread does.                                     *)
Resumes == iopc' \in {"reads", "exit"} /\ index' = 1 /\ res' = None

IoIdles ==
    /\ iopc = "reads" /\ Resumes
    /\ UNCHANGED <<reads, serverQueue, ioQueue, story>>

(* The block of read state i is stored, has to wait, or is lost.           *)
ReadStored(i) ==
    \E failed \in BOOLEAN :
        /\ Len(serverQueue) < ServerQueueSize
        /\ serverQueue' = Append(serverQueue, Block(reads[i], failed))
        /\ reads' = [reads EXCEPT ![i] = Advanced(reads[i], Block(reads[i], failed))]
        /\ iopc' = "reads" /\ index' = i + 1 /\ res' = None
        /\ UNCHANGED <<ioQueue, story>>

ReadWaits(i) ==
    \E failed \in BOOLEAN :
        /\ iopc' = "addRead" /\ index' = i /\ res' = Block(reads[i], failed)
        /\ UNCHANGED <<reads, serverQueue, ioQueue, story>>

ReadLost(i) ==
    /\ reads' = [reads EXCEPT ![i] = None]
    /\ story' = Lost(story, reads[i])
    /\ iopc' = "reads" /\ index' = i + 1 /\ res' = None
    /\ UNCHANGED <<serverQueue, ioQueue>>

ReadDoes(i) ==
    /\ reads[i] # None /\ (iopc = "reads" \/ (iopc = "addRead" /\ index = i))
    /\ ReadStored(i) \/ ReadWaits(i) \/ ReadLost(i)

(* An answer is stored, has to wait, or is lost.                           *)
Gives(m, s) ==
    /\ m \in Answers
    /\ \/ /\ Len(serverQueue) < ServerQueueSize
          /\ serverQueue' = Append(serverQueue, m) /\ story' = s /\ Resumes
       \/ /\ iopc' = "addRes" /\ res' = m /\ story' = s
          /\ UNCHANGED <<index, serverQueue>>
       \/ /\ story' = Lost(s, m) /\ Resumes /\ UNCHANGED serverQueue

ReplyMoves == iopc = "addRes" /\ Gives(res, story) /\ UNCHANGED <<reads, ioQueue>>

(* A command is taken.                                                     *)
Takes == /\ iopc = "reads" /\ ioQueue # <<>>
         /\ ioQueue' = Tail(ioQueue) /\ Head(ioQueue) \in IoCommands

Registers(m) ==
    /\ m.type = "read"
    /\ \E i \in ReadSlots : reads[i] = None /\ reads' = [reads EXCEPT ![i] = NewRead(m, i)]
    /\ Resumes /\ UNCHANGED <<serverQueue, story>>

ErrorAnswer(m) == [type |-> "read", client |-> m.client, xfer |-> m.xfer,
                   units |-> <<>>, eof |-> FALSE, error |-> TRUE]
WriteAnswer(m, failed) == [type |-> "write", client |-> m.client, xfer |-> m.xfer, error |-> failed]

Wrote(m, failed) ==
    IF failed \/ m.units = <<>> \/ story[m.client].cur # m.xfer
    THEN story
    ELSE [story EXCEPT ![m.client].file = Written(story[m.client].file, m)]

Writes(m) ==
    /\ m.type = "write" /\ UNCHANGED reads
    /\ \E failed \in BOOLEAN :
          \/ (failed \/ m.eof) /\ Gives(WriteAnswer(m, failed), Wrote(m, failed))
          \/ /\ ~failed /\ ~m.eof /\ story' = Wrote(m, failed)
             /\ Resumes /\ UNCHANGED serverQueue

CommandDoes ==
    LET m == Head(ioQueue)
    IN  /\ Takes
        /\ \/ Registers(m)
           \/ m.type = "read" /\ Gives(ErrorAnswer(m), story) /\ UNCHANGED reads
           \/ Writes(m)

IoDoes ==
    /\ IoUnchanged
    /\ IoIdles \/ (\E i \in ReadSlots : ReadDoes(i)) \/ ReplyMoves \/ CommandDoes

(* The block that fread takes at the offset of a read state, and the state *)
(* after it.                                                               *)
LEMMA BlockIs ==
    ASSUME NEW r \in ReadStates, r.offset <= r.size, NEW failed \in BOOLEAN
    PROVE  LET m == Block(r, failed)
               n == Len(m.units)
           IN  /\ m \in Answers /\ m.type = "read" /\ m.client = r.client /\ m.xfer = r.xfer
               /\ m.error = failed /\ (m.eof <=> n < BufferSize)
               /\ m.units = [k \in 1 .. n |-> Unit(r.xfer, r.offset + k)]
               /\ n \in Nat /\ r.offset + n <= r.size
               /\ m.eof /\ ~m.error => r.offset + n = r.size
               /\ Advanced(r, m) = IF m.eof THEN None ELSE [r EXCEPT !.offset = r.offset + n]
               /\ m # None
<1> DEFINE left == r.size - r.offset
           n == IF failed THEN 0 ELSE IF left < BufferSize THEN left ELSE BufferSize
           u == [k \in 1 .. n |-> Unit(r.xfer, r.offset + k)]
           m == Block(r, failed)
<1>1. /\ r.type = "read" /\ r.client \in Clients /\ r.xfer \in Nat /\ r.offset \in Nat /\ r.size \in Nat
  BY Constants DEF ReadStates
<1>2. /\ left \in Nat /\ n \in Nat /\ r.offset + n <= r.size
      /\ n < BufferSize /\ ~failed => r.offset + n = r.size
  BY <1>1, Constants
<1> HIDE DEF n
<1>3. u \in Seq(Nat \X Nat) /\ Len(u) = n
  <2>1. \A k \in 1 .. n : Unit(r.xfer, r.offset + k) \in Nat \X Nat
    BY <1>1, <1>2 DEF Unit
  <2> QED
    BY <1>2, <2>1
<1>4. m = [type |-> "read", client |-> r.client, xfer |-> r.xfer,
           units |-> u, eof |-> n < BufferSize, error |-> failed]
  BY DEF Block, n
<1>5. u = [k \in 1 .. n |-> Unit(r.xfer, r.offset + k)]
  OBVIOUS
<1> HIDE DEF u, m
<1>6. (n < BufferSize) \in BOOLEAN
  OBVIOUS
<1>7. m \in Answers
  BY <1>1, <1>3, <1>4, <1>6 DEF Answers
<1>8. m.units = u /\ m.eof = (n < BufferSize) /\ m.error = failed /\ m.type = "read"
        /\ m.client = r.client /\ m.xfer = r.xfer
  BY <1>4
<1>9. m # None
  BY <1>8, <1>1 DEF None
<1> QED
  BY <1>2, <1>3, <1>5, <1>7, <1>8, <1>9 DEF Advanced, m

(* No message is None, and what every message has.                         *)
LEMMA NotNone ==
    /\ \A m \in Answers : m # None /\ m.client \in Clients /\ m.xfer \in Nat /\ m.type \in {"read", "write"}
    /\ \A m \in IoCommands : m # None /\ m.client \in Clients /\ m.xfer \in Nat /\ m.type \in {"read", "write"}
    /\ \A m \in ReadStates : m # None /\ m.client \in Clients /\ m.xfer \in Nat /\ m.type = "read"
<1>1. \A m \in Answers : m.client \in Clients /\ m.xfer \in Nat /\ m.type \in {"read", "write"}
  BY DEF Answers
<1>2. \A m \in IoCommands : m.client \in Clients /\ m.xfer \in Nat /\ m.type \in {"read", "write"}
  BY DEF IoCommands
<1>3. \A m \in ReadStates : m.client \in Clients /\ m.xfer \in Nat /\ m.type = "read"
  BY DEF ReadStates
<1>4. \A m : m.type \in {"read", "write"} => m # None
  BY DEF None
<1> QED
  BY <1>1, <1>2, <1>3, <1>4

(* A block is read and added,                                              *)
LEMMA ReadBlockDoes ==
    ASSUME Basics, NEW i \in ReadSlots, ReadBlock(i)
    PROVE  IoDoes
<1>0. iopc = "reads" /\ reads[i] # None /\ UNCHANGED ioQueue /\ IoUnchanged /\ res = None
  BY DEF ReadBlock, Left, Basics, TypeOK
<1>1. ASSUME NEW failed \in {FALSE, FilesFail},
             LET m == Block(reads[i], failed)
             IN  /\ Len(serverQueue) < ServerQueueSize /\ ~Deleted
                 /\ serverQueue' = Append(serverQueue, m)
                 /\ reads' = [reads EXCEPT ![i] = Advanced(@, m)]
                 /\ index' = i + 1
                 /\ UNCHANGED <<iopc, res>>,
             UNCHANGED story
      PROVE  ReadStored(i)
  BY <1>0, <1>1, FtpAssumption DEF ReadStored
<1>2. ASSUME NEW failed \in {FALSE, FilesFail},
             /\ iopc' = "addRead" /\ index' = i /\ res' = Block(reads[i], failed)
             /\ UNCHANGED <<reads, serverQueue>>,
             UNCHANGED story
      PROVE  ReadWaits(i)
  BY <1>0, <1>2, FtpAssumption DEF ReadWaits
<1>3. ASSUME reads' = [reads EXCEPT ![i] = None], index' = i + 1, story' = Lost(story, reads[i]),
             UNCHANGED <<iopc, res, serverQueue>>
      PROVE  ReadLost(i)
  BY <1>0, <1>3 DEF ReadLost
<1>4. ReadStored(i) \/ ReadWaits(i) \/ ReadLost(i)
  BY <1>1, <1>2, <1>3 DEF ReadBlock
<1> QED
  BY <1>0, <1>4 DEF IoDoes, ReadDoes

(* ... or added after there was room, or lost with its file closed.        *)
LEMMA ReadAddedDoes ==
    ASSUME Basics, ReadAdded
    PROVE  IoDoes
<1>1. /\ iopc = "addRead" /\ UNCHANGED ioQueue /\ IoUnchanged
      /\ iopc' = "reads" /\ index' = index + 1 /\ res' = None
  BY DEF ReadAdded
<1>2. index \in ReadSlots /\ reads[index] # None
  BY <1>1 DEF Basics, BlockWaits
<1>3. PICK failed \in BOOLEAN : res = Block(reads[index], failed)
  BY <1>1 DEF Basics, BlockWaits
<1>4. CASE /\ Len(serverQueue) < ServerQueueSize
           /\ serverQueue' = Append(serverQueue, res)
           /\ reads' = [reads EXCEPT ![index] = Advanced(@, res)]
           /\ UNCHANGED story
  <2>1. ReadStored(index)
    BY <1>1, <1>3, <1>4 DEF ReadStored
  <2> QED
    BY <1>1, <1>2, <2>1 DEF IoDoes, ReadDoes
<1>5. CASE /\ reads' = [reads EXCEPT ![index] = None]
           /\ story' = Lost(story, res)
           /\ UNCHANGED serverQueue
  <2>1. res.client = reads[index].client /\ res.xfer = reads[index].xfer
    BY <1>3 DEF Block
  <2>2. Lost(story, res) = Lost(story, reads[index])
    BY <2>1 DEF Lost
  <2>3. ReadLost(index)
    BY <1>1, <1>5, <2>2 DEF ReadLost
  <2> QED
    BY <1>1, <1>2, <2>3 DEF IoDoes, ReadDoes
<1> QED
  BY <1>4, <1>5 DEF ReadAdded

(* An answer is added to the server thread's queue, waits for room, or is  *)
(* dropped.                                                                *)
LEMMA ReplyDoes ==
    ASSUME Basics, NEW m \in Answers, NEW s, Reply(m, s), res = None
    PROVE  Gives(m, s)
BY DEF Reply, Gives, Resumes, NextTurn

(* It is added, or dropped, after it waited.                               *)
LEMMA ReplyAddedDoes ==
    ASSUME Basics, ReplyAdded
    PROVE  IoDoes
<1>1. iopc = "addRes" /\ UNCHANGED <<reads, ioQueue>> /\ IoUnchanged /\ Resumes
  BY DEF ReplyAdded, Resumes, NextTurn
<1>2. res \in Answers
  BY <1>1 DEF Basics, TypeOK
<1>3. \/ /\ Len(serverQueue) < ServerQueueSize
         /\ serverQueue' = Append(serverQueue, res)
         /\ story' = story
      \/ /\ story' = Lost(story, res)
         /\ UNCHANGED serverQueue
  BY DEF ReplyAdded
<1>4. Gives(res, story)
  BY <1>1, <1>2, <1>3 DEF Gives
<1> QED
  BY <1>1, <1>4 DEF IoDoes, ReplyMoves

(* Where the I/O thread takes commands no answer waits.                    *)
LEMMA AtCommandTypes ==
    ASSUME Basics, AtCommand
    PROVE  iopc = "reads" /\ res = None /\ IoUnchanged
BY DEF Basics, TypeOK, AtCommand

(* What is known of the command it takes, and of the answers it may give.  *)
LEMMA CommandTypes ==
    ASSUME Basics, ioQueue # <<>>
    PROVE  LET m == Head(ioQueue)
           IN  /\ m \in IoCommands /\ m.client \in Clients /\ m.xfer \in Nat
               /\ m.type = "read" => m.size \in FileSizes
               /\ m.type = "write" => m.units \in Seq(Nat \X Nat) /\ m.eof \in BOOLEAN
               /\ ErrorAnswer(m) \in Answers
               /\ \A failed \in BOOLEAN : WriteAnswer(m, failed) \in Answers
               /\ \A i : m.type = "read" => NewRead(m, i) \in ReadStates
<1> DEFINE m == Head(ioQueue)
<1>1. m \in IoCommands
  BY DEF Basics, TypeOK
<1> HIDE DEF m
<1>2. m.client \in Clients /\ m.xfer \in Nat /\ (m.type = "read" => m.size \in FileSizes)
        /\ (m.type = "write" => m.units \in Seq(Nat \X Nat) /\ m.eof \in BOOLEAN)
  BY <1>1 DEF IoCommands
<1>3. ErrorAnswer(m) \in Answers
  BY <1>2, Constants DEF ErrorAnswer, Answers
<1>4. \A failed \in BOOLEAN : WriteAnswer(m, failed) \in Answers
  BY <1>2 DEF WriteAnswer, Answers
<1>5. \A i : m.type = "read" => NewRead(m, i) \in ReadStates
  BY <1>2 DEF NewRead, ReadStates
<1> QED
  BY <1>1, <1>2, <1>3, <1>4, <1>5 DEF m

(* There is no command,                                                    *)
LEMMA NoCommandDoes ==
    ASSUME Basics, NoCommand
    PROVE  IoDoes
<1>1. iopc = "reads" /\ res = None /\ IoUnchanged
  BY AtCommandTypes DEF NoCommand
<1>2. Resumes /\ UNCHANGED <<reads, serverQueue, ioQueue, story>>
  BY <1>1 DEF NoCommand, Resumes, NextTurn
<1> QED
  BY <1>1, <1>2 DEF IoDoes, IoIdles

(* ... one to read, which is registered when a read state is free and the  *)
(* file can be opened,                                                     *)
LEMMA CommandReadDoes ==
    ASSUME Basics, CommandRead
    PROVE  IoDoes
<1> DEFINE m == Head(ioQueue)
           free == {i \in ReadSlots : reads[i] = None}
<1>1. iopc = "reads" /\ res = None /\ IoUnchanged /\ ioQueue # <<>> /\ ioQueue' = Tail(ioQueue) /\ m.type = "read"
  BY AtCommandTypes DEF CommandRead
<1>2. m \in IoCommands /\ ErrorAnswer(m) \in Answers
  BY <1>1, CommandTypes
<1>3. Takes
  BY <1>1, <1>2 DEF Takes
<1>4. CASE /\ \E i \in free : reads' = [reads EXCEPT ![i] = NewRead(m, i)]
           /\ NextTurn /\ UNCHANGED <<res, serverQueue, story>>
  <2>1. \E i \in ReadSlots : reads[i] = None /\ reads' = [reads EXCEPT ![i] = NewRead(m, i)]
    BY <1>4
  <2>2. Resumes
    BY <1>1, <1>4 DEF Resumes, NextTurn
  <2>3. Registers(m)
    BY <1>1, <1>4, <2>1, <2>2 DEF Registers
  <2> QED
    BY <1>1, <1>3, <2>3 DEF IoDoes, CommandDoes
<1>5. CASE Reply(ErrorAnswer(m), story) /\ UNCHANGED reads
  <2>1. Gives(ErrorAnswer(m), story)
    BY <1>1, <1>2, <1>5, ReplyDoes
  <2> QED
    BY <1>1, <1>3, <1>5, <2>1 DEF IoDoes, CommandDoes
<1> QED
  BY <1>4, <1>5 DEF CommandRead, ErrorAnswer

(* ... or one to write, which is carried out at once.                      *)
LEMMA CommandWriteDoes ==
    ASSUME Basics, CommandWrite
    PROVE  IoDoes
<1> DEFINE m == Head(ioQueue)
<1>1. /\ iopc = "reads" /\ res = None /\ IoUnchanged /\ ioQueue # <<>> /\ ioQueue' = Tail(ioQueue)
      /\ m.type = "write" /\ UNCHANGED reads
  BY AtCommandTypes DEF CommandWrite
<1>2. m \in IoCommands /\ (\A failed \in BOOLEAN : WriteAnswer(m, failed) \in Answers) /\ m.client \in Clients
  BY <1>1, CommandTypes
<1>3. Takes
  BY <1>1, <1>2 DEF Takes
<1>4. PICK failed \in {FALSE, FilesFail /\ m.units # <<>>} :
        LET s == IF failed \/ m.units = <<>> \/ story[m.client].cur # m.xfer
                 THEN story
                 ELSE [story EXCEPT ![m.client].file = Written(@, m)]
        IN  IF IsAnswered(m, failed)
            THEN Reply([type |-> "write", client |-> m.client, xfer |-> m.xfer, error |-> failed], s)
            ELSE /\ story' = s
                 /\ NextTurn /\ UNCHANGED <<res, serverQueue>>
  BY DEF CommandWrite
<1>5. failed \in BOOLEAN
  BY FtpAssumption
<1>6. IF IsAnswered(m, failed)
      THEN Reply(WriteAnswer(m, failed), Wrote(m, failed))
      ELSE /\ story' = Wrote(m, failed)
           /\ NextTurn /\ UNCHANGED <<res, serverQueue>>
  <2>1. (IF failed \/ m.units = <<>> \/ story[m.client].cur # m.xfer
         THEN story
         ELSE [story EXCEPT ![m.client].file = Written(@, m)]) = Wrote(m, failed)
    BY DEF Wrote
  <2> HIDE DEF m
  <2> QED
    BY <1>4, <2>1 DEF WriteAnswer
<1> HIDE DEF m
<1>7. Writes(m)
  <2>1. CASE IsAnswered(m, failed)
    <3>1. Gives(WriteAnswer(m, failed), Wrote(m, failed))
      BY <1>1, <1>2, <1>5, <1>6, <2>1, ReplyDoes
    <3> QED
      BY <1>1, <1>5, <2>1, <3>1 DEF Writes, IsAnswered
  <2>2. CASE ~IsAnswered(m, failed)
    BY <1>1, <1>5, <1>6, <2>2 DEF Writes, IsAnswered, Resumes, NextTurn
  <2> QED
    BY <2>1, <2>2
<1> QED
  BY <1>1, <1>3, <1>7 DEF IoDoes, CommandDoes, m

(* These are the steps of the I/O thread.                                  *)
LEMMA IoEffects ==
    ASSUME Basics, IoStep
    PROVE  IoDoes
BY ReadBlockDoes, ReadAddedDoes, ReplyAddedDoes, NoCommandDoes, CommandReadDoes, CommandWriteDoes DEF IoStep

-----------------------------------------------------------------------------
(* The first part of the invariant is kept.                                *)
LEMMA SetsTypes ==
    ASSUME TypeOK, NEW c \in Clients, NEW cl, NEW s, Sets(c, cl, s)
    PROVE  /\ client' \in [Clients -> ClientRecord] /\ story' \in [Clients -> StoryRecord]
           /\ client'[c] = cl /\ story'[c] = s
           /\ \A d \in Clients : d # c => client'[d] = client[d] /\ story'[d] = story[d]
BY DEF TypeOK, Sets

(* What a step at a handle keeps, said for the client it is about.         *)
Kept(c) ==
    /\ client' \in [Clients -> ClientRecord] /\ story' \in [Clients -> StoryRecord]
    /\ \A d \in Clients : d # c => client'[d] = client[d] /\ story'[d] = story[d]
    /\ spc' \in {"events", "adding"}
    /\ IF spc' = "adding" THEN cmd' \in IoCommands ELSE cmd' = None
    /\ ioQueue' \in Seq(IoCommands) /\ Len(ioQueue') <= IoQueueSize
    /\ \/ Len(client'[c].buffer) < BufferSize
       \/ spc' = "adding" /\ cmd'.client = c /\ cmd'.type = "write"
    /\ story'[c].cur # 0 => client'[c].pending \in Transferring
    /\ client'[c].pending = "RETR" => story'[c].size \in FileSizes

(* A step at a handle keeps Basics when it keeps what is said of its       *)
(* client.                                                                 *)
LEMMA KeptBasics ==
    ASSUME Basics, spc = "events", ready' \subseteq ready, NEW c \in Clients, Kept(c),
           UNCHANGED <<ioVars, serverQueue, exitVars>>, sessions' \in Nat, transfers' \in Nat
    PROVE  Basics'
<1>1. TypeOK'
  BY DEF Basics, TypeOK, Kept, ioVars, exitVars
<1>2. Room'
  BY DEF Basics, Room, Kept
<1>3. Busy'
  BY DEF Basics, Busy, Kept
<1>4. InFile' /\ BlockWaits'
  BY DEF Basics, InFile, BlockWaits, ioVars
<1> QED
  BY <1>1, <1>2, <1>3, <1>4 DEF Basics

(* The client is calm,                                                     *)
LEMMA CalmKept ==
    ASSUME Basics, spc = "events", NEW c \in Clients, Calm(c)
    PROVE  Kept(c)
<1>1. PICK cl \in ClientRecord :
          /\ client' = [client EXCEPT ![c] = cl]
          /\ cl.data = client[c].data /\ cl.pending = client[c].pending
          /\ cl.started = client[c].started /\ cl.eofSent = client[c].eofSent
          /\ cl.append = client[c].append /\ cl.buffer = client[c].buffer
  BY DEF Calm
<1>2. UNCHANGED <<spc, cmd, ioQueue, story>>
  BY DEF Calm
<1>3. client' \in [Clients -> ClientRecord] /\ client'[c] = cl /\ \A d \in Clients : d # c => client'[d] = client[d]
  BY <1>1 DEF Basics, TypeOK
<1>4. Len(cl.buffer) < BufferSize
  BY <1>1 DEF Basics, Room
<1>5. (story[c].cur # 0 => cl.pending \in Transferring) /\ (cl.pending = "RETR" => story[c].size \in FileSizes)
  BY <1>1 DEF Basics, Busy
<1> QED
  BY <1>2, <1>3, <1>4, <1>5 DEF Kept, Basics, TypeOK

(* ... at rest,                                                            *)
LEMMA RestsKept ==
    ASSUME Basics, NEW c \in Clients, Rests(c), UNCHANGED ioQueue,
           (spc = "events" /\ UNCHANGED <<spc, cmd>>) \/ (spc' = "events" /\ cmd' = None)
    PROVE  Kept(c)
<1>1. PICK cl \in ClientRecord, s \in StoryRecord :
        /\ Sets(c, cl, s) /\ s.cur = 0
        /\ cl.pending \notin Transferring /\ Len(cl.buffer) < BufferSize
  BY DEF Rests
<1>2. /\ client' \in [Clients -> ClientRecord] /\ story' \in [Clients -> StoryRecord]
      /\ client'[c] = cl /\ story'[c] = s
      /\ \A d \in Clients : d # c => client'[d] = client[d] /\ story'[d] = story[d]
  BY <1>1, SetsTypes DEF Basics
<1>3. spc' = "events" /\ cmd' = None /\ ioQueue' \in Seq(IoCommands) /\ Len(ioQueue') <= IoQueueSize
  BY DEF Basics, TypeOK
<1> QED
  BY <1>1, <1>2, <1>3 DEF Kept, Transferring

(* ... sends a command,                                                    *)
LEMMA QueuesKept ==
    ASSUME Basics, spc = "events", NEW c \in Clients, NEW m, NEW cl, NEW s, Queues(c, m, cl, s),
           cl \in ClientRecord, s \in StoryRecord,
           m.type = "read" => Len(cl.buffer) < BufferSize,
           cl.pending \in Transferring, cl.pending = "RETR" => s.size \in FileSizes
    PROVE  Kept(c)
<1>1. m \in IoCommands /\ m.client = c /\ m.type \in {"read", "write"}
  BY NotNone DEF Queues
<1>2. CASE /\ Len(ioQueue) < IoQueueSize /\ ioQueue' = Append(ioQueue, m)
           /\ Sets(c, Stored(cl, m), s) /\ UNCHANGED <<spc, cmd>>
  <2>1. /\ client' \in [Clients -> ClientRecord] /\ story' \in [Clients -> StoryRecord]
        /\ client'[c] = Stored(cl, m) /\ story'[c] = s
        /\ \A d \in Clients : d # c => client'[d] = client[d] /\ story'[d] = story[d]
    BY <1>2, SetsTypes DEF Basics
  <2>2. Stored(cl, m).pending = cl.pending
    BY DEF Stored, ClientRecord
  <2>3. Len(Stored(cl, m).buffer) < BufferSize
    <3>1. CASE m.type = "read"
      <4>1. Stored(cl, m).buffer = cl.buffer
        BY <3>1 DEF Stored, ClientRecord
      <4> QED
        BY <3>1, <4>1
    <3>2. CASE m.type = "write"
      <4>1. Stored(cl, m).buffer = <<>>
        BY <1>1, <3>2, StoredTypes
      <4> QED
        BY <4>1, Constants
    <3> QED
      BY <1>1, <3>1, <3>2
  <2>4. ioQueue' \in Seq(IoCommands) /\ Len(ioQueue') <= IoQueueSize
    BY <1>1, <1>2, Elements, Constants DEF Basics, TypeOK
  <2>5. spc' = "events" /\ cmd' = None
    BY <1>2 DEF Basics, TypeOK
  <2> QED
    BY <2>1, <2>2, <2>3, <2>4, <2>5 DEF Kept
<1>3. CASE /\ spc' = "adding" /\ cmd' = m /\ UNCHANGED ioQueue
           /\ Sets(c, cl, s)
  <2>1. /\ client' \in [Clients -> ClientRecord] /\ story' \in [Clients -> StoryRecord]
        /\ client'[c] = cl /\ story'[c] = s
        /\ \A d \in Clients : d # c => client'[d] = client[d] /\ story'[d] = story[d]
    BY <1>3, SetsTypes DEF Basics
  <2>2. ioQueue' \in Seq(IoCommands) /\ Len(ioQueue') <= IoQueueSize
    BY <1>3 DEF Basics, TypeOK
  <2> QED
    BY <1>1, <1>3, <2>1, <2>2 DEF Kept
<1> QED
  BY <1>2, <1>3 DEF Queues

(* ... starts a transfer,                                                  *)
LEMMA StartsKept ==
    ASSUME Basics, spc = "events", NEW c \in Clients, Starts(c)
    PROVE  Kept(c)
<1>1. PICK cl \in ClientRecord, s \in StoryRecord :
        /\ Fresh(c, cl, s)
        /\ \/ cl.pending = "RETR" /\ ~cl.started /\ cl.data /\ Queues(c, ReadCommand(c, s), cl, s)
           \/ /\ cl.pending = "RETR" /\ cl.data => cl.started
              /\ Sets(c, cl, s) /\ UNCHANGED <<spc, cmd, ioQueue>>
  BY DEF Starts
<1>2. Len(cl.buffer) < BufferSize
  BY <1>1 DEF Fresh, Basics, Room
<1>3. cl.pending \in Transferring /\ (cl.pending = "RETR" => s.size \in FileSizes)
  BY <1>1 DEF Fresh
<1>4. CASE Queues(c, ReadCommand(c, s), cl, s)
  BY <1>2, <1>3, <1>4, QueuesKept
<1>5. CASE Sets(c, cl, s) /\ UNCHANGED <<spc, cmd, ioQueue>>
  <2>1. /\ client' \in [Clients -> ClientRecord] /\ story' \in [Clients -> StoryRecord]
        /\ client'[c] = cl /\ story'[c] = s
        /\ \A d \in Clients : d # c => client'[d] = client[d] /\ story'[d] = story[d]
    BY <1>5, SetsTypes DEF Basics
  <2> QED
    BY <1>2, <1>3, <1>5, <2>1 DEF Kept, Basics, TypeOK
<1> QED
  BY <1>1, <1>4, <1>5

(* ... or receives.                                                        *)
LEMMA ReceivesKept ==
    ASSUME Basics, spc = "events", NEW c \in Clients, Receives(c)
    PROVE  Kept(c)
<1>1. PICK n \in Nat : LET b == client[c].buffer \o [k \in 1 .. n |-> Unit(story[c].cur, story[c].got + k)]
                          cl == [client[c] EXCEPT !.buffer = b]
                          s == [story[c] EXCEPT !.got = @ + n]
                      IN  \/ Queues(c, WriteCommand(c, b, n), cl, s)
                          \/ /\ n # 0 /\ Len(b) < BufferSize
                             /\ Sets(c, cl, s) /\ UNCHANGED <<spc, cmd, ioQueue>>
  BY DEF Receives
<1> DEFINE b == client[c].buffer \o [k \in 1 .. n |-> Unit(story[c].cur, story[c].got + k)]
           cl == [client[c] EXCEPT !.buffer = b]
           s == [story[c] EXCEPT !.got = @ + n]
<1>2. client[c] \in ClientRecord /\ story[c] \in StoryRecord
  BY DEF Basics, TypeOK
<1>3. b \in Seq(Nat \X Nat)
  <2>1. client[c].buffer \in Seq(Nat \X Nat) /\ story[c].cur \in Nat /\ story[c].got \in Nat
    BY <1>2 DEF ClientRecord, StoryRecord
  <2> QED
    <3> DEFINE u == Stretch(story[c].cur, story[c].got, n)
    <3>1. u \in Seq(Nat \X Nat)
      BY <2>1, Stretches
    <3>2. b = client[c].buffer \o u
      BY DEF Stretch
    <3> HIDE DEF u, b
    <3> QED
      BY <2>1, <3>1, <3>2, ConcatProperties
<1> HIDE DEF b
<1>4. cl \in ClientRecord /\ cl.buffer = b /\ cl.pending = "STOR"
  BY <1>2, <1>3 DEF ClientRecord, Receives
<1>5. s \in StoryRecord
  <2>1. story[c].got + n \in Nat
    BY <1>2 DEF StoryRecord
  <2>2. s = [story[c] EXCEPT !.got = story[c].got + n]
    OBVIOUS
  <2> HIDE DEF s
  <2> QED
    BY <1>2, <2>1, <2>2 DEF StoryRecord
<1>6. Queues(c, WriteCommand(c, b, n), cl, s)
         \/ (n # 0 /\ Len(b) < BufferSize /\ Sets(c, cl, s) /\ UNCHANGED <<spc, cmd, ioQueue>>)
  BY <1>1 DEF b
<1> HIDE DEF cl, s
<1>7. CASE Queues(c, WriteCommand(c, b, n), cl, s)
  <2>1. WriteCommand(c, b, n).type = "write"
    BY DEF WriteCommand
  <2> QED
    BY <1>4, <1>5, <1>7, <2>1, QueuesKept DEF Transferring
<1>8. CASE Len(b) < BufferSize /\ Sets(c, cl, s) /\ UNCHANGED <<spc, cmd, ioQueue>>
  <2>1. /\ client' \in [Clients -> ClientRecord] /\ story' \in [Clients -> StoryRecord]
        /\ client'[c] = cl /\ story'[c] = s
        /\ \A d \in Clients : d # c => client'[d] = client[d] /\ story'[d] = story[d]
    BY <1>8, SetsTypes DEF Basics
  <2> QED
    BY <1>4, <1>8, <2>1 DEF Kept, Basics, TypeOK, Transferring
<1> QED
  BY <1>6, <1>7, <1>8

(* Basics is kept at the handles,                                          *)
LEMMA HandleBasics ==
    ASSUME Basics, HandleDoes
    PROVE  Basics'
<1>1. PICK c \in Clients :
          \/ Calm(c)
          \/ Rests(c) /\ UNCHANGED <<spc, cmd, ioQueue>>
          \/ Starts(c)
          \/ Receives(c)
  BY DEF HandleDoes
<1>2. spc = "events" /\ Kept(c)
  BY <1>1, CalmKept, RestsKept, StartsKept, ReceivesKept DEF HandleDoes
<1> QED
  BY <1>2, KeptBasics DEF HandleDoes

(* ... when a command that waited is stored,                               *)
LEMMA AddBasics ==
    ASSUME Basics, AddDoes
    PROVE  Basics'
<1> DEFINE c == cmd.client
           cl == Stored(client[c], cmd)
<1>1. c \in Clients /\ cmd.type \in {"read", "write"} /\ cmd \in IoCommands /\ spc = "adding" /\ cmd # None
  BY NotNone DEF AddDoes
<1>2. client[c] \in ClientRecord
  BY <1>1 DEF Basics, TypeOK
<1>3. cl \in ClientRecord /\ cl.pending = client[c].pending
  <2>1. cl \in ClientRecord
    BY <1>1, <1>2, StoredTypes
  <2>2. cl.pending = client[c].pending
    BY <1>2 DEF Stored, ClientRecord
  <2> QED
    BY <2>1, <2>2
<1>4. Len(cl.buffer) < BufferSize
  <2>1. CASE cmd.type = "read"
    <3>1. cl.buffer = client[c].buffer
      BY <1>2, <2>1 DEF Stored, ClientRecord
    <3>2. Len(client[c].buffer) < BufferSize
      BY <1>1, <2>1 DEF Basics, Room
    <3> QED
      BY <3>1, <3>2
  <2>2. CASE cmd.type = "write"
    <3>1. cl.buffer = <<>>
      BY <1>1, <1>2, <2>2, StoredTypes
    <3> QED
      BY <3>1, Constants
  <2> QED
    BY <1>1, <2>1, <2>2
<1>5. ioQueue' \in Seq(IoCommands) /\ Len(ioQueue') <= IoQueueSize
  BY <1>1, Elements, Constants DEF Basics, TypeOK, AddDoes
<1>6. /\ client' = [client EXCEPT ![c] = cl] /\ spc' = "events" /\ cmd' = None
      /\ UNCHANGED <<ready, ioVars, serverQueue, exitVars, sessions, transfers, story>>
  BY DEF AddDoes
<1> HIDE DEF cl
<1>7. /\ client' \in [Clients -> ClientRecord] /\ client'[c] = cl
      /\ \A d \in Clients : d # c => client'[d] = client[d]
  BY <1>1, <1>3, <1>6 DEF Basics, TypeOK
<1>8. TypeOK'
  BY <1>5, <1>6, <1>7 DEF Basics, TypeOK, ioVars, exitVars
<1>9. Room'
  BY <1>1, <1>4, <1>6, <1>7 DEF Basics, Room
<1>10. Busy'
  BY <1>3, <1>6, <1>7 DEF Basics, Busy
<1>11. InFile' /\ BlockWaits'
  BY <1>6 DEF Basics, InFile, BlockWaits, ioVars
<1> QED
  BY <1>8, <1>9, <1>10, <1>11 DEF Basics

(* A step that ends the transfer of a client and leaves the thread at a    *)
(* handle or at its loop.                                                  *)
LEMMA EndingBasics ==
    ASSUME Basics, NEW c \in Clients, Rests(c), spc' \in {"poll", "events"}, cmd' = None,
           spc # "adding" \/ cmd.client = c,
           serverQueue' \in Seq(Answers), Len(serverQueue') <= ServerQueueSize,
           UNCHANGED <<ready, ioVars, ioQueue, exitVars, sessions, transfers>>
    PROVE  Basics'
<1>1. PICK cl \in ClientRecord, s \in StoryRecord :
        /\ Sets(c, cl, s) /\ s.cur = 0
        /\ cl.pending \notin Transferring /\ Len(cl.buffer) < BufferSize
  BY DEF Rests
<1>2. /\ client' \in [Clients -> ClientRecord] /\ story' \in [Clients -> StoryRecord]
      /\ client'[c] = cl /\ story'[c] = s
      /\ \A d \in Clients : d # c => client'[d] = client[d] /\ story'[d] = story[d]
  BY <1>1, SetsTypes DEF Basics
<1>3. TypeOK'
  BY <1>2 DEF Basics, TypeOK, ioVars, exitVars
<1>4. Room'
  BY <1>1, <1>2 DEF Basics, Room
<1>5. Busy'
  BY <1>1, <1>2 DEF Basics, Busy, Transferring
<1>6. InFile' /\ BlockWaits'
  BY DEF Basics, InFile, BlockWaits, ioVars
<1> QED
  BY <1>3, <1>4, <1>5, <1>6 DEF Basics

(* What the handlers of the answers have in common.                        *)
LEMMA AnswerFrameTypes ==
    ASSUME Basics, AnswerFrame
    PROVE  /\ spc = "events" /\ spc' = "poll" /\ cmd = None /\ cmd' = None
           /\ serverQueue' \in Seq(Answers) /\ Len(serverQueue') <= ServerQueueSize
           /\ UNCHANGED <<ready, ioVars, ioQueue, exitVars, sessions, transfers>>
           /\ Head(serverQueue).client \in Clients
<1>1. serverQueue' \in Seq(Answers) /\ Len(serverQueue') <= ServerQueueSize
  <2>1. /\ serverQueue \in Seq(Answers) /\ serverQueue # <<>> /\ serverQueue' = Tail(serverQueue)
        /\ Len(serverQueue) <= ServerQueueSize /\ Len(serverQueue) \in Nat
    BY DEF AnswerFrame, Basics, TypeOK
  <2>2. Tail(serverQueue) \in Seq(Answers) /\ Len(Tail(serverQueue)) = Len(serverQueue) - 1
    BY <2>1, Elements
  <2> QED
    BY <2>1, <2>2, Constants
<1>2. Head(serverQueue).client \in Clients
  BY NotNone DEF AnswerFrame
<1> QED
  BY <1>1, <1>2 DEF AnswerFrame, AtAnswer, Basics, TypeOK

(* ... when a block is sent,                                               *)
LEMMA AnswerMovesBasics ==
    ASSUME Basics, AnswerMoves
    PROVE  Basics'
<1> DEFINE m == Head(serverQueue)
           c == m.client
           s == [story[c] EXCEPT !.wire = @ \o m.units]
<1>1. AnswerFrame /\ Sets(c, client[c], s) /\ client' = client
  BY DEF AnswerMoves
<1>2. /\ spc = "events" /\ spc' = "poll" /\ cmd' = None
      /\ serverQueue' \in Seq(Answers) /\ Len(serverQueue') <= ServerQueueSize
      /\ UNCHANGED <<ready, ioVars, ioQueue, exitVars, sessions, transfers>>
      /\ c \in Clients
  BY <1>1, AnswerFrameTypes
<1>3. s.cur = story[c].cur /\ s.size = story[c].size
  BY <1>2 DEF Basics, TypeOK, StoryRecord
<1> HIDE DEF s
<1>4. /\ story' \in [Clients -> StoryRecord] /\ story'[c] = s
      /\ \A d \in Clients : d # c => story'[d] = story[d]
  BY <1>1, <1>2, SetsTypes DEF Basics
<1> HIDE DEF m
<1>5. TypeOK'
  BY <1>1, <1>2, <1>4 DEF Basics, TypeOK, ioVars, exitVars
<1>6. Room'
  BY <1>1, <1>2 DEF Basics, Room
<1>7. Busy'
  BY <1>1, <1>3, <1>4 DEF Basics, Busy
<1>8. InFile' /\ BlockWaits'
  BY <1>2 DEF Basics, InFile, BlockWaits, ioVars
<1> QED
  BY <1>5, <1>6, <1>7, <1>8 DEF Basics

(* ... when nothing happens,                                               *)
LEMMA IdlesBasics ==
    ASSUME Basics, ServerIdles
    PROVE  Basics'
<1>1. TypeOK'
  BY DEF ServerIdles, Basics, TypeOK, ioVars, exitVars
<1>2. Room' /\ Busy'
  BY DEF ServerIdles, Basics, Room, Busy
<1>3. InFile' /\ BlockWaits'
  BY DEF ServerIdles, Basics, InFile, BlockWaits, ioVars
<1> QED
  BY <1>1, <1>2, <1>3 DEF Basics

(* ... when the thread ends,                                               *)
LEMMA ServerExitBasics ==
    ASSUME Basics, ServerExit
    PROVE  Basics'
<1>1. /\ client' = [c \in Clients |-> Cleared]
      /\ story' = [c \in Clients |-> Ended(story[c], "none")]
      /\ spc' = "exit" /\ cmd = None
      /\ UNCHANGED <<ready, cmd, ioVars, serverQueue, ioQueue, exitVars, sessions, transfers>>
  BY DEF ServerExit, Basics, TypeOK
<1>2. \A c \in Clients : Ended(story[c], "none") \in StoryRecord /\ Ended(story[c], "none").cur = 0
  BY EndedTypes DEF Basics, TypeOK
<1>3. /\ client' \in [Clients -> ClientRecord] /\ story' \in [Clients -> StoryRecord]
      /\ \A c \in Clients : client'[c] = Cleared /\ story'[c].cur = 0
  BY <1>1, <1>2, Constants
<1>4. TypeOK'
  BY <1>1, <1>3 DEF Basics, TypeOK, ioVars, exitVars
<1>5. Room' /\ Busy'
  BY <1>3, Constants DEF Room, Busy, Transferring
<1>6. InFile' /\ BlockWaits'
  BY <1>1 DEF Basics, InFile, BlockWaits, ioVars
<1> QED
  BY <1>4, <1>5, <1>6 DEF Basics

(* ... and so by the server thread.                                        *)
LEMMA ServerBasics ==
    ASSUME Basics, ServerStep
    PROVE  Basics'
<1>1. CASE AddFails
  <2>1. cmd.client \in Clients
    BY <1>1, NotNone DEF AddFails
  <2> QED
    BY <1>1, <2>1, EndingBasics DEF AddFails, Basics, TypeOK
<1>2. CASE AnswerEnds
  <2>1. AnswerFrame /\ Rests(Head(serverQueue).client)
    BY <1>2 DEF AnswerEnds
  <2> QED
    BY <2>1, AnswerFrameTypes, EndingBasics
<1>3. ServerDoes
  BY ServerEffects
<1> QED
  BY <1>1, <1>2, <1>3, HandleBasics, AddBasics, AnswerMovesBasics, IdlesBasics, ServerExitBasics DEF ServerDoes

(* The I/O thread leaves of a story all but the file and what is lost.     *)
Recorded(s) ==
    /\ s \in [Clients -> StoryRecord]
    /\ \A c \in Clients :
          /\ s[c].cur = story[c].cur /\ s[c].clean = story[c].clean /\ s[c].wire = story[c].wire
          /\ s[c].got = story[c].got /\ s[c].size = story[c].size
          /\ story[c].lost => s[c].lost

(* A story is one itself,                                                  *)
LEMMA StoryRecorded ==
    ASSUME TypeOK
    PROVE  Recorded(story)
BY DEF TypeOK, Recorded

(* ... and stays one when a message is dropped,                            *)
LEMMA LostRecorded ==
    ASSUME TypeOK, NEW s, Recorded(s), NEW m, m.client \in Clients
    PROVE  Recorded(Lost(s, m)) /\ (s[m.client].cur = m.xfer => Lost(s, m)[m.client].lost)
<1> DEFINE c == m.client
           r == [s[c] EXCEPT !.lost = TRUE]
<1>1. CASE s[c].cur = m.xfer
  <2>1. Lost(s, m) = [s EXCEPT ![c] = r]
    BY <1>1 DEF Lost
  <2>2. s[c] \in StoryRecord
    BY DEF Recorded
  <2>3. /\ r \in StoryRecord /\ r.cur = s[c].cur /\ r.clean = s[c].clean /\ r.wire = s[c].wire
        /\ r.got = s[c].got /\ r.size = s[c].size /\ r.lost = TRUE
    BY <2>2 DEF StoryRecord
  <2> HIDE DEF r
  <2> DEFINE l == Lost(s, m)
  <2>4. l = [s EXCEPT ![c] = r]
    BY <2>1
  <2> HIDE DEF l
  <2>5. l \in [Clients -> StoryRecord] /\ l[c] = r /\ \A d \in Clients : d # c => l[d] = s[d]
    BY <2>3, <2>4 DEF Recorded
  <2>6. Recorded(l)
    BY <2>3, <2>5 DEF Recorded
  <2> QED
    BY <2>3, <2>5, <2>6 DEF l
<1>2. CASE s[c].cur # m.xfer
  BY <1>2 DEF Lost
<1> QED
  BY <1>1, <1>2

(* ... and when a write is carried out.                                    *)
LEMMA WroteRecorded ==
    ASSUME Basics, NEW m \in IoCommands, m.type = "write", NEW failed \in BOOLEAN
    PROVE  Recorded(Wrote(m, failed))
<1> DEFINE c == m.client
           w == Written(story[c].file, m)
           r == [story[c] EXCEPT !.file = w]
<1>1. CASE Wrote(m, failed) = story
  BY <1>1, StoryRecorded DEF Basics
<1>2. CASE Wrote(m, failed) = [story EXCEPT ![c].file = w]
  <2>1. c \in Clients /\ m.units \in Seq(Nat \X Nat)
    BY DEF IoCommands
  <2>2. story[c] \in StoryRecord
    BY <2>1 DEF Basics, TypeOK
  <2>3. w \in Seq(Nat \X Nat)
    BY <2>1, <2>2, ConcatProperties DEF Written, StoryRecord
  <2> HIDE DEF w
  <2>4. /\ r \in StoryRecord /\ r.cur = story[c].cur /\ r.clean = story[c].clean /\ r.wire = story[c].wire
        /\ r.got = story[c].got /\ r.size = story[c].size /\ r.lost = story[c].lost
    BY <2>2, <2>3 DEF StoryRecord
  <2> DEFINE l == Wrote(m, failed)
  <2>5. l = [story EXCEPT ![c] = r]
    BY <1>2
  <2> HIDE DEF l, r
  <2>6. l \in [Clients -> StoryRecord] /\ l[c] = r /\ \A d \in Clients : d # c => l[d] = story[d]
    BY <2>1, <2>4, <2>5 DEF Basics, TypeOK
  <2>7. Recorded(l)
    BY <2>4, <2>6 DEF Recorded
  <2> QED
    BY <2>7 DEF l
<1> QED
  BY <1>1, <1>2 DEF Wrote

(* An answer keeps the types of what it changes.                           *)
LEMMA GivesTypes ==
    ASSUME Basics, NEW m, NEW s, Gives(m, s), Recorded(s), iopc \in {"reads", "addRes"}
    PROVE  /\ Recorded(story')
           /\ serverQueue' \in Seq(Answers) /\ Len(serverQueue') <= ServerQueueSize
           /\ iopc' \in {"reads", "addRes", "exit"} /\ index' \in 1 .. NumClients + 1
           /\ IF iopc' = "addRes" THEN res' \in Answers ELSE res' = None
<1>1. m \in Answers /\ m.client \in Clients
  BY NotNone DEF Gives
<1>2. 1 \in 1 .. NumClients + 1
  BY Constants
<1>3. CASE /\ Len(serverQueue) < ServerQueueSize
           /\ serverQueue' = Append(serverQueue, m) /\ story' = s /\ Resumes
  BY <1>1, <1>2, <1>3, Elements, Constants DEF Basics, TypeOK, Resumes
<1>4. CASE /\ iopc' = "addRes" /\ res' = m /\ story' = s
           /\ UNCHANGED <<index, serverQueue>>
  BY <1>1, <1>4 DEF Basics, TypeOK
<1>5. CASE story' = Lost(s, m) /\ Resumes /\ UNCHANGED serverQueue
  BY <1>1, <1>2, <1>5, LostRecorded DEF Basics, TypeOK, Resumes
<1> QED
  BY <1>3, <1>4, <1>5 DEF Gives

(* What is left to show for a step of the I/O thread.                      *)
LEMMA IoKept ==
    ASSUME Basics, IoUnchanged, Recorded(story'),
           iopc' \in {"reads", "addRead", "addRes", "exit"}, index' \in 1 .. NumClients + 1,
           IF iopc' \in {"addRead", "addRes"} THEN res' \in Answers ELSE res' = None,
           reads' \in [ReadSlots -> {None} \cup ReadStates],
           serverQueue' \in Seq(Answers), Len(serverQueue') <= ServerQueueSize,
           ioQueue' \in Seq(IoCommands), Len(ioQueue') <= IoQueueSize,
           InFile', BlockWaits'
    PROVE  Basics'
<1>1. TypeOK'
  BY DEF Basics, TypeOK, IoUnchanged, Recorded, serverVars, exitVars
<1>2. Room'
  BY DEF Basics, Room, IoUnchanged, serverVars
<1>3. Busy'
  BY DEF Basics, Busy, IoUnchanged, Recorded
<1> QED
  BY <1>1, <1>2, <1>3 DEF Basics

(* A command that is taken leaves the queue as it should be.               *)
LEMMA TailTypes ==
    ASSUME Basics, Takes
    PROVE  ioQueue' \in Seq(IoCommands) /\ Len(ioQueue') <= IoQueueSize
<1>1. /\ ioQueue \in Seq(IoCommands) /\ ioQueue # <<>> /\ ioQueue' = Tail(ioQueue)
      /\ Len(ioQueue) <= IoQueueSize /\ Len(ioQueue) \in Nat
  BY DEF Takes, Basics, TypeOK
<1>2. Tail(ioQueue) \in Seq(IoCommands) /\ Len(Tail(ioQueue)) = Len(ioQueue) - 1
  BY <1>1, Elements
<1> QED
  BY <1>1, <1>2, Constants

(* Basics is kept when a file is read,                                     *)
LEMMA ReadBasics ==
    ASSUME Basics, IoUnchanged, NEW i \in ReadSlots, ReadDoes(i)
    PROVE  Basics'
<1> DEFINE r == reads[i]
<1>1. /\ r \in ReadStates /\ r.offset <= r.size /\ r.client \in Clients /\ i \in Nat /\ i <= NumClients
      /\ i \in 1 .. NumClients + 1 /\ i + 1 \in 1 .. NumClients + 1
  <2>1. r \in ReadStates /\ r.offset <= r.size
    BY DEF ReadDoes, Basics, TypeOK, InFile
  <2>2. i \in Nat /\ i <= NumClients /\ i \in 1 .. NumClients + 1 /\ i + 1 \in 1 .. NumClients + 1
    BY Constants DEF ReadSlots
  <2> QED
    BY <2>1, <2>2, NotNone
<1>2. /\ Recorded(story) /\ ioQueue \in Seq(IoCommands) /\ Len(ioQueue) <= IoQueueSize
      /\ serverQueue \in Seq(Answers) /\ Len(serverQueue) <= ServerQueueSize
      /\ reads \in [ReadSlots -> {None} \cup ReadStates] /\ InFile
  BY StoryRecorded DEF Basics, TypeOK
<1>3. CASE ReadStored(i)
  <2>1. PICK failed \in BOOLEAN :
        /\ Len(serverQueue) < ServerQueueSize
        /\ serverQueue' = Append(serverQueue, Block(r, failed))
        /\ reads' = [reads EXCEPT ![i] = Advanced(r, Block(r, failed))]
        /\ iopc' = "reads" /\ index' = i + 1 /\ res' = None
        /\ UNCHANGED <<ioQueue, story>>
    BY <1>3 DEF ReadStored
  <2> DEFINE m == Block(r, failed)
             a == Advanced(r, m)
             n == Len(m.units)
  <2>2. /\ m \in Answers /\ n \in Nat /\ r.offset + n <= r.size
        /\ a = IF m.eof THEN None ELSE [r EXCEPT !.offset = r.offset + n]
    BY <1>1, BlockIs
  <2> HIDE DEF r, m, a, n
  <2>3. a \in {None} \cup ReadStates /\ (a # None => a.offset <= a.size)
    <3>1. r.offset + n \in Nat
      BY <1>1, <2>2 DEF ReadStates
    <3>2. [r EXCEPT !.offset = r.offset + n] \in ReadStates
      BY <1>1, <3>1 DEF ReadStates
    <3>3. [r EXCEPT !.offset = r.offset + n].offset <= [r EXCEPT !.offset = r.offset + n].size
      BY <1>1, <2>2 DEF ReadStates
    <3> QED
      BY <2>2, <3>2, <3>3
  <2>4. serverQueue' \in Seq(Answers) /\ Len(serverQueue') <= ServerQueueSize
    BY <1>2, <2>1, <2>2, Elements, Constants DEF m
  <2>5. reads' = [reads EXCEPT ![i] = a]
    BY <2>1 DEF a, m
  <2>6. reads' \in [ReadSlots -> {None} \cup ReadStates]
    BY <1>2, <2>3, <2>5
  <2>7. InFile'
    BY <1>2, <2>3, <2>5 DEF InFile
  <2>8. BlockWaits'
    BY <2>1 DEF BlockWaits
  <2> QED
    BY <1>1, <1>2, <2>1, <2>4, <2>6, <2>7, <2>8, IoKept
<1>4. CASE ReadWaits(i)
  <2>1. PICK failed \in BOOLEAN :
        /\ iopc' = "addRead" /\ index' = i /\ res' = Block(r, failed)
        /\ UNCHANGED <<reads, serverQueue, ioQueue, story>>
    BY <1>4 DEF ReadWaits
  <2>2. res' \in Answers
    BY <1>1, <2>1, BlockIs
  <2>3. InFile'
    BY <1>2, <2>1 DEF InFile
  <2>4. BlockWaits'
    BY <2>1 DEF BlockWaits, ReadDoes
  <2> QED
    BY <1>1, <1>2, <2>1, <2>2, <2>3, <2>4, IoKept
<1>5. CASE ReadLost(i)
  <2>1. /\ reads' = [reads EXCEPT ![i] = None]
        /\ story' = Lost(story, r)
        /\ iopc' = "reads" /\ index' = i + 1 /\ res' = None
        /\ UNCHANGED <<serverQueue, ioQueue>>
    BY <1>5 DEF ReadLost
  <2> HIDE DEF r
  <2>2. Recorded(story')
    BY <1>1, <1>2, <2>1, LostRecorded DEF Basics
  <2>3. reads' \in [ReadSlots -> {None} \cup ReadStates]
    BY <1>2, <2>1
  <2>4. InFile'
    BY <1>2, <2>1 DEF InFile
  <2>5. BlockWaits'
    BY <2>1 DEF BlockWaits
  <2> QED
    BY <1>1, <1>2, <2>1, <2>2, <2>3, <2>4, <2>5, IoKept
<1> QED
  BY <1>3, <1>4, <1>5 DEF ReadDoes

(* ... when a command is carried out,                                      *)
LEMMA CommandBasics ==
    ASSUME Basics, IoUnchanged, CommandDoes
    PROVE  Basics'
<1> DEFINE m == Head(ioQueue)
<1>1. /\ Takes /\ m \in IoCommands /\ ioQueue # <<>> /\ iopc = "reads"
      /\ Registers(m) \/ (m.type = "read" /\ Gives(ErrorAnswer(m), story) /\ UNCHANGED reads) \/ Writes(m)
  BY DEF CommandDoes, Takes
<1>2. ioQueue' \in Seq(IoCommands) /\ Len(ioQueue') <= IoQueueSize
  BY <1>1, TailTypes
<1>3. \A i : m.type = "read" => NewRead(m, i) \in ReadStates
  BY <1>1, CommandTypes
<1> HIDE DEF m
<1>4. /\ Recorded(story)
      /\ serverQueue \in Seq(Answers) /\ Len(serverQueue) <= ServerQueueSize
      /\ reads \in [ReadSlots -> {None} \cup ReadStates] /\ InFile
  BY StoryRecorded DEF Basics, TypeOK
<1>5. 1 \in 1 .. NumClients + 1
  BY Constants
<1>6. CASE Registers(m)
  <2>1. PICK i \in ReadSlots : reads[i] = None /\ reads' = [reads EXCEPT ![i] = NewRead(m, i)]
    BY <1>6 DEF Registers
  <2>2. Resumes /\ UNCHANGED <<serverQueue, story>> /\ m.type = "read"
    BY <1>6 DEF Registers
  <2>3. NewRead(m, i) \in ReadStates /\ NewRead(m, i).offset = 0 /\ NewRead(m, i).size \in Nat
    <3>1. NewRead(m, i) \in ReadStates
      BY <1>3, <2>2
    <3>2. NewRead(m, i).size \in Nat
      BY <3>1, Constants DEF ReadStates
    <3> QED
      BY <3>1, <3>2 DEF NewRead
  <2>4. reads' \in [ReadSlots -> {None} \cup ReadStates]
    BY <1>4, <2>1, <2>3
  <2>5. InFile'
    BY <1>4, <2>1, <2>3 DEF InFile
  <2>6. BlockWaits'
    BY <2>2 DEF BlockWaits, Resumes
  <2> QED
    BY <1>2, <1>4, <1>5, <2>2, <2>4, <2>5, <2>6, IoKept DEF Resumes
<1>7. ASSUME NEW a, NEW s, Gives(a, s), Recorded(s), UNCHANGED reads
      PROVE  Basics'
  <2>1. /\ Recorded(story')
        /\ serverQueue' \in Seq(Answers) /\ Len(serverQueue') <= ServerQueueSize
        /\ iopc' \in {"reads", "addRes", "exit"} /\ index' \in 1 .. NumClients + 1
        /\ IF iopc' = "addRes" THEN res' \in Answers ELSE res' = None
    BY <1>1, <1>7, GivesTypes
  <2>2. InFile' /\ BlockWaits'
    BY <1>4, <1>7, <2>1 DEF InFile, BlockWaits
  <2> QED
    BY <1>2, <1>4, <1>7, <2>1, <2>2, IoKept
<1>8. CASE Writes(m)
  <2>1. PICK failed \in BOOLEAN :
          \/ (failed \/ m.eof) /\ Gives(WriteAnswer(m, failed), Wrote(m, failed))
          \/ /\ ~failed /\ ~m.eof /\ story' = Wrote(m, failed)
             /\ Resumes /\ UNCHANGED serverQueue
    BY <1>8 DEF Writes
  <2>2. Recorded(Wrote(m, failed)) /\ UNCHANGED reads
    BY <1>1, <1>8, WroteRecorded DEF Writes
  <2>3. CASE story' = Wrote(m, failed) /\ Resumes /\ UNCHANGED serverQueue
    <3>1. InFile' /\ BlockWaits'
      BY <1>4, <2>2, <2>3 DEF InFile, BlockWaits, Resumes
    <3> QED
      BY <1>2, <1>4, <1>5, <2>2, <2>3, <3>1, IoKept DEF Resumes
  <2> QED
    BY <1>7, <2>1, <2>2, <2>3
<1> QED
  BY <1>1, <1>4, <1>6, <1>7, <1>8

(* ... and so by the I/O thread.                                           *)
LEMMA IoBasics ==
    ASSUME Basics, IoStep
    PROVE  Basics'
<1>1. IoDoes
  BY IoEffects
<1>2. CASE IoIdles
  <2>1. Recorded(story) /\ InFile' /\ BlockWaits'
    BY <1>2, StoryRecorded DEF Basics, InFile, BlockWaits, IoIdles, Resumes
  <2>2. 1 \in 1 .. NumClients + 1
    BY Constants
  <2> QED
    BY <1>1, <1>2, <2>1, <2>2, IoKept DEF IoDoes, IoIdles, Resumes, Basics, TypeOK
<1>3. CASE ReplyMoves
  <2>1. iopc = "addRes" /\ Gives(res, story) /\ UNCHANGED <<reads, ioQueue>>
    BY <1>3 DEF ReplyMoves
  <2>2. Recorded(story)
    BY StoryRecorded DEF Basics
  <2>3. /\ Recorded(story')
        /\ serverQueue' \in Seq(Answers) /\ Len(serverQueue') <= ServerQueueSize
        /\ iopc' \in {"reads", "addRes", "exit"} /\ index' \in 1 .. NumClients + 1
        /\ IF iopc' = "addRes" THEN res' \in Answers ELSE res' = None
    BY <2>1, <2>2, GivesTypes
  <2>4. InFile' /\ BlockWaits'
    BY <2>1, <2>3 DEF Basics, InFile, BlockWaits
  <2> QED
    BY <1>1, <2>1, <2>3, <2>4, IoKept DEF IoDoes, Basics, TypeOK
<1> QED
  BY <1>1, <1>2, <1>3, ReadBasics, CommandBasics DEF IoDoes

(* It is kept by Ftpd_exit,                                                *)
LEMMA ExitBasics ==
    ASSUME Basics, ExitStep
    PROVE  Basics'
<1>1. ExitUnchanged
  BY DEF ExitStep, Stop, JoinServer, JoinIo, DrainServer, DrainIo, DeleteQueues
<1>2. /\ running' \in BOOLEAN /\ joined' \in BOOLEAN
      /\ xpc' \in {"idle", "joinServer", "joinIo", "drainServer", "drainIo", "delete", "done"}
  BY DEF ExitStep, Stop, JoinServer, JoinIo, DrainServer, DrainIo, DeleteQueues, Basics, TypeOK
<1>3. (serverQueue' = serverQueue \/ serverQueue' = <<>>) /\ (ioQueue' = ioQueue \/ ioQueue' = <<>>)
  BY DEF ExitStep, Stop, JoinServer, JoinIo, DrainServer, DrainIo, DeleteQueues
<1>4. TypeOK'
  <2>1. /\ serverQueue' \in Seq(Answers) /\ Len(serverQueue') <= ServerQueueSize
        /\ ioQueue' \in Seq(IoCommands) /\ Len(ioQueue') <= IoQueueSize
    <3>1. <<>> \in Seq(Answers) /\ <<>> \in Seq(IoCommands) /\ Len(<<>>) = 0
      OBVIOUS
    <3>2. /\ serverQueue \in Seq(Answers) /\ Len(serverQueue) <= ServerQueueSize
          /\ ioQueue \in Seq(IoCommands) /\ Len(ioQueue) <= IoQueueSize
      BY DEF Basics, TypeOK
    <3>3. 0 <= ServerQueueSize /\ 0 <= IoQueueSize
      BY Constants
    <3>4. ASSUME NEW T, NEW q, NEW p, NEW n, q \in Seq(T), Len(q) <= n, p = q \/ p = <<>>, 0 <= n
          PROVE  p \in Seq(T) /\ Len(p) <= n
      <4>1. CASE p = q
        BY <3>4, <4>1
      <4>2. CASE p = <<>>
        <5>1. p \in Seq(T)
          BY <4>2
        <5>2. Len(p) = 0
          BY <4>2
        <5> QED
          BY <3>4, <5>1, <5>2
      <4> QED
        BY <3>4, <4>1, <4>2
    <3> QED
      BY <1>3, <3>2, <3>3, <3>4
  <2> QED
    BY <1>1, <1>2, <2>1 DEF Basics, TypeOK, ExitUnchanged, serverVars, ioVars
<1>5. Room' /\ Busy' /\ InFile' /\ BlockWaits'
  BY <1>1 DEF Basics, Room, Busy, InFile, BlockWaits, ExitUnchanged, serverVars, ioVars
<1> QED
  BY <1>4, <1>5 DEF Basics

(* ... by a step of nothing,                                               *)
LEMMA SameBasics ==
    ASSUME Basics, UNCHANGED vars
    PROVE  Basics'
<1>1. TypeOK'
  BY DEF Basics, TypeOK, vars, serverVars, ioVars, exitVars
<1>2. Room' /\ Busy' /\ InFile' /\ BlockWaits'
  BY DEF Basics, Room, Busy, InFile, BlockWaits, vars, serverVars, ioVars
<1> QED
  BY <1>1, <1>2 DEF Basics

(* ... it holds before the first step,                                     *)
LEMMA InitBasics ==
    ASSUME Init
    PROVE  Basics
<1>1. TypeOK
  BY Constants, FtpAssumption DEF Init, TypeOK
<1>2. Room /\ Busy /\ InFile /\ BlockWaits
  BY Constants DEF Init, Room, Busy, InFile, BlockWaits, NewStory, Cleared, Transferring
<1> QED
  BY <1>1, <1>2 DEF Basics

(* ... and is kept by every step.                                          *)
LEMMA NextBasics ==
    ASSUME Basics, [Next]_vars
    PROVE  Basics'
BY ServerBasics, IoBasics, ExitBasics, SameBasics DEF Next

(* The variables have their types; outside of a wait for room the buffer   *)
(* of a client has room for what Ftpd_receive_data_handler reads next;     *)
(* what waits for room and what is registered belongs to a transfer; and   *)
(* the I/O thread reads no further than the end of a file.                 *)
THEOREM BasicsHold == Spec => []Basics
<1>1. Init => Basics
  BY InitBasics
<1>2. Basics /\ [Next]_vars => Basics'
  BY NextBasics
<1> QED
  BY <1>1, <1>2, PTL DEF Spec

(* The server thread never receives into a full buffer, which would be     *)
(* refused and leave a STOR waiting with its data unread.                  *)
THEOREM ThereIsRoom == Spec => []RoomToReceive
<1>1. Basics => RoomToReceive
  BY DEF Basics, Room, RoomToReceive
<1> QED
  BY <1>1, BasicsHold, PTL

-----------------------------------------------------------------------------
(* The messages about a transfer with a clean start are its own.           *)

(* All commands, reads and answers there are.                              *)
Messages ==
    (ToSet(ioQueue) \cup ToSet(serverQueue) \cup {reads[i] : i \in ReadSlots} \cup {cmd, res}) \ {None}

Owned(c) == \A m \in Messages : m.client = c => m.xfer = story[c].cur
Clean(c) == story[c].clean /\ story[c].cur # 0
Own == \A c \in Clients : Clean(c) => Owned(c)

(* Own says what OwnMessages does.                                         *)
LEMMA OwnIsOwnMessages == Own <=> OwnMessages
BY DEF Own, Clean, Owned, OwnMessages, InFlight, Messages

(* A message that comes of one there was.                                  *)
Derived(m) == \E o \in Messages : o.client = m.client /\ o.xfer = m.xfer

(* It is kept by a step whose messages come of those there were, or are of *)
(* the transfer under way.                                                 *)
LEMMA OwnStep ==
    ASSUME Own,
           \A c \in Clients : Clean(c)' =>
              \/ /\ Clean(c) /\ story'[c].cur = story[c].cur
                 /\ \A m \in Messages' : m.client = c => Derived(m) \/ m.xfer = story'[c].cur
              \/ \A m \in Messages' : m.client = c => m.xfer = story'[c].cur
    PROVE  Own'
BY DEF Own, Owned, Derived

(* The elements of the two queues as they grow and shrink.                 *)
LEMMA QueueElements ==
    ASSUME TypeOK
    PROVE  /\ \A m \in IoCommands : ToSet(Append(ioQueue, m)) = ToSet(ioQueue) \cup {m}
           /\ ioQueue # <<>> => /\ Head(ioQueue) \in ToSet(ioQueue)
                                /\ ToSet(Tail(ioQueue)) \subseteq ToSet(ioQueue)
                                /\ ToSet(ioQueue) \subseteq ToSet(Tail(ioQueue)) \cup {Head(ioQueue)}
           /\ \A m \in Answers : ToSet(Append(serverQueue, m)) = ToSet(serverQueue) \cup {m}
           /\ serverQueue # <<>> => /\ Head(serverQueue) \in ToSet(serverQueue)
                                    /\ ToSet(Tail(serverQueue)) \subseteq ToSet(serverQueue)
                                    /\ ToSet(serverQueue) \subseteq ToSet(Tail(serverQueue)) \cup {Head(serverQueue)}
           /\ ToSet(ioQueue) \subseteq IoCommands /\ ToSet(serverQueue) \subseteq Answers
<1>1. ioQueue \in Seq(IoCommands) /\ serverQueue \in Seq(Answers)
  BY DEF TypeOK
<1>2. /\ \A m \in IoCommands : ToSet(Append(ioQueue, m)) = ToSet(ioQueue) \cup {m}
      /\ ioQueue # <<>> => /\ Head(ioQueue) \in ToSet(ioQueue)
                           /\ ToSet(Tail(ioQueue)) \subseteq ToSet(ioQueue)
                           /\ ToSet(ioQueue) \subseteq ToSet(Tail(ioQueue)) \cup {Head(ioQueue)}
      /\ ToSet(ioQueue) \subseteq IoCommands
  BY <1>1, Elements
<1>3. /\ \A m \in Answers : ToSet(Append(serverQueue, m)) = ToSet(serverQueue) \cup {m}
      /\ serverQueue # <<>> => /\ Head(serverQueue) \in ToSet(serverQueue)
                               /\ ToSet(Tail(serverQueue)) \subseteq ToSet(serverQueue)
                               /\ ToSet(serverQueue) \subseteq ToSet(Tail(serverQueue)) \cup {Head(serverQueue)}
      /\ ToSet(serverQueue) \subseteq Answers
  BY <1>1, Elements
<1> QED
  BY <1>2, <1>3

(* Sending a command makes no other message.                               *)
LEMMA QueuesMessages ==
    ASSUME Basics, spc = "events", NEW c \in Clients, NEW m, NEW cl, NEW s, Queues(c, m, cl, s),
           UNCHANGED <<ioVars, serverQueue>>
    PROVE  Messages' \subseteq Messages \cup {m}
<1>1. m \in IoCommands /\ cmd = None
  BY DEF Queues, Basics, TypeOK
<1>2. (ToSet(ioQueue)' \subseteq ToSet(ioQueue) \cup {m}) /\ cmd' \in {None, m}
  BY <1>1, QueueElements DEF Queues, Basics
<1> QED
  BY <1>1, <1>2 DEF Messages, ioVars

(* Own is kept at the handles,                                             *)
LEMMA HandleOwn ==
    ASSUME Basics, Own, HandleDoes
    PROVE  Own'
<1>1. PICK c \in Clients :
          \/ Calm(c)
          \/ Rests(c) /\ UNCHANGED <<spc, cmd, ioQueue>>
          \/ Starts(c)
          \/ Receives(c)
  BY DEF HandleDoes
<1>2. UNCHANGED <<ioVars, serverQueue>> /\ spc = "events" /\ TypeOK
  BY DEF HandleDoes, Basics
<1>3. CASE Calm(c)
  BY <1>2, <1>3 DEF Calm, Own, Clean, Owned, Messages, ioVars
<1>4. CASE Rests(c) /\ UNCHANGED <<spc, cmd, ioQueue>>
  <2>1. Messages' = Messages
    BY <1>2, <1>4 DEF Messages, ioVars
  <2>2. PICK cl, s : Sets(c, cl, s) /\ s.cur = 0
    BY <1>4 DEF Rests
  <2>3. story'[c].cur = 0 /\ \A d \in Clients : d # c => story'[d] = story[d]
    BY <1>2, <2>2, SetsTypes
  <2> QED
    BY <2>1, <2>3 DEF Own, Clean, Owned
<1>5. CASE Starts(c)
  <2>1. PICK cl \in ClientRecord, s \in StoryRecord :
        /\ Fresh(c, cl, s)
        /\ \/ Queues(c, ReadCommand(c, s), cl, s)
           \/ Sets(c, cl, s) /\ UNCHANGED <<spc, cmd, ioQueue>>
    BY <1>5 DEF Starts
  <2>2. Messages' \subseteq Messages \cup {ReadCommand(c, s)}
    BY <1>2, <2>1, QueuesMessages DEF Messages, ioVars
  <2>3. story'[c] = s /\ \A d \in Clients : d # c => story'[d] = story[d]
    <3>1. \E cl2 : Sets(c, cl2, s)
      BY <2>1 DEF Queues
    <3> QED
      BY <1>2, <3>1, SetsTypes
  <2>4. ReadCommand(c, s).client = c /\ ReadCommand(c, s).xfer = s.cur
    BY DEF ReadCommand
  <2>5. CASE \E size \in Nat : s = Begin(c, size)
    <3>1. s.clean => NothingLeftOf(c)
      BY <1>2, <2>5, BeginTypes
    <3>2. cmd = None
      BY <1>2 DEF TypeOK
    <3>3. s.clean => \A m \in Messages : m.client # c
      BY <3>1, <3>2 DEF NothingLeftOf, Messages
    <3>4. \A d \in Clients : Clean(d)' => \A m \in Messages' : m.client = d => m.xfer = story'[d].cur
      BY <2>2, <2>3, <2>4, <3>3 DEF Own, Clean, Owned
    <3> QED
      BY <3>4, OwnStep
  <2>6. CASE s = [story[c] EXCEPT !.wire = <<>>]
    <3>1. s.cur = story[c].cur /\ s.clean = story[c].clean
      BY <1>2, <2>6 DEF TypeOK, StoryRecord
    <3>2. \A d \in Clients : Clean(d)' => \A m \in Messages' : m.client = d => m.xfer = story'[d].cur
      BY <2>2, <2>3, <2>4, <3>1 DEF Own, Clean, Owned
    <3> QED
      BY <3>2, OwnStep
  <2> QED
    BY <2>1, <2>5, <2>6 DEF Fresh
<1>6. CASE Receives(c)
  <2>0. PICK n \in Nat : \E b, cl, s :
          /\ s = [story[c] EXCEPT !.got = @ + n]
          /\ \/ Queues(c, WriteCommand(c, b, n), cl, s)
             \/ Sets(c, cl, s) /\ UNCHANGED <<spc, cmd, ioQueue>>
    BY <1>6 DEF Receives
  <2>1. PICK b, cl, s :
          /\ s = [story[c] EXCEPT !.got = @ + n]
          /\ \/ Queues(c, WriteCommand(c, b, n), cl, s)
             \/ Sets(c, cl, s) /\ UNCHANGED <<spc, cmd, ioQueue>>
    BY <2>0
  <2>2. Messages' \subseteq Messages \cup {WriteCommand(c, b, n)}
    BY <1>2, <2>1, QueuesMessages DEF Messages, ioVars
  <2>3. story'[c] = s /\ \A d \in Clients : d # c => story'[d] = story[d]
    <3>1. \E cl2 : Sets(c, cl2, s)
      BY <2>1 DEF Queues
    <3> QED
      BY <1>2, <3>1, SetsTypes
  <2>4. WriteCommand(c, b, n).client = c /\ WriteCommand(c, b, n).xfer = story[c].cur
    BY DEF WriteCommand
  <2>5. s.cur = story[c].cur /\ s.clean = story[c].clean
    BY <1>2, <2>1 DEF TypeOK, StoryRecord
  <2>6. \A d \in Clients : Clean(d)' => \A m \in Messages' : m.client = d => m.xfer = story'[d].cur
    BY <2>2, <2>3, <2>4, <2>5 DEF Own, Clean, Owned
  <2> QED
    BY <2>6, OwnStep
<1> QED
  BY <1>1, <1>3, <1>4, <1>5, <1>6

(* ... and so by the server thread.                                        *)
LEMMA ServerOwn ==
    ASSUME Basics, Own, ServerStep
    PROVE  Own'
<1>1. ServerDoes /\ TypeOK
  BY ServerEffects DEF Basics
<1>2. CASE AddDoes
  <2>1. Messages' \subseteq Messages /\ UNCHANGED story
    BY <1>1, <1>2, QueueElements DEF AddDoes, Messages, ioVars
  <2> QED
    BY <2>1 DEF Own, Clean, Owned
<1>3. ASSUME NEW c \in Clients, Rests(c), Messages' \subseteq Messages
      PROVE  Own'
  <2>1. PICK cl, s : Sets(c, cl, s) /\ s.cur = 0
    BY <1>3 DEF Rests
  <2>2. story'[c].cur = 0 /\ \A d \in Clients : d # c => story'[d] = story[d]
    BY <1>1, <2>1, SetsTypes
  <2> QED
    BY <1>3, <2>2 DEF Own, Clean, Owned
<1>4. CASE AddFails
  <2>1. Messages' \subseteq Messages
    BY <1>4 DEF AddFails, Messages, ioVars
  <2> QED
    BY <1>3, <1>4, <2>1, NotNone DEF AddFails
<1>5. AnswerFrame => Messages' \subseteq Messages /\ Head(serverQueue).client \in Clients
  BY <1>1, QueueElements, NotNone DEF AnswerFrame, AtAnswer, Messages, ioVars
<1>6. CASE AnswerEnds
  BY <1>3, <1>5, <1>6 DEF AnswerEnds
<1>7. CASE AnswerMoves
  <2> DEFINE m == Head(serverQueue)
             c == m.client
             s == [story[c] EXCEPT !.wire = @ \o m.units]
  <2>1. Messages' \subseteq Messages /\ c \in Clients /\ Sets(c, client[c], s)
    BY <1>5, <1>7 DEF AnswerMoves
  <2>2. s.cur = story[c].cur /\ s.clean = story[c].clean
    BY <1>1, <2>1 DEF TypeOK, StoryRecord
  <2> HIDE DEF s, m
  <2>3. story'[c] = s /\ \A d \in Clients : d # c => story'[d] = story[d]
    BY <1>1, <2>1, SetsTypes
  <2> QED
    BY <2>1, <2>2, <2>3 DEF Own, Clean, Owned
<1>8. CASE ServerIdles
  BY <1>8 DEF ServerIdles, Own, Clean, Owned, Messages, ioVars
<1>9. CASE ServerExit
  <2>1. \A c \in Clients : story'[c].cur = 0
    BY <1>1, <1>9, EndedTypes DEF ServerExit, TypeOK
  <2> QED
    BY <2>1 DEF Own, Clean
<1> QED
  BY <1>1, <1>2, <1>4, <1>6, <1>7, <1>8, <1>9, HandleOwn DEF ServerDoes

(* An answer makes no other message.                                       *)
LEMMA GivesMessages ==
    ASSUME Basics, NEW m, NEW s, Gives(m, s), iopc \in {"reads", "addRes"}
    PROVE  /\ ToSet(serverQueue)' \cup {res'} \subseteq ToSet(serverQueue) \cup {m, None}
           /\ ToSet(serverQueue) \subseteq ToSet(serverQueue)'
<1>1. m \in Answers
  BY DEF Gives
<1>2. ToSet(Append(serverQueue, m)) = ToSet(serverQueue) \cup {m}
  BY <1>1, QueueElements DEF Basics
<1>3. \/ serverQueue' = Append(serverQueue, m) /\ res' = None
      \/ serverQueue' = serverQueue /\ res' \in {m, None}
  BY DEF Gives, Resumes
<1>4. \/ ToSet(serverQueue)' = ToSet(serverQueue) \cup {m} /\ res' = None
      \/ ToSet(serverQueue)' = ToSet(serverQueue) /\ res' \in {m, None}
  BY <1>2, <1>3
<1> QED
  BY <1>4

(* The I/O thread leaves the stories to the server thread,                 *)
LEMMA IoRecorded ==
    ASSUME Basics, IoDoes
    PROVE  Recorded(story')
<1>1. Recorded(story)
  BY StoryRecorded DEF Basics
<1>2. ASSUME NEW i \in ReadSlots, ReadDoes(i)
      PROVE  Recorded(story')
  <2>1. reads[i].client \in Clients
    BY <1>2, NotNone DEF ReadDoes, Basics, TypeOK
  <2> QED
    BY <1>1, <1>2, <2>1, LostRecorded DEF ReadDoes, ReadStored, ReadWaits, ReadLost, Basics
<1>3. CASE ReplyMoves
  BY <1>1, <1>3, GivesTypes DEF ReplyMoves
<1>4. CASE CommandDoes
  <2> DEFINE m == Head(ioQueue)
  <2>1. m \in IoCommands /\ iopc = "reads"
    BY <1>4 DEF CommandDoes, Takes
  <2>2. Registers(m) \/ (m.type = "read" /\ Gives(ErrorAnswer(m), story) /\ UNCHANGED reads) \/ Writes(m)
    BY <1>4 DEF CommandDoes
  <2> HIDE DEF m
  <2>3. CASE Registers(m)
    BY <1>1, <2>3 DEF Registers
  <2>4. CASE Gives(ErrorAnswer(m), story)
    BY <1>1, <2>1, <2>4, GivesTypes
  <2>5. CASE Writes(m)
    <3>1. PICK failed \in BOOLEAN :
          \/ Gives(WriteAnswer(m, failed), Wrote(m, failed))
          \/ story' = Wrote(m, failed)
      BY <2>5 DEF Writes
    <3>2. Recorded(Wrote(m, failed))
      BY <2>1, <2>5, WroteRecorded DEF Writes
    <3> QED
      BY <2>1, <3>1, <3>2, GivesTypes
  <2> QED
    BY <2>2, <2>3, <2>4, <2>5
<1> QED
  BY <1>1, <1>2, <1>3, <1>4 DEF IoDoes, IoIdles

(* ... and its answers name the transfer that the command did.             *)
LEMMA IoDerived ==
    ASSUME Basics, IoDoes
    PROVE  \A m \in Messages' : Derived(m)
<1>0. cmd' = cmd /\ TypeOK
  BY DEF IoDoes, IoUnchanged, serverVars, Basics
<1>1. \A m \in Messages : Derived(m)
  BY DEF Derived
<1>2. CASE IoIdles
  BY <1>0, <1>1, <1>2 DEF IoIdles, Resumes, Messages
<1>3. ASSUME NEW i \in ReadSlots, ReadDoes(i)
      PROVE  \A m \in Messages' : Derived(m)
  <2> DEFINE r == reads[i]
  <2>1. r # None /\ r \in Messages /\ r \in ReadStates /\ r.offset <= r.size
    BY <1>3 DEF ReadDoes, Messages, Basics, TypeOK, InFile
  <2>2. CASE ReadStored(i)
    <3>1. PICK failed \in BOOLEAN :
        /\ serverQueue' = Append(serverQueue, Block(r, failed))
        /\ reads' = [reads EXCEPT ![i] = Advanced(r, Block(r, failed))]
        /\ res' = None
        /\ UNCHANGED ioQueue
      BY <2>2 DEF ReadStored
    <3> DEFINE m == Block(r, failed)
               a == Advanced(r, m)
    <3>2. /\ m \in Answers /\ m.client = r.client /\ m.xfer = r.xfer
          /\ a = None \/ a = [r EXCEPT !.offset = r.offset + Len(m.units)]
      BY <2>1, BlockIs
    <3> HIDE DEF m, a
    <3>3. a = None \/ (a.client = r.client /\ a.xfer = r.xfer)
      BY <2>1, <3>2 DEF ReadStates
    <3>4. Derived(m) /\ (a # None => Derived(a))
      BY <2>1, <3>2, <3>3 DEF Derived
    <3>5. ToSet(serverQueue)' = ToSet(serverQueue) \cup {m}
      BY <1>0, <3>1, <3>2, QueueElements DEF m
    <3>6. \A j \in ReadSlots : reads'[j] = reads[j] \/ reads'[j] = a
      BY <1>0, <3>1 DEF TypeOK, a, m
    <3>7. Messages' \subseteq Messages \cup {m, a}
      BY <1>0, <3>1, <3>5, <3>6 DEF Messages
    <3>8. None \notin Messages'
      BY DEF Messages
    <3> QED
      BY <1>1, <3>4, <3>7, <3>8
  <2>3. CASE ReadWaits(i)
    <3>1. PICK failed \in BOOLEAN : res' = Block(r, failed)
      BY <2>3 DEF ReadWaits
    <3>2. res'.client = r.client /\ res'.xfer = r.xfer
      BY <3>1 DEF Block
    <3>3. UNCHANGED <<reads, serverQueue, ioQueue>>
      BY <2>3 DEF ReadWaits
    <3>4. Derived(res')
      BY <2>1, <3>2 DEF Derived
    <3>5. Messages' \subseteq Messages \cup {res'}
      BY <1>0, <3>3 DEF Messages
    <3> QED
      BY <1>1, <3>4, <3>5
  <2>4. CASE ReadLost(i)
    <3>1. \A j \in ReadSlots : reads'[j] = reads[j] \/ reads'[j] = None
      BY <1>0, <2>4 DEF TypeOK, ReadLost
    <3>2. Messages' \subseteq Messages
      BY <1>0, <2>4, <3>1 DEF Messages, ReadLost
    <3> QED
      BY <1>1, <3>2
  <2> QED
    BY <1>3, <2>2, <2>3, <2>4 DEF ReadDoes
<1>4. CASE ReplyMoves
  <2>1. Gives(res, story) /\ UNCHANGED <<reads, ioQueue>> /\ iopc = "addRes"
    BY <1>4 DEF ReplyMoves
  <2>2. ToSet(serverQueue)' \cup {res'} \subseteq ToSet(serverQueue) \cup {res, None}
    BY <2>1, GivesMessages
  <2>3. Messages' \subseteq Messages
    BY <1>0, <2>1, <2>2 DEF Messages
  <2> QED
    BY <1>1, <2>3
<1>5. CASE CommandDoes
  <2> DEFINE m == Head(ioQueue)
  <2>1. /\ m \in IoCommands /\ iopc = "reads" /\ ioQueue # <<>> /\ ToSet(ioQueue)' \subseteq ToSet(ioQueue)
        /\ m \in ToSet(ioQueue)
    BY <1>0, <1>5, QueueElements DEF CommandDoes, Takes
  <2>2. Registers(m) \/ (m.type = "read" /\ Gives(ErrorAnswer(m), story) /\ UNCHANGED reads) \/ Writes(m)
    BY <1>5 DEF CommandDoes
  <2>3. m \in Messages
    BY <2>1, NotNone DEF Messages
  <2> HIDE DEF m
  <2>4. ASSUME NEW a, NEW s, Gives(a, s), UNCHANGED reads, a.client = m.client, a.xfer = m.xfer
        PROVE  \A n \in Messages' : Derived(n)
    <3>1. ToSet(serverQueue)' \cup {res'} \subseteq ToSet(serverQueue) \cup {a, None}
      BY <2>1, <2>4, GivesMessages
    <3>2. Messages' \subseteq Messages \cup {a}
      BY <1>0, <2>1, <2>4, <3>1 DEF Messages
    <3>3. Derived(a)
      BY <2>3, <2>4 DEF Derived
    <3> QED
      BY <1>1, <3>2, <3>3
  <2>5. CASE Registers(m)
    <3>1. PICK i \in ReadSlots : reads[i] = None /\ reads' = [reads EXCEPT ![i] = NewRead(m, i)]
      BY <2>5 DEF Registers
    <3> DEFINE a == NewRead(m, i)
    <3>2. a.client = m.client /\ a.xfer = m.xfer
      BY DEF NewRead
    <3> HIDE DEF a
    <3>3. \A j \in ReadSlots : reads'[j] = reads[j] \/ reads'[j] = a
      BY <1>0, <3>1 DEF TypeOK, a
    <3>4. Messages' \subseteq Messages \cup {a}
      BY <1>0, <2>1, <2>5, <3>3 DEF Messages, Registers, Resumes
    <3>5. Derived(a)
      BY <2>3, <3>2 DEF Derived
    <3> QED
      BY <1>1, <3>4, <3>5
  <2>6. CASE Gives(ErrorAnswer(m), story) /\ UNCHANGED reads
    BY <2>4, <2>6 DEF ErrorAnswer
  <2>7. CASE Writes(m)
    <3>1. PICK failed \in BOOLEAN :
          \/ Gives(WriteAnswer(m, failed), Wrote(m, failed))
          \/ Resumes /\ UNCHANGED serverQueue
      BY <2>7 DEF Writes
    <3>2. UNCHANGED reads
      BY <2>7 DEF Writes
    <3>3. CASE Gives(WriteAnswer(m, failed), Wrote(m, failed))
      <4>1. WriteAnswer(m, failed).client = m.client /\ WriteAnswer(m, failed).xfer = m.xfer
        BY DEF WriteAnswer
      <4> QED
        BY <2>4, <3>2, <3>3, <4>1
    <3>4. CASE Resumes /\ UNCHANGED serverQueue
      <4>1. Messages' \subseteq Messages
        BY <1>0, <2>1, <3>2, <3>4 DEF Messages, Resumes
      <4> QED
        BY <1>1, <4>1
    <3> QED
      BY <3>1, <3>3, <3>4
  <2> QED
    BY <2>2, <2>5, <2>6, <2>7
<1> QED
  BY <1>2, <1>3, <1>4, <1>5 DEF IoDoes

(* Own is kept by every step.                                              *)
LEMMA NextOwn ==
    ASSUME Basics, Own, [Next]_vars
    PROVE  Own'
<1>1. CASE IoStep
  <2>1. IoDoes
    BY <1>1, IoEffects
  <2>2. \A c \in Clients : story'[c].cur = story[c].cur /\ story'[c].clean = story[c].clean
    BY <2>1, IoRecorded DEF Recorded
  <2>3. \A m \in Messages' : Derived(m)
    BY <2>1, IoDerived
  <2> QED
    BY <2>2, <2>3, OwnStep DEF Clean
<1>2. CASE ExitStep
  <2>1. ExitUnchanged /\ (serverQueue' = serverQueue \/ serverQueue' = <<>>) /\ (ioQueue' = ioQueue \/ ioQueue' = <<>>)
    BY <1>2 DEF ExitStep, Stop, JoinServer, JoinIo, DrainServer, DrainIo, DeleteQueues
  <2>2. ToSet(<<>>) = {}
    BY Elements
  <2>3. Messages' \subseteq Messages /\ UNCHANGED story
    BY <2>1, <2>2 DEF Messages, ExitUnchanged, serverVars, ioVars
  <2> QED
    BY <2>3 DEF Own, Clean, Owned
<1>3. CASE UNCHANGED vars
  BY <1>3 DEF vars, serverVars, ioVars, Own, Clean, Owned, Messages
<1> QED
  BY <1>1, <1>2, <1>3, ServerOwn DEF Next

(* A transfer that began with nothing left of an earlier one in its slot   *)
(* only meets its own commands, reads and answers, although those name the *)
(* slot alone (ftp_daemon.c:2303, 2352).                                   *)
THEOREM MessagesAreOwn == Spec => []OwnMessages
<1>1. Init => Own
  BY DEF Init, Own, Clean, NewStory
<1>2. Basics /\ Own /\ [Next]_vars => Own'
  BY NextOwn
<1>3. Own => OwnMessages
  BY OwnIsOwnMessages
<1> QED
  BY <1>1, <1>2, <1>3, BasicsHold, PTL DEF Spec

-----------------------------------------------------------------------------
(* A transfer that waits for an answer has something on the way.           *)

(* The read and the write messages about a client.                         *)
IsRead(m, c) == m # None /\ m.client = c /\ m.type = "read"
IsWrite(m, c) == m # None /\ m.client = c /\ m.type = "write"

(* What IO_RES_READ with its end, or IO_RES_WRITE, will come of.           *)
ReadSource(c) ==
    \/ \E m \in ToSet(ioQueue) \cup {reads[i] : i \in ReadSlots} : IsRead(m, c)
    \/ \E m \in ToSet(serverQueue) \cup {res} : IsRead(m, c) /\ (m.eof \/ m.error)
WriteSource(c) ==
    \/ \E m \in ToSet(ioQueue) : IsWrite(m, c) /\ m.eof
    \/ \E m \in ToSet(serverQueue) \cup {res} : IsWrite(m, c)

Awaited(c) ==
    /\ client[c].started => ReadSource(c)
    /\ client[c].eofSent => WriteSource(c)

Await == NotFlushed => \A c \in Clients : Clean(c) /\ ~story[c].lost => Awaited(c)

(* What an answer will come of stays, unless the answer itself is taken.   *)
LEMMA SourcesStay ==
    ASSUME NEW c, ToSet(ioQueue) \subseteq ToSet(ioQueue)', UNCHANGED <<reads, res>>,
           \A m \in ToSet(serverQueue) : \/ m \in ToSet(serverQueue)'
                                         \/ ~IsWrite(m, c) /\ ~(IsRead(m, c) /\ (m.eof \/ m.error))
    PROVE  (ReadSource(c) => ReadSource(c)') /\ (WriteSource(c) => WriteSource(c)')
BY DEF ReadSource, WriteSource, IsRead, IsWrite

(* A command that is stored is a source, or asks for nothing.              *)
LEMMA StoredAwaited ==
    ASSUME NEW c, NEW m \in IoCommands, m.client = c, m \in ToSet(ioQueue)',
           NEW cl \in ClientRecord, client'[c] = Stored(cl, m),
           cl.started => ReadSource(c)', m.type = "read" => (cl.eofSent => WriteSource(c)')
    PROVE  Awaited(c)'
<1>1. m # None
  BY NotNone
<1>2. CASE m.type = "read"
  <2>1. Stored(cl, m).eofSent = cl.eofSent
    BY <1>2 DEF Stored, ClientRecord
  <2>2. ReadSource(c)'
    BY <1>1, <1>2 DEF ReadSource, IsRead
  <2> QED
    BY <1>2, <2>1, <2>2 DEF Awaited
<1>3. CASE m.type = "write"
  <2>1. Stored(cl, m).started = cl.started /\ Stored(cl, m).eofSent = m.eof
    BY <1>3 DEF Stored, ClientRecord
  <2>2. m.eof => WriteSource(c)'
    BY <1>1, <1>3 DEF WriteSource, IsWrite
  <2> QED
    BY <2>1, <2>2 DEF Awaited
<1> QED
  BY <1>2, <1>3, NotNone

(* A client that sends a command has its answer on the way, or is the one  *)
(* whose command waits.                                                    *)
LEMMA QueuesAwaited ==
    ASSUME Basics, spc = "events", NEW c \in Clients, NEW m, NEW cl \in ClientRecord, NEW s, Queues(c, m, cl, s),
           UNCHANGED <<ioVars, serverQueue>>,
           cl.started => ReadSource(c), cl.eofSent => WriteSource(c)
    PROVE  Awaited(c)'
<1>1. m \in IoCommands /\ m.client = c /\ TypeOK
  BY DEF Queues, Basics
<1>2. CASE /\ ioQueue' = Append(ioQueue, m) /\ Sets(c, Stored(cl, m), s)
  <2>1. ToSet(ioQueue)' = ToSet(ioQueue) \cup {m}
    BY <1>1, <1>2, QueueElements
  <2>2. client'[c] = Stored(cl, m)
    BY <1>1, <1>2, SetsTypes
  <2>3. (ReadSource(c) => ReadSource(c)') /\ (WriteSource(c) => WriteSource(c)')
    BY <2>1, SourcesStay DEF ioVars
  <2> QED
    BY <1>1, <2>1, <2>2, <2>3, StoredAwaited
<1>3. CASE UNCHANGED ioQueue /\ Sets(c, cl, s)
  <2>1. client'[c] = cl
    BY <1>1, <1>3, SetsTypes
  <2>2. (ReadSource(c) => ReadSource(c)') /\ (WriteSource(c) => WriteSource(c)')
    BY <1>3, SourcesStay DEF ioVars
  <2> QED
    BY <2>1, <2>2 DEF Awaited
<1> QED
  BY <1>2, <1>3 DEF Queues

(* Await is kept at the handles,                                           *)
LEMMA HandleAwait ==
    ASSUME Basics, Await, HandleDoes
    PROVE  Await'
<1> SUFFICES ASSUME NotFlushed', NEW d \in Clients, Clean(d)', ~story'[d].lost
             PROVE  Awaited(d)'
  BY DEF Await
<1>1. PICK c \in Clients :
          \/ Calm(c)
          \/ Rests(c) /\ UNCHANGED <<spc, cmd, ioQueue>>
          \/ Starts(c)
          \/ Receives(c)
  BY DEF HandleDoes
<1>2. UNCHANGED <<ioVars, serverQueue>> /\ spc = "events" /\ TypeOK /\ NotFlushed
  BY DEF HandleDoes, Basics, exitVars, NotFlushed
<1>3. Kept(c) /\ ToSet(ioQueue) \subseteq ToSet(ioQueue)'
  <2>1. Kept(c)
    BY <1>1, <1>2, CalmKept, RestsKept, StartsKept, ReceivesKept
  <2>2. ioQueue' = ioQueue \/ \E m \in IoCommands : ioQueue' = Append(ioQueue, m)
    BY <1>1 DEF Calm, Starts, Receives, Queues
  <2> QED
    BY <1>2, <2>1, <2>2, QueueElements
<1>4. (ReadSource(d) => ReadSource(d)') /\ (WriteSource(d) => WriteSource(d)')
  BY <1>2, <1>3, SourcesStay DEF ioVars
<1>5. ASSUME client'[d].started = client[d].started, client'[d].eofSent = client[d].eofSent,
             Clean(d), ~story[d].lost
      PROVE  Awaited(d)'
  BY <1>2, <1>4, <1>5 DEF Await, Awaited
<1>6. CASE d # c
  BY <1>3, <1>5, <1>6 DEF Kept, Clean
<1>7. CASE d = c /\ Calm(c)
  <2>1. client'[c].started = client[c].started /\ client'[c].eofSent = client[c].eofSent /\ UNCHANGED story
    BY <1>2, <1>7 DEF Calm, TypeOK
  <2> QED
    BY <1>5, <1>7, <2>1 DEF Clean
<1>8. CASE d = c /\ Rests(c)
  <2>1. story'[c].cur = 0
    BY <1>2, <1>8, SetsTypes DEF Rests
  <2> QED
    BY <1>8, <2>1 DEF Clean
<1>9. CASE d = c /\ Starts(c)
  <2>1. PICK cl \in ClientRecord, s \in StoryRecord :
        /\ Fresh(c, cl, s)
        /\ \/ Queues(c, ReadCommand(c, s), cl, s)
           \/ Sets(c, cl, s) /\ UNCHANGED <<spc, cmd, ioQueue>>
    BY <1>9 DEF Starts
  <2>2. story'[c] = s
    <3>1. \E cl2 : Sets(c, cl2, s)
      BY <2>1 DEF Queues
    <3> QED
      BY <1>2, <3>1, SetsTypes
  <2>3. (cl.started => ReadSource(c)) /\ (cl.eofSent => WriteSource(c))
    <3>1. cl.started = client[c].started /\ cl.eofSent = client[c].eofSent
      BY <2>1 DEF Fresh
    <3>2. CASE \E size \in Nat : s = Begin(c, size)
      <4>1. NothingLeftOf(c)
        BY <1>2, <1>9, <2>2, <3>2, BeginTypes DEF Clean
      <4> QED
        BY <3>1, <4>1 DEF NothingLeftOf
    <3>3. CASE s = [story[c] EXCEPT !.wire = <<>>]
      <4>1. s.cur = story[c].cur /\ s.clean = story[c].clean /\ s.lost = story[c].lost
        BY <1>2, <3>3 DEF TypeOK, StoryRecord
      <4>2. Clean(c) /\ ~story[c].lost
        BY <1>9, <2>2, <4>1 DEF Clean
      <4> QED
        BY <1>2, <3>1, <4>2 DEF Await, Awaited
    <3> QED
      BY <2>1, <3>2, <3>3 DEF Fresh
  <2>4. CASE Queues(c, ReadCommand(c, s), cl, s)
    BY <1>2, <1>9, <2>3, <2>4, QueuesAwaited
  <2>5. CASE Sets(c, cl, s)
    <3>1. client'[c] = cl
      BY <1>2, <2>5, SetsTypes
    <3> QED
      BY <1>4, <1>9, <2>3, <3>1 DEF Awaited
  <2> QED
    BY <2>1, <2>4, <2>5
<1>10. CASE d = c /\ Receives(c)
  <2>0. PICK n \in Nat : \E b, cl, s :
          /\ cl = [client[c] EXCEPT !.buffer = b]
          /\ s = [story[c] EXCEPT !.got = @ + n]
          /\ \/ Queues(c, WriteCommand(c, b, n), cl, s)
             \/ Sets(c, cl, s) /\ UNCHANGED <<spc, cmd, ioQueue>>
    BY <1>10 DEF Receives
  <2>1. PICK b, cl, s :
          /\ cl = [client[c] EXCEPT !.buffer = b]
          /\ s = [story[c] EXCEPT !.got = @ + n]
          /\ \/ Queues(c, WriteCommand(c, b, n), cl, s)
             \/ Sets(c, cl, s) /\ UNCHANGED <<spc, cmd, ioQueue>>
    BY <2>0
  <2>2. story'[c] = s /\ (Sets(c, cl, s) => client'[c] = cl)
    <3>1. \E cl2 : Sets(c, cl2, s)
      BY <2>1 DEF Queues
    <3> QED
      BY <1>2, <3>1, SetsTypes
  <2>3. s.cur = story[c].cur /\ s.clean = story[c].clean /\ s.lost = story[c].lost
    BY <1>2, <2>1 DEF TypeOK, StoryRecord
  <2>4. cl.started = client[c].started /\ cl.eofSent = client[c].eofSent
    BY <1>2, <2>1 DEF TypeOK, ClientRecord
  <2>5. Clean(c) /\ ~story[c].lost
    BY <1>10, <2>2, <2>3 DEF Clean
  <2>6. (cl.started => ReadSource(c)) /\ ~cl.eofSent
    BY <1>2, <1>10, <2>4, <2>5 DEF Await, Awaited, Receives
  <2>7. CASE Queues(c, WriteCommand(c, b, n), cl, s)
    <3> DEFINE m == WriteCommand(c, b, n)
    <3>1. m \in IoCommands /\ m.client = c /\ m.type = "write"
      BY <2>7 DEF Queues, WriteCommand
    <3> HIDE DEF m
    <3>2. CASE /\ ioQueue' = Append(ioQueue, m) /\ Sets(c, Stored(cl, m), s)
      <4>1. ToSet(ioQueue)' = ToSet(ioQueue) \cup {m} /\ client'[c] = Stored(cl, m)
        BY <1>2, <3>1, <3>2, QueueElements, SetsTypes
      <4>2. Stored(cl, m).started = cl.started /\ Stored(cl, m).eofSent = m.eof
        <5>1. Stored(cl, m) = [cl EXCEPT !.append = TRUE, !.buffer = <<>>, !.eofSent = m.eof]
          BY <3>1 DEF Stored
        <5>2. cl = [client[c] EXCEPT !.buffer = b] /\ client[c] \in ClientRecord
          BY <1>2, <2>1 DEF TypeOK
        <5> QED
          BY <5>1, <5>2 DEF ClientRecord
      <4>3. m.eof => WriteSource(c)'
        BY <3>1, <4>1, NotNone DEF WriteSource, IsWrite
      <4> QED
        BY <1>4, <1>10, <2>6, <4>1, <4>2, <4>3 DEF Awaited
    <3>3. CASE UNCHANGED ioQueue /\ Sets(c, cl, s)
      BY <1>4, <1>10, <2>2, <2>6, <3>3 DEF Awaited
    <3> QED
      BY <2>7, <3>2, <3>3 DEF Queues, m
  <2>8. CASE Sets(c, cl, s)
    BY <1>4, <1>10, <2>2, <2>6, <2>8 DEF Awaited
  <2> QED
    BY <2>1, <2>7, <2>8
<1> QED
  BY <1>1, <1>6, <1>7, <1>8, <1>9, <1>10

(* ... by the server thread,                                               *)
LEMMA ServerAwait ==
    ASSUME Basics, Await, ServerStep
    PROVE  Await'
<1>1. ServerDoes /\ TypeOK
  BY ServerEffects DEF Basics
<1> SUFFICES ASSUME ~HandleDoes, NotFlushed', NEW d \in Clients, Clean(d)', ~story'[d].lost
             PROVE  Awaited(d)'
  BY HandleAwait DEF Await
<1>2. NotFlushed /\ UNCHANGED <<iopc, index, res, reads>>
  BY <1>1 DEF ServerDoes, AddDoes, AddFails, AnswerEnds, AnswerMoves, AnswerFrame, AtAnswer, ServerIdles, ServerExit,
     ioVars, exitVars, NotFlushed
<1>3. ASSUME NEW c \in Clients, Rests(c), UNCHANGED ioQueue,
             \A m \in ToSet(serverQueue) : m \in ToSet(serverQueue)' \/ m.client = c
      PROVE  Awaited(d)'
  <2>1. PICK cl, s : Sets(c, cl, s) /\ s.cur = 0
    BY <1>3 DEF Rests
  <2>2. /\ story'[c].cur = 0
        /\ \A e \in Clients : e # c => story'[e] = story[e] /\ client'[e] = client[e]
    BY <1>1, <2>1, SetsTypes
  <2>3. d # c /\ story'[d] = story[d] /\ client'[d] = client[d]
    BY <2>2 DEF Clean
  <2>4. Awaited(d)
    BY <1>2, <2>3 DEF Await, Clean
  <2>5. (ReadSource(d) => ReadSource(d)') /\ (WriteSource(d) => WriteSource(d)')
    <3>1. \A m \in ToSet(serverQueue) : m \in ToSet(serverQueue)' \/ (~IsWrite(m, d) /\ ~IsRead(m, d))
      BY <1>3, <2>3 DEF IsWrite, IsRead
    <3> QED
      BY <1>2, <1>3, <3>1, SourcesStay
  <2> QED
    BY <2>3, <2>4, <2>5 DEF Awaited
<1>4. CASE AddDoes
  <2>1. cmd \in IoCommands /\ cmd.client \in Clients /\ ToSet(ioQueue)' = ToSet(ioQueue) \cup {cmd}
    BY <1>1, <1>4, QueueElements, NotNone DEF AddDoes
  <2>2. UNCHANGED <<serverQueue, story>>
    BY <1>4 DEF AddDoes
  <2>3. (ReadSource(d) => ReadSource(d)') /\ (WriteSource(d) => WriteSource(d)')
    BY <1>2, <2>1, <2>2, SourcesStay
  <2>4. Awaited(d)
    BY <1>2, <2>2 DEF Await, Clean
  <2>5. client[cmd.client] \in ClientRecord
    BY <1>1, <2>1 DEF TypeOK
  <2>6. /\ client'[cmd.client] = Stored(client[cmd.client], cmd)
        /\ d # cmd.client => client'[d] = client[d]
    BY <1>1, <1>4, <2>1 DEF AddDoes, TypeOK
  <2>7. CASE d = cmd.client
    BY <2>1, <2>3, <2>4, <2>5, <2>6, <2>7, StoredAwaited DEF Awaited
  <2>8. CASE d # cmd.client
    BY <2>3, <2>4, <2>6, <2>8 DEF Awaited
  <2> QED
    BY <2>7, <2>8
<1>5. CASE AddFails
  BY <1>3, <1>5, NotNone DEF AddFails
<1>6. AnswerFrame => /\ Head(serverQueue).client \in Clients /\ UNCHANGED ioQueue
                     /\ \A m \in ToSet(serverQueue) : m \in ToSet(serverQueue)' \/ m = Head(serverQueue)
  BY <1>1, QueueElements, NotNone DEF AnswerFrame, AtAnswer
<1>7. CASE AnswerEnds
  BY <1>3, <1>6, <1>7 DEF AnswerEnds
<1>8. CASE AnswerMoves
  <2> DEFINE m == Head(serverQueue)
             c == m.client
             s == [story[c] EXCEPT !.wire = @ \o m.units]
  <2>1. /\ c \in Clients /\ Sets(c, client[c], s) /\ UNCHANGED ioQueue /\ client' = client
        /\ m.type = "read" /\ ~m.eof /\ ~m.error
        /\ \A n \in ToSet(serverQueue) : n \in ToSet(serverQueue)' \/ n = m
    BY <1>6, <1>8 DEF AnswerMoves
  <2>2. s.cur = story[c].cur /\ s.clean = story[c].clean /\ s.lost = story[c].lost
    BY <1>1, <2>1 DEF TypeOK, StoryRecord
  <2> HIDE DEF s, m
  <2>3. story'[c] = s /\ \A e \in Clients : e # c => story'[e] = story[e]
    BY <1>1, <2>1, SetsTypes
  <2>4. Awaited(d)
    BY <1>2, <2>2, <2>3 DEF Await, Clean
  <2>5. (ReadSource(d) => ReadSource(d)') /\ (WriteSource(d) => WriteSource(d)')
    <3>1. ~IsWrite(m, d) /\ ~(IsRead(m, d) /\ (m.eof \/ m.error))
      BY <2>1 DEF IsWrite
    <3> QED
      BY <1>2, <2>1, <3>1, SourcesStay
  <2> QED
    BY <2>1, <2>4, <2>5 DEF Awaited
<1>9. CASE ServerIdles
  <2>1. UNCHANGED <<client, ioQueue, serverQueue, story>>
    BY <1>9 DEF ServerIdles
  <2>2. Awaited(d)
    BY <1>2, <2>1 DEF Await, Clean
  <2>3. (ReadSource(d) => ReadSource(d)') /\ (WriteSource(d) => WriteSource(d)')
    BY <1>2, <2>1, SourcesStay
  <2> QED
    BY <2>1, <2>2, <2>3 DEF Awaited
<1>10. CASE ServerExit
  <2>1. story'[d].cur = 0
    BY <1>1, <1>10, EndedTypes DEF ServerExit, TypeOK
  <2> QED
    BY <2>1 DEF Clean
<1> QED
  BY <1>1, <1>4, <1>5, <1>7, <1>8, <1>9, <1>10 DEF ServerDoes

(* A message of a transfer with a clean start that is dropped is lost.     *)
LEMMA OwnLost ==
    ASSUME Basics, Own, NEW m \in Messages, m.client \in Clients, Clean(m.client),
           NEW s, Recorded(s)
    PROVE  Lost(s, m)[m.client].lost
<1>1. m.xfer = story[m.client].cur
  BY DEF Own, Owned
<1>2. s[m.client].cur = m.xfer
  BY <1>1 DEF Recorded
<1> QED
  BY <1>2, LostRecorded DEF Basics

(* ... by the I/O thread, which makes one source of another or loses it,   *)
LEMMA IoAwait ==
    ASSUME Basics, Own, Await, IoDoes
    PROVE  Await'
<1>1. TypeOK /\ client' = client /\ Recorded(story')
  BY IoRecorded DEF IoDoes, IoUnchanged, Basics
<1> SUFFICES ASSUME NotFlushed', NEW d \in Clients, Clean(d)', ~story'[d].lost
             PROVE  Awaited(d)'
  BY DEF Await
<1>2. Awaited(d) /\ Clean(d)
  BY <1>1 DEF Await, Clean, Recorded, NotFlushed, IoDoes, IoUnchanged, exitVars
<1> SUFFICES (ReadSource(d) => ReadSource(d)') /\ (WriteSource(d) => WriteSource(d)')
  BY <1>1, <1>2 DEF Awaited
<1>3. CASE IoIdles
  <2>1. UNCHANGED <<reads, serverQueue, ioQueue>> /\ res = None /\ res' = None
    BY <1>1, <1>3 DEF IoIdles, Resumes, TypeOK
  <2> QED
    BY <2>1 DEF ReadSource, WriteSource
<1>4. ASSUME NEW i \in ReadSlots, ReadDoes(i)
      PROVE  (ReadSource(d) => ReadSource(d)') /\ (WriteSource(d) => WriteSource(d)')
  <2> DEFINE r == reads[i]
  <2>1. /\ r # None /\ r \in Messages /\ r \in ReadStates /\ r.offset <= r.size
        /\ r.client \in Clients /\ r.type = "read"
    BY <1>4, NotNone DEF ReadDoes, Messages, Basics, TypeOK, InFile
  <2>2. res = None \/ (res.type = "read" /\ res.client = r.client)
    <3>1. CASE iopc = "reads"
      BY <1>1, <3>1 DEF TypeOK
    <3>2. CASE iopc = "addRead" /\ index = i
      BY <3>2 DEF Basics, BlockWaits, Block
    <3> QED
      BY <1>4, <3>1, <3>2 DEF ReadDoes
  <2>3. CASE ReadStored(i)
    <3>1. PICK failed \in BOOLEAN :
        /\ serverQueue' = Append(serverQueue, Block(r, failed))
        /\ reads' = [reads EXCEPT ![i] = Advanced(r, Block(r, failed))]
        /\ res' = None
        /\ UNCHANGED ioQueue
      BY <2>3 DEF ReadStored
    <3> DEFINE m == Block(r, failed)
               a == Advanced(r, m)
    <3>2. /\ m \in Answers /\ m.client = r.client /\ m.type = "read" /\ m # None
          /\ a = IF m.eof THEN None ELSE [r EXCEPT !.offset = r.offset + Len(m.units)]
      BY <2>1, BlockIs
    <3> HIDE DEF m, a
    <3>3. m.eof \/ (a # None /\ a.client = r.client /\ a.type = "read")
      BY <2>1, <3>2 DEF ReadStates, None
    <3>4. ToSet(serverQueue)' = ToSet(serverQueue) \cup {m}
      BY <1>1, <3>1, <3>2, QueueElements DEF m
    <3>5. reads'[i] = a /\ \A j \in ReadSlots : j # i => reads'[j] = reads[j]
      BY <1>1, <3>1 DEF TypeOK, a, m
    <3>6. r.client = d => ReadSource(d)'
      BY <3>2, <3>3, <3>4, <3>5 DEF ReadSource, IsRead
    <3>7. r.client # d => (ReadSource(d) => ReadSource(d)')
      BY <2>1, <2>2, <3>1, <3>4, <3>5 DEF ReadSource, IsRead
    <3>8. WriteSource(d) => WriteSource(d)'
      BY <2>2, <3>1, <3>4 DEF WriteSource, IsWrite
    <3> QED
      BY <3>6, <3>7, <3>8
  <2>4. CASE ReadWaits(i)
    <3>1. UNCHANGED <<reads, serverQueue, ioQueue>>
      BY <2>4 DEF ReadWaits
    <3>2. r.client = d => ReadSource(d)'
      BY <2>1, <3>1 DEF ReadSource, IsRead
    <3>3. r.client # d => (ReadSource(d) => ReadSource(d)')
      BY <2>2, <3>1 DEF ReadSource, IsRead
    <3>4. WriteSource(d) => WriteSource(d)'
      BY <2>2, <3>1 DEF WriteSource, IsWrite
    <3> QED
      BY <3>2, <3>3, <3>4
  <2>5. CASE ReadLost(i)
    <3>1. UNCHANGED <<serverQueue, ioQueue>> /\ story' = Lost(story, r)
      BY <2>5 DEF ReadLost
    <3>2. \A j \in ReadSlots : j # i => reads'[j] = reads[j]
      BY <1>1, <2>5 DEF TypeOK, ReadLost
    <3>3. r.client # d
      BY <1>1, <1>2, <2>1, <3>1, OwnLost, StoryRecorded
    <3>4. ReadSource(d) => ReadSource(d)'
      BY <2>2, <3>1, <3>2, <3>3 DEF ReadSource, IsRead
    <3>5. WriteSource(d) => WriteSource(d)'
      BY <2>2, <3>1 DEF WriteSource, IsWrite
    <3> QED
      BY <3>4, <3>5
  <2> QED
    BY <1>4, <2>3, <2>4, <2>5 DEF ReadDoes
<1>5. ASSUME NEW m, NEW s, Gives(m, s)
      PROVE  \/ m \in ToSet(serverQueue)' \cup {res'} /\ ToSet(serverQueue) \subseteq ToSet(serverQueue)'
             \/ story' = Lost(s, m) /\ UNCHANGED serverQueue
  <2>1. m \in Answers
    BY <1>5 DEF Gives
  <2> QED
    BY <1>1, <1>5, <2>1, QueueElements DEF Gives
<1>6. CASE ReplyMoves
  <2>1. Gives(res, story) /\ UNCHANGED <<reads, ioQueue>> /\ iopc = "addRes" /\ res # None /\ res.client \in Clients
    BY <1>1, <1>6, NotNone DEF ReplyMoves, TypeOK
  <2>2. CASE res \in ToSet(serverQueue)' \cup {res'} /\ ToSet(serverQueue) \subseteq ToSet(serverQueue)'
    BY <2>1, <2>2 DEF ReadSource, WriteSource
  <2>3. CASE story' = Lost(story, res) /\ UNCHANGED serverQueue
    <3>1. res \in Messages
      BY <2>1 DEF Messages
    <3>2. res.client # d
      BY <1>1, <1>2, <2>1, <2>3, <3>1, OwnLost, StoryRecorded
    <3> QED
      BY <2>1, <2>3, <3>2 DEF ReadSource, WriteSource, IsRead, IsWrite
  <2> QED
    BY <1>5, <2>1, <2>2, <2>3
<1>7. CASE CommandDoes
  <2> DEFINE m == Head(ioQueue)
  <2>1. /\ m \in IoCommands /\ iopc = "reads" /\ res = None /\ ioQueue # <<>>
        /\ ToSet(ioQueue) \subseteq ToSet(ioQueue)' \cup {m}
        /\ m \in ToSet(ioQueue)
    BY <1>1, <1>7, QueueElements DEF CommandDoes, Takes, TypeOK
  <2>2. Registers(m) \/ (m.type = "read" /\ Gives(ErrorAnswer(m), story) /\ UNCHANGED reads) \/ Writes(m)
    BY <1>7 DEF CommandDoes
  <2>3. m \in Messages /\ m # None /\ m.client \in Clients
    BY <2>1, NotNone DEF Messages
  <2> HIDE DEF m
  <2>4. ASSUME NEW a, NEW s, Gives(a, s), Recorded(s), a # None, a.client = m.client, a.xfer = m.xfer, a.type = m.type,
               a.type = "read" => a.error, UNCHANGED reads
        PROVE  (ReadSource(d) => ReadSource(d)') /\ (WriteSource(d) => WriteSource(d)')
    <3>1. CASE a \in ToSet(serverQueue)' \cup {res'} /\ ToSet(serverQueue) \subseteq ToSet(serverQueue)'
      BY <2>1, <2>4, <3>1 DEF ReadSource, WriteSource, IsRead, IsWrite
    <3>2. CASE story' = Lost(s, a) /\ UNCHANGED serverQueue
      <4>1. Lost(s, a) = Lost(s, m)
        BY <2>4 DEF Lost
      <4>2. m.client # d
        BY <1>2, <2>3, <2>4, <3>2, <4>1, OwnLost
      <4> QED
        BY <2>1, <2>4, <3>2, <4>2 DEF ReadSource, WriteSource, IsRead, IsWrite
    <3> QED
      BY <1>5, <2>4, <3>1, <3>2
  <2>5. CASE Registers(m)
    <3>1. PICK i \in ReadSlots : reads[i] = None /\ reads' = [reads EXCEPT ![i] = NewRead(m, i)]
      BY <2>5 DEF Registers
    <3> DEFINE a == NewRead(m, i)
    <3>2. a.client = m.client /\ a.type = "read" /\ a # None
      BY DEF NewRead, None
    <3> HIDE DEF a
    <3>3. reads'[i] = a /\ \A j \in ReadSlots : j # i => reads'[j] = reads[j]
      BY <1>1, <3>1 DEF TypeOK, a
    <3>4. UNCHANGED serverQueue /\ m.type = "read"
      BY <2>5 DEF Registers
    <3>5. \A j \in ReadSlots : IsRead(reads[j], d) => IsRead(reads'[j], d)
      BY <3>1, <3>3 DEF IsRead
    <3>6. IsRead(m, d) => IsRead(reads'[i], d)
      BY <3>2, <3>3 DEF IsRead
    <3>7. ReadSource(d) => ReadSource(d)'
      BY <2>1, <3>4, <3>5, <3>6 DEF ReadSource, IsRead
    <3>8. WriteSource(d) => WriteSource(d)'
      BY <2>1, <3>4 DEF WriteSource, IsWrite
    <3> QED
      BY <3>7, <3>8
  <2>6. CASE m.type = "read" /\ Gives(ErrorAnswer(m), story) /\ UNCHANGED reads
    <3> DEFINE a == ErrorAnswer(m)
    <3>1. a # None /\ a.client = m.client /\ a.xfer = m.xfer /\ a.type = m.type /\ a.error
      BY <2>6 DEF ErrorAnswer, None
    <3> HIDE DEF a
    <3> QED
      BY <1>1, <2>4, <2>6, <3>1, StoryRecorded DEF a
  <2>7. CASE Writes(m)
    <3>1. PICK failed \in BOOLEAN :
          \/ Gives(WriteAnswer(m, failed), Wrote(m, failed))
          \/ ~m.eof /\ Resumes /\ UNCHANGED serverQueue
      BY <2>7 DEF Writes
    <3>2. UNCHANGED reads /\ m.type = "write"
      BY <2>7 DEF Writes
    <3>3. CASE Gives(WriteAnswer(m, failed), Wrote(m, failed))
      <4> DEFINE a == WriteAnswer(m, failed)
      <4>1. a # None /\ a.client = m.client /\ a.xfer = m.xfer /\ a.type = m.type /\ a.type = "write"
        BY <3>2 DEF WriteAnswer, None
      <4>2. Recorded(Wrote(m, failed))
        BY <2>1, <3>2, WroteRecorded
      <4> HIDE DEF a
      <4> QED
        BY <2>4, <3>2, <3>3, <4>1, <4>2 DEF a
    <3>4. CASE ~m.eof /\ Resumes /\ UNCHANGED serverQueue
      BY <2>1, <3>2, <3>4 DEF ReadSource, WriteSource, IsRead, IsWrite, Resumes
    <3> QED
      BY <3>1, <3>3, <3>4
  <2> QED
    BY <2>2, <2>5, <2>6, <2>7
<1> QED
  BY <1>3, <1>4, <1>6, <1>7 DEF IoDoes

(* ... by Ftpd_exit before it flushes the queues,                          *)
LEMMA ExitQuiet ==
    ASSUME ExitStep, NotFlushed'
    PROVE  /\ NotFlushed /\ UNCHANGED <<client, spc, cmd, iopc, index, res, reads, serverQueue, ioQueue, story, transfers>>
BY DEF ExitStep, Stop, JoinServer, JoinIo, DrainServer, DrainIo, DeleteQueues, NotFlushed, ExitUnchanged, serverVars, ioVars

(* ... and so by every step.                                               *)
LEMMA NextAwait ==
    ASSUME Basics, Own, Await, [Next]_vars
    PROVE  Await'
<1>1. ASSUME NotFlushed' => NotFlushed /\ UNCHANGED <<client, res, reads, serverQueue, ioQueue, story>>
      PROVE  Await'
  BY <1>1 DEF Await, Clean, Awaited, ReadSource, WriteSource
<1>2. CASE ExitStep
  BY <1>1, <1>2, ExitQuiet
<1>3. CASE UNCHANGED vars
  BY <1>1, <1>3 DEF vars, ioVars, exitVars, NotFlushed
<1> QED
  BY <1>2, <1>3, ServerAwait, IoAwait, IoEffects DEF Next

(* Await says more than AnswerOnItsWay.                                    *)
LEMMA AwaitIsOnItsWay ==
    ASSUME Await
    PROVE  AnswerOnItsWay
<1> SUFFICES ASSUME NotFlushed, NEW c \in Clients, Clean(c), ~story[c].lost,
                    client[c].started \/ client[c].eofSent
             PROVE  InFlight(c) # {}
  BY DEF AnswerOnItsWay, Clean
<1>1. ReadSource(c) \/ WriteSource(c)
  BY DEF Await, Awaited
<1> QED
  BY <1>1 DEF ReadSource, WriteSource, IsRead, IsWrite, InFlight

(* A transfer of which no message was dropped, and whose client waits for  *)
(* the I/O thread, has a command, a read, an answer or a wait for room     *)
(* from which its end will come; what the two threads pass to each other   *)
(* is never forgotten by both.                                             *)
THEOREM AnswerComes == Spec => []AnswerOnItsWay
<1>1. Init => Basics /\ Own /\ Await
  BY InitBasics DEF Init, Own, Await, Clean, NewStory
<1>2. Basics /\ Own /\ Await /\ [Next]_vars => (Basics /\ Own /\ Await)'
  BY NextBasics, NextOwn, NextAwait
<1>3. Basics /\ Own /\ Await => AnswerOnItsWay
  BY AwaitIsOnItsWay
<1> QED
  BY <1>1, <1>2, <1>3, PTL DEF Spec

-----------------------------------------------------------------------------
(* The blocks of a file on their way: a leads to b along the answers of q  *)
(* when each block about client c begins at the offset in the file at      *)
(* which the one before it ends.                                           *)
Link(c, x, size, m, a, b) ==
    IF IsRead(m, c)
    THEN /\ a <= b
         /\ m.units = [k \in 1 .. b - a |-> Unit(x, a + k)]
         /\ m.eof /\ ~m.error => b = size
    ELSE b = a

Leads(c, x, size, q, a, b) ==
    \E f \in [1 .. Len(q) + 1 -> 0 .. size] :
        /\ f[1] = a /\ f[Len(q) + 1] = b
        /\ \A i \in 1 .. Len(q) : Link(c, x, size, q[i], f[i], f[i + 1])

(* A queue without blocks of the client leads nowhere.                     *)
LEMMA LeadsNowhere ==
    ASSUME NEW c, NEW x, NEW size \in Nat, NEW q \in Seq(Answers),
           \A m \in ToSet(q) : ~IsRead(m, c)
    PROVE  Leads(c, x, size, q, 0, 0)
<1> DEFINE f == [i \in 1 .. Len(q) + 1 |-> 0]
<1>1. f \in [1 .. Len(q) + 1 -> 0 .. size] /\ f[1] = 0 /\ f[Len(q) + 1] = 0
  OBVIOUS
<1>2. ASSUME NEW i \in 1 .. Len(q)
      PROVE  Link(c, x, size, q[i], f[i], f[i + 1])
  <2>1. q[i] \in ToSet(q)
    BY DEF ToSet
  <2>2. f[i] = 0 /\ f[i + 1] = 0
    OBVIOUS
  <2> QED
    BY <2>1, <2>2 DEF Link
<1> HIDE DEF f
<1> QED
  BY <1>1, <1>2 DEF Leads

(* A block at the back makes it lead on,                                   *)
LEMMA LeadsOn ==
    ASSUME NEW c, NEW x, NEW size \in Nat, NEW q \in Seq(Answers), NEW m \in Answers,
           NEW a, NEW b, Leads(c, x, size, q, a, b),
           NEW e \in 0 .. size, Link(c, x, size, m, b, e)
    PROVE  Leads(c, x, size, Append(q, m), a, e)
<1> DEFINE n == Len(q)
           p == Append(q, m)
<1>1. PICK f \in [1 .. n + 1 -> 0 .. size] :
        /\ f[1] = a /\ f[n + 1] = b
        /\ \A i \in 1 .. n : Link(c, x, size, q[i], f[i], f[i + 1])
  BY DEF Leads
<1>2. /\ n \in Nat /\ Len(p) = n + 1 /\ p[n + 1] = m
      /\ \A i \in 1 .. n : p[i] = q[i]
  OBVIOUS
<1> HIDE DEF n, p
<1> DEFINE g == [i \in 1 .. n + 2 |-> IF i = n + 2 THEN e ELSE f[i]]
<1>3. /\ g \in [1 .. n + 2 -> 0 .. size] /\ g[1] = a /\ g[n + 2] = e /\ g[n + 1] = b
      /\ \A i \in 1 .. n + 1 : g[i] = f[i]
  BY <1>1, <1>2
<1> HIDE DEF g
<1>4. ASSUME NEW i \in 1 .. n + 1
      PROVE  Link(c, x, size, p[i], g[i], g[i + 1])
  <2>1. CASE i = n + 1
    BY <1>2, <1>3, <2>1
  <2>2. CASE i # n + 1
    <3>1. i \in 1 .. n /\ i + 1 \in 1 .. n + 1
      BY <1>2, <2>2
    <3> QED
      BY <1>1, <1>2, <1>3, <3>1
  <2> QED
    BY <2>1, <2>2
<1>5. n + 2 = Len(p) + 1
  BY <1>2
<1> QED
  BY <1>2, <1>3, <1>4, <1>5 DEF Leads, p

(* ... and one that is taken makes it lead from where the block ends.      *)
LEMMA LeadsFrom ==
    ASSUME NEW c, NEW x, NEW size \in Nat, NEW q \in Seq(Answers), q # <<>>,
           NEW a, NEW b, Leads(c, x, size, q, a, b)
    PROVE  \E e \in 0 .. size : Link(c, x, size, Head(q), a, e) /\ Leads(c, x, size, Tail(q), e, b)
<1> DEFINE n == Len(q)
           p == Tail(q)
<1>1. PICK f \in [1 .. n + 1 -> 0 .. size] :
        /\ f[1] = a /\ f[n + 1] = b
        /\ \A i \in 1 .. n : Link(c, x, size, q[i], f[i], f[i + 1])
  BY DEF Leads
<1>2. /\ n \in Nat /\ n > 0 /\ Len(p) = n - 1 /\ Head(q) = q[1]
      /\ \A i \in 1 .. n - 1 : p[i] = q[i + 1]
  OBVIOUS
<1> HIDE DEF n, p
<1> DEFINE g == [i \in 1 .. n |-> f[i + 1]]
<1>3. /\ g \in [1 .. n -> 0 .. size] /\ g[1] = f[2] /\ g[n] = b
      /\ \A i \in 1 .. n : g[i] = f[i + 1]
  BY <1>1, <1>2
<1> HIDE DEF g
<1>4. ASSUME NEW i \in 1 .. n - 1
      PROVE  Link(c, x, size, p[i], g[i], g[i + 1])
  <2>1. i \in 1 .. n /\ i + 1 \in 1 .. n
    BY <1>2
  <2> QED
    BY <1>1, <1>2, <1>3, <2>1
<1>5. Leads(c, x, size, p, f[2], b)
  <2>1. n = Len(p) + 1 /\ 1 .. Len(p) = 1 .. n - 1
    BY <1>2
  <2> QED
    BY <1>3, <1>4, <2>1 DEF Leads
<1>6. f[2] \in 0 .. size /\ Link(c, x, size, Head(q), a, f[2])
  BY <1>1, <1>2
<1> QED
  BY <1>5, <1>6 DEF p

(* There is one read of a client at most, in the queue or registered.      *)
OneRead(c, q, r) ==
    /\ \A i, j \in 1 .. Len(q) : IsRead(q[i], c) /\ IsRead(q[j], c) => i = j
    /\ \A i, j \in ReadSlots : IsRead(r[i], c) /\ IsRead(r[j], c) => i = j
    /\ \A m \in ToSet(q), i \in ReadSlots : ~(IsRead(m, c) /\ IsRead(r[i], c))

(* A read that ends is one less,                                           *)
LEMMA OneReadLess ==
    ASSUME NEW c, NEW q, NEW r, NEW s, OneRead(c, q, r),
           \A i \in ReadSlots : IsRead(s[i], c) => IsRead(r[i], c)
    PROVE  OneRead(c, q, s)
BY DEF OneRead

(* ... one that is queued is the only one,                                 *)
LEMMA OneReadAppend ==
    ASSUME NEW c, NEW q \in Seq(IoCommands), NEW r, NEW m \in IoCommands, OneRead(c, q, r),
           IsRead(m, c) => /\ \A n \in ToSet(q) : ~IsRead(n, c)
                           /\ \A i \in ReadSlots : ~IsRead(r[i], c)
    PROVE  OneRead(c, Append(q, m), r)
<1> DEFINE p == Append(q, m)
<1>1. Len(q) \in Nat /\ Len(p) = Len(q) + 1 /\ p[Len(q) + 1] = m /\ \A i \in 1 .. Len(q) : p[i] = q[i]
  OBVIOUS
<1>2. ToSet(p) = ToSet(q) \cup {m} /\ \A i \in 1 .. Len(q) : q[i] \in ToSet(q)
  BY Elements DEF ToSet
<1> HIDE DEF p
<1>3. \A i, j \in 1 .. Len(p) : IsRead(p[i], c) /\ IsRead(p[j], c) => i = j
  <2> SUFFICES ASSUME NEW i \in 1 .. Len(p), NEW j \in 1 .. Len(p), IsRead(p[i], c), IsRead(p[j], c)
               PROVE  i = j
    OBVIOUS
  <2>1. CASE i \in 1 .. Len(q) /\ j \in 1 .. Len(q)
    BY <1>1, <2>1 DEF OneRead
  <2>2. CASE i = Len(q) + 1 /\ j \in 1 .. Len(q)
    BY <1>1, <1>2, <2>2
  <2>3. CASE j = Len(q) + 1 /\ i \in 1 .. Len(q)
    BY <1>1, <1>2, <2>3
  <2> QED
    BY <1>1, <2>1, <2>2, <2>3
<1>4. \A n \in ToSet(p), i \in ReadSlots : ~(IsRead(n, c) /\ IsRead(r[i], c))
  BY <1>2 DEF OneRead
<1> QED
  BY <1>3, <1>4 DEF OneRead, p

(* ... and so is one that is taken.                                        *)
LEMMA OneReadTail ==
    ASSUME NEW c, NEW q \in Seq(IoCommands), q # <<>>, NEW r, OneRead(c, q, r)
    PROVE  /\ OneRead(c, Tail(q), r)
           /\ IsRead(Head(q), c) => /\ \A n \in ToSet(Tail(q)) : ~IsRead(n, c)
                                    /\ \A i \in ReadSlots : ~IsRead(r[i], c)
<1> DEFINE p == Tail(q)
<1>1. /\ Len(q) \in Nat /\ Len(q) > 0 /\ Len(p) = Len(q) - 1 /\ Head(q) = q[1]
      /\ \A i \in 1 .. Len(p) : p[i] = q[i + 1]
  OBVIOUS
<1>2. ToSet(p) \subseteq ToSet(q) /\ Head(q) \in ToSet(q)
  BY Elements
<1>3. \A n \in ToSet(p) : \E i \in 1 .. Len(p) : n = p[i]
  BY DEF ToSet
<1> HIDE DEF p
<1>4. \A i, j \in 1 .. Len(p) : IsRead(p[i], c) /\ IsRead(p[j], c) => i = j
  <2> SUFFICES ASSUME NEW i \in 1 .. Len(p), NEW j \in 1 .. Len(p), IsRead(p[i], c), IsRead(p[j], c)
               PROVE  i = j
    OBVIOUS
  <2>1. i + 1 \in 1 .. Len(q) /\ j + 1 \in 1 .. Len(q)
    BY <1>1
  <2>2. i + 1 = j + 1
    BY <1>1, <2>1 DEF OneRead
  <2> QED
    BY <1>1, <2>2
<1>5. OneRead(c, p, r)
  BY <1>2, <1>4 DEF OneRead
<1>6. ASSUME IsRead(Head(q), c), NEW n \in ToSet(p), IsRead(n, c)
      PROVE  FALSE
  <2>1. PICK i \in 1 .. Len(p) : n = p[i]
    BY <1>3
  <2>2. i + 1 \in 1 .. Len(q) /\ 1 \in 1 .. Len(q) /\ IsRead(q[i + 1], c) /\ IsRead(q[1], c)
    BY <1>1, <1>6, <2>1
  <2>3. i + 1 = 1
    BY <2>2 DEF OneRead
  <2> QED
    BY <1>1, <2>3
<1>7. IsRead(Head(q), c) => \A i \in ReadSlots : ~IsRead(r[i], c)
  BY <1>2 DEF OneRead
<1> QED
  BY <1>5, <1>6, <1>7 DEF p

(* No read is less than one.                                               *)
LEMMA OneReadNone ==
    ASSUME NEW c, NEW q \in Seq(IoCommands), NEW r,
           \A m \in ToSet(q) : ~IsRead(m, c),
           \A i \in ReadSlots : ~IsRead(r[i], c)
    PROVE  OneRead(c, q, r)
<1>1. \A i \in 1 .. Len(q) : q[i] \in ToSet(q)
  BY DEF ToSet
<1> QED
  BY <1>1 DEF OneRead

(* The transfer of client c as the bytes of a file go: the connection is   *)
(* there when the read has been asked for, and before that there is        *)
(* nothing of it.                                                          *)
NoReads(c) ==
    /\ \A m \in ToSet(ioQueue) : ~IsRead(m, c)
    /\ \A m \in ToSet(serverQueue) : ~IsRead(m, c)
    /\ \A i \in ReadSlots : ~IsRead(reads[i], c)
    /\ ~IsRead(res, c)

AtOffset(c, b) ==
    /\ \A i \in ReadSlots : IsRead(reads[i], c) => reads[i].offset = b /\ reads[i].size = story[c].size
    /\ \A m \in ToSet(ioQueue) : IsRead(m, c) => b = 0 /\ m.size = story[c].size

Chained(c) ==
    \E a \in 0 .. story[c].size, b \in 0 .. story[c].size :
        /\ story[c].wire = Units(story[c].cur, a)
        /\ Leads(c, story[c].cur, story[c].size, serverQueue, a, b)
        /\ AtOffset(c, b)

Retrieval(c) ==
    /\ client[c].started => client[c].data /\ client[c].pending = "RETR"
    /\ ~client[c].started => story[c].wire = <<>> /\ NoReads(c)
    /\ IsRead(cmd, c) => ~client[c].started /\ client[c].data /\ client[c].pending = "RETR" /\ cmd.size = story[c].size
    /\ OneRead(c, ioQueue, reads)
    /\ Chained(c)

Retrieve == NotFlushed => \A c \in Clients : Clean(c) => Retrieval(c)

(* An answer that waits for room after a command is no block of a file.    *)
NoBlockWaits == iopc = "addRes" /\ res.type = "read" => res.units = <<>> /\ ~res.eof /\ res.error

(* The read of the transfer is asked for.                                  *)
LEMMA ReadChained ==
    ASSUME TypeOK, TypeOK', NEW c \in Clients, NoReads(c), NEW m \in IoCommands, IsRead(m, c),
           ioQueue' = Append(ioQueue, m), UNCHANGED <<serverQueue, reads, res>>,
           story'[c].wire = <<>>, m.size = story'[c].size
    PROVE  OneRead(c, ioQueue, reads)' /\ Chained(c)'
<1>1. /\ story'[c].size \in Nat /\ serverQueue \in Seq(Answers) /\ ioQueue \in Seq(IoCommands)
      /\ ToSet(ioQueue)' = ToSet(ioQueue) \cup {m}
  BY QueueElements DEF TypeOK, StoryRecord
<1>2. Leads(c, story'[c].cur, story'[c].size, serverQueue, 0, 0)
  BY <1>1, LeadsNowhere DEF NoReads
<1>3. AtOffset(c, 0)'
  BY <1>1 DEF AtOffset, NoReads
<1>4. story'[c].wire = Units(story'[c].cur, 0)
  <2>1. Units(story'[c].cur, 0) = <<>>
    BY DEF Units
  <2> QED
    BY <2>1
<1>5. 0 \in 0 .. story'[c].size
  BY <1>1
<1>6. OneRead(c, ioQueue, reads)
  BY <1>1, OneReadNone DEF NoReads
<1>7. OneRead(c, ioQueue, reads)'
  BY <1>1, <1>6, OneReadAppend DEF NoReads
<1> QED
  BY <1>2, <1>3, <1>4, <1>5, <1>7 DEF Chained

(* A stretch of units that follows on another makes one.                   *)
LEMMA UnitsAfter ==
    ASSUME NEW x \in Nat, NEW o \in Nat, NEW p \in Nat, NEW n \in Nat,
           NEW e \in Nat, e = o + p, NEW l \in Nat, l = p + n
    PROVE  Joined(Stretch(x, o, p), Stretch(x, e, n)) = Stretch(x, o, l)
<1> DEFINE s == [k \in 1 .. p |-> Unit(x, o + k)]
           t == [k \in 1 .. n |-> Unit(x, o + p + k)]
           u == [k \in 1 .. p + n |-> Unit(x, o + k)]
<1>1. \A k \in Nat : Unit(x, k) \in Nat \X Nat
  BY DEF Unit
<1>2. s \in Seq(Nat \X Nat) /\ Len(s) = p /\ \A k \in 1 .. p : s[k] = Unit(x, o + k)
  BY <1>1
<1>3. t \in Seq(Nat \X Nat) /\ Len(t) = n /\ \A k \in 1 .. n : t[k] = Unit(x, o + p + k)
  <2>1. \A k \in 1 .. n : o + p + k \in Nat
    OBVIOUS
  <2> QED
    BY <1>1, <2>1
<1>4. u \in Seq(Nat \X Nat) /\ Len(u) = p + n /\ \A k \in 1 .. p + n : u[k] = Unit(x, o + k)
  <2>1. p + n \in Nat
    OBVIOUS
  <2> QED
    BY <1>1, <2>1
<1> HIDE DEF s, t, u
<1>5. s \o t \in Seq(Nat \X Nat) /\ Len(s \o t) = p + n
  BY <1>2, <1>3, ConcatProperties
<1> DEFINE w == s \o t
<1>6. ASSUME NEW k \in 1 .. p + n
      PROVE  w[k] = u[k]
  <2>1. CASE k <= p
    <3>1. w[k] = s[k]
      BY <1>2, <1>3, <2>1, ConcatProperties
    <3>2. k \in 1 .. p
      BY <2>1
    <3> HIDE DEF w
    <3> QED
      BY <1>2, <1>4, <3>1, <3>2
  <2>2. CASE k > p
    <3>1. w[k] = t[k - p]
      <4>1. k \in 1 .. Len(s) + Len(t) /\ ~(k <= Len(s))
        BY <1>2, <1>3, <2>2
      <4>2. (s \o t)[k] = t[k - Len(s)]
        BY <1>2, <1>3, <4>1, ConcatProperties
      <4> QED
        BY <1>2, <4>2
    <3>2. k - p \in 1 .. n /\ o + p + (k - p) = o + k
      BY <2>2
    <3> HIDE DEF w
    <3> QED
      BY <1>3, <1>4, <3>1, <3>2
  <2>3. k <= p \/ k > p
    OBVIOUS
  <2> QED
    BY <2>1, <2>2, <2>3
<1>7. s \o t = u
  BY <1>4, <1>5, <1>6, SeqEqual
<1> QED
  BY <1>7 DEF Stretch, Joined, s, t, u

(* A block that follows on a part of a file makes it longer.               *)
LEMMA UnitsOn ==
    ASSUME NEW x \in Nat, NEW a \in Nat, NEW e \in Nat, a <= e
    PROVE  [k \in 1 .. a |-> Unit(x, k)] \o [k \in 1 .. e - a |-> Unit(x, a + k)] = [k \in 1 .. e |-> Unit(x, k)]
<1>1. Joined(Stretch(x, 0, a), Stretch(x, a, e - a)) = Stretch(x, 0, e)
  <2>1. a = 0 + a /\ e - a \in Nat /\ e = a + (e - a)
    OBVIOUS
  <2> QED
    BY <2>1, UnitsAfter
<1>2. \A n \in Nat : [k \in 1 .. n |-> Unit(x, k)] = Stretch(x, 0, n)
  <2>1. ASSUME NEW n \in Nat
        PROVE  [k \in 1 .. n |-> Unit(x, k)] = [k \in 1 .. n |-> Unit(x, 0 + k)]
    <3>1. \A k \in 1 .. n : Unit(x, k) = Unit(x, 0 + k)
      BY DEF Unit
    <3> QED
      BY <3>1
  <2> QED
    BY <2>1 DEF Stretch
<1> QED
  <2> DEFINE u == [k \in 1 .. a |-> Unit(x, k)]
             v == [k \in 1 .. e - a |-> Unit(x, a + k)]
             w == [k \in 1 .. e |-> Unit(x, k)]
  <2>1. u = Stretch(x, 0, a) /\ w = Stretch(x, 0, e)
    BY <1>2
  <2>2. v = Stretch(x, a, e - a)
    BY DEF Stretch
  <2> HIDE DEF u, v, w
  <2>3. u \o v = w
    BY <1>1, <2>1, <2>2 DEF Joined
  <2> QED
    BY <2>3 DEF u, v, w

(* What Retrieval says of a client is as it was.                           *)
SameClient(d) ==
    /\ client'[d].started = client[d].started /\ client'[d].data = client[d].data
    /\ client'[d].pending = client[d].pending
SameStory(d) ==
    /\ story'[d].cur = story[d].cur /\ story'[d].size = story[d].size /\ story'[d].wire = story[d].wire

(* A step that is not about the client's reads.                            *)
LEMMA RetrievalKept ==
    ASSUME TypeOK, NEW d \in Clients, Retrieval(d), SameClient(d), SameStory(d),
           UNCHANGED <<serverQueue, reads, res>>,
           ioQueue' = ioQueue \/ \E m \in IoCommands : ~IsRead(m, d) /\ ioQueue' = Append(ioQueue, m),
           cmd' = cmd \/ ~IsRead(cmd', d)
    PROVE  Retrieval(d)'
<1>1. \A m \in ToSet(ioQueue)' : IsRead(m, d) => m \in ToSet(ioQueue)
  <2>1. ASSUME NEW m \in IoCommands, ioQueue' = Append(ioQueue, m)
        PROVE  ToSet(ioQueue)' = ToSet(ioQueue) \cup {m}
    BY <2>1, QueueElements
  <2> QED
    BY <2>1
<1>2. OneRead(d, ioQueue, reads)'
  <2>1. OneRead(d, ioQueue, reads) /\ ioQueue \in Seq(IoCommands)
    BY DEF Retrieval, TypeOK
  <2>2. CASE ioQueue' = ioQueue
    BY <2>1, <2>2
  <2>3. ASSUME NEW m \in IoCommands, ~IsRead(m, d), ioQueue' = Append(ioQueue, m)
        PROVE  OneRead(d, ioQueue, reads)'
    BY <2>1, <2>3, OneReadAppend
  <2> QED
    BY <2>2, <2>3
<1>3. Chained(d)'
  <2>1. \A b : AtOffset(d, b) => AtOffset(d, b)'
    BY <1>1 DEF AtOffset, SameStory
  <2> QED
    BY <2>1 DEF Retrieval, Chained, SameStory
<1>4. NoReads(d) => NoReads(d)'
  BY <1>1 DEF NoReads
<1>5. IsRead(cmd', d) => cmd' = cmd
  OBVIOUS
<1> QED
  BY <1>2, <1>3, <1>4, <1>5 DEF Retrieval, SameClient, SameStory

(* An answer is taken, and its block sent if it is the client's.           *)
LEMMA RetrievalTail ==
    ASSUME TypeOK, NEW d \in Clients, Retrieval(d), SameClient(d), UNCHANGED <<ioQueue, reads, res, cmd>>,
           serverQueue # <<>>, serverQueue' = Tail(serverQueue),
           story'[d].cur = story[d].cur, story'[d].size = story[d].size,
           LET m == Head(serverQueue)
           IN  IF IsRead(m, d) THEN story'[d].wire = story[d].wire \o m.units ELSE story'[d].wire = story[d].wire
    PROVE  Retrieval(d)'
<1> DEFINE m == Head(serverQueue)
           x == story[d].cur
           n == story[d].size
<1>1. /\ n \in Nat /\ x \in Nat /\ serverQueue \in Seq(Answers) /\ m \in ToSet(serverQueue)
      /\ ToSet(serverQueue)' \subseteq ToSet(serverQueue)
  BY QueueElements DEF TypeOK, StoryRecord
<1>2. PICK a \in 0 .. n, b \in 0 .. n :
        story[d].wire = Units(x, a) /\ Leads(d, x, n, serverQueue, a, b) /\ AtOffset(d, b)
  BY DEF Retrieval, Chained
<1>3. PICK e \in 0 .. n : Link(d, x, n, m, a, e) /\ Leads(d, x, n, Tail(serverQueue), e, b)
  BY <1>1, <1>2, LeadsFrom
<1>4. story'[d].wire = Units(x, e)
  <2>1. CASE ~IsRead(m, d)
    BY <1>2, <1>3, <2>1 DEF Link
  <2>2. CASE IsRead(m, d)
    <3>1. /\ a <= e /\ a \in Nat /\ e \in Nat /\ m.units = [k \in 1 .. e - a |-> Unit(x, a + k)]
      BY <1>1, <1>3, <2>2 DEF Link
    <3>2. story'[d].wire = [k \in 1 .. a |-> Unit(x, k)] \o [k \in 1 .. e - a |-> Unit(x, a + k)]
      BY <1>2, <2>2, <3>1 DEF Units
    <3>3. [k \in 1 .. a |-> Unit(x, k)] \o [k \in 1 .. e - a |-> Unit(x, a + k)] = [k \in 1 .. e |-> Unit(x, k)]
      BY <1>1, <3>1, UnitsOn
    <3> QED
      BY <3>2, <3>3 DEF Units
  <2> QED
    BY <2>1, <2>2
<1>5. AtOffset(d, b)'
  BY <1>2 DEF AtOffset
<1>6. Chained(d)'
  BY <1>1, <1>3, <1>4, <1>5 DEF Chained
<1>7. OneRead(d, ioQueue, reads)'
  BY DEF Retrieval
<1>8. NoReads(d) => ~IsRead(m, d) /\ NoReads(d)'
  BY <1>1 DEF NoReads
<1> QED
  BY <1>6, <1>7, <1>8 DEF Retrieval, SameClient

(* Before anything of the transfer is there.                               *)
LEMMA NothingChainedNext ==
    ASSUME TypeOK', NEW c \in Clients, story'[c].wire = <<>>, NoReads(c)'
    PROVE  OneRead(c, ioQueue, reads)' /\ Chained(c)'
<1>1. story'[c].size \in Nat /\ serverQueue' \in Seq(Answers) /\ ioQueue' \in Seq(IoCommands)
  BY DEF TypeOK, StoryRecord
<1>2. Leads(c, story'[c].cur, story'[c].size, serverQueue', 0, 0)
  <2> DEFINE q == serverQueue'
             x == story'[c].cur
             size == story'[c].size
  <2>1. size \in Nat /\ q \in Seq(Answers) /\ \A m \in ToSet(q) : ~IsRead(m, c)
    BY <1>1 DEF NoReads
  <2> HIDE DEF q, x, size
  <2>2. Leads(c, x, size, q, 0, 0)
    BY <2>1, LeadsNowhere
  <2> QED
    BY <2>2 DEF q, x, size
<1>3. AtOffset(c, 0)'
  BY DEF AtOffset, NoReads
<1>4. story'[c].wire = Units(story'[c].cur, 0)
  <2>1. Units(story'[c].cur, 0) = <<>>
    BY DEF Units
  <2> QED
    BY <2>1
<1>5. 0 \in 0 .. story'[c].size
  BY <1>1
<1>6. OneRead(c, ioQueue, reads)'
  BY <1>1, OneReadNone DEF NoReads
<1> QED
  BY <1>2, <1>3, <1>4, <1>5, <1>6 DEF Chained

(* Retrieve is kept at the handles,                                        *)
LEMMA HandleRetrieve ==
    ASSUME Basics, Basics', Retrieve, HandleDoes
    PROVE  Retrieve'
<1> SUFFICES ASSUME NotFlushed', NEW d \in Clients, Clean(d)'
             PROVE  Retrieval(d)'
  BY DEF Retrieve
<1>1. PICK c \in Clients :
          \/ Calm(c)
          \/ Rests(c) /\ UNCHANGED <<spc, cmd, ioQueue>>
          \/ Starts(c)
          \/ Receives(c)
  BY DEF HandleDoes
<1>2. UNCHANGED <<res, reads, serverQueue>> /\ spc = "events" /\ TypeOK /\ TypeOK' /\ NotFlushed /\ cmd = None
  BY DEF HandleDoes, Basics, TypeOK, ioVars, exitVars, NotFlushed
<1>3. Clean(d) => Retrieval(d)
  BY <1>2 DEF Retrieve
<1>4. /\ ioQueue' = ioQueue \/ \E m \in IoCommands : m.client = c /\ ioQueue' = Append(ioQueue, m)
      /\ cmd' = cmd \/ cmd'.client = c
      /\ d # c => client'[d] = client[d] /\ story'[d] = story[d]
  <2>1. Kept(c)
    BY <1>1, <1>2, CalmKept, RestsKept, StartsKept, ReceivesKept
  <2> QED
    BY <1>1, <2>1 DEF Calm, Starts, Receives, Queues, Kept
<1>5. CASE d # c
  <2>1. SameClient(d) /\ SameStory(d) /\ Clean(d)
    BY <1>4, <1>5 DEF SameClient, SameStory, Clean
  <2>2. ioQueue' = ioQueue \/ \E m \in IoCommands : ~IsRead(m, d) /\ ioQueue' = Append(ioQueue, m)
    BY <1>4, <1>5 DEF IsRead
  <2>3. cmd' = cmd \/ ~IsRead(cmd', d)
    BY <1>4, <1>5 DEF IsRead
  <2> QED
    BY <1>2, <1>3, <2>1, <2>2, <2>3, RetrievalKept
<1>6. CASE d = c /\ Calm(c)
  <2>1. /\ client'[c].started = client[c].started /\ client'[c].data = client[c].data
        /\ client'[c].pending = client[c].pending /\ UNCHANGED <<story, cmd, ioQueue>>
    BY <1>2, <1>6 DEF Calm, TypeOK
  <2> QED
    BY <1>2, <1>3, <1>6, <2>1, RetrievalKept DEF SameClient, SameStory, Clean
<1>7. CASE d = c /\ Rests(c)
  <2>1. story'[c].cur = 0
    BY <1>2, <1>7, SetsTypes DEF Rests
  <2> QED
    BY <1>7, <2>1 DEF Clean
<1>8. CASE d = c /\ Starts(c)
  <2>1. PICK cl \in ClientRecord, s \in StoryRecord :
        /\ Fresh(c, cl, s)
        /\ \/ cl.pending = "RETR" /\ ~cl.started /\ cl.data /\ Queues(c, ReadCommand(c, s), cl, s)
           \/ Sets(c, cl, s) /\ UNCHANGED <<spc, cmd, ioQueue>>
    BY <1>8 DEF Starts
  <2>2. story'[c] = s
    <3>1. \E cl2 : Sets(c, cl2, s)
      BY <2>1 DEF Queues
    <3> QED
      BY <1>2, <3>1, SetsTypes
  <2>3. ~cl.started /\ s.wire = <<>> /\ NoReads(c)
    <3>1. cl.started = client[c].started
      BY <2>1 DEF Fresh
    <3>2. CASE \E size \in Nat : s = Begin(c, size)
      <4>1. NothingLeftOf(c)
        BY <1>2, <1>8, <2>2, <3>2, BeginTypes DEF Clean
      <4>2. ~client[c].started /\ NoReads(c)
        BY <4>1 DEF NothingLeftOf, NoReads, IsRead
      <4>3. s.wire = <<>>
        BY <1>2, <3>2, <4>1, BeginTypes DEF NothingLeftOf
      <4> QED
        BY <3>1, <4>2, <4>3
    <3>3. CASE s = [story[c] EXCEPT !.wire = <<>>] /\ ~client[c].data
      <4>1. s.cur = story[c].cur /\ s.clean = story[c].clean /\ s.wire = <<>>
        BY <1>2, <3>3 DEF TypeOK, StoryRecord
      <4>2. Retrieval(c)
        BY <1>3, <1>8, <2>2, <4>1 DEF Clean
      <4> QED
        BY <3>1, <3>3, <4>1, <4>2 DEF Retrieval
    <3> QED
      BY <2>1, <3>2, <3>3 DEF Fresh
  <2>4. ASSUME UNCHANGED ioQueue, client'[c] = cl,
               IsRead(cmd', c) => cl.data /\ cl.pending = "RETR" /\ cmd'.size = s.size
        PROVE  Retrieval(d)'
    <3>1. NoReads(c)'
      BY <1>2, <2>3, <2>4 DEF NoReads
    <3>2. OneRead(c, ioQueue, reads)' /\ Chained(c)'
      BY <1>2, <2>2, <2>3, <3>1, NothingChainedNext
    <3> QED
      BY <1>8, <2>2, <2>3, <2>4, <3>1, <3>2 DEF Retrieval
  <2> DEFINE m == ReadCommand(c, s)
  <2>5. m.type = "read" /\ m.client = c /\ m.size = s.size
    BY DEF ReadCommand
  <2>6. CASE cl.pending = "RETR" /\ cl.data /\ Queues(c, m, cl, s)
    <3> HIDE DEF m
    <3>1. m \in IoCommands
      BY <2>6 DEF Queues
    <3>2. IsRead(m, c)
      BY <2>5, <3>1, NotNone DEF IsRead
    <3>3. CASE /\ ioQueue' = Append(ioQueue, m)
               /\ Sets(c, Stored(cl, m), s) /\ UNCHANGED <<spc, cmd>>
      <4>1. client'[c] = [cl EXCEPT !.started = TRUE]
        <5>1. client'[c] = Stored(cl, m)
          BY <1>2, <3>3, SetsTypes
        <5> QED
          BY <2>5, <3>1, <5>1, StoredTypes
      <4>2. client'[c].started /\ client'[c].data /\ client'[c].pending = "RETR"
        BY <2>6, <4>1 DEF ClientRecord
      <4>3. OneRead(c, ioQueue, reads)' /\ Chained(c)'
        BY <1>2, <2>2, <2>3, <2>5, <3>1, <3>2, <3>3, ReadChained
      <4>4. ~IsRead(cmd', c)
        BY <1>2, <3>3 DEF IsRead
      <4> QED
        BY <1>8, <4>2, <4>3, <4>4 DEF Retrieval
    <3>4. CASE /\ cmd' = m /\ UNCHANGED ioQueue
               /\ Sets(c, cl, s)
      <4>1. client'[c] = cl
        BY <1>2, <3>4, SetsTypes
      <4> QED
        BY <2>4, <2>5, <2>6, <3>4, <4>1
    <3> QED
      BY <2>6, <3>3, <3>4 DEF Queues
  <2>7. CASE Sets(c, cl, s) /\ UNCHANGED <<cmd, ioQueue>>
    <3>1. client'[c] = cl
      BY <1>2, <2>7, SetsTypes
    <3> QED
      BY <1>2, <2>4, <2>7, <3>1 DEF IsRead
  <2> QED
    BY <1>8, <2>1, <2>6, <2>7
<1>9. CASE d = c /\ Receives(c)
  <2>0. PICK n \in Nat : \E b, cl, s :
          /\ cl = [client[c] EXCEPT !.buffer = b]
          /\ s = [story[c] EXCEPT !.got = @ + n]
          /\ \/ Queues(c, WriteCommand(c, b, n), cl, s)
             \/ Sets(c, cl, s) /\ UNCHANGED <<spc, cmd, ioQueue>>
    BY <1>9 DEF Receives
  <2>1. PICK b, cl, s :
          /\ cl = [client[c] EXCEPT !.buffer = b]
          /\ s = [story[c] EXCEPT !.got = @ + n]
          /\ \/ Queues(c, WriteCommand(c, b, n), cl, s)
             \/ Sets(c, cl, s) /\ UNCHANGED <<spc, cmd, ioQueue>>
    BY <2>0
  <2>2. story'[c] = s /\ (Sets(c, cl, s) => client'[c] = cl)
    <3>1. \E cl2 : Sets(c, cl2, s)
      BY <2>1 DEF Queues
    <3> QED
      BY <1>2, <3>1, SetsTypes
  <2>3. s.cur = story[c].cur /\ s.clean = story[c].clean /\ s.size = story[c].size /\ s.wire = story[c].wire
    BY <1>2, <2>1 DEF TypeOK, StoryRecord
  <2>4. cl.started = client[c].started /\ cl.data = client[c].data /\ cl.pending = client[c].pending
    BY <1>2, <2>1 DEF TypeOK, ClientRecord
  <2>5. Clean(c) /\ SameStory(c)
    BY <1>9, <2>2, <2>3 DEF Clean, SameStory
  <2> DEFINE m == WriteCommand(c, b, n)
  <2>6. m.type = "write"
    BY DEF WriteCommand
  <2>7. ~IsRead(m, c)
    BY <2>6 DEF IsRead
  <2> HIDE DEF m
  <2>8. CASE Queues(c, m, cl, s)
    <3>1. m \in IoCommands
      BY <2>8 DEF Queues
    <3>2. CASE /\ ioQueue' = Append(ioQueue, m)
               /\ Sets(c, Stored(cl, m), s) /\ UNCHANGED <<spc, cmd>>
      <4>1. client'[c] = Stored(cl, m)
        BY <1>2, <3>2, SetsTypes
      <4>2. Stored(cl, m).started = cl.started /\ Stored(cl, m).data = cl.data /\ Stored(cl, m).pending = cl.pending
        <5>1. Stored(cl, m) = [cl EXCEPT !.append = TRUE, !.buffer = <<>>, !.eofSent = m.eof]
          BY <2>6 DEF Stored
        <5>2. cl = [client[c] EXCEPT !.buffer = b] /\ client[c] \in ClientRecord
          BY <1>2, <2>1 DEF TypeOK
        <5> QED
          BY <5>1, <5>2 DEF ClientRecord
      <4>3. SameClient(c)
        BY <2>4, <4>1, <4>2 DEF SameClient
      <4> QED
        BY <1>2, <1>3, <1>9, <2>5, <2>7, <3>1, <3>2, <4>3, RetrievalKept
    <3>3. CASE /\ cmd' = m /\ UNCHANGED ioQueue
               /\ Sets(c, cl, s)
      <4>1. SameClient(c)
        BY <2>2, <2>4, <3>3 DEF SameClient
      <4> QED
        BY <1>2, <1>3, <1>9, <2>5, <2>7, <3>3, <4>1, RetrievalKept
    <3> QED
      BY <2>8, <3>2, <3>3 DEF Queues
  <2>9. CASE Sets(c, cl, s) /\ UNCHANGED <<cmd, ioQueue>>
    <3>1. SameClient(c)
      BY <2>2, <2>4, <2>9 DEF SameClient
    <3> QED
      BY <1>2, <1>3, <1>9, <2>5, <2>9, <3>1, RetrievalKept
  <2> QED
    BY <2>1, <2>8, <2>9 DEF m
<1> QED
  BY <1>1, <1>5, <1>6, <1>7, <1>8, <1>9

(* ... by the server thread,                                               *)
LEMMA ServerRetrieve ==
    ASSUME Basics, Basics', Retrieve, ServerStep
    PROVE  Retrieve'
<1>1. ServerDoes /\ TypeOK /\ TypeOK'
  BY ServerEffects DEF Basics
<1> SUFFICES ASSUME ~HandleDoes, NotFlushed', NEW d \in Clients, Clean(d)'
             PROVE  Retrieval(d)'
  BY HandleRetrieve DEF Retrieve
<1>2. NotFlushed /\ UNCHANGED <<res, reads>>
  BY <1>1 DEF ServerDoes, AddDoes, AddFails, AnswerEnds, AnswerMoves, AnswerFrame, AtAnswer, ServerIdles, ServerExit,
     ioVars, exitVars, NotFlushed
<1>3. Clean(d) => Retrieval(d)
  BY <1>2 DEF Retrieve
<1>4. ASSUME NEW c \in Clients, Rests(c)
      PROVE  d # c /\ SameClient(d) /\ SameStory(d) /\ Retrieval(d)
  <2>1. PICK cl, s : Sets(c, cl, s) /\ s.cur = 0
    BY <1>4 DEF Rests
  <2>2. /\ story'[c].cur = 0
        /\ \A e \in Clients : e # c => story'[e] = story[e] /\ client'[e] = client[e]
    BY <1>1, <2>1, SetsTypes
  <2>3. d # c /\ story'[d] = story[d] /\ client'[d] = client[d]
    BY <2>2 DEF Clean
  <2> QED
    BY <1>3, <2>3 DEF Clean, SameClient, SameStory
<1>5. CASE AddDoes
  <2> DEFINE c == cmd.client
             cl == client[c]
  <2>1. cmd \in IoCommands /\ c \in Clients /\ cmd # None /\ cmd.type \in {"read", "write"}
    BY <1>5, NotNone DEF AddDoes
  <2>2. UNCHANGED <<serverQueue, story>> /\ cmd' = None /\ ioQueue' = Append(ioQueue, cmd)
    BY <1>5 DEF AddDoes
  <2>3. client'[c] = Stored(cl, cmd) /\ (d # c => client'[d] = client[d]) /\ cl \in ClientRecord
    BY <1>1, <1>5, <2>1 DEF AddDoes, TypeOK
  <2>4. Retrieval(d) /\ SameStory(d)
    BY <1>3, <2>2 DEF Clean, SameStory
  <2>5. CASE ~IsRead(cmd, d)
    <3>1. SameClient(d)
      <4>1. CASE d # c
        BY <2>3, <4>1 DEF SameClient
      <4>2. CASE d = c
        <5>1. cmd.type = "write"
          BY <2>1, <2>5, <4>2 DEF IsRead
        <5>2. Stored(cl, cmd) = [cl EXCEPT !.append = TRUE, !.buffer = <<>>, !.eofSent = cmd.eof]
          BY <5>1 DEF Stored
        <5>3. Stored(cl, cmd).started = cl.started /\ Stored(cl, cmd).data = cl.data /\ Stored(cl, cmd).pending = cl.pending
          BY <2>3, <5>2 DEF ClientRecord
        <5> QED
          BY <2>3, <4>2, <5>3 DEF SameClient
      <4> QED
        BY <4>1, <4>2
    <3>2. ~IsRead(cmd', d)
      BY <2>2 DEF IsRead
    <3> QED
      BY <1>1, <1>2, <2>1, <2>2, <2>4, <2>5, <3>1, <3>2, RetrievalKept
  <2>6. CASE IsRead(cmd, d)
    <3>1. d = c /\ cmd.type = "read"
      BY <2>6 DEF IsRead
    <3>2. /\ ~client[d].started /\ client[d].data /\ client[d].pending = "RETR" /\ cmd.size = story[d].size
          /\ story[d].wire = <<>> /\ NoReads(d)
      BY <2>4, <2>6 DEF Retrieval
    <3>3. client'[d] = [cl EXCEPT !.started = TRUE]
      BY <2>1, <2>3, <3>1, StoredTypes
    <3>4. client'[d].started /\ client'[d].data /\ client'[d].pending = "RETR"
      BY <2>3, <3>1, <3>2, <3>3 DEF ClientRecord
    <3>5. OneRead(d, ioQueue, reads)' /\ Chained(d)'
      BY <1>1, <1>2, <2>1, <2>2, <2>6, <3>2, ReadChained
    <3>6. ~IsRead(cmd', d)
      BY <2>2 DEF IsRead
    <3> QED
      BY <3>4, <3>5, <3>6 DEF Retrieval
  <2> QED
    BY <2>5, <2>6
<1>6. CASE AddFails
  <2>1. cmd.client \in Clients /\ cmd' = None /\ UNCHANGED <<serverQueue, ioQueue>>
    BY <1>6, NotNone DEF AddFails
  <2>2. SameClient(d) /\ SameStory(d) /\ Retrieval(d)
    BY <1>4, <1>6, <2>1 DEF AddFails
  <2>3. ~IsRead(cmd', d)
    BY <2>1 DEF IsRead
  <2> QED
    BY <1>1, <1>2, <2>1, <2>2, <2>3, RetrievalKept
<1>7. AnswerFrame => /\ Head(serverQueue).client \in Clients /\ UNCHANGED <<cmd, ioQueue>>
                     /\ serverQueue # <<>> /\ serverQueue' = Tail(serverQueue)
  BY <1>1, NotNone DEF AnswerFrame, AtAnswer
<1>8. CASE AnswerEnds
  <2> DEFINE m == Head(serverQueue)
  <2>1. AnswerFrame /\ Rests(m.client)
    BY <1>8 DEF AnswerEnds
  <2>2. d # m.client /\ SameClient(d) /\ SameStory(d) /\ Retrieval(d)
    BY <1>4, <1>7, <2>1
  <2>3. ~IsRead(m, d)
    BY <2>2 DEF IsRead
  <2> QED
    BY <1>1, <1>2, <1>7, <2>1, <2>2, <2>3, RetrievalTail DEF SameStory
<1>9. CASE AnswerMoves
  <2> DEFINE m == Head(serverQueue)
             c == m.client
             s == [story[c] EXCEPT !.wire = @ \o m.units]
  <2>1. /\ AnswerFrame /\ c \in Clients /\ Sets(c, client[c], s) /\ client' = client
        /\ m.type = "read" /\ m # None
    BY <1>7, <1>9, NotNone DEF AnswerMoves, AnswerFrame
  <2>2. /\ s.cur = story[c].cur /\ s.clean = story[c].clean /\ s.size = story[c].size
        /\ s.wire = story[c].wire \o m.units
    <3>1. story[c] \in StoryRecord
      BY <1>1, <2>1 DEF TypeOK
    <3> HIDE DEF m, c
    <3> QED
      BY <3>1 DEF StoryRecord
  <2> HIDE DEF s, m
  <2>3. story'[c] = s /\ \A e \in Clients : e # c => story'[e] = story[e]
    BY <1>1, <2>1, SetsTypes
  <2>4. /\ Retrieval(d) /\ SameClient(d) /\ story'[d].cur = story[d].cur /\ story'[d].size = story[d].size
        /\ IF IsRead(m, d) THEN story'[d].wire = story[d].wire \o m.units ELSE story'[d].wire = story[d].wire
    BY <1>3, <2>1, <2>2, <2>3 DEF Clean, SameClient, IsRead
  <2> QED
    BY <1>1, <1>2, <1>7, <2>1, <2>4, RetrievalTail DEF m
<1>10. CASE ServerIdles
  <2>1. UNCHANGED <<client, cmd, ioQueue, serverQueue, story>>
    BY <1>10 DEF ServerIdles
  <2> QED
    BY <1>1, <1>2, <1>3, <2>1, RetrievalKept DEF SameClient, SameStory, Clean
<1>11. CASE ServerExit
  <2>1. story'[d].cur = 0
    BY <1>1, <1>11, EndedTypes DEF ServerExit, TypeOK
  <2> QED
    BY <2>1 DEF Clean
<1> QED
  BY <1>1, <1>5, <1>6, <1>8, <1>9, <1>10, <1>11 DEF ServerDoes

(* What a step of the I/O thread has to keep of it: the end of the chain   *)
(* moves on with the block that is appended.                               *)
LEMMA RetrievalIo ==
    ASSUME TypeOK, NEW d \in Clients, Retrieval(d), SameClient(d), SameStory(d), cmd' = cmd,
           OneRead(d, ioQueue, reads)', NoReads(d) => NoReads(d)',
           \A b \in 0 .. story[d].size : AtOffset(d, b) =>
              \E e \in 0 .. story[d].size :
                 /\ AtOffset(d, e)'
                 /\ \/ serverQueue' = serverQueue /\ e = b
                    \/ \E m \in Answers : /\ serverQueue' = Append(serverQueue, m)
                                          /\ Link(d, story[d].cur, story[d].size, m, b, e)
    PROVE  Retrieval(d)'
<1> DEFINE x == story[d].cur
           n == story[d].size
<1>1. n \in Nat /\ serverQueue \in Seq(Answers)
  BY DEF TypeOK, StoryRecord
<1>2. PICK a \in 0 .. n, b \in 0 .. n :
        story[d].wire = Units(x, a) /\ Leads(d, x, n, serverQueue, a, b) /\ AtOffset(d, b)
  BY DEF Retrieval, Chained
<1>3. PICK e \in 0 .. n :
        /\ AtOffset(d, e)'
        /\ \/ serverQueue' = serverQueue /\ e = b
           \/ \E m \in Answers : serverQueue' = Append(serverQueue, m) /\ Link(d, x, n, m, b, e)
  BY <1>2
<1>4. Leads(d, x, n, serverQueue', a, e)
  <2>1. CASE serverQueue' = serverQueue /\ e = b
    BY <1>2, <2>1
  <2>2. ASSUME NEW m \in Answers, serverQueue' = Append(serverQueue, m), Link(d, x, n, m, b, e)
        PROVE  Leads(d, x, n, serverQueue', a, e)
    <3> HIDE DEF x, n
    <3>1. Leads(d, x, n, Append(serverQueue, m), a, e)
      BY <1>1, <1>2, <1>3, <2>2, LeadsOn
    <3> QED
      BY <2>2, <3>1
  <2> QED
    BY <1>3, <2>1, <2>2
<1>5. Chained(d)'
  BY <1>2, <1>3, <1>4 DEF Chained, SameStory
<1> QED
  BY <1>5 DEF Retrieval, SameClient, SameStory

(* The step of a read state.                                               *)
LEMMA ReadRetrieve ==
    ASSUME Basics, Own, NEW d \in Clients, Clean(d), Retrieval(d), SameClient(d), SameStory(d), cmd' = cmd,
           NEW i \in ReadSlots, ReadDoes(i)
    PROVE  Retrieval(d)'
<1> DEFINE r == reads[i]
<1>1. /\ r # None /\ r \in Messages /\ r \in ReadStates /\ r.offset <= r.size
      /\ r.client \in Clients /\ r.type = "read"
  BY NotNone DEF ReadDoes, Messages, Basics, TypeOK, InFile
<1>2. TypeOK /\ OneRead(d, ioQueue, reads) /\ (IsRead(r, d) => ~NoReads(d))
      /\ (IsRead(r, d) <=> r.client = d)
  BY <1>1 DEF Basics, Retrieval, NoReads, IsRead
<1>3. CASE ReadStored(i)
  <2>1. PICK failed \in BOOLEAN :
      /\ serverQueue' = Append(serverQueue, Block(r, failed))
      /\ reads' = [reads EXCEPT ![i] = Advanced(r, Block(r, failed))]
      /\ res' = None
      /\ UNCHANGED ioQueue
    BY <1>3 DEF ReadStored
  <2> DEFINE m == Block(r, failed)
             n == Len(m.units)
             a == Advanced(r, m)
  <2>2. /\ m \in Answers /\ m.client = r.client /\ m.type = "read" /\ m # None /\ m.error = failed
        /\ m.units = [k \in 1 .. n |-> Unit(r.xfer, r.offset + k)]
        /\ n \in Nat /\ r.offset + n <= r.size
        /\ m.eof /\ ~m.error => r.offset + n = r.size
        /\ a = IF m.eof THEN None ELSE [r EXCEPT !.offset = r.offset + n]
    BY <1>1, BlockIs
  <2>3. reads'[i] = a /\ \A j \in ReadSlots : j # i => reads'[j] = reads[j]
    BY <1>2, <2>1 DEF TypeOK
  <2>4. ToSet(serverQueue)' = ToSet(serverQueue) \cup {m}
    BY <1>2, <2>1, <2>2, QueueElements
  <2> HIDE DEF m, a
  <2>5. /\ IsRead(a, d) => IsRead(r, d) /\ a.offset = r.offset + n /\ a.size = r.size
        /\ IsRead(m, d) <=> IsRead(r, d)
    <3>1. CASE m.eof
      BY <1>1, <2>2, <3>1 DEF IsRead
    <3>2. CASE ~m.eof
      <4>1. a.client = r.client /\ a.type = r.type /\ a.offset = r.offset + n /\ a.size = r.size
        BY <1>1, <2>2, <3>2 DEF ReadStates
      <4> QED
        BY <1>1, <2>2, <4>1 DEF IsRead
    <3> QED
      BY <3>1, <3>2
  <2>6. OneRead(d, ioQueue, reads)'
    <3>1. \A j \in ReadSlots : IsRead(reads'[j], d) => IsRead(reads[j], d)
      BY <2>3, <2>5
    <3>2. OneRead(d, ioQueue, reads')
      BY <1>2, <3>1, OneReadLess
    <3> QED
      BY <2>1, <3>2
  <2>7. NoReads(d) => NoReads(d)'
    <3> SUFFICES ASSUME NoReads(d)
                 PROVE  NoReads(d)'
      OBVIOUS
    <3>1. ~IsRead(r, d)
      BY <1>2
    <3>2. \A j \in ReadSlots : ~IsRead(reads'[j], d)
      BY <2>3, <2>5, <3>1 DEF NoReads
    <3>3. ~IsRead(res', d)
      BY <2>1 DEF IsRead
    <3> QED
      BY <2>1, <2>4, <2>5, <3>1, <3>2, <3>3 DEF NoReads
  <2>8. ASSUME NEW b \in 0 .. story[d].size, AtOffset(d, b)
        PROVE  \E e \in 0 .. story[d].size :
                  AtOffset(d, e)' /\ Link(d, story[d].cur, story[d].size, m, b, e)
    <3>1. CASE ~IsRead(r, d)
      <4>1. AtOffset(d, b)'
        BY <2>1, <2>3, <2>5, <2>8, <3>1 DEF AtOffset, SameStory
      <4>2. Link(d, story[d].cur, story[d].size, m, b, b)
        BY <2>5, <3>1 DEF Link
      <4> QED
        BY <4>1, <4>2
    <3>2. CASE IsRead(r, d)
      <4>1. r.offset = b /\ r.size = story[d].size /\ r.xfer = story[d].cur /\ b \in Nat /\ r.size \in Nat
        BY <1>1, <1>2, <2>8, <3>2 DEF AtOffset, Own, Owned, TypeOK, StoryRecord
      <4>2. PICK e \in 0 .. story[d].size : e = b + n /\ e - b = n /\ b <= e
        BY <2>2, <4>1
      <4>3. AtOffset(d, e)'
        <5>1. \A j \in ReadSlots : IsRead(reads[j], d) => j = i
          BY <1>2, <3>2 DEF OneRead
        <5>2. \A j \in ToSet(ioQueue) : ~IsRead(j, d)
          BY <1>2, <3>2 DEF OneRead
        <5>3. \A j \in ReadSlots : IsRead(reads'[j], d) => reads'[j].offset = e /\ reads'[j].size = story[d].size
          BY <2>3, <2>5, <4>1, <4>2, <5>1
        <5> QED
          BY <2>1, <5>2, <5>3 DEF AtOffset, SameStory
      <4>4. Link(d, story[d].cur, story[d].size, m, b, e)
        BY <2>2, <2>5, <3>2, <4>1, <4>2 DEF Link
      <4> QED
        BY <4>2, <4>3, <4>4
    <3> QED
      BY <3>1, <3>2
  <2>9. serverQueue' = Append(serverQueue, m)
    BY <2>1 DEF m
  <2> QED
    BY <1>2, <2>2, <2>6, <2>7, <2>8, <2>9, RetrievalIo
<1>4. CASE ReadWaits(i)
  <2>1. PICK failed \in BOOLEAN : res' = Block(r, failed) /\ UNCHANGED <<reads, serverQueue, ioQueue>>
    BY <1>4 DEF ReadWaits
  <2>2. OneRead(d, ioQueue, reads)' /\ \A b : AtOffset(d, b) => AtOffset(d, b)'
    BY <1>2, <2>1 DEF AtOffset, SameStory
  <2>3. res'.client = r.client
    BY <2>1 DEF Block
  <2>4. NoReads(d) => NoReads(d)'
    BY <1>2, <2>1, <2>3 DEF NoReads, IsRead
  <2> QED
    BY <1>2, <2>1, <2>2, <2>4, RetrievalIo
<1>5. CASE ReadLost(i)
  <2>1. UNCHANGED <<serverQueue, ioQueue>> /\ res' = None /\ reads' = [reads EXCEPT ![i] = None]
    BY <1>5 DEF ReadLost
  <2>2. \A j \in ReadSlots : IsRead(reads'[j], d) => reads'[j] = reads[j]
    BY <1>2, <2>1 DEF TypeOK, IsRead
  <2>3. OneRead(d, ioQueue, reads)'
    <3>1. OneRead(d, ioQueue, reads')
      BY <1>2, <2>2, OneReadLess
    <3> QED
      BY <2>1, <3>1
  <2>4. \A b : AtOffset(d, b) => AtOffset(d, b)'
    BY <2>1, <2>2 DEF AtOffset, SameStory
  <2>5. NoReads(d) => NoReads(d)'
    BY <2>1, <2>2 DEF NoReads, IsRead
  <2> QED
    BY <1>2, <2>1, <2>3, <2>4, <2>5, RetrievalIo
<1> QED
  BY <1>3, <1>4, <1>5 DEF ReadDoes

(* The step of an answer a that is no block of a file of d, or one with    *)
(* nothing in it.                                                          *)
LEMMA GivesRetrieve ==
    ASSUME Basics, NEW d \in Clients, Retrieval(d), SameClient(d), SameStory(d), cmd' = cmd,
           NEW a, NEW s, Gives(a, s), UNCHANGED reads, iopc \in {"reads", "addRes"},
           IsRead(a, d) => client[d].started /\ a.units = <<>> /\ ~a.eof,
           OneRead(d, ioQueue, reads)', ToSet(ioQueue)' \subseteq ToSet(ioQueue)
    PROVE  Retrieval(d)'
<1>1. TypeOK /\ a \in Answers
  BY DEF Basics, Gives
<1>2. /\ serverQueue' = serverQueue \/ serverQueue' = Append(serverQueue, a)
      /\ res' \in {None, a}
      /\ ToSet(serverQueue)' \subseteq ToSet(serverQueue) \cup {a}
  BY <1>1, QueueElements DEF Gives, Resumes
<1>3. \A b : AtOffset(d, b) => AtOffset(d, b)'
  BY DEF AtOffset, SameStory
<1>4. ~client[d].started => (NoReads(d) => NoReads(d)')
  BY <1>2 DEF NoReads, IsRead
<1>5. ASSUME NEW b \in 0 .. story[d].size
      PROVE  Link(d, story[d].cur, story[d].size, a, b, b)
  <2>1. CASE ~IsRead(a, d)
    BY <2>1 DEF Link
  <2>2. CASE IsRead(a, d)
    <3>1. b \in Nat /\ b - b = 0 /\ b <= b
      BY <1>1 DEF TypeOK, StoryRecord
    <3>2. [k \in 1 .. b - b |-> Unit(story[d].cur, b + k)] = <<>>
      BY <3>1
    <3> QED
      BY <2>2, <3>1, <3>2 DEF Link
  <2> QED
    BY <2>1, <2>2
<1>6. CASE ~client[d].started
  BY <1>1, <1>2, <1>3, <1>4, <1>5, <1>6, RetrievalIo
<1>7. CASE client[d].started
  <2>1. PICK b \in 0 .. story[d].size, c \in 0 .. story[d].size :
          /\ story[d].wire = Units(story[d].cur, c)
          /\ Leads(d, story[d].cur, story[d].size, serverQueue, c, b) /\ AtOffset(d, b)
    BY DEF Retrieval, Chained
  <2>2. Leads(d, story[d].cur, story[d].size, serverQueue', c, b)
    <3>1. story[d].size \in Nat /\ serverQueue \in Seq(Answers)
      BY <1>1 DEF TypeOK, StoryRecord
    <3> QED
      BY <1>1, <1>2, <1>5, <2>1, <3>1, LeadsOn
  <2>3. Chained(d)'
    BY <1>3, <2>1, <2>2 DEF Chained, SameStory
  <2> QED
    BY <1>7, <2>3 DEF Retrieval, SameClient, SameStory
<1> QED
  BY <1>6, <1>7

(* ... by the I/O thread,                                                  *)
LEMMA IoRetrieve ==
    ASSUME Basics, Own, NoBlockWaits, Retrieve, IoDoes
    PROVE  Retrieve'
<1>1. TypeOK /\ client' = client /\ cmd' = cmd /\ Recorded(story')
  BY IoRecorded DEF IoDoes, IoUnchanged, Basics, serverVars
<1> SUFFICES ASSUME NotFlushed', NEW d \in Clients, Clean(d)'
             PROVE  Retrieval(d)'
  BY DEF Retrieve
<1>2. Retrieval(d) /\ Clean(d) /\ SameClient(d) /\ SameStory(d)
  BY <1>1 DEF Retrieve, Clean, SameClient, SameStory, Recorded, NotFlushed, IoDoes, IoUnchanged, exitVars
<1>3. OneRead(d, ioQueue, reads) /\ (~client[d].started => NoReads(d))
  BY <1>2 DEF Retrieval
<1>4. CASE IoIdles
  <2>1. UNCHANGED <<reads, serverQueue, ioQueue>> /\ res = None /\ res' = None
    BY <1>1, <1>4 DEF IoIdles, Resumes, TypeOK
  <2> QED
    BY <1>1, <1>2, <2>1, RetrievalKept
<1>5. ASSUME NEW i \in ReadSlots, ReadDoes(i)
      PROVE  Retrieval(d)'
  BY <1>1, <1>2, <1>5, ReadRetrieve
<1>6. CASE ReplyMoves
  <2>1. /\ Gives(res, story) /\ UNCHANGED <<reads, ioQueue>> /\ iopc = "addRes"
        /\ IsRead(res, d) => client[d].started /\ res.units = <<>> /\ ~res.eof
    BY <1>3, <1>6 DEF ReplyMoves, NoBlockWaits, NoReads, IsRead
  <2> QED
    BY <1>1, <1>2, <1>3, <2>1, GivesRetrieve
<1>7. CASE CommandDoes
  <2> DEFINE m == Head(ioQueue)
  <2>1. /\ m \in IoCommands /\ iopc = "reads" /\ res = None /\ ioQueue # <<>> /\ ioQueue' = Tail(ioQueue)
        /\ m \in ToSet(ioQueue) /\ ToSet(ioQueue)' \subseteq ToSet(ioQueue) /\ ioQueue \in Seq(IoCommands)
    BY <1>1, <1>7, QueueElements DEF CommandDoes, Takes, TypeOK
  <2>2. Registers(m) \/ (m.type = "read" /\ Gives(ErrorAnswer(m), story) /\ UNCHANGED reads) \/ Writes(m)
    BY <1>7 DEF CommandDoes
  <2>3. /\ OneRead(d, ioQueue', reads)
        /\ IsRead(m, d) => /\ \A n \in ToSet(ioQueue') : ~IsRead(n, d)
                           /\ \A i \in ReadSlots : ~IsRead(reads[i], d)
    BY <1>3, <2>1, OneReadTail
  <2>4. IsRead(m, d) => client[d].started
    BY <1>3, <2>1 DEF NoReads
  <2> HIDE DEF m
  <2>5. CASE Registers(m)
    <3>1. PICK i \in ReadSlots : reads[i] = None /\ reads' = [reads EXCEPT ![i] = NewRead(m, i)]
      BY <2>5 DEF Registers
    <3> DEFINE a == NewRead(m, i)
    <3>2. a.client = m.client /\ a.type = "read" /\ a.offset = 0 /\ a.size = m.size /\ m.type = "read"
      BY <2>5 DEF NewRead, Registers
    <3> HIDE DEF a
    <3>3. reads'[i] = a /\ \A j \in ReadSlots : j # i => reads'[j] = reads[j]
      BY <1>1, <3>1 DEF TypeOK, a
    <3>4. UNCHANGED serverQueue /\ res' = None
      BY <2>5 DEF Registers, Resumes
    <3>5. IsRead(a, d) => IsRead(m, d)
      BY <2>1, <3>2, NotNone DEF IsRead
    <3>6. CASE ~IsRead(m, d)
      <4>1. \A j \in ReadSlots : IsRead(reads'[j], d) => IsRead(reads[j], d) /\ reads'[j] = reads[j]
        BY <3>3, <3>5, <3>6
      <4>2. OneRead(d, ioQueue, reads)'
        <5>1. OneRead(d, ioQueue', reads')
          BY <2>3, <4>1, OneReadLess
        <5> QED
          BY <5>1
      <4>3. \A b : AtOffset(d, b) => AtOffset(d, b)'
        BY <1>2, <2>1, <4>1 DEF AtOffset, SameStory
      <4>4. NoReads(d) => NoReads(d)'
        BY <2>1, <3>4, <4>1 DEF NoReads, IsRead
      <4> QED
        BY <1>1, <1>2, <3>4, <4>2, <4>3, <4>4, RetrievalIo
    <3>7. CASE IsRead(m, d)
      <4>1. \A n \in ToSet(ioQueue') : ~IsRead(n, d)
        BY <2>3, <3>7
      <4>2. \A j \in ReadSlots : IsRead(reads'[j], d) => j = i
        BY <2>3, <3>3, <3>7
      <4>3. OneRead(d, ioQueue, reads)'
        <5>1. \A j, k \in 1 .. Len(ioQueue') : IsRead(ioQueue'[j], d) /\ IsRead(ioQueue'[k], d) => j = k
          BY <2>3 DEF OneRead
        <5> QED
          BY <4>1, <4>2, <5>1 DEF OneRead
      <4>4. \A b : AtOffset(d, b) => AtOffset(d, b)'
        <5> SUFFICES ASSUME NEW b, AtOffset(d, b)
                     PROVE  AtOffset(d, b)'
          OBVIOUS
        <5>1. b = 0 /\ m.size = story[d].size
          BY <2>1, <3>7 DEF AtOffset
        <5>2. \A j \in ReadSlots : IsRead(reads'[j], d) => reads'[j].offset = b /\ reads'[j].size = story'[d].size
          BY <1>2, <3>2, <3>3, <4>2, <5>1 DEF SameStory
        <5> QED
          BY <4>1, <5>2 DEF AtOffset
      <4>5. ~NoReads(d)
        BY <2>1, <3>7 DEF NoReads
      <4> QED
        BY <1>1, <1>2, <3>4, <4>3, <4>4, <4>5, RetrievalIo
    <3> QED
      BY <3>6, <3>7
  <2>6. ASSUME NEW a, NEW s, Gives(a, s), UNCHANGED reads,
               IsRead(a, d) => IsRead(m, d) /\ a.units = <<>> /\ ~a.eof
        PROVE  Retrieval(d)'
    <3>1. OneRead(d, ioQueue, reads)'
      BY <2>3, <2>6
    <3> QED
      BY <1>1, <1>2, <2>1, <2>4, <2>6, <3>1, GivesRetrieve
  <2>7. CASE m.type = "read" /\ Gives(ErrorAnswer(m), story) /\ UNCHANGED reads
    <3>1. /\ ErrorAnswer(m).client = m.client /\ ErrorAnswer(m).units = <<>>
          /\ ~ErrorAnswer(m).eof
      BY DEF ErrorAnswer
    <3>2. IsRead(ErrorAnswer(m), d) => IsRead(m, d)
      BY <2>1, <2>7, <3>1, NotNone DEF IsRead
    <3> QED
      BY <2>6, <2>7, <3>1, <3>2
  <2>8. CASE Writes(m)
    <3>1. PICK failed \in BOOLEAN :
          \/ Gives(WriteAnswer(m, failed), Wrote(m, failed))
          \/ ~m.eof /\ Resumes /\ UNCHANGED serverQueue
      BY <2>8 DEF Writes
    <3>2. UNCHANGED reads /\ m.type = "write" /\ ~IsRead(m, d)
      BY <2>8 DEF Writes, IsRead
    <3>3. CASE Gives(WriteAnswer(m, failed), Wrote(m, failed))
      <4>1. ~IsRead(WriteAnswer(m, failed), d)
        BY DEF WriteAnswer, IsRead
      <4> QED
        BY <2>6, <3>2, <3>3, <4>1
    <3>4. CASE ~m.eof /\ Resumes /\ UNCHANGED serverQueue
      <4>1. OneRead(d, ioQueue, reads)'
        BY <2>3, <3>2
      <4>2. \A b : AtOffset(d, b) => AtOffset(d, b)'
        BY <1>2, <2>1, <3>2 DEF AtOffset, SameStory
      <4>3. NoReads(d) => NoReads(d)'
        BY <2>1, <3>2, <3>4 DEF NoReads, Resumes, IsRead
      <4> QED
        BY <1>1, <1>2, <3>4, <4>1, <4>2, <4>3, RetrievalIo
    <3> QED
      BY <3>1, <3>3, <3>4
  <2> QED
    BY <2>2, <2>5, <2>7, <2>8
<1> QED
  BY <1>4, <1>5, <1>6, <1>7 DEF IoDoes

(* An answer that waits after a command is no block of a file, as those    *)
(* wait at addRead.                                                        *)
LEMMA NextNoBlockWaits ==
    ASSUME Basics, NoBlockWaits, [Next]_vars
    PROVE  NoBlockWaits'
<1>1. ASSUME UNCHANGED <<iopc, res>>
      PROVE  NoBlockWaits'
  BY <1>1 DEF NoBlockWaits
<1>2. CASE ServerStep
  <2>1. ServerDoes
    BY <1>2, ServerEffects DEF Basics
  <2>2. UNCHANGED <<iopc, res>>
    BY <2>1 DEF ServerDoes, HandleDoes, AddDoes, AddFails, AnswerEnds, AnswerMoves, AnswerFrame, AtAnswer,
       ServerIdles, ServerExit, ioVars
  <2> QED
    BY <1>1, <2>2
<1>3. CASE IoStep
  <2>1. IoDoes
    BY <1>3, IoEffects DEF Basics
  <2>2. CASE IoIdles
    BY <2>2 DEF IoIdles, Resumes, NoBlockWaits
  <2>3. ASSUME NEW i \in ReadSlots, ReadDoes(i)
        PROVE  NoBlockWaits'
    BY <2>3 DEF ReadDoes, ReadStored, ReadWaits, ReadLost, NoBlockWaits
  <2>4. CASE ReplyMoves
    BY <2>4 DEF ReplyMoves, Gives, Resumes, NoBlockWaits
  <2>5. CASE CommandDoes
    <3> DEFINE m == Head(ioQueue)
    <3>1. Registers(m) \/ Gives(ErrorAnswer(m), story) \/ Writes(m)
      BY <2>5 DEF CommandDoes
    <3> HIDE DEF m
    <3>2. ASSUME NEW a, NEW s, Gives(a, s), a.type = "read" => a.units = <<>> /\ ~a.eof /\ a.error
          PROVE  NoBlockWaits'
      <4>1. iopc' = "addRes" => res' = a
        BY <3>2 DEF Gives, Resumes
      <4> QED
        BY <3>2, <4>1 DEF NoBlockWaits
    <3>3. CASE Registers(m)
      BY <3>3 DEF Registers, Resumes, NoBlockWaits
    <3>4. CASE Gives(ErrorAnswer(m), story)
      <4>1. ErrorAnswer(m).units = <<>> /\ ~ErrorAnswer(m).eof /\ ErrorAnswer(m).error
        BY DEF ErrorAnswer
      <4> QED
        BY <3>2, <3>4, <4>1
    <3>5. CASE Writes(m)
      <4>1. PICK failed \in BOOLEAN : Gives(WriteAnswer(m, failed), Wrote(m, failed)) \/ Resumes
        BY <3>5 DEF Writes
      <4>2. WriteAnswer(m, failed).type # "read"
        BY DEF WriteAnswer
      <4>3. Resumes => NoBlockWaits'
        BY DEF Resumes, NoBlockWaits
      <4> QED
        BY <3>2, <4>1, <4>2, <4>3
    <3> QED
      BY <3>1, <3>3, <3>4, <3>5
  <2> QED
    BY <2>1, <2>2, <2>3, <2>4, <2>5 DEF IoDoes
<1>4. CASE ExitStep
  BY <1>1, <1>4 DEF ExitStep, Stop, JoinServer, JoinIo, DrainServer, DrainIo, DeleteQueues, ExitUnchanged, ioVars
<1>5. CASE UNCHANGED vars
  BY <1>1, <1>5 DEF vars, ioVars
<1> QED
  BY <1>2, <1>3, <1>4, <1>5 DEF Next

(* Retrieve is kept by every step.                                         *)
LEMMA NextRetrieve ==
    ASSUME Basics, Basics', Own, NoBlockWaits, Retrieve, [Next]_vars
    PROVE  Retrieve'
<1>1. ASSUME NotFlushed' => NotFlushed /\ UNCHANGED <<client, cmd, res, reads, serverQueue, ioQueue, story>>
      PROVE  Retrieve'
  BY <1>1 DEF Retrieve, Clean, Retrieval, NoReads, Chained, AtOffset
<1>2. CASE ExitStep
  BY <1>1, <1>2, ExitQuiet
<1>3. CASE UNCHANGED vars
  BY <1>1, <1>3 DEF vars, ioVars, serverVars, exitVars, NotFlushed
<1> QED
  BY <1>2, <1>3, ServerRetrieve, IoRetrieve, IoEffects DEF Next, Basics

(* What Ftpd_send_data has sent of a RETR is the beginning of the file: no *)
(* block is missing, twice or before its turn, although the I/O thread     *)
(* reads ahead and waits for room in between.                              *)
THEOREM BytesAreInOrder == Spec => []RetrievedInOrder
<1>1. Init => Basics /\ Own /\ NoBlockWaits /\ Retrieve
  BY InitBasics DEF Init, Own, NoBlockWaits, Retrieve, Clean, NewStory
<1>2. Basics /\ Own /\ NoBlockWaits /\ Retrieve /\ [Next]_vars => (Basics /\ Own /\ NoBlockWaits /\ Retrieve)'
  BY NextBasics, NextOwn, NextNoBlockWaits, NextRetrieve
<1>3. Retrieve => RetrievedInOrder
  BY DEF Retrieve, RetrievedInOrder, Retrieval, Chained, Clean
<1> QED
  BY <1>1, <1>2, <1>3, PTL DEF Spec

-----------------------------------------------------------------------------
(* The data of a STOR on its way: a leads to b along the commands of q     *)
(* when each write of client c begins at the offset in the file at which   *)
(* the one before it ends, and only the first one replaces the file.       *)
Piece(c, x, got, m, a, b) ==
    IF IsWrite(m, c)
    THEN /\ a <= b
         /\ m.units = Stretch(x, a, b - a)
         /\ m.append <=> a > 0
         /\ m.eof => b = got
    ELSE b = a

Passes(c, x, got, q, a, b) ==
    \E f \in [1 .. Len(q) + 1 -> Nat] :
        /\ f[1] = a /\ f[Len(q) + 1] = b
        /\ \A i \in 1 .. Len(q) : Piece(c, x, got, q[i], f[i], f[i + 1])

(* Nothing of the data comes after its end.                                *)
EndIsLast(c, q) ==
    \A i, j \in 1 .. Len(q) : IsWrite(q[i], c) /\ IsWrite(q[j], c) /\ q[i].eof => j <= i

(* What is in the buffer follows on the offset b.                          *)
Buffered(c, b) ==
    /\ b <= story[c].got
    /\ client[c].buffer = Stretch(story[c].cur, b, story[c].got - b)
    /\ ~client[c].eofSent /\ client[c].pending = "STOR" => (client[c].append <=> b > 0)

InFileUpTo(c, a) == a > 0 => story[c].file = Units(story[c].cur, a)

Pieces(c) ==
    \E a, b \in Nat :
        InFileUpTo(c, a) /\ Passes(c, story[c].cur, story[c].got, ioQueue, a, b) /\ Buffered(c, b)

(* The answer about a write that failed is on its way.                     *)
Failing(c) == \E m \in ToSet(serverQueue) \cup {res} : IsWrite(m, c) /\ m.error

(* The end of the data has been written, and nothing of it is missing.     *)
Complete(c) ==
    /\ client[c].eofSent
    /\ \A m \in ToSet(ioQueue) : ~IsWrite(m, c)
    /\ InFileUpTo(c, story[c].got)

NoWrite(c, q) == \A m \in ToSet(q) : ~IsWrite(m, c)

(* The first answer about a write in q says that all went well.            *)
Succeeds(c, q) ==
    \E i \in 1 .. Len(q) :
        IsWrite(q[i], c) /\ ~q[i].error /\ \A j \in 1 .. i - 1 : ~IsWrite(q[j], c)

Storage(c) ==
    /\ \A m \in ToSet(ioQueue) \cup ToSet(serverQueue) \cup {cmd, res} : IsWrite(m, c) => client[c].pending = "STOR"
    /\ IsWrite(cmd, c) => /\ ~client[c].eofSent /\ cmd.units = client[c].buffer
                          /\ cmd.append = client[c].append
                          /\ cmd.eof \/ cmd.units # <<>>
    /\ \A m \in ToSet(ioQueue) : IsWrite(m, c) /\ m.eof => client[c].eofSent
    /\ EndIsLast(c, ioQueue)
    /\ ~story[c].lost =>
          /\ ~Failing(c) => Pieces(c)
          /\ Succeeds(c, serverQueue) => Complete(c)
          /\ IsWrite(res, c) /\ ~res.error /\ NoWrite(c, serverQueue) => Complete(c)

Store == NotFlushed => \A c \in Clients : Clean(c) => Storage(c)

(* A queue without data of the client leads nowhere.                       *)
LEMMA PassesNowhere ==
    ASSUME NEW c, NEW x, NEW got, NEW q \in Seq(IoCommands),
           \A m \in ToSet(q) : ~IsWrite(m, c)
    PROVE  Passes(c, x, got, q, 0, 0)
<1> DEFINE f == [i \in 1 .. Len(q) + 1 |-> 0]
<1>1. f \in [1 .. Len(q) + 1 -> Nat] /\ f[1] = 0 /\ f[Len(q) + 1] = 0
  OBVIOUS
<1>2. ASSUME NEW i \in 1 .. Len(q)
      PROVE  Piece(c, x, got, q[i], f[i], f[i + 1])
  <2>1. q[i] \in ToSet(q)
    BY DEF ToSet
  <2>2. f[i] = 0 /\ f[i + 1] = 0
    OBVIOUS
  <2> QED
    BY <2>1, <2>2 DEF Piece
<1> HIDE DEF f
<1> QED
  BY <1>1, <1>2 DEF Passes

(* Data at the back makes it lead on,                                      *)
LEMMA PassesOn ==
    ASSUME NEW c, NEW x, NEW got, NEW q \in Seq(IoCommands), NEW m \in IoCommands,
           NEW a, NEW b, Passes(c, x, got, q, a, b),
           NEW e \in Nat, Piece(c, x, got, m, b, e)
    PROVE  Passes(c, x, got, Append(q, m), a, e)
<1> DEFINE n == Len(q)
           p == Append(q, m)
<1>1. PICK f \in [1 .. n + 1 -> Nat] :
        /\ f[1] = a /\ f[n + 1] = b
        /\ \A i \in 1 .. n : Piece(c, x, got, q[i], f[i], f[i + 1])
  BY DEF Passes
<1>2. /\ n \in Nat /\ Len(p) = n + 1 /\ p[n + 1] = m
      /\ \A i \in 1 .. n : p[i] = q[i]
  OBVIOUS
<1> HIDE DEF n, p
<1> DEFINE g == [i \in 1 .. n + 2 |-> IF i = n + 2 THEN e ELSE f[i]]
<1>3. /\ g \in [1 .. n + 2 -> Nat] /\ g[1] = a /\ g[n + 2] = e /\ g[n + 1] = b
      /\ \A i \in 1 .. n + 1 : g[i] = f[i]
  BY <1>1, <1>2
<1> HIDE DEF g
<1>4. ASSUME NEW i \in 1 .. n + 1
      PROVE  Piece(c, x, got, p[i], g[i], g[i + 1])
  <2>1. CASE i = n + 1
    BY <1>2, <1>3, <2>1
  <2>2. CASE i # n + 1
    <3>1. i \in 1 .. n /\ i + 1 \in 1 .. n + 1
      BY <1>2, <2>2
    <3> QED
      BY <1>1, <1>2, <1>3, <3>1
  <2> QED
    BY <2>1, <2>2
<1>5. n + 2 = Len(p) + 1
  BY <1>2
<1> QED
  BY <1>2, <1>3, <1>4, <1>5 DEF Passes, p

(* ... and data that is taken makes it lead from where the data ends.      *)
LEMMA PassesFrom ==
    ASSUME NEW c, NEW x, NEW got, NEW q \in Seq(IoCommands), q # <<>>,
           NEW a, NEW b, Passes(c, x, got, q, a, b)
    PROVE  \E e \in Nat : Piece(c, x, got, Head(q), a, e) /\ Passes(c, x, got, Tail(q), e, b)
<1> DEFINE n == Len(q)
           p == Tail(q)
<1>1. PICK f \in [1 .. n + 1 -> Nat] :
        /\ f[1] = a /\ f[n + 1] = b
        /\ \A i \in 1 .. n : Piece(c, x, got, q[i], f[i], f[i + 1])
  BY DEF Passes
<1>2. /\ n \in Nat /\ n > 0 /\ Len(p) = n - 1 /\ Head(q) = q[1]
      /\ \A i \in 1 .. n - 1 : p[i] = q[i + 1]
  OBVIOUS
<1> HIDE DEF n, p
<1> DEFINE g == [i \in 1 .. n |-> f[i + 1]]
<1>3. /\ g \in [1 .. n -> Nat] /\ g[1] = f[2] /\ g[n] = b
      /\ \A i \in 1 .. n : g[i] = f[i + 1]
  BY <1>1, <1>2
<1> HIDE DEF g
<1>4. ASSUME NEW i \in 1 .. n - 1
      PROVE  Piece(c, x, got, p[i], g[i], g[i + 1])
  <2>1. i \in 1 .. n /\ i + 1 \in 1 .. n
    BY <1>2
  <2> QED
    BY <1>1, <1>2, <1>3, <2>1
<1>5. Passes(c, x, got, p, f[2], b)
  <2>1. n = Len(p) + 1 /\ 1 .. Len(p) = 1 .. n - 1
    BY <1>2
  <2> QED
    BY <1>3, <1>4, <2>1 DEF Passes
<1>6. f[2] \in Nat /\ Piece(c, x, got, Head(q), a, f[2])
  BY <1>1, <1>2
<1> QED
  BY <1>5, <1>6 DEF p

(* More may be received as long as the end is not in the queue.            *)
LEMMA PassesMore ==
    ASSUME NEW c, NEW x, NEW got, NEW more, NEW q \in Seq(IoCommands), NEW a, NEW b,
           Passes(c, x, got, q, a, b),
           \A m \in ToSet(q) : IsWrite(m, c) => ~m.eof
    PROVE  Passes(c, x, more, q, a, b)
<1>1. PICK f \in [1 .. Len(q) + 1 -> Nat] :
        /\ f[1] = a /\ f[Len(q) + 1] = b
        /\ \A i \in 1 .. Len(q) : Piece(c, x, got, q[i], f[i], f[i + 1])
  BY DEF Passes
<1>2. ASSUME NEW i \in 1 .. Len(q)
      PROVE  Piece(c, x, more, q[i], f[i], f[i + 1])
  <2>1. q[i] \in ToSet(q)
    BY DEF ToSet
  <2> QED
    BY <1>1, <2>1 DEF Piece
<1> QED
  BY <1>1, <1>2 DEF Passes

(* The first answer about a write, when an answer is taken,                *)
LEMMA SucceedsTail ==
    ASSUME NEW c, NEW q \in Seq(Answers), q # <<>>
    PROVE  /\ ~IsWrite(Head(q), c) /\ Succeeds(c, Tail(q)) => Succeeds(c, q)
           /\ IsWrite(Head(q), c) /\ ~Head(q).error => Succeeds(c, q)
<1> DEFINE p == Tail(q)
<1>1. /\ Len(q) \in Nat /\ Len(q) > 0 /\ Len(p) = Len(q) - 1 /\ Head(q) = q[1]
      /\ \A i \in 1 .. Len(p) : p[i] = q[i + 1]
  OBVIOUS
<1> HIDE DEF p
<1>2. ASSUME ~IsWrite(Head(q), c), Succeeds(c, p)
      PROVE  Succeeds(c, q)
  <2>1. PICK i \in 1 .. Len(p) : IsWrite(p[i], c) /\ ~p[i].error /\ \A j \in 1 .. i - 1 : ~IsWrite(p[j], c)
    BY <1>2 DEF Succeeds
  <2>2. i + 1 \in 1 .. Len(q) /\ q[i + 1] = p[i]
    BY <1>1
  <2>3. ASSUME NEW j \in 1 .. (i + 1) - 1
        PROVE  ~IsWrite(q[j], c)
    <3>1. CASE j = 1
      BY <1>1, <1>2, <3>1
    <3>2. CASE j # 1
      <4>1. j - 1 \in 1 .. i - 1 /\ j - 1 \in 1 .. Len(p) /\ (j - 1) + 1 = j
        BY <1>1, <3>2
      <4> QED
        BY <1>1, <2>1, <4>1
    <3> QED
      BY <3>1, <3>2
  <2> QED
    BY <2>1, <2>2, <2>3 DEF Succeeds
<1>3. ASSUME IsWrite(Head(q), c), ~Head(q).error
      PROVE  Succeeds(c, q)
  <2>1. 1 \in 1 .. Len(q) /\ 1 .. 1 - 1 = {}
    BY <1>1
  <2> QED
    BY <1>1, <1>3, <2>1 DEF Succeeds
<1> QED
  BY <1>2, <1>3 DEF p

(* ... and when one is added.                                              *)
LEMMA SucceedsAppend ==
    ASSUME NEW c, NEW q \in Seq(Answers), NEW m \in Answers, Succeeds(c, Append(q, m))
    PROVE  Succeeds(c, q) \/ (IsWrite(m, c) /\ ~m.error /\ NoWrite(c, q))
<1> DEFINE p == Append(q, m)
<1>1. /\ Len(q) \in Nat /\ Len(p) = Len(q) + 1 /\ p[Len(q) + 1] = m
      /\ \A i \in 1 .. Len(q) : p[i] = q[i]
  OBVIOUS
<1> HIDE DEF p
<1>2. PICK i \in 1 .. Len(p) : IsWrite(p[i], c) /\ ~p[i].error /\ \A j \in 1 .. i - 1 : ~IsWrite(p[j], c)
  BY DEF Succeeds, p
<1>3. CASE i \in 1 .. Len(q)
  <2>1. \A j \in 1 .. i - 1 : j \in 1 .. Len(q)
    BY <1>1, <1>3
  <2> QED
    BY <1>1, <1>2, <1>3, <2>1 DEF Succeeds
<1>4. CASE i = Len(q) + 1
  <2>1. \A j \in 1 .. Len(q) : j \in 1 .. i - 1
    BY <1>1, <1>4
  <2>2. NoWrite(c, q)
    BY <1>1, <1>2, <2>1 DEF NoWrite, ToSet
  <2> QED
    BY <1>1, <1>2, <1>4, <2>2
<1> QED
  BY <1>1, <1>3, <1>4

(* The end of the data is the last of it, when a command is taken,         *)
LEMMA EndIsLastTail ==
    ASSUME NEW c, NEW q \in Seq(IoCommands), q # <<>>, EndIsLast(c, q)
    PROVE  /\ EndIsLast(c, Tail(q))
           /\ IsWrite(Head(q), c) /\ Head(q).eof => NoWrite(c, Tail(q))
<1> DEFINE p == Tail(q)
<1>1. /\ Len(q) \in Nat /\ Len(q) > 0 /\ Len(p) = Len(q) - 1 /\ Head(q) = q[1]
      /\ \A i \in 1 .. Len(p) : p[i] = q[i + 1] /\ i + 1 \in 1 .. Len(q)
      /\ 1 \in 1 .. Len(q)
  OBVIOUS
<1>2. \A m \in ToSet(p) : \E i \in 1 .. Len(p) : m = p[i]
  BY DEF ToSet
<1> HIDE DEF p
<1>3. ASSUME NEW i \in 1 .. Len(p), NEW j \in 1 .. Len(p), IsWrite(p[i], c), IsWrite(p[j], c), p[i].eof
      PROVE  j <= i
  <2>1. j + 1 <= i + 1
    BY <1>1, <1>3 DEF EndIsLast
  <2> QED
    BY <2>1
<1>4. ASSUME IsWrite(Head(q), c), Head(q).eof, NEW m \in ToSet(p), IsWrite(m, c)
      PROVE  FALSE
  <2>1. PICK i \in 1 .. Len(p) : m = p[i]
    BY <1>2
  <2>2. i + 1 <= 1
    BY <1>1, <1>4, <2>1 DEF EndIsLast
  <2> QED
    BY <1>1, <2>2
<1> QED
  BY <1>3, <1>4 DEF EndIsLast, NoWrite, p

(* ... and when one is added.                                              *)
LEMMA EndIsLastAppend ==
    ASSUME NEW c, NEW q \in Seq(IoCommands), NEW m \in IoCommands, EndIsLast(c, q),
           IsWrite(m, c) => \A n \in ToSet(q) : IsWrite(n, c) => ~n.eof
    PROVE  EndIsLast(c, Append(q, m))
<1> DEFINE p == Append(q, m)
<1>1. /\ Len(q) \in Nat /\ Len(p) = Len(q) + 1 /\ p[Len(q) + 1] = m
      /\ \A i \in 1 .. Len(q) : p[i] = q[i]
  OBVIOUS
<1>2. \A i \in 1 .. Len(q) : q[i] \in ToSet(q)
  BY DEF ToSet
<1> HIDE DEF p
<1>3. ASSUME NEW i \in 1 .. Len(p), NEW j \in 1 .. Len(p), IsWrite(p[i], c), IsWrite(p[j], c), p[i].eof
      PROVE  j <= i
  <2>1. CASE i = Len(q) + 1
    BY <1>1, <2>1
  <2>2. CASE i \in 1 .. Len(q) /\ j \in 1 .. Len(q)
    BY <1>1, <1>3, <2>2 DEF EndIsLast
  <2>3. CASE i \in 1 .. Len(q) /\ j = Len(q) + 1
    BY <1>1, <1>2, <1>3, <2>3
  <2> QED
    BY <1>1, <2>1, <2>2, <2>3
<1> QED
  BY <1>3 DEF EndIsLast, p

(* What Storage says of a client and its transfer is as it was.            *)
SameStore(d) ==
    /\ client'[d].pending = client[d].pending /\ client'[d].eofSent = client[d].eofSent
    /\ client'[d].append = client[d].append /\ client'[d].buffer = client[d].buffer
    /\ story'[d].cur = story[d].cur /\ story'[d].got = story[d].got
    /\ story'[d].file = story[d].file /\ story'[d].lost = story[d].lost

(* The server thread handles something that is not about the data of d.    *)
LEMMA StorageKept ==
    ASSUME TypeOK, NEW d \in Clients, Storage(d), SameStore(d), res' = res,
           ioQueue' = ioQueue \/ \E m \in IoCommands : ~IsWrite(m, d) /\ ioQueue' = Append(ioQueue, m),
           cmd' = cmd \/ ~IsWrite(cmd', d),
           \/ serverQueue' = serverQueue
           \/ serverQueue # <<>> /\ serverQueue' = Tail(serverQueue) /\ ~IsWrite(Head(serverQueue), d)
    PROVE  Storage(d)'
<1>1. ioQueue \in Seq(IoCommands) /\ serverQueue \in Seq(Answers)
  BY DEF TypeOK
<1>2. \A m \in ToSet(ioQueue)' : IsWrite(m, d) => m \in ToSet(ioQueue)
  <2>1. ASSUME NEW m \in IoCommands, ioQueue' = Append(ioQueue, m)
        PROVE  ToSet(ioQueue)' = ToSet(ioQueue) \cup {m}
    BY <2>1, QueueElements
  <2> QED
    BY <2>1
<1>3. /\ ToSet(serverQueue)' \subseteq ToSet(serverQueue)
      /\ \A m \in ToSet(serverQueue) : IsWrite(m, d) => m \in ToSet(serverQueue)'
      /\ Succeeds(d, serverQueue') => Succeeds(d, serverQueue)
  <2>1. CASE serverQueue' = serverQueue
    BY <2>1
  <2>2. CASE serverQueue # <<>> /\ serverQueue' = Tail(serverQueue) /\ ~IsWrite(Head(serverQueue), d)
    BY <1>1, <2>2, QueueElements, SucceedsTail
  <2> QED
    BY <2>1, <2>2
<1>4. EndIsLast(d, ioQueue')
  <2>1. EndIsLast(d, ioQueue)
    BY DEF Storage
  <2> QED
    BY <1>1, <2>1, EndIsLastAppend
<1>5. ASSUME NEW a, NEW b \in Nat, Passes(d, story[d].cur, story[d].got, ioQueue, a, b)
      PROVE  Passes(d, story[d].cur, story[d].got, ioQueue', a, b)
  <2>1. CASE ioQueue' = ioQueue
    BY <1>5, <2>1
  <2>2. ASSUME NEW m \in IoCommands, ~IsWrite(m, d), ioQueue' = Append(ioQueue, m)
        PROVE  Passes(d, story[d].cur, story[d].got, ioQueue', a, b)
    <3>1. Piece(d, story[d].cur, story[d].got, m, b, b)
      BY <2>2 DEF Piece
    <3> QED
      BY <1>1, <1>5, <2>2, <3>1, PassesOn
  <2> QED
    BY <2>1, <2>2
<1>6. \A b : Buffered(d, b) => Buffered(d, b)'
  BY DEF Buffered, SameStore
<1>7. \A a : InFileUpTo(d, a) => InFileUpTo(d, a)'
  BY DEF InFileUpTo, SameStore
<1>8. Pieces(d) => Pieces(d)'
  <2> SUFFICES ASSUME NEW a \in Nat, NEW b \in Nat, InFileUpTo(d, a), Buffered(d, b),
                      Passes(d, story[d].cur, story[d].got, ioQueue, a, b)
               PROVE  Pieces(d)'
    BY DEF Pieces
  <2>1. Passes(d, story'[d].cur, story'[d].got, ioQueue', a, b)
    BY <1>5 DEF SameStore
  <2> QED
    BY <1>6, <1>7, <2>1 DEF Pieces
<1>9. Complete(d) => Complete(d)'
  BY <1>2, <1>7 DEF Complete, SameStore
<1>10. Failing(d) => Failing(d)'
  BY <1>3 DEF Failing
<1>11. NoWrite(d, serverQueue') => NoWrite(d, serverQueue)
  BY <1>3 DEF NoWrite
<1>12. \A m \in (ToSet(ioQueue) \cup ToSet(serverQueue) \cup {cmd, res})' : IsWrite(m, d) => client'[d].pending = "STOR"
  BY <1>2, <1>3 DEF Storage, SameStore
<1>13. IsWrite(cmd', d) => cmd' = cmd
  OBVIOUS
<1> QED
  BY <1>2, <1>3, <1>4, <1>8, <1>9, <1>10, <1>11, <1>12, <1>13 DEF Storage, SameStore

(* Data that follows on what is in the buffer.                             *)
LEMMA StretchOn ==
    ASSUME NEW x \in Nat, NEW b \in Nat, NEW got \in Nat, NEW n \in Nat, b <= got
    PROVE  Joined(Stretch(x, b, got - b), Stretch(x, got, n)) = Stretch(x, b, got + n - b)
<1>1. got - b \in Nat /\ got + n - b \in Nat /\ got = b + (got - b) /\ got + n - b = (got - b) + n
  OBVIOUS
<1> QED
  BY <1>1, UnitsAfter

(* Data received follows on what is in the buffer.                         *)
LEMMA BufferOn ==
    ASSUME TypeOK, NEW d \in Clients, NEW n \in Nat, NEW b \in Nat, Buffered(d, b)
    PROVE  Joined(client[d].buffer, Stretch(story[d].cur, story[d].got, n))
              = Stretch(story[d].cur, b, story[d].got + n - b)
<1>1. story[d].cur \in Nat /\ story[d].got \in Nat
  BY DEF TypeOK, StoryRecord
<1>2. b <= story[d].got /\ client[d].buffer = Stretch(story[d].cur, b, story[d].got - b)
  BY DEF Buffered
<1>3. Joined(Stretch(story[d].cur, b, story[d].got - b), Stretch(story[d].cur, story[d].got, n))
         = Stretch(story[d].cur, b, story[d].got + n - b)
  <2>1. PICK x \in Nat, got \in Nat : x = story[d].cur /\ got = story[d].got
    BY <1>1
  <2>2. b <= got
    BY <1>2, <2>1
  <2>3. Joined(Stretch(x, b, got - b), Stretch(x, got, n)) = Stretch(x, b, got + n - b)
    BY <2>2, StretchOn
  <2> QED
    BY <2>1, <2>3
<1> QED
  BY <1>2, <1>3

(* Data of d is received, and kept or about to be passed on.               *)
LEMMA StorageReceived ==
    ASSUME TypeOK, NEW d \in Clients, Storage(d), UNCHANGED <<ioQueue, serverQueue, res>>, cmd = None,
           NEW n \in Nat, ~client[d].eofSent, client[d].pending = "STOR",
           client'[d].pending = client[d].pending, client'[d].eofSent = client[d].eofSent,
           client'[d].append = client[d].append,
           client'[d].buffer = Joined(client[d].buffer, Stretch(story[d].cur, story[d].got, n)),
           story'[d].got = story[d].got + n,
           story'[d].cur = story[d].cur, story'[d].file = story[d].file, story'[d].lost = story[d].lost,
           IsWrite(cmd', d) => /\ cmd'.units = client'[d].buffer /\ cmd'.append = client[d].append
                               /\ cmd'.eof \/ cmd'.units # <<>>
    PROVE  Storage(d)'
<1>1. ioQueue \in Seq(IoCommands) /\ story[d].got \in Nat
  BY DEF TypeOK, StoryRecord
<1>2. \A m \in ToSet(ioQueue) : IsWrite(m, d) => ~m.eof
  BY DEF Storage
<1>3. ~Complete(d)
  BY DEF Complete
<1>4. \A a : InFileUpTo(d, a) => InFileUpTo(d, a)'
  BY DEF InFileUpTo
<1>5. \A b \in Nat : Buffered(d, b) => Buffered(d, b)'
  <2> SUFFICES ASSUME NEW b \in Nat, Buffered(d, b)
               PROVE  Buffered(d, b)'
    OBVIOUS
  <2>1. client'[d].buffer = Stretch(story'[d].cur, b, story'[d].got - b)
    <3>1. Joined(client[d].buffer, Stretch(story[d].cur, story[d].got, n))
              = Stretch(story[d].cur, b, story[d].got + n - b)
      BY BufferOn
    <3>2. client'[d].buffer = Stretch(story[d].cur, b, story[d].got + n - b)
      BY <3>1
    <3> QED
      BY <1>1, <3>2
  <2>2. b <= story'[d].got
    BY <1>1 DEF Buffered
  <2> QED
    BY <2>1, <2>2 DEF Buffered
<1>6. Pieces(d) => Pieces(d)'
  <2> SUFFICES ASSUME NEW a \in Nat, NEW b \in Nat, InFileUpTo(d, a), Buffered(d, b),
                      Passes(d, story[d].cur, story[d].got, ioQueue, a, b)
               PROVE  Pieces(d)'
    BY DEF Pieces
  <2>1. Passes(d, story'[d].cur, story'[d].got, ioQueue', a, b)
    BY <1>1, <1>2, PassesMore
  <2> QED
    BY <1>4, <1>5, <2>1 DEF Pieces
<1>7. Failing(d) => Failing(d)'
  BY DEF Failing
<1> QED
  BY <1>3, <1>6, <1>7 DEF Storage

(* A write of d gets into the queue of the I/O thread.                     *)
LEMMA StorageQueued ==
    ASSUME TypeOK, TypeOK', NEW d \in Clients, Storage(d), UNCHANGED <<serverQueue, res>>, cmd' = None,
           ~client[d].eofSent, client[d].pending = "STOR",
           NEW m \in IoCommands, IsWrite(m, d), m.eof \/ m.units # <<>>, ioQueue' = Append(ioQueue, m),
           client'[d].pending = client[d].pending, client'[d].eofSent = m.eof,
           client'[d].append = TRUE, client'[d].buffer = <<>>,
           story'[d].cur = story[d].cur, story'[d].file = story[d].file, story'[d].lost = story[d].lost,
           \A b \in Nat : Buffered(d, b) =>
              /\ b <= story'[d].got /\ (m.append <=> b > 0)
              /\ m.units = Stretch(story[d].cur, b, story'[d].got - b)
    PROVE  Storage(d)'
<1> DEFINE got == story'[d].got
           x == story[d].cur
<1>1. ioQueue \in Seq(IoCommands) /\ got \in Nat /\ ToSet(ioQueue)' = ToSet(ioQueue) \cup {m}
  BY QueueElements DEF TypeOK, StoryRecord
<1>2. \A n \in ToSet(ioQueue) : IsWrite(n, d) => ~n.eof
  BY DEF Storage
<1>3. ~Complete(d)
  BY DEF Complete
<1>4. EndIsLast(d, ioQueue')
  BY <1>1, <1>2, EndIsLastAppend DEF Storage
<1>5. Pieces(d) => Pieces(d)'
  <2> SUFFICES ASSUME NEW a \in Nat, NEW b \in Nat, InFileUpTo(d, a), Buffered(d, b),
                      Passes(d, x, story[d].got, ioQueue, a, b)
               PROVE  Pieces(d)'
    BY DEF Pieces
  <2>1. b <= got /\ (m.append <=> b > 0) /\ m.units = Stretch(x, b, got - b)
    OBVIOUS
  <2>2. Passes(d, x, got, ioQueue, a, b)
    BY <1>1, <1>2, PassesMore
  <2>3. Piece(d, x, got, m, b, got)
    BY <2>1 DEF Piece
  <2>4. Passes(d, x, got, Append(ioQueue, m), a, got)
    BY <1>1, <2>2, <2>3, PassesOn
  <2>5. InFileUpTo(d, a)'
    BY DEF InFileUpTo
  <2>6. PICK e \in Nat : e = got
    BY <1>1
  <2>7. Buffered(d, e)'
    <3>1. e - e = 0 /\ e <= e /\ Stretch(x, e, e - e) = <<>>
      BY DEF Stretch
    <3>2. client'[d].buffer = Stretch(story'[d].cur, e, story'[d].got - e)
      BY <2>6, <3>1
    <3>3. ~client'[d].eofSent => e > 0
      <4> SUFFICES ASSUME ~m.eof, e = 0
                   PROVE  FALSE
        BY <1>1, <2>6
      <4>1. b = 0 /\ m.units = Stretch(x, b, 0)
        BY <2>1, <2>6
      <4>2. Stretch(x, b, 0) = <<>>
        BY DEF Stretch
      <4> QED
        BY <4>1, <4>2
    <3> QED
      BY <2>6, <3>1, <3>2, <3>3 DEF Buffered
  <2>8. Passes(d, story'[d].cur, story'[d].got, ioQueue', a, e)
    BY <2>4, <2>6
  <2> QED
    BY <2>5, <2>7, <2>8 DEF Pieces
<1>6. Failing(d) => Failing(d)'
  BY DEF Failing
<1>7. \A n \in (ToSet(ioQueue) \cup ToSet(serverQueue) \cup {cmd, res})' : IsWrite(n, d) => client'[d].pending = "STOR"
  BY <1>1 DEF Storage, IsWrite
<1>8. \A n \in ToSet(ioQueue)' : IsWrite(n, d) /\ n.eof => client'[d].eofSent
  BY <1>1, <1>2
<1>9. ~IsWrite(cmd', d)
  BY DEF IsWrite
<1> QED
  BY <1>3, <1>4, <1>5, <1>6, <1>7, <1>8, <1>9 DEF Storage

(* Data received is something.                                             *)
LEMMA SomethingJoined ==
    ASSUME NEW s \in Seq(Nat \X Nat), NEW x \in Nat, NEW o \in Nat, NEW n \in Nat, n # 0
    PROVE  Joined(s, Stretch(x, o, n)) # <<>>
<1> DEFINE t == Stretch(x, o, n)
<1>1. t \in Seq(Nat \X Nat) /\ Len(t) = n
  <2>1. \A k \in 1 .. n : Unit(x, o + k) \in Nat \X Nat
    BY DEF Unit
  <2> QED
    BY <2>1 DEF Stretch
<1> HIDE DEF t
<1>2. Len(s \o t) = Len(s) + Len(t) /\ Len(s) \in Nat
  <2>1. s \in Seq(Nat \X Nat) /\ t \in Seq(Nat \X Nat)
    BY <1>1
  <2>2. Len(s \o t) = Len(s) + Len(t)
    BY <2>1, ConcatProperties
  <2> QED
    BY <2>1, <2>2
<1>3. Len(s \o t) # 0
  BY <1>1, <1>2
<1> QED
  BY <1>3 DEF Joined, t

(* A transfer of which there is nothing yet.                               *)
LEMMA StorageNew ==
    ASSUME TypeOK', NEW d \in Clients,
           \A m \in (ToSet(ioQueue) \cup ToSet(serverQueue) \cup {cmd, res})' : ~IsWrite(m, d),
           ~client'[d].eofSent, client'[d].buffer = <<>>, story'[d].got = 0,
           client'[d].pending = "STOR" => ~client'[d].append
    PROVE  Storage(d)'
<1>1. ioQueue' \in Seq(IoCommands) /\ serverQueue' \in Seq(Answers)
  BY DEF TypeOK
<1>2. Pieces(d)'
  <2>1. Passes(d, story'[d].cur, story'[d].got, ioQueue', 0, 0)
    <3> DEFINE q == ioQueue'
               x == story'[d].cur
               got == story'[d].got
    <3>1. q \in Seq(IoCommands) /\ \A m \in ToSet(q) : ~IsWrite(m, d)
      BY <1>1
    <3> HIDE DEF q, x, got
    <3>2. Passes(d, x, got, q, 0, 0)
      BY <3>1, PassesNowhere
    <3> QED
      BY <3>2 DEF q, x, got
  <2>2. Buffered(d, 0)'
    <3>1. Stretch(story'[d].cur, 0, 0 - 0) = <<>>
      BY DEF Stretch
    <3> QED
      BY <3>1 DEF Buffered
  <2>3. InFileUpTo(d, 0)'
    BY DEF InFileUpTo
  <2> QED
    BY <2>1, <2>2, <2>3 DEF Pieces
<1>3. EndIsLast(d, ioQueue')
  <2>1. \A i \in 1 .. Len(ioQueue') : ioQueue'[i] \in ToSet(ioQueue')
    BY DEF ToSet
  <2> QED
    BY <2>1 DEF EndIsLast
<1>4. ~Succeeds(d, serverQueue')
  <2>1. \A i \in 1 .. Len(serverQueue') : serverQueue'[i] \in ToSet(serverQueue')
    BY DEF ToSet
  <2> QED
    BY <2>1 DEF Succeeds
<1> QED
  BY <1>2, <1>3, <1>4 DEF Storage

(* Store is kept at the handles,                                           *)
LEMMA HandleStore ==
    ASSUME Basics, Basics', Store, HandleDoes
    PROVE  Store'
<1> SUFFICES ASSUME NotFlushed', NEW d \in Clients, Clean(d)'
             PROVE  Storage(d)'
  BY DEF Store
<1>1. PICK c \in Clients :
          \/ Calm(c)
          \/ Rests(c) /\ UNCHANGED <<spc, cmd, ioQueue>>
          \/ Starts(c)
          \/ Receives(c)
  BY DEF HandleDoes
<1>2. UNCHANGED <<res, serverQueue>> /\ spc = "events" /\ TypeOK /\ TypeOK' /\ NotFlushed /\ cmd = None
  BY DEF HandleDoes, Basics, TypeOK, ioVars, exitVars, NotFlushed
<1>3. Clean(d) => Storage(d)
  BY <1>2 DEF Store
<1>4. /\ ioQueue' = ioQueue \/ \E m \in IoCommands : m.client = c /\ ioQueue' = Append(ioQueue, m)
      /\ cmd' = cmd \/ cmd'.client = c
      /\ d # c => client'[d] = client[d] /\ story'[d] = story[d]
  <2>1. Kept(c)
    BY <1>1, <1>2, CalmKept, RestsKept, StartsKept, ReceivesKept
  <2> QED
    BY <1>1, <2>1 DEF Calm, Starts, Receives, Queues, Kept
<1>5. CASE d # c
  <2>1. SameStore(d) /\ Clean(d)
    BY <1>4, <1>5 DEF SameStore, Clean
  <2>2. ioQueue' = ioQueue \/ \E m \in IoCommands : ~IsWrite(m, d) /\ ioQueue' = Append(ioQueue, m)
    BY <1>4, <1>5 DEF IsWrite
  <2>3. cmd' = cmd \/ ~IsWrite(cmd', d)
    BY <1>4, <1>5 DEF IsWrite
  <2> QED
    BY <1>2, <1>3, <2>1, <2>2, <2>3, StorageKept
<1>6. CASE d = c /\ Calm(c)
  <2>1. SameStore(c) /\ UNCHANGED <<story, cmd, ioQueue>>
    BY <1>2, <1>6 DEF Calm, TypeOK, SameStore
  <2> QED
    BY <1>2, <1>3, <1>6, <2>1, StorageKept DEF Clean
<1>7. CASE d = c /\ Rests(c)
  <2>1. story'[c].cur = 0
    BY <1>2, <1>7, SetsTypes DEF Rests
  <2> QED
    BY <1>7, <2>1 DEF Clean
<1>8. CASE d = c /\ Starts(c)
  <2>1. PICK cl \in ClientRecord, s \in StoryRecord :
        /\ Fresh(c, cl, s)
        /\ \/ Queues(c, ReadCommand(c, s), cl, s)
           \/ Sets(c, cl, s) /\ UNCHANGED <<spc, cmd, ioQueue>>
    BY <1>8 DEF Starts
  <2> DEFINE m == ReadCommand(c, s)
  <2>2. m.type = "read" /\ ~IsWrite(m, c)
    BY DEF ReadCommand, IsWrite
  <2> HIDE DEF m
  <2>3. Stored(cl, m) = [cl EXCEPT !.started = TRUE]
    BY <2>2 DEF Stored
  <2>4. /\ story'[c] = s
        /\ client'[c].pending = cl.pending /\ client'[c].eofSent = cl.eofSent
        /\ client'[c].append = cl.append /\ client'[c].buffer = cl.buffer
    <3>1. Sets(c, Stored(cl, m), s) \/ Sets(c, cl, s)
      BY <2>1 DEF Queues, m
    <3>2. story'[c] = s /\ (client'[c] = Stored(cl, m) \/ client'[c] = cl)
      BY <1>2, <3>1, SetsTypes
    <3> QED
      BY <2>3, <3>2 DEF ClientRecord
  <2>5. /\ cmd' = cmd \/ cmd' = m
        /\ ioQueue' = ioQueue \/ (m \in IoCommands /\ ioQueue' = Append(ioQueue, m))
    BY <2>1 DEF Queues, m
  <2>6. CASE (\E size \in Nat : s = Begin(c, size)) /\ (cl.pending = "STOR" => ~cl.append)
    <3>1. NothingLeftOf(c) /\ s.got = 0
      BY <1>2, <1>8, <2>4, <2>6, BeginTypes DEF Clean
    <3>2. \A o \in ToSet(ioQueue) \cup ToSet(serverQueue) \cup {cmd, res} : ~IsWrite(o, c)
      BY <1>2, <3>1 DEF NothingLeftOf, IsWrite
    <3>3. \A o \in (ToSet(ioQueue) \cup ToSet(serverQueue) \cup {cmd, res})' : ~IsWrite(o, c)
      <4>1. ToSet(ioQueue)' \subseteq ToSet(ioQueue) \cup {m}
        BY <1>2, <2>5, QueueElements
      <4> QED
        BY <1>2, <2>2, <2>5, <3>2, <4>1
    <3>4. ~cl.eofSent /\ cl.buffer = <<>> /\ (cl.pending = "STOR" => ~cl.append)
      BY <2>1, <2>6, <3>1 DEF Fresh, NothingLeftOf
    <3> QED
      BY <1>2, <1>8, <2>4, <3>1, <3>3, <3>4, StorageNew
  <2>7. CASE s = [story[c] EXCEPT !.wire = <<>>] /\ client[c].pending = cl.pending /\ cl.append = client[c].append
    <3>1. SameStore(c)
      <4>1. /\ s.cur = story[c].cur /\ s.got = story[c].got /\ s.file = story[c].file
            /\ s.lost = story[c].lost /\ s.clean = story[c].clean
        BY <1>2, <2>7 DEF TypeOK, StoryRecord
      <4> QED
        BY <2>1, <2>4, <2>7, <4>1 DEF Fresh, SameStore
    <3>2. Storage(c)
      BY <1>2, <1>3, <1>8, <2>4, <2>7 DEF Clean, TypeOK, StoryRecord
    <3> QED
      BY <1>2, <1>8, <2>2, <2>5, <3>1, <3>2, StorageKept
  <2> QED
    BY <2>1, <2>6, <2>7 DEF Fresh
<1>9. CASE d = c /\ Receives(c)
  <2>0. PICK n \in Nat : \E b, cl, s :
          /\ b = client[c].buffer \o [k \in 1 .. n |-> Unit(story[c].cur, story[c].got + k)]
          /\ cl = [client[c] EXCEPT !.buffer = b]
          /\ s = [story[c] EXCEPT !.got = @ + n]
          /\ \/ Queues(c, WriteCommand(c, b, n), cl, s)
             \/ Sets(c, cl, s) /\ UNCHANGED <<spc, cmd, ioQueue>>
    BY <1>9 DEF Receives
  <2>1. PICK b, cl, s :
          /\ b = client[c].buffer \o [k \in 1 .. n |-> Unit(story[c].cur, story[c].got + k)]
          /\ cl = [client[c] EXCEPT !.buffer = b]
          /\ s = [story[c] EXCEPT !.got = @ + n]
          /\ \/ Queues(c, WriteCommand(c, b, n), cl, s)
             \/ Sets(c, cl, s) /\ UNCHANGED <<spc, cmd, ioQueue>>
    BY <2>0
  <2>2. ~client[c].eofSent /\ client[c].pending = "STOR" /\ client[c] \in ClientRecord /\ story[c] \in StoryRecord
    BY <1>2, <1>9 DEF Receives, TypeOK
  <2>3. b = Joined(client[c].buffer, Stretch(story[c].cur, story[c].got, n))
    BY <2>1 DEF Joined, Stretch
  <2>4. story'[c] = s /\ (Sets(c, cl, s) => client'[c] = cl)
    <3>1. \E cl2 : Sets(c, cl2, s)
      BY <2>1 DEF Queues
    <3> QED
      BY <1>2, <3>1, SetsTypes
  <2>5. /\ story'[c].cur = story[c].cur /\ story'[c].clean = story[c].clean /\ story'[c].file = story[c].file
        /\ story'[c].lost = story[c].lost /\ story'[c].got = story[c].got + n
    BY <2>1, <2>2, <2>4 DEF StoryRecord
  <2>6. /\ cl.pending = client[c].pending /\ cl.eofSent = client[c].eofSent
        /\ cl.append = client[c].append /\ cl.buffer = b
    BY <2>1, <2>2 DEF ClientRecord
  <2>7. Storage(c)
    BY <1>3, <1>9, <2>5 DEF Clean
  <2> DEFINE m == WriteCommand(c, b, n)
  <2>8. m.type = "write" /\ m.client = c /\ m.units = b /\ m.append = client[c].append /\ m.eof = (n = 0)
    BY DEF WriteCommand
  <2> HIDE DEF m
  <2>9. m.eof \/ m.units # <<>>
    <3>1. client[c].buffer \in Seq(Nat \X Nat) /\ story[c].cur \in Nat /\ story[c].got \in Nat
      BY <2>2 DEF ClientRecord, StoryRecord
    <3> QED
      BY <2>3, <2>8, <3>1, SomethingJoined
  <2>10. ASSUME UNCHANGED ioQueue, client'[c] = cl,
                IsWrite(cmd', c) => /\ cmd'.units = b /\ cmd'.append = client[c].append
                                    /\ cmd'.eof \/ cmd'.units # <<>>
         PROVE  Storage(c)'
    BY <1>2, <2>2, <2>3, <2>5, <2>6, <2>7, <2>10, StorageReceived
  <2>11. CASE Queues(c, m, cl, s)
    <3>1. m \in IoCommands
      BY <2>11 DEF Queues
    <3>2. CASE /\ ioQueue' = Append(ioQueue, m)
               /\ Sets(c, Stored(cl, m), s) /\ UNCHANGED <<spc, cmd>>
      <4>1. client'[c] = Stored(cl, m)
        BY <1>2, <3>2, SetsTypes
      <4>2. /\ client'[c].pending = client[c].pending /\ client'[c].eofSent = m.eof
            /\ client'[c].append = TRUE /\ client'[c].buffer = <<>>
        <5>1. Stored(cl, m) = [cl EXCEPT !.append = TRUE, !.buffer = <<>>, !.eofSent = m.eof]
          BY <2>8 DEF Stored
        <5>2. cl = [client[c] EXCEPT !.buffer = b]
          BY <2>1
        <5> QED
          BY <2>2, <4>1, <5>1, <5>2 DEF ClientRecord
      <4>3. IsWrite(m, c)
        BY <2>8, <3>1, NotNone DEF IsWrite
      <4>4. ASSUME NEW o \in Nat, Buffered(c, o)
            PROVE  /\ o <= story'[c].got /\ (m.append <=> o > 0)
                   /\ m.units = Stretch(story[c].cur, o, story'[c].got - o)
        <5>1. o <= story[c].got /\ (client[c].append <=> o > 0) /\ story[c].got \in Nat
          BY <2>2, <4>4 DEF Buffered, StoryRecord
        <5>2. b = Stretch(story[c].cur, o, story[c].got + n - o)
          BY <1>2, <2>3, <4>4, BufferOn
        <5> QED
          BY <2>5, <2>8, <5>1, <5>2
      <4>5. cmd' = None
        BY <1>2, <3>2
      <4> QED
        BY <1>2, <1>9, <2>2, <2>5, <2>7, <2>9, <3>1, <3>2, <4>2, <4>3, <4>4, <4>5, StorageQueued
    <3>3. CASE /\ cmd' = m /\ UNCHANGED ioQueue
               /\ Sets(c, cl, s)
      BY <1>9, <2>4, <2>8, <2>9, <2>10, <3>3
    <3> QED
      BY <2>11, <3>2, <3>3 DEF Queues
  <2>12. CASE Sets(c, cl, s) /\ UNCHANGED <<cmd, ioQueue>>
    BY <1>2, <1>9, <2>4, <2>10, <2>12 DEF IsWrite
  <2> QED
    BY <2>1, <2>11, <2>12 DEF m
<1> QED
  BY <1>1, <1>5, <1>6, <1>7, <1>8, <1>9

(* ... and so by the server thread.                                        *)
LEMMA ServerStore ==
    ASSUME Basics, Basics', Store, ServerStep
    PROVE  Store'
<1>1. ServerDoes /\ TypeOK /\ TypeOK'
  BY ServerEffects DEF Basics
<1> SUFFICES ASSUME ~HandleDoes, NotFlushed', NEW d \in Clients, Clean(d)'
             PROVE  Storage(d)'
  BY HandleStore DEF Store
<1>2. NotFlushed /\ UNCHANGED res
  BY <1>1 DEF ServerDoes, AddDoes, AddFails, AnswerEnds, AnswerMoves, AnswerFrame, AtAnswer, ServerIdles, ServerExit,
     ioVars, exitVars, NotFlushed
<1>3. Clean(d) => Storage(d)
  BY <1>2 DEF Store
<1>4. ASSUME NEW c \in Clients, Rests(c)
      PROVE  d # c /\ SameStore(d) /\ Storage(d)
  <2>1. PICK cl, s : Sets(c, cl, s) /\ s.cur = 0
    BY <1>4 DEF Rests
  <2>2. /\ story'[c].cur = 0
        /\ \A e \in Clients : e # c => story'[e] = story[e] /\ client'[e] = client[e]
    BY <1>1, <2>1, SetsTypes
  <2>3. d # c /\ story'[d] = story[d] /\ client'[d] = client[d]
    BY <2>2 DEF Clean
  <2> QED
    BY <1>3, <2>3 DEF Clean, SameStore
<1>5. CASE AddDoes
  <2> DEFINE c == cmd.client
             cl == client[c]
  <2>1. cmd \in IoCommands /\ c \in Clients /\ cmd # None /\ cmd.type \in {"read", "write"}
    BY <1>5, NotNone DEF AddDoes
  <2>2. UNCHANGED <<serverQueue, story>> /\ cmd' = None /\ ioQueue' = Append(ioQueue, cmd)
    BY <1>5 DEF AddDoes
  <2>3. client'[c] = Stored(cl, cmd) /\ (d # c => client'[d] = client[d]) /\ cl \in ClientRecord
    BY <1>1, <1>5, <2>1 DEF AddDoes, TypeOK
  <2>4. Storage(d)
    BY <1>3, <2>2 DEF Clean
  <2>5. CASE ~IsWrite(cmd, d)
    <3>1. SameStore(d)
      <4>1. CASE d # c
        BY <2>2, <2>3, <4>1 DEF SameStore
      <4>2. CASE d = c
        <5>1. cmd.type = "read"
          BY <2>1, <2>5, <4>2 DEF IsWrite
        <5>2. Stored(cl, cmd) = [cl EXCEPT !.started = TRUE]
          BY <5>1 DEF Stored
        <5>3. /\ Stored(cl, cmd).pending = cl.pending /\ Stored(cl, cmd).eofSent = cl.eofSent
              /\ Stored(cl, cmd).append = cl.append /\ Stored(cl, cmd).buffer = cl.buffer
          BY <2>3, <5>2 DEF ClientRecord
        <5> QED
          BY <2>2, <2>3, <4>2, <5>3 DEF SameStore
      <4> QED
        BY <4>1, <4>2
    <3>2. ~IsWrite(cmd', d)
      BY <2>2 DEF IsWrite
    <3> QED
      BY <1>1, <1>2, <2>1, <2>2, <2>4, <2>5, <3>1, <3>2, StorageKept
  <2>6. CASE IsWrite(cmd, d)
    <3>1. d = c /\ cmd.type = "write"
      BY <2>6 DEF IsWrite
    <3>2. /\ ~client[d].eofSent /\ cmd.units = client[d].buffer /\ cmd.append = client[d].append
          /\ cmd.eof \/ cmd.units # <<>>
          /\ client[d].pending = "STOR"
      BY <2>4, <2>6 DEF Storage
    <3>3. Stored(cl, cmd) = [cl EXCEPT !.append = TRUE, !.buffer = <<>>, !.eofSent = cmd.eof]
      BY <3>1 DEF Stored
    <3>4. /\ client'[d].pending = client[d].pending /\ client'[d].eofSent = cmd.eof
          /\ client'[d].append = TRUE /\ client'[d].buffer = <<>>
      BY <2>3, <3>1, <3>3 DEF ClientRecord
    <3>5. ASSUME NEW o \in Nat, Buffered(d, o)
          PROVE  /\ o <= story'[d].got /\ (cmd.append <=> o > 0)
                 /\ cmd.units = Stretch(story[d].cur, o, story'[d].got - o)
      BY <2>2, <3>2, <3>5 DEF Buffered
    <3> QED
      BY <1>1, <1>2, <2>1, <2>2, <2>4, <2>6, <3>2, <3>4, <3>5, StorageQueued
  <2> QED
    BY <2>5, <2>6
<1>6. CASE AddFails
  <2>1. cmd.client \in Clients /\ cmd' = None /\ UNCHANGED <<serverQueue, ioQueue>>
    BY <1>6, NotNone DEF AddFails
  <2>2. SameStore(d) /\ Storage(d)
    BY <1>4, <1>6, <2>1 DEF AddFails
  <2>3. ~IsWrite(cmd', d)
    BY <2>1 DEF IsWrite
  <2> QED
    BY <1>1, <1>2, <2>1, <2>2, <2>3, StorageKept
<1>7. AnswerFrame => /\ Head(serverQueue).client \in Clients /\ UNCHANGED <<cmd, ioQueue>>
                     /\ serverQueue # <<>> /\ serverQueue' = Tail(serverQueue)
  BY <1>1, NotNone DEF AnswerFrame, AtAnswer
<1>8. CASE AnswerEnds
  <2> DEFINE m == Head(serverQueue)
  <2>1. AnswerFrame /\ Rests(m.client)
    BY <1>8 DEF AnswerEnds
  <2>2. d # m.client /\ SameStore(d) /\ Storage(d)
    BY <1>4, <1>7, <2>1
  <2>3. ~IsWrite(m, d)
    BY <2>2 DEF IsWrite
  <2> QED
    BY <1>1, <1>2, <1>7, <2>1, <2>2, <2>3, StorageKept
<1>9. CASE AnswerMoves
  <2> DEFINE m == Head(serverQueue)
             c == m.client
             s == [story[c] EXCEPT !.wire = @ \o m.units]
  <2>1. /\ AnswerFrame /\ c \in Clients /\ Sets(c, client[c], s) /\ client' = client
        /\ m.type = "read"
    BY <1>7, <1>9 DEF AnswerMoves
  <2>2. /\ s.cur = story[c].cur /\ s.clean = story[c].clean /\ s.got = story[c].got
        /\ s.file = story[c].file /\ s.lost = story[c].lost
    <3>1. story[c] \in StoryRecord
      BY <1>1, <2>1 DEF TypeOK
    <3> HIDE DEF m, c
    <3> QED
      BY <3>1 DEF StoryRecord
  <2> HIDE DEF s, m
  <2>3. story'[c] = s /\ \A e \in Clients : e # c => story'[e] = story[e]
    BY <1>1, <2>1, SetsTypes
  <2>4. Storage(d) /\ SameStore(d) /\ ~IsWrite(m, d)
    BY <1>3, <2>1, <2>2, <2>3 DEF Clean, SameStore, IsWrite
  <2> QED
    BY <1>1, <1>2, <1>7, <2>1, <2>4, StorageKept DEF m
<1>10. CASE ServerIdles
  <2>1. UNCHANGED <<client, cmd, ioQueue, serverQueue, story>>
    BY <1>10 DEF ServerIdles
  <2> QED
    BY <1>1, <1>2, <1>3, <2>1, StorageKept DEF SameStore, Clean
<1>11. CASE ServerExit
  <2>1. story'[d].cur = 0
    BY <1>1, <1>11, EndedTypes DEF ServerExit, TypeOK
  <2> QED
    BY <2>1 DEF Clean
<1> QED
  BY <1>1, <1>5, <1>6, <1>8, <1>9, <1>10, <1>11 DEF ServerDoes

(* What dropping an answer and writing do to the file a transfer has made. *)
LEMMA LostFile ==
    ASSUME TypeOK, NEW s, Recorded(s), NEW m, m.client \in Clients, NEW d \in Clients
    PROVE  Lost(s, m)[d].file = s[d].file
<1>1. CASE s[m.client].cur = m.xfer
  <2>1. Lost(s, m) = [s EXCEPT ![m.client].lost = TRUE]
    BY <1>1 DEF Lost
  <2> QED
    BY <2>1 DEF Recorded, StoryRecord
<1>2. CASE s[m.client].cur # m.xfer
  BY <1>2 DEF Lost
<1> QED
  BY <1>1, <1>2

(* A write that succeeds does what Written says to the file of its own     *)
(* transfer.                                                               *)
LEMMA WroteFile ==
    ASSUME TypeOK, NEW m \in IoCommands, NEW failed \in BOOLEAN, NEW d \in Clients
    PROVE  Wrote(m, failed)[d].file =
               IF failed \/ m.units = <<>> \/ story[m.client].cur # m.xfer \/ m.client # d
               THEN story[d].file
               ELSE Written(story[d].file, m)
<1> DEFINE c == m.client
           w == Written(story[c].file, m)
<1>1. CASE failed \/ m.units = <<>> \/ story[c].cur # m.xfer
  BY <1>1 DEF Wrote
<1>2. CASE ~(failed \/ m.units = <<>> \/ story[c].cur # m.xfer)
  <2>1. c \in Clients /\ story \in [Clients -> StoryRecord] /\ story[c] \in StoryRecord
    BY NotNone DEF TypeOK
  <2>2. Wrote(m, failed) = [story EXCEPT ![c].file = w]
    BY <1>2 DEF Wrote
  <2> HIDE DEF w
  <2>3. Wrote(m, failed)[c].file = w
    BY <2>1, <2>2 DEF StoryRecord
  <2>4. d # c => Wrote(m, failed)[d] = story[d]
    BY <2>1, <2>2
  <2> QED
    BY <1>2, <2>3, <2>4 DEF w
<1> QED
  BY <1>1, <1>2

(* The first write answer there is, waiting for room or not, is a success. *)
AnswersWell(c) ==
    Succeeds(c, serverQueue) \/ (IsWrite(res, c) /\ ~res.error /\ NoWrite(c, serverQueue))

(* An answer a goes into the queue, or waits for room, or it is none about *)
(* a write of d and is dropped.                                            *)
Given(d, a) ==
    /\ a \in Answers /\ (IsWrite(res, d) => res = a)
    /\ \/ serverQueue' = Append(serverQueue, a) /\ res' = None
       \/ serverQueue' = serverQueue /\ res' = a
       \/ ~IsWrite(a, d) /\ serverQueue' = serverQueue /\ res' = None

(* What an answer that is given changes of those there are.                *)
LEMMA GivenAnswers ==
    ASSUME TypeOK, NEW d \in Clients, NEW a, Given(d, a)
    PROVE  /\ Failing(d)' <=> Failing(d) \/ (IsWrite(a, d) /\ a.error)
           /\ AnswersWell(d)' => AnswersWell(d) \/ (IsWrite(a, d) /\ ~a.error /\ NoWrite(d, serverQueue))
           /\ \A o \in ToSet(serverQueue)' \cup {res'} : IsWrite(o, d) => o \in ToSet(serverQueue) \cup {a}
<1>1. /\ serverQueue \in Seq(Answers) /\ a \in Answers
      /\ ToSet(Append(serverQueue, a)) = ToSet(serverQueue) \cup {a}
      /\ ~IsWrite(None, d)
  BY QueueElements DEF TypeOK, Given, IsWrite
<1>2. \A o \in ToSet(serverQueue)' \cup {res'} : IsWrite(o, d) => o \in ToSet(serverQueue) \cup {a}
  BY <1>1 DEF Given
<1>3. \A o \in ToSet(serverQueue) \cup {a} : IsWrite(o, d) => o \in ToSet(serverQueue)' \cup {res'}
  BY <1>1 DEF Given
<1>4. Failing(d)' <=> Failing(d) \/ (IsWrite(a, d) /\ a.error)
  <2>1. \A o \in ToSet(serverQueue) \cup {res} : IsWrite(o, d) => o \in ToSet(serverQueue) \cup {a}
    BY DEF Given
  <2>2. Failing(d)' <=> \E o \in ToSet(serverQueue) \cup {a} : IsWrite(o, d) /\ o.error
    BY <1>2, <1>3 DEF Failing
  <2>3. IsWrite(a, d) /\ a.error => \E o \in ToSet(serverQueue) \cup {a} : IsWrite(o, d) /\ o.error
    OBVIOUS
  <2> QED
    BY <2>1, <2>2, <2>3 DEF Failing
<1>5. AnswersWell(d)' => AnswersWell(d) \/ (IsWrite(a, d) /\ ~a.error /\ NoWrite(d, serverQueue))
  <2>1. CASE serverQueue' = Append(serverQueue, a) /\ res' = None
    BY <1>1, <2>1, SucceedsAppend DEF AnswersWell
  <2>2. CASE serverQueue' = serverQueue /\ res' \in {None, a}
    BY <1>1, <2>2 DEF AnswersWell
  <2> QED
    BY <2>1, <2>2 DEF Given
<1> QED
  BY <1>2, <1>4, <1>5

(* The parts of Storage that a step of the I/O thread may disturb.         *)
LEMMA StorageIo ==
    ASSUME TypeOK, NEW d \in Clients, Storage(d), client' = client, cmd' = cmd,
           ioQueue' = ioQueue \/ (ioQueue # <<>> /\ ioQueue' = Tail(ioQueue)),
           \A o \in ToSet(serverQueue)' \cup {res'} : IsWrite(o, d) => client[d].pending = "STOR",
           ~story'[d].lost => (Failing(d)' \/ Pieces(d)') /\ (AnswersWell(d)' => Complete(d)')
    PROVE  Storage(d)'
<1>1. ToSet(ioQueue)' \subseteq ToSet(ioQueue) /\ ioQueue \in Seq(IoCommands)
  BY QueueElements DEF TypeOK
<1>2. EndIsLast(d, ioQueue')
  BY <1>1, EndIsLastTail DEF Storage
<1> QED
  BY <1>1, <1>2 DEF Storage, AnswersWell

(* The pieces of d when the queue of the I/O thread moves on by something  *)
(* that is not about the data of d.                                        *)
LEMMA PiecesKept ==
    ASSUME TypeOK, NEW d \in Clients, client' = client,
           story'[d].cur = story[d].cur, story'[d].got = story[d].got, story'[d].file = story[d].file,
           \/ ioQueue' = ioQueue
           \/ ioQueue # <<>> /\ ioQueue' = Tail(ioQueue) /\ ~IsWrite(Head(ioQueue), d)
    PROVE  (Pieces(d) => Pieces(d)') /\ (Complete(d) => Complete(d)')
<1>1. ToSet(ioQueue)' \subseteq ToSet(ioQueue) /\ ioQueue \in Seq(IoCommands)
  BY QueueElements DEF TypeOK
<1>2. ASSUME NEW a \in Nat, NEW b \in Nat, Passes(d, story[d].cur, story[d].got, ioQueue, a, b)
      PROVE  Passes(d, story[d].cur, story[d].got, ioQueue', a, b)
  <2>1. CASE ioQueue' = ioQueue
    BY <1>2, <2>1
  <2>2. CASE ioQueue # <<>> /\ ioQueue' = Tail(ioQueue) /\ ~IsWrite(Head(ioQueue), d)
    <3>1. PICK e \in Nat : /\ Piece(d, story[d].cur, story[d].got, Head(ioQueue), a, e)
                           /\ Passes(d, story[d].cur, story[d].got, Tail(ioQueue), e, b)
      BY <1>1, <1>2, <2>2, PassesFrom
    <3>2. e = a
      BY <2>2, <3>1 DEF Piece
    <3> QED
      BY <2>2, <3>1, <3>2
  <2> QED
    BY <2>1, <2>2
<1>3. /\ \A b : Buffered(d, b) => Buffered(d, b)'
      /\ \A a : InFileUpTo(d, a) => InFileUpTo(d, a)'
  BY DEF Buffered, InFileUpTo
<1>4. Pieces(d) => Pieces(d)'
  <2> SUFFICES ASSUME NEW a \in Nat, NEW b \in Nat, InFileUpTo(d, a), Buffered(d, b),
                      Passes(d, story[d].cur, story[d].got, ioQueue, a, b)
               PROVE  Pieces(d)'
    BY DEF Pieces
  <2>1. Passes(d, story'[d].cur, story'[d].got, ioQueue', a, b)
    BY <1>2
  <2> QED
    BY <1>3, <2>1 DEF Pieces
<1>5. Complete(d) => Complete(d)'
  BY <1>1, <1>3 DEF Complete
<1> QED
  BY <1>4, <1>5

(* The units of a whole file are a stretch from its beginning,             *)
LEMMA UnitsAreStretch ==
    ASSUME NEW x \in Nat, NEW n \in Nat
    PROVE  Units(x, n) = Stretch(x, 0, n)
<1>1. \A k \in 1 .. n : 0 + k = k
  OBVIOUS
<1>2. \A k \in 1 .. n : Unit(x, 0 + k) = Unit(x, k)
  BY <1>1
<1> QED
  BY <1>2 DEF Units, Stretch

(* ... and a stretch of none is of no length.                              *)
LEMMA NoStretch ==
    ASSUME NEW x \in Nat, NEW o \in Nat, NEW n \in Nat, Stretch(x, o, n) = <<>>
    PROVE  n = 0
<1> DEFINE t == Stretch(x, o, n)
<1>1. Len(t) = n
  <2>1. \A k \in 1 .. n : Unit(x, o + k) \in Nat \X Nat
    BY DEF Unit
  <2> QED
    BY <2>1 DEF Stretch
<1>2. Len(t) = 0
  OBVIOUS
<1> QED
  BY <1>1, <1>2

(* The first piece of the data goes into the file.                         *)
Holds(file, x, a) == a > 0 => file = Units(x, a)
With(file, m) == IF m.units = <<>> THEN file ELSE Written(file, m)

(* A piece of the data goes into the file behind what is there; the first  *)
(* replaces the file.                                                      *)
LEMMA PieceInFile ==
    ASSUME NEW x \in Nat, NEW a \in Nat, NEW e \in Nat, NEW got, NEW c, NEW m, NEW file,
           IsWrite(m, c), Piece(c, x, got, m, a, e), Holds(file, x, a)
    PROVE  Holds(With(file, m), x, e)
<1> SUFFICES ASSUME e > 0
             PROVE  With(file, m) = Units(x, e)
  BY DEF Holds
<1>1. a <= e /\ e - a \in Nat /\ m.units = Stretch(x, a, e - a) /\ (m.append <=> a > 0)
  BY DEF Piece
<1>2. CASE m.units = <<>>
  <2>1. e - a = 0
    BY <1>1, <1>2, NoStretch
  <2>2. a = e
    BY <2>1
  <2> QED
    BY <1>2, <2>2 DEF Holds, With
<1>3. CASE m.units # <<>> /\ a = 0
  <2>1. e - a = e /\ ~m.append
    BY <1>1, <1>3
  <2>2. Written(file, m) = m.units
    BY <2>1 DEF Written
  <2> QED
    BY <1>1, <1>3, <2>1, <2>2, UnitsAreStretch DEF With
<1>4. CASE m.units # <<>> /\ a > 0
  <2>1. Written(file, m) = Joined(Units(x, a), m.units)
    BY <1>1, <1>4 DEF Written, Joined, Holds
  <2>2. Units(x, a) = Stretch(x, 0, a - 0)
    <3>1. a - 0 = a
      OBVIOUS
    <3> QED
      BY <3>1, UnitsAreStretch
  <2>3. Joined(Stretch(x, 0, a - 0), Stretch(x, a, e - a)) = Stretch(x, 0, a + (e - a) - 0)
    <3>1. 0 <= a /\ e - a \in Nat /\ 0 \in Nat
      BY <1>1
    <3> QED
      BY <3>1, StretchOn
  <2>4. a + (e - a) - 0 = e
    OBVIOUS
  <2>5. Written(file, m) = Stretch(x, 0, e)
    BY <1>1, <1>4, <2>1, <2>2, <2>3, <2>4 DEF Holds
  <2> QED
    BY <1>4, <2>5, UnitsAreStretch DEF With
<1>5. a = 0 \/ a > 0
  OBVIOUS
<1> QED
  BY <1>2, <1>3, <1>4, <1>5 DEF With

(* A write is taken and carried out: the pieces left follow on what is in  *)
(* the file, and with the end of the data the file is complete.            *)
LEMMA PieceTaken ==
    ASSUME TypeOK, NEW d \in Clients, client' = client,
           ioQueue # <<>>, ioQueue' = Tail(ioQueue), NEW m, m = Head(ioQueue),
           IsWrite(m, d), Pieces(d), EndIsLast(d, ioQueue), m.eof => client[d].eofSent,
           story'[d].cur = story[d].cur, story'[d].got = story[d].got,
           story'[d].file = IF m.units = <<>> THEN story[d].file ELSE Written(story[d].file, m)
    PROVE  Pieces(d)' /\ (m.eof => Complete(d)')
<1>1. ioQueue \in Seq(IoCommands) /\ story[d] \in StoryRecord
  BY DEF TypeOK
<1>2. PICK x \in Nat : x = story[d].cur
  BY <1>1 DEF StoryRecord
<1>3. PICK a \in Nat, b \in Nat :
        InFileUpTo(d, a) /\ Passes(d, x, story[d].got, ioQueue, a, b) /\ Buffered(d, b)
  BY <1>2 DEF Pieces
<1>4. PICK e \in Nat : Piece(d, x, story[d].got, m, a, e) /\ Passes(d, x, story[d].got, Tail(ioQueue), e, b)
  BY <1>1, <1>3, PassesFrom
<1>5. InFileUpTo(d, e)'
  <2>1. Holds(story[d].file, x, a)
    BY <1>2, <1>3 DEF InFileUpTo, Holds
  <2>2. Holds(With(story[d].file, m), x, e)
    BY <1>4, <2>1, PieceInFile
  <2> QED
    BY <1>2, <2>2 DEF InFileUpTo, Holds, With
<1>6. Buffered(d, b)'
  BY <1>3 DEF Buffered
<1>7. Passes(d, story'[d].cur, story'[d].got, ioQueue', e, b)
  BY <1>2, <1>4
<1>8. Pieces(d)'
  BY <1>5, <1>6, <1>7 DEF Pieces
<1>9. ASSUME m.eof
      PROVE  Complete(d)'
  <2>1. e = story'[d].got
    BY <1>4, <1>9 DEF Piece
  <2>2. NoWrite(d, ioQueue')
    BY <1>1, <1>9, EndIsLastTail
  <2> QED
    BY <1>5, <1>9, <2>1, <2>2 DEF Complete, NoWrite
<1> QED
  BY <1>8, <1>9

(* An answer of the I/O thread goes out, or is dropped.                    *)
LEMMA GivesStore ==
    ASSUME TypeOK, NEW d \in Clients, NEW a, NEW s, Gives(a, s), IsWrite(res, d) => res = a
    PROVE  \/ Given(d, a) /\ story' = s
           \/ story' = Lost(s, a) /\ serverQueue' = serverQueue /\ res' = None
BY DEF Gives, Given, Resumes

(* Store is kept when a file is read,                                      *)
LEMMA ReadStore ==
    ASSUME Basics, Own, NEW d \in Clients, Storage(d), Recorded(story'), client' = client, cmd' = cmd,
           NEW i \in ReadSlots, ReadDoes(i)
    PROVE  Storage(d)'
<1> DEFINE r == reads[i]
<1>1. /\ r # None /\ r \in ReadStates /\ r.offset <= r.size /\ r.client \in Clients /\ TypeOK
      /\ UNCHANGED ioQueue
  BY NotNone DEF ReadDoes, Basics, TypeOK, InFile, ReadStored, ReadWaits, ReadLost
<1>2. ~IsWrite(res, d)
  <2>1. CASE iopc = "reads"
    BY <1>1, <2>1 DEF TypeOK, IsWrite
  <2>2. CASE iopc = "addRead" /\ index = i
    BY <2>2 DEF Basics, BlockWaits, Block, IsWrite
  <2> QED
    BY <2>1, <2>2 DEF ReadDoes
<1>3. story'[d].file = story[d].file
  <2>1. CASE story' = story
    BY <2>1
  <2>2. CASE story' = Lost(story, r)
    BY <1>1, <2>2, LostFile, StoryRecorded
  <2> QED
    BY <2>1, <2>2 DEF ReadDoes, ReadStored, ReadWaits, ReadLost
<1>4. /\ story'[d].cur = story[d].cur /\ story'[d].got = story[d].got
      /\ story[d].lost => story'[d].lost
  BY DEF Recorded
<1>5. \E a : Given(d, a) /\ ~IsWrite(a, d)
  <2>1. CASE ReadStored(i)
    <3>1. PICK failed \in BOOLEAN :
        serverQueue' = Append(serverQueue, Block(r, failed)) /\ res' = None
      BY <2>1 DEF ReadStored
    <3>2. Block(r, failed) \in Answers /\ Block(r, failed).type = "read"
      BY <1>1, BlockIs
    <3> QED
      BY <1>2, <3>1, <3>2 DEF Given, IsWrite
  <2>2. CASE ReadWaits(i)
    <3>1. PICK failed \in BOOLEAN : serverQueue' = serverQueue /\ res' = Block(r, failed)
      BY <2>2 DEF ReadWaits
    <3>2. Block(r, failed) \in Answers /\ Block(r, failed).type = "read"
      BY <1>1, BlockIs
    <3> QED
      BY <1>2, <3>1, <3>2 DEF Given, IsWrite
  <2>3. CASE ReadLost(i)
    <3>1. Block(r, FALSE) \in Answers /\ Block(r, FALSE).type = "read"
      BY <1>1, BlockIs
    <3>2. serverQueue' = serverQueue /\ res' = None
      BY <2>3 DEF ReadLost
    <3> QED
      BY <1>2, <3>1, <3>2 DEF Given, IsWrite
  <2> QED
    BY <2>1, <2>2, <2>3 DEF ReadDoes
<1>6. PICK a : Given(d, a) /\ ~IsWrite(a, d)
  BY <1>5
<1>7. /\ Failing(d)' <=> Failing(d)
      /\ AnswersWell(d)' => AnswersWell(d)
      /\ \A o \in ToSet(serverQueue)' \cup {res'} : IsWrite(o, d) => o \in ToSet(serverQueue)
  BY <1>1, <1>6, GivenAnswers
<1>8. (Pieces(d) => Pieces(d)') /\ (Complete(d) => Complete(d)')
  BY <1>1, <1>3, <1>4, PiecesKept
<1>9. \A o \in ToSet(serverQueue)' \cup {res'} : IsWrite(o, d) => client[d].pending = "STOR"
  BY <1>7 DEF Storage
<1>10. ~story'[d].lost => (Failing(d)' \/ Pieces(d)') /\ (AnswersWell(d)' => Complete(d)')
  BY <1>4, <1>7, <1>8 DEF Storage, AnswersWell
<1> QED
  BY <1>1, <1>9, <1>10, StorageIo

(* ... when an answer is given,                                            *)
LEMMA GivesStorage ==
    ASSUME Basics, NEW d \in Clients, Storage(d), Recorded(story'), client' = client, cmd' = cmd,
           ioQueue' = ioQueue \/ (ioQueue # <<>> /\ ioQueue' = Tail(ioQueue)),
           NEW a, NEW s, Gives(a, s), Recorded(s), IsWrite(res, d) => res = a,
           IsWrite(a, d) => client[d].pending = "STOR" /\ a.xfer = story[d].cur,
           story'[d].file = s[d].file /\ ~story[d].lost =>
               /\ ~Failing(d) => Pieces(d)' \/ (IsWrite(a, d) /\ a.error)
               /\ Complete(d) => Complete(d)'
               /\ IsWrite(a, d) /\ ~a.error /\ NoWrite(d, serverQueue) => Complete(d)'
    PROVE  Storage(d)'
<1>1. TypeOK /\ a \in Answers /\ a.client \in Clients
  BY NotNone DEF Basics, Gives
<1>2. story[d].lost => story'[d].lost
  BY DEF Recorded
<1>3. story'[d].file = s[d].file
  BY <1>1, GivesStore, LostFile
<1>4. CASE Given(d, a)
  <2>1. /\ Failing(d)' <=> Failing(d) \/ (IsWrite(a, d) /\ a.error)
        /\ AnswersWell(d)' => AnswersWell(d) \/ (IsWrite(a, d) /\ ~a.error /\ NoWrite(d, serverQueue))
        /\ \A o \in ToSet(serverQueue)' \cup {res'} : IsWrite(o, d) => o \in ToSet(serverQueue) \cup {a}
    BY <1>1, <1>4, GivenAnswers
  <2>2. \A o \in ToSet(serverQueue)' \cup {res'} : IsWrite(o, d) => client[d].pending = "STOR"
    BY <2>1 DEF Storage
  <2>3. AnswersWell(d) /\ ~story[d].lost => Complete(d)
    BY DEF AnswersWell, Storage
  <2>4. ~story'[d].lost => (Failing(d)' \/ Pieces(d)') /\ (AnswersWell(d)' => Complete(d)')
    BY <1>2, <1>3, <2>1, <2>3
  <2> QED
    BY <1>1, <2>2, <2>4, StorageIo
<1>5. CASE story' = Lost(s, a) /\ serverQueue' = serverQueue /\ res' = None
  <2>1. CASE IsWrite(a, d)
    <3>1. s[d].cur = a.xfer /\ a.client = d
      BY <2>1 DEF Recorded, IsWrite
    <3>2. story'[d].lost
      BY <1>1, <1>5, <3>1, LostRecorded
    <3>3. \A o \in ToSet(serverQueue)' \cup {res'} : IsWrite(o, d) => client[d].pending = "STOR"
      BY <1>5 DEF Storage, IsWrite
    <3> QED
      BY <1>1, <3>2, <3>3, StorageIo
  <2>2. CASE ~IsWrite(a, d)
    <3>1. ~IsWrite(res, d) /\ ~IsWrite(None, d)
      BY <2>2 DEF IsWrite
    <3>2. Given(d, a)
      BY <1>1, <1>5, <2>2, <3>1 DEF Given
    <3> QED
      BY <1>4, <3>2
  <2> QED
    BY <2>1, <2>2
<1> QED
  BY <1>1, <1>4, <1>5, GivesStore

(* ... and so by the I/O thread,                                           *)
LEMMA IoStore ==
    ASSUME Basics, Own, Store, IoDoes
    PROVE  Store'
<1>1. TypeOK /\ client' = client /\ cmd' = cmd /\ Recorded(story')
  BY IoRecorded DEF IoDoes, IoUnchanged, Basics, serverVars
<1> SUFFICES ASSUME NotFlushed', NEW d \in Clients, Clean(d)'
             PROVE  Storage(d)'
  BY DEF Store
<1>2. /\ Storage(d) /\ Clean(d)
      /\ story'[d].cur = story[d].cur /\ story'[d].got = story[d].got
  BY <1>1 DEF Store, Clean, Recorded, NotFlushed, IoDoes, IoUnchanged, exitVars
<1>3. Owned(d)
  BY <1>2 DEF Own
<1>4. CASE IoIdles
  <2>1. UNCHANGED <<serverQueue, ioQueue, story>> /\ res = None /\ res' = None
    BY <1>1, <1>4 DEF IoIdles, Resumes, TypeOK
  <2> QED
    BY <1>1, <1>2, <2>1, StorageKept DEF SameStore
<1>5. ASSUME NEW i \in ReadSlots, ReadDoes(i)
      PROVE  Storage(d)'
  BY <1>1, <1>2, <1>5, ReadStore
<1>6. CASE ReplyMoves
  <2>1. Gives(res, story) /\ UNCHANGED ioQueue /\ res \in Messages
    BY <1>1, <1>6, NotNone DEF ReplyMoves, TypeOK, Messages
  <2>2. IsWrite(res, d) => client[d].pending = "STOR" /\ res.xfer = story[d].cur
    BY <1>2, <1>3, <2>1 DEF Storage, IsWrite, Owned
  <2>3. story'[d].file = story[d].file => (Pieces(d) => Pieces(d)') /\ (Complete(d) => Complete(d)')
    BY <1>1, <1>2, <2>1, PiecesKept
  <2>4. story'[d].file = story[d].file /\ ~story[d].lost =>
               /\ ~Failing(d) => Pieces(d)' \/ (IsWrite(res, d) /\ res.error)
               /\ Complete(d) => Complete(d)'
               /\ IsWrite(res, d) /\ ~res.error /\ NoWrite(d, serverQueue) => Complete(d)'
    BY <1>2, <2>3 DEF Storage
  <2> QED
    BY <1>1, <1>2, <2>1, <2>2, <2>4, GivesStorage, StoryRecorded
<1>7. CASE CommandDoes
  <2> DEFINE m == Head(ioQueue)
  <2>1. /\ m \in IoCommands /\ iopc = "reads" /\ res = None /\ ioQueue # <<>> /\ ioQueue' = Tail(ioQueue)
        /\ m \in ToSet(ioQueue) /\ ioQueue \in Seq(IoCommands) /\ m.client \in Clients /\ m # None
        /\ m \in Messages
    BY <1>1, <1>7, QueueElements, NotNone DEF CommandDoes, Takes, TypeOK, Messages
  <2>2. Registers(m) \/ (m.type = "read" /\ Gives(ErrorAnswer(m), story) /\ UNCHANGED reads) \/ Writes(m)
    BY <1>7 DEF CommandDoes
  <2>3. ~IsWrite(res, d)
    BY <2>1 DEF IsWrite
  <2>4. CASE m.type = "read"
    <3>1. ~IsWrite(m, d)
      BY <2>4 DEF IsWrite
    <3>2. story'[d].file = story[d].file => (Pieces(d) => Pieces(d)') /\ (Complete(d) => Complete(d)')
      BY <1>1, <1>2, <2>1, <3>1, PiecesKept
    <3>3. CASE Registers(m)
      <4>1. UNCHANGED <<serverQueue, story>> /\ res' = None
        BY <3>3 DEF Registers, Resumes
      <4>2. \A o \in ToSet(serverQueue)' \cup {res'} : IsWrite(o, d) => client[d].pending = "STOR"
        BY <1>2, <4>1 DEF Storage, IsWrite
      <4>3. ~story'[d].lost => (Failing(d)' \/ Pieces(d)') /\ (AnswersWell(d)' => Complete(d)')
        BY <1>2, <2>1, <3>2, <4>1 DEF Storage, AnswersWell, Failing
      <4> QED
        BY <1>1, <1>2, <2>1, <4>2, <4>3, StorageIo
    <3>4. CASE Gives(ErrorAnswer(m), story)
      <4> DEFINE a == ErrorAnswer(m)
      <4>1. ~IsWrite(a, d)
        BY DEF ErrorAnswer, IsWrite
      <4> HIDE DEF a
      <4>2. story'[d].file = story[d].file /\ ~story[d].lost =>
               /\ ~Failing(d) => Pieces(d)' \/ (IsWrite(a, d) /\ a.error)
               /\ Complete(d) => Complete(d)'
               /\ IsWrite(a, d) /\ ~a.error /\ NoWrite(d, serverQueue) => Complete(d)'
        BY <1>2, <3>2, <4>1 DEF Storage
      <4>3. Gives(a, story)
        BY <3>4 DEF a
      <4> HIDE DEF m
      <4> QED
        BY <1>1, <1>2, <2>1, <2>3, <4>1, <4>2, <4>3, GivesStorage, StoryRecorded
    <3> QED
      BY <2>2, <2>4, <3>3, <3>4 DEF Writes
  <2>5. CASE Writes(m)
    <3>1. PICK failed \in BOOLEAN :
          \/ (failed \/ m.eof) /\ Gives(WriteAnswer(m, failed), Wrote(m, failed))
          \/ ~failed /\ ~m.eof /\ story' = Wrote(m, failed) /\ res' = None /\ UNCHANGED serverQueue
      BY <2>5 DEF Writes, Resumes
    <3>2. m.type = "write" /\ (IsWrite(m, d) <=> m.client = d)
      BY <2>1, <2>5 DEF Writes, IsWrite
    <3> HIDE DEF m
    <3> DEFINE s == Wrote(m, failed)
               a == WriteAnswer(m, failed)
    <3>3. Recorded(s)
      BY <1>1, <2>1, <3>2, WroteRecorded DEF Basics
    <3>4. a # None /\ a.client = m.client /\ a.xfer = m.xfer /\ a.type = "write" /\ a.error = failed
      BY DEF WriteAnswer, None
    <3>5. s[d].file = IF failed \/ m.units = <<>> \/ story[m.client].cur # m.xfer \/ m.client # d
                      THEN story[d].file
                      ELSE Written(story[d].file, m)
      BY <1>1, <2>1, WroteFile
    <3>6. ((failed \/ m.eof) /\ Gives(a, s)) \/ (~failed /\ ~m.eof /\ story' = s /\ res' = None /\ UNCHANGED serverQueue)
      BY <3>1
    <3> HIDE DEF s, a
    <3>7. CASE ~IsWrite(m, d)
      <4>1. ~IsWrite(a, d) /\ s[d].file = story[d].file
        BY <3>2, <3>4, <3>5, <3>7 DEF IsWrite
      <4>2. story'[d].file = s[d].file => (Pieces(d) => Pieces(d)') /\ (Complete(d) => Complete(d)')
        BY <1>1, <1>2, <2>1, <3>7, <4>1, PiecesKept DEF m
      <4>3. CASE Gives(a, s)
        <5>1. story'[d].file = s[d].file /\ ~story[d].lost =>
                 /\ ~Failing(d) => Pieces(d)' \/ (IsWrite(a, d) /\ a.error)
                 /\ Complete(d) => Complete(d)'
                 /\ IsWrite(a, d) /\ ~a.error /\ NoWrite(d, serverQueue) => Complete(d)'
          BY <1>2, <4>1, <4>2 DEF Storage
        <5> QED
          BY <1>1, <1>2, <2>1, <2>3, <3>3, <4>1, <4>3, <5>1, GivesStorage
      <4>4. CASE story' = s /\ res' = None /\ UNCHANGED serverQueue
        <5>1. \A o \in ToSet(serverQueue)' \cup {res'} : IsWrite(o, d) => client[d].pending = "STOR"
          BY <1>2, <4>4 DEF Storage, IsWrite
        <5>2. ~story'[d].lost => (Failing(d)' \/ Pieces(d)') /\ (AnswersWell(d)' => Complete(d)')
          BY <1>1, <1>2, <2>1, <4>2, <4>4 DEF Storage, AnswersWell, Failing, Recorded
        <5> QED
          BY <1>1, <1>2, <2>1, <5>1, <5>2, StorageIo
      <4> QED
        BY <3>6, <4>3, <4>4
    <3>8. CASE IsWrite(m, d)
      <4>1. /\ m.client = d /\ m.xfer = story[d].cur /\ client[d].pending = "STOR" /\ ~Complete(d)
            /\ m.eof => client[d].eofSent
            /\ EndIsLast(d, ioQueue)
        BY <1>2, <1>3, <2>1, <3>2, <3>8 DEF Owned, Storage, Complete
      <4>2. ASSUME ~failed, story'[d].file = s[d].file, Pieces(d)
            PROVE  Pieces(d)' /\ (m.eof => Complete(d)')
        <5>1. story'[d].file = IF m.units = <<>> THEN story[d].file ELSE Written(story[d].file, m)
          BY <3>5, <4>1, <4>2
        <5> QED
          BY <1>1, <1>2, <2>1, <3>8, <4>1, <4>2, <5>1, PieceTaken DEF m
      <4>3. ~Failing(d) /\ ~story[d].lost => Pieces(d)
        BY <1>2 DEF Storage
      <4>4. CASE (failed \/ m.eof) /\ Gives(a, s)
        <5>1. NoWrite(d, serverQueue) => ~Failing(d)
          BY <2>3 DEF NoWrite, Failing
        <5>2. story'[d].file = s[d].file /\ ~story[d].lost =>
                 /\ ~Failing(d) => Pieces(d)' \/ (IsWrite(a, d) /\ a.error)
                 /\ Complete(d) => Complete(d)'
                 /\ IsWrite(a, d) /\ ~a.error /\ NoWrite(d, serverQueue) => Complete(d)'
          BY <3>4, <4>1, <4>2, <4>3, <4>4, <5>1 DEF IsWrite
        <5> QED
          BY <1>1, <1>2, <2>1, <2>3, <3>3, <3>4, <4>1, <4>4, <5>2, GivesStorage
      <4>5. CASE ~failed /\ story' = s /\ res' = None /\ UNCHANGED serverQueue
        <5>1. \A o \in ToSet(serverQueue)' \cup {res'} : IsWrite(o, d) => client[d].pending = "STOR"
          BY <1>2, <4>5 DEF Storage, IsWrite
        <5>2. ~AnswersWell(d)' \/ story[d].lost
          BY <1>2, <2>1, <4>1, <4>5 DEF Storage, AnswersWell
        <5>3. Failing(d)' <=> Failing(d)
          BY <2>1, <4>5 DEF Failing
        <5>4. ~story'[d].lost => (Failing(d)' \/ Pieces(d)') /\ (AnswersWell(d)' => Complete(d)')
          BY <1>1, <4>2, <4>3, <4>5, <5>2, <5>3 DEF Recorded
        <5> QED
          BY <1>1, <1>2, <2>1, <5>1, <5>4, StorageIo
      <4> QED
        BY <3>6, <4>4, <4>5
    <3> QED
      BY <3>7, <3>8
  <2> QED
    BY <2>2, <2>4, <2>5 DEF Registers
<1> QED
  BY <1>4, <1>5, <1>6, <1>7 DEF IoDoes

(* ... and by every step.                                                  *)
LEMMA NextStore ==
    ASSUME Basics, Basics', Own, Store, [Next]_vars
    PROVE  Store'
<1>1. ASSUME NotFlushed' => NotFlushed /\ UNCHANGED <<client, cmd, res, reads, serverQueue, ioQueue, story>>
      PROVE  Store'
  BY <1>1 DEF Store, Clean, Storage, Pieces, Buffered, InFileUpTo, Complete, Failing
<1>2. CASE ExitStep
  BY <1>1, <1>2, ExitQuiet
<1>3. CASE UNCHANGED vars
  BY <1>1, <1>3 DEF vars, ioVars, serverVars, exitVars, NotFlushed
<1> QED
  BY <1>2, <1>3, ServerStore, IoStore, IoEffects DEF Next, Basics

-----------------------------------------------------------------------------
(* The transfer of client c ends with a 226.                               *)
Succeeded(c) == story[c].cur # 0 /\ story'[c].cur = 0 /\ story'[c].reply = "226"

(* A story that is replaced by one without a success.                      *)
LEMMA ReplacedFails ==
    ASSUME TypeOK, NEW c \in Clients, NEW d \in Clients, NEW s, story' = [story EXCEPT ![d] = s],
           s.cur = 0 /\ s.reply = "226" => story[d].cur = 0
    PROVE  ~Succeeded(c)
<1>1. story'[d] = s /\ (c # d => story'[c] = story[c])
  BY DEF TypeOK
<1> QED
  BY <1>1 DEF Succeeded

(* The reply of a transfer that ends is the one it is given.               *)
LEMMA EndedReply ==
    ASSUME NEW s \in StoryRecord, NEW r
    PROVE  Ended(s, r).reply = r /\ Ended(s, r).cur = 0 /\ Ended(s, r).wire = s.wire
BY DEF Ended, StoryRecord

(* No success comes of a connection that is dropped,                       *)
LEMMA DropFails ==
    ASSUME TypeOK, NEW c \in Clients, NEW d \in Clients, NEW r, r # "226", Drop(d, r)
    PROVE  ~Succeeded(c)
<1> DEFINE w == [story[d] EXCEPT !.wire = <<>>]
<1>1. w \in StoryRecord
  <2>1. story[d] \in StoryRecord
    BY DEF TypeOK
  <2> QED
    BY <2>1, Constants DEF StoryRecord
<1>2. story' = [story EXCEPT ![d] = Ended(w, r)]
  BY DEF Drop
<1> HIDE DEF w
<1> QED
  BY <1>1, <1>2, EndedReply, ReplacedFails

(* ... of an end with an error,                                            *)
LEMMA EofFails ==
    ASSUME TypeOK, NEW c \in Clients, NEW d \in Clients, NEW s \in StoryRecord, ProcessEof(d, "421", s)
    PROVE  ~Succeeded(c)
<1>1. PICK r : r # "226" /\ story' = [story EXCEPT ![d] = Ended(s, r)]
  <2>1. story' = [story EXCEPT ![d] = Ended(s, IF client[d].control /\ "421" = "421" THEN "421" ELSE "none")]
    BY DEF ProcessEof
  <2>2. (IF client[d].control /\ "421" = "421" THEN "421" ELSE "none") # "226"
    OBVIOUS
  <2> QED
    BY <2>1, <2>2
<1> QED
  BY <1>1, EndedReply, ReplacedFails

(* ... of a command that is sent,                                          *)
LEMMA SendFails ==
    ASSUME TypeOK, NEW c \in Clients, NEW m, m.client \in Clients, NEW cl, NEW s \in StoryRecord,
           s.cur = 0 => story[m.client].cur = 0, SendCommand(m, cl, s)
    PROVE  ~Succeeded(c)
<1>1. story' = [story EXCEPT ![m.client] = s] \/ ProcessEof(m.client, "421", s)
  BY DEF SendCommand
<1> QED
  BY <1>1, ReplacedFails, EofFails

(* ... of the begin of a file,                                             *)
LEMMA BofFails ==
    ASSUME TypeOK, NEW c \in Clients, NEW d \in Clients, NEW cl, NEW s \in StoryRecord,
           s.cur = 0 => story[d].cur = 0, ProcessBof(d, cl, s)
    PROVE  ~Succeeded(c)
<1>1. \/ SendCommand(ReadCommand(d, s), cl, s)
      \/ story' = [story EXCEPT ![d] = s]
  BY DEF ProcessBof, ReadCommand
<1>2. ReadCommand(d, s).client = d
  BY DEF ReadCommand
<1>3. CASE SendCommand(ReadCommand(d, s), cl, s)
  <2> DEFINE m == ReadCommand(d, s)
  <2>1. m.client = d /\ SendCommand(m, cl, s)
    BY <1>2, <1>3
  <2> HIDE DEF m
  <2> QED
    BY <2>1, SendFails
<1> QED
  BY <1>1, <1>3, ReplacedFails

(* ... of a data connection that is opened,                                *)
LEMMA OpenFails ==
    ASSUME TypeOK, NEW c \in Clients, NEW d \in Clients, NEW cl, NEW s \in StoryRecord,
           s.cur = 0 => story[d].cur = 0, OpenData(d, cl, s)
    PROVE  ~Succeeded(c)
<1>1. \/ \E cl2 : ProcessBof(d, cl2, s)
      \/ story' = [story EXCEPT ![d] = s]
      \/ Drop(d, "425")
  BY DEF OpenData
<1>2. CASE \E cl2 : ProcessBof(d, cl2, s)
  BY <1>2, BofFails
<1>3. CASE Drop(d, "425")
  BY <1>3, DropFails
<1> QED
  BY <1>1, <1>2, <1>3, ReplacedFails

(* ... and so of none of the handlers of events.                           *)
LEMMA HandlerFails ==
    ASSUME Basics, NEW c \in Clients, NEW d \in Clients,
           \/ Retr(d) \/ Stor(d) \/ List(d) \/ Rename(d) \/ Pasv(d) \/ Abor(d)
           \/ Other(d) \/ Quit(d) \/ Receive(d) \/ IgnoreData(d) \/ AcceptData(d)
    PROVE  ~Succeeded(c)
<1>1. TypeOK /\ story[d] \in StoryRecord /\ transfers \in Nat
  BY DEF Basics, TypeOK
<1>2. ASSUME UNCHANGED story
      PROVE  ~Succeeded(c)
  BY <1>2 DEF Succeeded
<1>3. ASSUME NEW kind, NEW size \in Nat, Transfer(d, kind, size)
      PROVE  ~Succeeded(c)
  <2>1. Begin(d, size) \in StoryRecord /\ Begin(d, size).cur = transfers + 1
    BY <1>1, BeginTypes
  <2>2. PICK cl : OpenData(d, cl, Begin(d, size))
    BY <1>3 DEF Transfer
  <2>3. transfers + 1 # 0
    BY <1>1
  <2> QED
    BY <1>1, <2>1, <2>2, <2>3, OpenFails
<1>4. CASE Retr(d) \/ Stor(d)
  BY <1>3, <1>4, Constants DEF Retr, Stor
<1>5. CASE List(d)
  BY <1>1, <1>5, OpenFails DEF List
<1>6. CASE Pasv(d) \/ Quit(d)
  BY <1>1, <1>2, <1>6, DropFails DEF Pasv, Quit
<1>7. CASE Abor(d)
  <2>1. story' = [story EXCEPT ![d] = IF client[d].pending = "none" THEN story[d] ELSE Ended(story[d], "426")]
    BY <1>7 DEF Abor
  <2> DEFINE s == IF client[d].pending = "none" THEN story[d] ELSE Ended(story[d], "426")
  <2>2. s.cur = 0 /\ s.reply = "226" => story[d].cur = 0
    BY <1>1, EndedReply
  <2>3. story' = [story EXCEPT ![d] = s]
    BY <2>1
  <2> HIDE DEF s
  <2> QED
    BY <1>1, <2>2, <2>3, ReplacedFails
<1>8. CASE Receive(d)
  <2>0. PICK n \in 0 .. (BufferSize - Len(client[d].buffer)) : \E b :
           \/ SendCommand(WriteCommand(d, b, n), [client[d] EXCEPT !.buffer = b],
                          [story[d] EXCEPT !.got = @ + n])
           \/ story' = [story EXCEPT ![d] = [story[d] EXCEPT !.got = @ + n]]
    BY <1>8 DEF Receive, WriteCommand
  <2>1. PICK b :
           \/ SendCommand(WriteCommand(d, b, n), [client[d] EXCEPT !.buffer = b],
                          [story[d] EXCEPT !.got = @ + n])
           \/ story' = [story EXCEPT ![d] = [story[d] EXCEPT !.got = @ + n]]
    BY <2>0
  <2> DEFINE s == [story[d] EXCEPT !.got = @ + n]
             m == WriteCommand(d, b, n)
  <2>2. s \in StoryRecord /\ s.cur = story[d].cur
    <3>1. n \in Nat /\ story[d].got \in Nat
      BY <1>1, Constants DEF StoryRecord
    <3>2. story[d].got + n \in Nat
      BY <3>1
    <3> QED
      BY <1>1, <3>2 DEF StoryRecord
  <2>3. m.client = d
    BY DEF WriteCommand
  <2>4. (\E cl : SendCommand(m, cl, s)) \/ story' = [story EXCEPT ![d] = s]
    BY <2>1
  <2> HIDE DEF s, m
  <2> QED
    BY <1>1, <2>2, <2>3, <2>4, SendFails, ReplacedFails
<1>9. CASE AcceptData(d)
  <2> DEFINE s == [story[d] EXCEPT !.wire = <<>>]
  <2>1. s \in StoryRecord /\ s.cur = story[d].cur
    BY <1>1, Constants DEF StoryRecord
  <2>2. Drop(d, "425") \/ \E cl : ProcessBof(d, cl, s)
    BY <1>9 DEF AcceptData
  <2> HIDE DEF s
  <2> QED
    BY <1>1, <2>1, <2>2, DropFails, BofFails
<1>10. CASE Rename(d) \/ Other(d) \/ IgnoreData(d)
  BY <1>2, <1>10 DEF Rename, Other, IgnoreData
<1> QED
  BY <1>4, <1>5, <1>6, <1>7, <1>8, <1>9, <1>10

(* A handler of an answer that is a success comes to the end of its        *)
(* transfer; the others leave theirs unfinished or fail it.                *)
LEMMA ReadSucceeds ==
    ASSUME Basics, NEW c \in Clients, AnswerRead, Succeeded(c)
    PROVE  LET m == Head(serverQueue)
           IN  /\ m \in ToSet(serverQueue) /\ IsRead(m, c) /\ m.eof /\ ~m.error
               /\ story'[c].wire = story[c].wire \o m.units
<1> DEFINE m == Head(serverQueue)
           d == m.client
           w == [story[d] EXCEPT !.wire = @ \o m.units]
<1>1. AtAnswer /\ serverQueue # <<>> /\ m.type = "read"
  BY DEF AnswerRead
<1>2. m \in ToSet(serverQueue) /\ m \in Answers
  BY <1>1, QueueElements DEF Basics, TypeOK
<1>3. m # None /\ d \in Clients /\ story[d] \in StoryRecord /\ TypeOK /\ m.units \in Seq(Nat \X Nat)
  BY <1>1, <1>2, AnswerTypes, NotNone DEF Basics
<1>4. w \in StoryRecord /\ w.cur = story[d].cur /\ w.wire = story[d].wire \o m.units
  <2>1. story[d].wire \o m.units \in Seq(Nat \X Nat)
    BY <1>3, ConcatProperties DEF StoryRecord
  <2> HIDE DEF m, d
  <2> QED
    BY <1>3, <2>1 DEF StoryRecord
<1>5. PICK sent \in {FALSE, TRUE, client[d].data} :
         IF m.eof \/ m.error \/ ~sent
         THEN ProcessEof(d, IF m.error \/ ~sent THEN "421" ELSE "226", IF sent THEN w ELSE story[d])
         ELSE story' = [story EXCEPT ![d] = IF sent THEN w ELSE story[d]]
  BY DEF AnswerRead
<1> DEFINE s == IF sent THEN w ELSE story[d]
<1>6. s \in StoryRecord /\ s.cur = story[d].cur /\ (sent => s = w)
  BY <1>3, <1>4
<1> HIDE DEF w, s, d, m
<1>7. CASE m.error \/ ~sent
  <2>1. ProcessEof(d, "421", s)
    BY <1>5, <1>7 DEF s
  <2> QED
    BY <1>3, <1>6, <2>1, EofFails
<1>8. CASE ~m.eof /\ ~(m.error \/ ~sent)
  <2>1. story' = [story EXCEPT ![d] = s]
    BY <1>5, <1>8 DEF s
  <2> QED
    BY <1>3, <1>6, <2>1, ReplacedFails
<1>9. CASE m.eof /\ ~(m.error \/ ~sent)
  <2>1. ProcessEof(d, "226", s)
    BY <1>5, <1>9 DEF s
  <2>2. PICK r : story' = [story EXCEPT ![d] = Ended(s, r)]
    BY <2>1 DEF ProcessEof
  <2>3. story'[d] = Ended(s, r) /\ (c # d => story'[c] = story[c])
    BY <1>3, <2>2 DEF TypeOK
  <2>4. c = d
    BY <2>3 DEF Succeeded
  <2>5. story'[c].wire = story[c].wire \o m.units
    <3>1. Ended(s, r).wire = s.wire /\ s = w
      BY <1>6, <1>9, EndedReply
    <3>2. story'[c].wire = w.wire
      BY <2>3, <2>4, <3>1
    <3>3. w.wire = story[c].wire \o m.units
      BY <1>4, <2>4
    <3> QED
      BY <3>2, <3>3
  <2> QED
    BY <1>1, <1>2, <1>3, <1>9, <2>4, <2>5 DEF m, d, IsRead
<1> QED
  BY <1>7, <1>8, <1>9

(* Likewise an answer about a write.                                       *)
LEMMA WriteSucceeds ==
    ASSUME Basics, NEW c \in Clients, AnswerWrite, Succeeded(c)
    PROVE  LET m == Head(serverQueue)
           IN  /\ m \in ToSet(serverQueue) /\ IsWrite(m, c) /\ ~m.error
               /\ serverQueue # <<>>
<1> DEFINE m == Head(serverQueue)
           d == m.client
<1>1. AtAnswer /\ serverQueue # <<>> /\ m.type = "write" /\ ProcessEof(d, IF m.error THEN "421" ELSE "226", story[d])
  BY DEF AnswerWrite
<1>2. m \in ToSet(serverQueue) /\ m \in Answers
  BY <1>1, QueueElements DEF Basics, TypeOK
<1>3. m # None /\ d \in Clients /\ story[d] \in StoryRecord /\ TypeOK
  BY <1>1, <1>2, AnswerTypes, NotNone DEF Basics
<1> HIDE DEF m, d
<1>4. ~m.error
  <2>1. m.error => ProcessEof(d, "421", story[d])
    BY <1>1
  <2> QED
    BY <1>3, <2>1, EofFails
<1>5. PICK s : story' = [story EXCEPT ![d] = s]
  BY <1>1 DEF ProcessEof
<1>6. c = d
  BY <1>3, <1>5 DEF TypeOK, Succeeded
<1> QED
  BY <1>1, <1>2, <1>3, <1>4, <1>6 DEF m, d, IsWrite

(* So a 226 is given to an answer of the I/O thread only.                  *)
LEMMA OnlyAnswersSucceed ==
    ASSUME Basics, NEW c \in Clients, [Next]_vars, Succeeded(c)
    PROVE  AnswerRead \/ AnswerWrite
<1>1. TypeOK
  BY DEF Basics
<1>2. ASSUME UNCHANGED story
      PROVE  FALSE
  BY <1>2 DEF Succeeded
<1>3. CASE Poll \/ SkipClosed \/ AcceptControl \/ AddFinished \/ NoAnswer
  BY <1>2, <1>3 DEF Poll, SkipClosed, AcceptControl, AddFinished, NoAnswer
<1>4. CASE AddTimedOut
  <2>1. ProcessEof(cmd.client, "421", story[cmd.client]) /\ cmd \in IoCommands
    BY <1>1, <1>4 DEF AddTimedOut, TypeOK
  <2>2. cmd.client \in Clients /\ story[cmd.client] \in StoryRecord
    BY <1>1, <2>1, NotNone DEF TypeOK
  <2> QED
    BY <1>1, <2>1, <2>2, EofFails
<1>5. CASE ServerExit
  <2>1. story'[c] = Ended(story[c], "none") /\ story[c] \in StoryRecord
    BY <1>1, <1>5 DEF ServerExit, TypeOK
  <2> QED
    BY <2>1, EndedReply DEF Succeeded
<1>6. CASE IoStep
  <2>1. Recorded(story')
    BY <1>6, IoEffects, IoRecorded
  <2> QED
    BY <2>1 DEF Recorded, Succeeded
<1>7. CASE ExitStep
  BY <1>2, <1>7 DEF ExitStep, Stop, JoinServer, JoinIo, DrainServer, DrainIo, DeleteQueues, ExitUnchanged
<1>8. CASE UNCHANGED vars
  BY <1>2, <1>8 DEF vars
<1> QED
  BY <1>3, <1>4, <1>5, <1>6, <1>7, <1>8, HandlerFails DEF Next, ServerStep

(* At that answer the invariants say what has been sent and what is in the *)
(* file.                                                                   *)
LEMMA SucceededIsComplete ==
    ASSUME Basics, Retrieve, Store, [Next]_vars, NEW c \in Clients, story[c].clean
    PROVE  /\ Completed(c, "RETR") => story'[c].wire = Units(story[c].cur, story[c].size)
           /\ Completed(c, "STOR") /\ ~story[c].lost /\ story[c].got # 0 =>
                  story[c].file = Units(story[c].cur, story[c].got)
<1> SUFFICES ASSUME NotFlushed, Succeeded(c)
             PROVE  /\ client[c].pending = "RETR" => story'[c].wire = Units(story[c].cur, story[c].size)
                    /\ client[c].pending = "STOR" /\ ~story[c].lost /\ story[c].got # 0 =>
                           story[c].file = Units(story[c].cur, story[c].got)
  BY DEF Completed, Succeeded
<1> DEFINE m == Head(serverQueue)
<1>1. Retrieval(c) /\ Storage(c) /\ TypeOK /\ story[c] \in StoryRecord /\ serverQueue \in Seq(Answers)
  BY DEF Retrieve, Store, Clean, Succeeded, Basics, TypeOK
<1>2. PICK x \in Nat, n \in Nat, got \in Nat : x = story[c].cur /\ n = story[c].size /\ got = story[c].got
  BY <1>1 DEF StoryRecord
<1>3. CASE AnswerRead
  <2>1. /\ m \in ToSet(serverQueue) /\ IsRead(m, c) /\ m.eof /\ ~m.error /\ serverQueue # <<>>
        /\ story'[c].wire = story[c].wire \o m.units
    BY <1>3, ReadSucceeds DEF AnswerRead
  <2>2. client[c].started /\ client[c].pending = "RETR"
    BY <1>1, <2>1 DEF Retrieval, NoReads
  <2>3. PICK a \in 0 .. n, b \in 0 .. n :
          story[c].wire = Units(x, a) /\ Leads(c, x, n, serverQueue, a, b)
    BY <1>1, <1>2 DEF Retrieval, Chained
  <2>4. PICK e \in 0 .. n : Link(c, x, n, m, a, e)
    BY <1>1, <2>1, <2>3, LeadsFrom
  <2>5. a \in Nat /\ e = n /\ a <= n /\ m.units = [k \in 1 .. n - a |-> Unit(x, a + k)]
    <3>1. a <= e /\ m.units = [k \in 1 .. e - a |-> Unit(x, a + k)] /\ e = n
      BY <2>1, <2>4 DEF Link
    <3> QED
      BY <3>1
  <2>6. story'[c].wire = [k \in 1 .. a |-> Unit(x, k)] \o [k \in 1 .. n - a |-> Unit(x, a + k)]
    BY <2>1, <2>3, <2>5 DEF Units
  <2>7. [k \in 1 .. a |-> Unit(x, k)] \o [k \in 1 .. n - a |-> Unit(x, a + k)] = [k \in 1 .. n |-> Unit(x, k)]
    BY <2>5, UnitsOn
  <2> QED
    BY <1>2, <2>2, <2>6, <2>7 DEF Units
<1>4. CASE AnswerWrite
  <2>1. m \in ToSet(serverQueue) /\ IsWrite(m, c) /\ ~m.error /\ serverQueue # <<>>
    BY <1>4, WriteSucceeds
  <2>2. client[c].pending = "STOR"
    BY <1>1, <2>1 DEF Storage
  <2>3. Succeeds(c, serverQueue)
    BY <1>1, <2>1, SucceedsTail
  <2>4. ~story[c].lost /\ got # 0 => story[c].file = Units(x, got)
    <3>1. got # 0 => got > 0
      OBVIOUS
    <3> QED
      BY <1>1, <1>2, <2>3, <3>1 DEF Storage, Complete, InFileUpTo
  <2> QED
    BY <1>2, <2>2, <2>4
<1> QED
  BY <1>3, <1>4, OnlyAnswersSucceed

(* A transfer that began with a clean slot and is answered with 226 sent   *)
(* the whole file, or has in its file all the data received if none of its *)
(* messages was dropped; so a 226 never comes early, before blocks that    *)
(* are still in one of the queues.                                         *)
THEOREM SuccessMeansAll == Spec => TransferComplete
<1> DEFINE Inv == Basics /\ Own /\ NoBlockWaits /\ Retrieve /\ Store
<1>1. Init => Inv
  BY InitBasics DEF Init, Own, NoBlockWaits, Retrieve, Store, Clean, NewStory
<1>2. Inv /\ [Next]_vars => Inv'
  BY NextBasics, NextOwn, NextNoBlockWaits, NextRetrieve, NextStore
<1>3. Inv /\ [Next]_vars =>
        [\A c \in Clients : story[c].clean =>
           /\ Completed(c, "RETR") => story'[c].wire = Units(story[c].cur, story[c].size)
           /\ Completed(c, "STOR") /\ ~story[c].lost /\ story[c].got # 0 =>
                  story[c].file = Units(story[c].cur, story[c].got)]_vars
  BY SucceededIsComplete
<1> HIDE DEF Inv
<1> QED
  BY <1>1, <1>2, <1>3, PTL DEF Spec, TransferComplete

=============================================================================
