----------------------------- MODULE FtpServer -----------------------------
(***************************************************************************)
(* The transfers of the FTP server (src/source/ftp_daemon.c over           *)
(* src/source/system/util/ftp.c): the server thread, which polls the       *)
(* sockets and runs one handler for each that is readable, and the I/O     *)
(* thread, which reads and writes the files. The server thread sends       *)
(* IO_CMD_READ and IO_CMD_WRITE through io_thread_queue; the I/O thread    *)
(* answers with IO_RES_READ and IO_RES_WRITE through server_thread_queue.  *)
(* Both queues are bounded and an add to a full one waits for a minute.    *)
(* The exit thread stops the two and releases what is left in the queues.  *)
(*                                                                         *)
(* A command or an answer names its client only by client_index. The       *)
(* history variable story says which transfer the bytes that move belong   *)
(* to; the code has nothing like it.                                       *)
(*                                                                         *)
(* A handler of the server thread is one step, up to a call of             *)
(* Util_queue_add on a full queue. A socket is open or closed; the loop    *)
(* over the polled handles skips those closed meanwhile, and a descriptor  *)
(* closed in the loop is never given out again to a later entry of it, as  *)
(* only the handler of a client's control connection opens sockets. A byte *)
(* is abstracted to a unit: 250 KB of buffer are BufferSize units.         *)
(* Names, paths, policies, directories and the status screen are left out. *)
(***************************************************************************)
EXTENDS Naturals, Sequences, SequencesExt, FiniteSets

CONSTANTS
    NumClients,         \* MAX_CLIENTS; also the number of read states
    ServerQueueSize,    \* MAX_SERVER_QUEUE
    IoQueueSize,        \* MAX_IO_QUEUE
    BufferSize,         \* IO_BUFFER_SIZE in units
    FileSizes,          \* the sizes a retrieved file may have, in units
    Commands,           \* the commands the clients send
    FilesFail,          \* whether files and memory may fail
    Exits,              \* whether the program may be left
    MaxUnits,           \* bound: units a client stores in one transfer
    MaxSessions,        \* bound: control connections accepted
    MaxTransfers        \* bound: transfers started

ASSUME FtpAssumption ==
    /\ NumClients \in Nat \ {0} /\ BufferSize \in Nat \ {0}
    /\ ServerQueueSize \in Nat \ {0} /\ IoQueueSize \in Nat \ {0}
    /\ FileSizes \subseteq Nat /\ FilesFail \in BOOLEAN /\ Exits \in BOOLEAN
    /\ Commands \subseteq {"RETR", "STOR", "LIST", "RNFR", "PASV", "ABOR", "QUIT"}
    /\ MaxUnits \in Nat /\ MaxSessions \in Nat /\ MaxTransfers \in Nat

VARIABLES
    client,         \* Ftp_client and Ftpd_client_user_data of each slot
    ready,          \* the polled handles the server thread has not looked at yet
    spc, cmd,       \* server thread: where it is, the command it is adding
    iopc, index, res,   \* I/O thread: where it is, the read it is at, the answer it is adding
    reads,          \* Ftpd_fs.read
    serverQueue, ioQueue,
    running, xpc,   \* thread_run and the exit thread
    joined,         \* whether both joins of the exit thread were successful
    sessions, transfers,
    story           \* history: what happened to the transfer of each slot

serverVars == <<ready, spc, cmd>>
ioVars == <<iopc, index, res, reads>>
exitVars == <<running, xpc, joined>>
vars == <<client, serverVars, ioVars, serverQueue, ioQueue, exitVars,
          sessions, transfers, story>>

Clients == 1 .. NumClients
ReadSlots == 1 .. NumClients
None == [type |-> "none"]

(* Ftp_client_clear and Ftpd_client_user_data_clear: every socket closed,  *)
(* no pending command, the three fields of the user data reset.            *)
Cleared ==
    [control |-> FALSE, data |-> FALSE, listen |-> FALSE, pending |-> "none",
     started |-> FALSE, eofSent |-> FALSE, append |-> FALSE, buffer |-> <<>>]

(* The unit at offset k of what transfer x moves; a zero byte; what the    *)
(* file of a STOR holds before.                                            *)
Unit(x, k) == <<x, k>>
Zero == <<0, 0>>
Old == <<0, 1>>
Units(x, n) == [k \in 1 .. n |-> Unit(x, k)]

NewStory == [cur |-> 0, clean |-> FALSE, wire |-> <<>>, got |-> 0, size |-> 0,
             file |-> <<>>, lost |-> FALSE, reply |-> "none"]

Init ==
    /\ client = [c \in Clients |-> Cleared]
    /\ ready = {} /\ spc = "poll" /\ cmd = None
    /\ iopc = "reads" /\ index = 1 /\ res = None
    /\ reads = [i \in ReadSlots |-> None]
    /\ serverQueue = <<>> /\ ioQueue = <<>>
    /\ running = TRUE /\ xpc = "idle" /\ joined = TRUE
    /\ sessions = 0 /\ transfers = 0
    /\ story = [c \in Clients |-> NewStory]

-----------------------------------------------------------------------------
(* What the history records.                                               *)

(* Nothing of an earlier transfer of the slot is left anywhere.            *)
NothingLeftOf(c) ==
    /\ \A m \in ToSet(ioQueue) \cup ToSet(serverQueue) \cup {reads[i] : i \in ReadSlots} \cup {res} :
           m = None \/ m.client # c
    /\ ~client[c].started /\ ~client[c].eofSent /\ client[c].buffer = <<>>
    /\ client[c].data => story[c].wire = <<>>

Begin(c, size) ==
    [NewStory EXCEPT !.cur = transfers + 1, !.clean = NothingLeftOf(c),
                     !.wire = IF client[c].data THEN story[c].wire ELSE <<>>,
                     !.size = size, !.file = <<Old>>]

(* The transfer of the slot is over, with this reply or with none.         *)
Ended(s, reply) == [s EXCEPT !.cur = 0, !.reply = reply]

(* An answer is dropped.                                                   *)
Lost(s, m) == IF s[m.client].cur = m.xfer
              THEN [s EXCEPT ![m.client].lost = TRUE]
              ELSE s

-----------------------------------------------------------------------------
(* Server thread.                                                          *)

(* The handles in the order in which the loop builds and visits them.      *)
Listener == <<"accept", 0>>
HandleOf(kind, c) == <<kind, c>>
Kinds == {"control", "data", "listen"}
Rank(h) == IF h = Listener THEN 0
           ELSE 3 * h[2] + (CASE h[1] = "control" -> 0 [] h[1] = "data" -> 1 [] OTHER -> 2)
IsOpen(h) == h = Listener \/ client[h[2]][h[1]]
Handles == {Listener} \cup (Kinds \X Clients)

Poll ==
    /\ spc = "poll" /\ running
    /\ ready' \in SUBSET {h \in Handles : IsOpen(h) /\ (h = Listener => sessions < MaxSessions)}
    /\ spc' = "events"
    /\ UNCHANGED <<client, cmd, ioVars, serverQueue, ioQueue, exitVars,
                   sessions, transfers, story>>

(* The loop looks at its next handle.                                      *)
At(h) ==
    /\ spc = "events" /\ h \in ready
    /\ \A g \in ready : Rank(h) <= Rank(g)
    /\ ready' = ready \ {h}

SkipClosed ==
    /\ \E h \in ready : At(h) /\ ~IsOpen(h)
    /\ UNCHANGED <<client, spc, cmd, ioVars, serverQueue, ioQueue, exitVars,
                   sessions, transfers, story>>

(* Ftp_accept_control_connection: the first free slot, or refused. A       *)
(* greeting that cannot be sent clears the slot again.                     *)
AcceptControl ==
    /\ At(Listener)
    /\ sessions' = sessions + 1
    /\ LET free == {c \in Clients : ~client[c].control}
       IN  client' = [c \in Clients |->
               IF c \in free /\ \A d \in free : c <= d
               THEN [client[c] EXCEPT !.control = TRUE]
               ELSE client[c]]
    /\ UNCHANGED <<spc, cmd, ioVars, serverQueue, ioQueue, exitVars, transfers, story>>

(* Ftp_client_clear by any of the handlers of a client.                    *)
Drop(c, reply) ==
    /\ client' = [client EXCEPT ![c] = Cleared]
    /\ story' = [story EXCEPT ![c] = Ended([@ EXCEPT !.wire = <<>>], reply)]

(* Ftpd_process_eof: the state of the transfer that is pending NOW is      *)
(* reset, then the response goes out; 421 and a failing send close the     *)
(* connection. s is the story so far.                                      *)
ProcessEof(c, response, s) ==
    LET cl == client[c]
        done == CASE cl.pending = "RETR" ->
                       [cl EXCEPT !.started = FALSE, !.data = FALSE, !.pending = "none"]
                  [] cl.pending = "STOR" ->
                       [cl EXCEPT !.eofSent = FALSE, !.buffer = <<>>, !.append = FALSE,
                                  !.data = FALSE, !.pending = "none"]
                  [] OTHER -> cl
    IN  \/ /\ cl.control /\ response = "226"
           /\ client' = [client EXCEPT ![c] = done]
           /\ story' = [story EXCEPT ![c] = Ended(s, "226")]
        \/ /\ client' = [client EXCEPT ![c] = Cleared]
           /\ story' = [story EXCEPT ![c] = Ended(s, IF cl.control /\ response = "421"
                                                     THEN "421" ELSE "none")]

(* Mutant: the packets after the first one replace the file as well.       *)
StoredReplacing(cl, m) ==
    IF m.type = "read"
    THEN [cl EXCEPT !.started = TRUE]
    ELSE [cl EXCEPT !.buffer = <<>>, !.eofSent = m.eof]

(* The fields the handlers set once their command is stored.               *)
Stored(cl, m) ==
    IF m.type = "read"
    THEN [cl EXCEPT !.started = TRUE]
    ELSE [cl EXCEPT !.append = TRUE, !.buffer = <<>>, !.eofSent = m.eof]

Deleted == xpc = "done"

(* How an add that waits fails: a minute has passed and the queue is still *)
(* full, or the queue is deleted.                                          *)
GivesUp(full) == full \/ Deleted

(* Util_queue_add of a command. cl and s are the client and its story at   *)
(* the call; without memory for the command the handler answers 421.       *)
SendCommand(m, cl, s) ==
    \/ /\ Len(ioQueue) < IoQueueSize /\ ~Deleted
       /\ ioQueue' = Append(ioQueue, m)
       /\ client' = [client EXCEPT ![m.client] = Stored(cl, m)]
       /\ story' = [story EXCEPT ![m.client] = s]
       /\ UNCHANGED <<spc, cmd>>
    \/ /\ Len(ioQueue) = IoQueueSize /\ ~Deleted
       /\ spc' = "adding" /\ cmd' = m
       /\ client' = [client EXCEPT ![m.client] = cl]
       /\ story' = [story EXCEPT ![m.client] = s]
       /\ UNCHANGED ioQueue
    \/ /\ FilesFail \/ Deleted
       /\ ProcessEof(m.client, "421", s)
       /\ UNCHANGED <<spc, cmd, ioQueue>>

AddFinished ==
    /\ spc = "adding" /\ Len(ioQueue) < IoQueueSize /\ ~Deleted
    /\ ioQueue' = Append(ioQueue, cmd)
    /\ client' = [client EXCEPT ![cmd.client] = Stored(@, cmd)]
    /\ spc' = "events" /\ cmd' = None
    /\ UNCHANGED <<ready, ioVars, serverQueue, exitVars, sessions, transfers, story>>

(* The add fails: 421.                                                     *)
AddTimedOut ==
    /\ spc = "adding" /\ GivesUp(Len(ioQueue) = IoQueueSize)
    /\ ProcessEof(cmd.client, "421", story[cmd.client])
    /\ spc' = "events" /\ cmd' = None
    /\ UNCHANGED <<ready, ioVars, serverQueue, ioQueue, exitVars, sessions, transfers>>

(* Ftpd_process_bof, once the data connection is there. LIST and NLST send *)
(* their lines, close it and answer at once.                               *)
ProcessBof(c, cl, s) ==
    \/ /\ cl.pending = "RETR" /\ ~cl.started
       /\ SendCommand([type |-> "read", client |-> c, xfer |-> s.cur, size |-> s.size], cl, s)
    \/ /\ cl.pending = "LIST"
       /\ \/ client' = [client EXCEPT ![c] = [cl EXCEPT !.data = FALSE, !.pending = "none"]]
          \/ client' = [client EXCEPT ![c] = Cleared]
       /\ story' = [story EXCEPT ![c] = s]
       /\ UNCHANGED <<spc, cmd, ioQueue>>
    \/ /\ cl.pending = "RETR" => cl.started
       /\ cl.pending # "LIST"
       /\ client' = [client EXCEPT ![c] = cl]
       /\ story' = [story EXCEPT ![c] = s]
       /\ UNCHANGED <<spc, cmd, ioQueue>>

(* The command is accepted: transfer at once over an open data connection, *)
(* after the client connects to a listening one, or after connecting to    *)
(* the client.                                                             *)
OpenData(c, cl, s) ==
    \/ /\ cl.data
       /\ ProcessBof(c, cl, s)
    \/ /\ ~cl.data /\ cl.listen
       /\ client' = [client EXCEPT ![c] = cl]
       /\ story' = [story EXCEPT ![c] = s]
       /\ UNCHANGED <<spc, cmd, ioQueue>>
    \/ /\ ~cl.data /\ ~cl.listen
       /\ \/ ProcessBof(c, [cl EXCEPT !.data = TRUE], s)
          \/ Drop(c, "425") /\ UNCHANGED <<spc, cmd, ioQueue>>

AtControl(c) ==
    /\ At(HandleOf("control", c)) /\ client[c].control
    /\ UNCHANGED <<ioVars, serverQueue, exitVars, sessions>>

(* Ftp_process_retr and Ftp_process_stor_stou_appe. A command while        *)
(* another one is pending is refused and changes nothing, as are those     *)
(* that only set a parameter.                                              *)
Transfer(c, kind, size) ==
    /\ AtControl(c) /\ kind \in Commands
    /\ client[c].pending = "none"
    /\ transfers < MaxTransfers /\ transfers' = transfers + 1
    /\ OpenData(c, [client[c] EXCEPT !.pending = kind,
                                     !.append = IF kind = "STOR" THEN FALSE ELSE @],
                Begin(c, size))

Retr(c) == \E size \in FileSizes : Transfer(c, "RETR", size)
Stor(c) == Transfer(c, "STOR", 0)

List(c) ==
    /\ AtControl(c) /\ "LIST" \in Commands
    /\ client[c].pending = "none"
    /\ OpenData(c, [client[c] EXCEPT !.pending = "LIST"], story[c])
    /\ UNCHANGED transfers

(* Ftp_process_rnfr and Ftp_process_rnto: RNFR waits for RNTO.             *)
Rename(c) ==
    /\ AtControl(c) /\ "RNFR" \in Commands
    /\ client[c].pending \in {"none", "RNFR"}
    /\ client' = [client EXCEPT ![c].pending = IF @ = "none" THEN "RNFR" ELSE "none"]
    /\ UNCHANGED <<spc, cmd, ioQueue, transfers, story>>

Pasv(c) ==
    /\ AtControl(c) /\ "PASV" \in Commands
    /\ ~client[c].listen /\ ~client[c].data
    /\ \/ client' = [client EXCEPT ![c].listen = TRUE] /\ UNCHANGED story
       \/ Drop(c, "421")
    /\ UNCHANGED <<spc, cmd, ioQueue, transfers>>

(* Ftp_store_clear fills the buffer with zero bytes and leaves             *)
(* store_buffer_offset, which is user data, alone.                         *)
Zeros(b) == [k \in 1 .. Len(b) |-> Zero]

(* Ftp_process_abor: the data connection is closed when a command is       *)
(* pending.                                                                *)
Abor(c) ==
    /\ AtControl(c) /\ "ABOR" \in Commands
    /\ LET cl == client[c]
       IN  client' = [client EXCEPT ![c] =
               [cl EXCEPT !.data = (cl.pending = "none") /\ cl.data, !.pending = "none",
                          !.append = FALSE, !.buffer = Zeros(cl.buffer)]]
    /\ story' = [story EXCEPT ![c] =
           IF client[c].pending = "none" THEN @ ELSE Ended(@, "426")]
    /\ UNCHANGED <<spc, cmd, ioQueue, transfers>>

(* Any other command, or one that is refused.                              *)
Other(c) ==
    /\ AtControl(c)
    /\ UNCHANGED <<client, spc, cmd, ioQueue, transfers, story>>

(* QUIT, a connection that is gone, or a response that cannot be sent.     *)
Quit(c) ==
    /\ AtControl(c)
    /\ Drop(c, "none")
    /\ UNCHANGED <<spc, cmd, ioQueue, transfers>>

(* Mutant: a buffer that is just full is kept.                             *)
MustSendLate(n, b) == n = 0 \/ Len(b) > BufferSize

(* The end of the data is always passed on, data when the buffer is full.  *)
MustSend(n, b) == n = 0 \/ Len(b) >= BufferSize

(* Ftpd_process_data_connection for a STOR: one read of the socket.        *)
Receive(c) ==
    LET cl == client[c]
        s == story[c]
    IN  /\ At(HandleOf("data", c)) /\ cl.data
        /\ cl.pending = "STOR" /\ ~cl.eofSent
        /\ \E n \in 0 .. (BufferSize - Len(cl.buffer)) :
               LET b == cl.buffer \o [k \in 1 .. n |-> Unit(s.cur, s.got + k)]
                   full == [cl EXCEPT !.buffer = b]
                   s2 == [s EXCEPT !.got = @ + n]
               IN  /\ s2.got <= MaxUnits
                   /\ IF MustSend(n, b)
                      THEN SendCommand([type |-> "write", client |-> c, xfer |-> s.cur,
                                        units |-> b, append |-> cl.append, eof |-> n = 0],
                                       full, s2)
                      ELSE /\ client' = [client EXCEPT ![c] = full]
                           /\ story' = [story EXCEPT ![c] = s2]
                           /\ UNCHANGED <<spc, cmd, ioQueue>>
        /\ UNCHANGED <<ioVars, serverQueue, exitVars, sessions, transfers>>

(* Nothing to do for the data connection: no STOR, its end already passed  *)
(* on, or a read that fails.                                               *)
IgnoreData(c) ==
    /\ At(HandleOf("data", c)) /\ client[c].data
    /\ UNCHANGED <<client, spc, cmd, ioVars, serverQueue, ioQueue, exitVars,
                   sessions, transfers, story>>

(* Ftp_accept_data_connection, then BOF; a failure closes the client.      *)
AcceptData(c) ==
    LET s == story[c]
    IN  /\ At(HandleOf("listen", c)) /\ client[c].listen
        /\ \/ /\ ~client[c].data
              /\ ProcessBof(c, [client[c] EXCEPT !.listen = FALSE, !.data = TRUE],
                            [s EXCEPT !.wire = <<>>])
           \/ Drop(c, "425") /\ UNCHANGED <<spc, cmd, ioQueue>>
        /\ UNCHANGED <<ioVars, serverQueue, exitVars, sessions, transfers>>

(* Ftpd_process_res_read and Ftpd_process_res_write of the first answer    *)
(* in the queue, once the handles are done.                                *)
AtAnswer ==
    /\ spc = "events" /\ ready = {} /\ spc' = "poll"
    /\ UNCHANGED <<ready, cmd, ioVars, ioQueue, exitVars, sessions, transfers>>

NoAnswer ==
    /\ AtAnswer /\ (serverQueue = <<>> \/ Deleted)
    /\ UNCHANGED <<client, serverQueue, story>>

AnswerRead ==
    /\ AtAnswer /\ serverQueue # <<>> /\ ~Deleted
    /\ LET m == Head(serverQueue)
           c == m.client
       IN  /\ m.type = "read"
           /\ \E sent \in IF m.units = <<>> THEN {TRUE} ELSE {FALSE, client[c].data} :
                  LET s == IF sent THEN [story[c] EXCEPT !.wire = @ \o m.units] ELSE story[c]
                      error == m.error \/ ~sent
                  IN  IF m.eof \/ error
                      THEN ProcessEof(c, IF error THEN "421" ELSE "226", s)
                      ELSE /\ story' = [story EXCEPT ![c] = s]
                           /\ UNCHANGED client
    /\ serverQueue' = Tail(serverQueue)

AnswerWrite ==
    /\ AtAnswer /\ serverQueue # <<>> /\ ~Deleted
    /\ LET m == Head(serverQueue)
       IN  /\ m.type = "write"
           /\ ProcessEof(m.client, IF m.error THEN "421" ELSE "226", story[m.client])
    /\ serverQueue' = Tail(serverQueue)

(* The end of the thread: Ftp_clients_exit closes every socket.            *)
ServerExit ==
    /\ spc = "poll" /\ ~running
    /\ spc' = "exit"
    /\ client' = [c \in Clients |-> Cleared]
    /\ story' = [c \in Clients |-> Ended(story[c], "none")]
    /\ UNCHANGED <<ready, cmd, ioVars, serverQueue, ioQueue, exitVars, sessions, transfers>>

ServerStep ==
    \/ Poll \/ SkipClosed \/ AcceptControl \/ AddFinished \/ AddTimedOut
    \/ \E c \in Clients :
          \/ Retr(c) \/ Stor(c) \/ List(c) \/ Rename(c) \/ Pasv(c) \/ Abor(c)
          \/ Other(c) \/ Quit(c) \/ Receive(c) \/ IgnoreData(c) \/ AcceptData(c)
    \/ NoAnswer \/ AnswerRead \/ AnswerWrite \/ ServerExit

-----------------------------------------------------------------------------
(* I/O thread.                                                             *)

IoUnchanged == UNCHANGED <<client, serverVars, exitVars, sessions, transfers>>

(* The read states from index on that are in use; the loop visits them in  *)
(* order, then takes one command.                                          *)
Left == {i \in ReadSlots : i >= index /\ reads[i] # None}

(* The next turn of the loop, if the thread shall go on.                   *)
NextTurn == /\ iopc' = IF running THEN "reads" ELSE "exit"
            /\ index' = 1

(* The file block at the offset of a read state, or the failure to load it. *)
Block(r, failed) ==
    LET left == r.size - r.offset
        n == IF failed THEN 0 ELSE IF left < BufferSize THEN left ELSE BufferSize
    IN  [type |-> "read", client |-> r.client, xfer |-> r.xfer,
         units |-> [k \in 1 .. n |-> Unit(r.xfer, r.offset + k)],
         eof |-> n < BufferSize, error |-> failed]

KeptAtEnd(r, m) == [r EXCEPT !.offset = @ + Len(m.units)]  \* mutant: read on
NotAdvanced(r, m) == IF m.eof THEN None ELSE r  \* mutant: the offset stays

(* The read state after its block m is stored in the queue.                *)
Advanced(r, m) == IF m.eof THEN None ELSE [r EXCEPT !.offset = @ + Len(m.units)]

(* Ftpd_io_process_read for one read state. Without memory for the answer  *)
(* the read is given up and nobody is told.                                *)
ReadBlock(i) ==
    /\ iopc = "reads" /\ i \in Left /\ \A j \in Left : i <= j
    /\ \/ \E failed \in {FALSE, FilesFail} :
              LET m == Block(reads[i], failed)
              IN  \/ /\ Len(serverQueue) < ServerQueueSize /\ ~Deleted
                     /\ serverQueue' = Append(serverQueue, m)
                     /\ reads' = [reads EXCEPT ![i] = Advanced(@, m)]
                     /\ index' = i + 1
                     /\ UNCHANGED <<iopc, res>>
                  \/ /\ Len(serverQueue) = ServerQueueSize /\ ~Deleted
                     /\ iopc' = "addRead" /\ index' = i /\ res' = m
                     /\ UNCHANGED <<reads, serverQueue>>
          /\ UNCHANGED story
       \/ /\ FilesFail \/ Deleted
          /\ reads' = [reads EXCEPT ![i] = None]
          /\ index' = i + 1
          /\ story' = Lost(story, reads[i])
          /\ UNCHANGED <<iopc, res, serverQueue>>
    /\ UNCHANGED ioQueue /\ IoUnchanged

(* The add of a block goes on, or fails after a minute.                    *)
ReadAdded ==
    /\ iopc = "addRead"
    /\ \/ /\ Len(serverQueue) < ServerQueueSize /\ ~Deleted
          /\ serverQueue' = Append(serverQueue, res)
          /\ reads' = [reads EXCEPT ![index] = Advanced(@, res)]
          /\ UNCHANGED story
       \/ /\ GivesUp(Len(serverQueue) = ServerQueueSize)
          /\ reads' = [reads EXCEPT ![index] = None]
          /\ story' = Lost(story, res)
          /\ UNCHANGED serverQueue
    /\ iopc' = "reads" /\ index' = index + 1 /\ res' = None
    /\ UNCHANGED ioQueue /\ IoUnchanged

(* Mutant: an answer that finds the queue full is dropped.                 *)
ReplyIfRoom(m, s) ==
    /\ serverQueue' = IF Len(serverQueue) < ServerQueueSize
                      THEN Append(serverQueue, m) ELSE serverQueue
    /\ story' = s
    /\ NextTurn /\ UNCHANGED res

(* The answer to a command, stored at once, waiting for room, or dropped   *)
(* for lack of memory. s is the story so far.                              *)
Reply(m, s) ==
    \/ /\ Len(serverQueue) < ServerQueueSize
       /\ serverQueue' = Append(serverQueue, m)
       /\ story' = s
       /\ NextTurn /\ UNCHANGED res
    \/ /\ Len(serverQueue) = ServerQueueSize
       /\ iopc' = "addRes" /\ res' = m
       /\ story' = s
       /\ UNCHANGED <<index, serverQueue>>
    \/ /\ FilesFail
       /\ story' = Lost(s, m)
       /\ NextTurn /\ UNCHANGED <<res, serverQueue>>

ReplyAdded ==
    /\ iopc = "addRes"
    /\ \/ /\ Len(serverQueue) < ServerQueueSize /\ ~Deleted
          /\ serverQueue' = Append(serverQueue, res)
          /\ UNCHANGED story
       \/ /\ GivesUp(Len(serverQueue) = ServerQueueSize)
          /\ story' = Lost(story, res)
          /\ UNCHANGED serverQueue
    /\ NextTurn /\ res' = None
    /\ UNCHANGED <<reads, ioQueue>> /\ IoUnchanged

AtCommand ==
    /\ iopc = "reads" /\ Left = {}
    /\ IoUnchanged

NoCommand ==
    /\ AtCommand /\ (ioQueue = <<>> \/ Deleted)
    /\ NextTurn
    /\ UNCHANGED <<res, reads, serverQueue, ioQueue, story>>

(* What is registered in read state i.                                     *)
NewRead(m, i) == [type |-> "read", client |-> m.client, xfer |-> m.xfer, size |-> m.size, offset |-> 0]

(* Ftpd_io_process_cmd_read: the first free read state, or an error if     *)
(* there is none.                                                          *)
CommandRead ==
    /\ AtCommand /\ ioQueue # <<>> /\ ~Deleted
    /\ LET m == Head(ioQueue)
           free == {i \in ReadSlots : reads[i] = None}
       IN  /\ m.type = "read"
           /\ \/ /\ \E i \in free : /\ \A j \in free : i <= j
                                   /\ reads' = [reads EXCEPT ![i] = NewRead(m, i)]
                 /\ NextTurn /\ UNCHANGED <<res, serverQueue, story>>
              \/ /\ free = {} \/ FilesFail
                 /\ Reply([type |-> "read", client |-> m.client, xfer |-> m.xfer,
                           units |-> <<>>, eof |-> FALSE, error |-> TRUE], story)
                 /\ UNCHANGED reads
    /\ ioQueue' = Tail(ioQueue)

(* What a write leaves in the file: a first one replaces what was there.   *)
Written(file, m) == IF m.append THEN file \o m.units ELSE m.units

(* Mutant: only a failure is answered. When a write is answered.           *)
AnswersFailure(m, failed) == failed
IsAnswered(m, failed) == m.eof \/ failed

(* Ftpd_io_process_cmd_write: an answer only at the end or on failure.     *)
CommandWrite ==
    /\ AtCommand /\ ioQueue # <<>> /\ ~Deleted
    /\ LET m == Head(ioQueue)
           c == m.client
       IN  /\ m.type = "write"
           /\ \E failed \in {FALSE, FilesFail /\ m.units # <<>>} :
                 LET s == IF failed \/ m.units = <<>> \/ story[c].cur # m.xfer
                          THEN story
                          ELSE [story EXCEPT ![c].file = Written(@, m)]
                 IN  IF IsAnswered(m, failed)
                     THEN Reply([type |-> "write", client |-> c, xfer |-> m.xfer,
                                 error |-> failed], s)
                     ELSE /\ story' = s
                          /\ NextTurn /\ UNCHANGED <<res, serverQueue>>
    /\ ioQueue' = Tail(ioQueue)
    /\ UNCHANGED reads

IoStep ==
    \/ \E i \in ReadSlots : ReadBlock(i)
    \/ ReadAdded \/ ReplyAdded \/ NoCommand \/ CommandRead \/ CommandWrite

-----------------------------------------------------------------------------
(* Exit thread: thread_run, the two joins, the two queues emptied and      *)
(* deleted. A join waits ten seconds, less than an add to a full queue or  *)
(* a handler's blocking call on a socket, so it may give up on a thread    *)
(* that is in one.                                                         *)
ExitUnchanged ==
    UNCHANGED <<client, serverVars, ioVars, sessions, transfers, story>>

Stop ==
    /\ Exits /\ xpc = "idle" /\ xpc' = "joinServer" /\ running' = FALSE
    /\ UNCHANGED <<joined, serverQueue, ioQueue>> /\ ExitUnchanged

JoinServer ==
    /\ xpc = "joinServer" /\ xpc' = "joinIo"
    /\ spc \in {"exit", "adding", "events"}
    /\ joined' = (joined /\ spc = "exit")
    /\ UNCHANGED <<running, serverQueue, ioQueue>> /\ ExitUnchanged

JoinIo ==
    /\ xpc = "joinIo" /\ xpc' = "drainServer"
    /\ iopc \in {"exit", "addRead", "addRes"}
    /\ joined' = (joined /\ iopc = "exit")
    /\ UNCHANGED <<running, serverQueue, ioQueue>> /\ ExitUnchanged

DrainServer ==
    /\ xpc = "drainServer" /\ xpc' = "drainIo" /\ serverQueue' = <<>>
    /\ UNCHANGED <<running, joined, ioQueue>> /\ ExitUnchanged

(* Mutant: the queue of the I/O thread is not emptied.                     *)
DrainIoNot ==
    /\ xpc = "drainIo" /\ xpc' = "delete"
    /\ UNCHANGED <<running, joined, serverQueue, ioQueue>> /\ ExitUnchanged

DrainIo ==
    /\ xpc = "drainIo" /\ xpc' = "delete" /\ ioQueue' = <<>>
    /\ UNCHANGED <<running, joined, serverQueue>> /\ ExitUnchanged

DeleteQueues ==
    /\ xpc = "delete" /\ xpc' = "done"
    /\ UNCHANGED <<running, joined, serverQueue, ioQueue>> /\ ExitUnchanged

ExitStep == Stop \/ JoinServer \/ JoinIo \/ DrainServer \/ DrainIo \/ DeleteQueues

Next == ServerStep \/ IoStep \/ ExitStep

Spec == Init /\ [][Next]_vars

(* The threads run on; the exit thread too, once it was started. An add to *)
(* a full queue ends, with room or after a minute.                         *)
FairSpec == Spec /\ WF_vars(ServerStep) /\ WF_vars(IoStep) /\ WF_vars(xpc # "idle" /\ ExitStep)

-----------------------------------------------------------------------------
(* Properties.                                                             *)

IoCommands ==
    [type : {"read"}, client : Clients, xfer : Nat, size : FileSizes]
        \cup [type : {"write"}, client : Clients, xfer : Nat, units : Seq(Nat \X Nat),
              append : BOOLEAN, eof : BOOLEAN]
Answers ==
    [type : {"read"}, client : Clients, xfer : Nat, units : Seq(Nat \X Nat),
     eof : BOOLEAN, error : BOOLEAN]
        \cup [type : {"write"}, client : Clients, xfer : Nat, error : BOOLEAN]

ClientRecord ==
    [control : BOOLEAN, data : BOOLEAN, listen : BOOLEAN,
     pending : {"none", "RETR", "STOR", "LIST", "RNFR"},
     started : BOOLEAN, eofSent : BOOLEAN, append : BOOLEAN, buffer : Seq(Nat \X Nat)]
StoryRecord ==
    [cur : Nat, clean : BOOLEAN, wire : Seq(Nat \X Nat), got : Nat, size : Nat,
     file : Seq(Nat \X Nat), lost : BOOLEAN, reply : {"none", "226", "421", "425", "426"}]
ReadStates ==
    [type : {"read"}, client : Clients, xfer : Nat, size : FileSizes, offset : Nat]

(* Types of the variables.                                                 *)
TypeOK ==
    /\ client \in [Clients -> ClientRecord]
    /\ ready \subseteq Handles
    /\ spc \in {"poll", "events", "adding", "exit"}
    /\ IF spc = "adding" THEN cmd \in IoCommands ELSE cmd = None
    /\ iopc \in {"reads", "addRead", "addRes", "exit"}
    /\ index \in 1 .. NumClients + 1
    /\ IF iopc \in {"addRead", "addRes"} THEN res \in Answers ELSE res = None
    /\ reads \in [ReadSlots -> {None} \cup ReadStates]
    /\ serverQueue \in Seq(Answers) /\ Len(serverQueue) <= ServerQueueSize
    /\ ioQueue \in Seq(IoCommands) /\ Len(ioQueue) <= IoQueueSize
    /\ running \in BOOLEAN /\ joined \in BOOLEAN
    /\ xpc \in {"idle", "joinServer", "joinIo", "drainServer", "drainIo", "delete", "done"}
    /\ sessions \in Nat /\ transfers \in Nat
    /\ story \in [Clients -> StoryRecord]

(* The commands, reads and answers about client c, wherever they are.      *)
InFlight(c) ==
    {m \in ToSet(ioQueue) \cup ToSet(serverQueue) \cup {reads[i] : i \in ReadSlots} \cup {cmd, res} :
         m # None /\ m.client = c}

(* The exit thread has not begun to empty the queues. It may do so while a *)
(* thread still runs, and takes blocks of a file away from the middle.     *)
NotFlushed == xpc \in {"idle", "joinServer", "joinIo", "drainServer"}

(* A transfer that starts with nothing left of an earlier one in its slot  *)
(* is only ever answered for itself: every command, read and answer that   *)
(* names the slot is its own (ftp_daemon.c:2303 and 2352 look at           *)
(* client_index alone).                                                    *)
OwnMessages ==
    \A c \in Clients : story[c].clean /\ story[c].cur # 0 =>
        \A m \in InFlight(c) : m.xfer = story[c].cur

(* Such a RETR puts the bytes of its file on the data connection from the  *)
(* first on, without a gap or a repetition, and a STOR puts none there.    *)
RetrievedInOrder ==
    NotFlushed =>
    \A c \in Clients : story[c].clean /\ story[c].cur # 0 =>
        \E n \in 0 .. story[c].size : story[c].wire = Units(story[c].cur, n)

(* A transfer that has handed its request or its end to the I/O thread and *)
(* waits for IO_RES_READ or IO_RES_WRITE does not wait in vain: something  *)
(* of it is on the way, unless the I/O thread had to drop its answer or    *)
(* the exit thread empties the queues.                                     *)
AnswerOnItsWay ==
    NotFlushed => \A c \in Clients :
        /\ story[c].clean /\ story[c].cur # 0 /\ ~story[c].lost
        /\ client[c].started \/ client[c].eofSent
        => InFlight(c) # {}

(* Buffers and queues keep what they are made for, and there is room in    *)
(* the buffer of a STOR when its socket is read: a read into no room is    *)
(* refused as an invalid argument, and as nothing but a later read frees   *)
(* the buffer the transfer would stand still with its data unread.         *)
RoomToReceive ==
    /\ TypeOK
    /\ \A c \in Clients :
           Len(client[c].buffer) < BufferSize \/ (spc = "adding" /\ cmd.client = c)

Completed(c, kind) ==
    /\ NotFlushed
    /\ story[c].cur # 0 /\ story'[c].cur = 0 /\ story'[c].reply = "226"
    /\ client[c].pending = kind

(* 226 means that all of it was moved. To a RETR: the whole file has been  *)
(* sent. To a STOR of a file that is not empty: the file holds what was    *)
(* received and nothing else, unless the answer about a failed write had   *)
(* to be dropped.                                                          *)
TransferComplete ==
    [][\A c \in Clients : story[c].clean =>
           /\ Completed(c, "RETR") => story'[c].wire = Units(story[c].cur, story[c].size)
           /\ Completed(c, "STOR") /\ ~story[c].lost /\ story[c].got # 0 =>
                  story[c].file = Units(story[c].cur, story[c].got)]_vars

(* What answers name is the slot (ftp_daemon.c:2303, 2352), so the next    *)
(* transfer in it begins clean only if this one has left nothing: with the *)
(* 226 its last command, read and answer are gone, in both threads.        *)
NothingLeft ==
    [][\A c \in Clients :
           /\ story[c].clean /\ ~story[c].lost
           /\ Completed(c, "RETR") \/ Completed(c, "STOR")
           => InFlight(c)' = {}]_vars

(* Such a transfer ends: answered, or with its connection.                 *)
Answered ==
    \A c \in Clients : \A x \in 1 .. MaxTransfers :
        (story[c].cur = x /\ story[c].clean /\ (client[c].started \/ client[c].eofSent))
            ~> (story[c].cur # x \/ story[c].lost)

(* Whatever the threads are doing, two of them waiting for room in each    *)
(* other's queue included, the exit comes to its end; if both joins were   *)
(* in time, no command or answer is left in the queues it deleted.         *)
ExitCompletes ==
    ~running ~> (/\ xpc = "done" /\ spc = "exit" /\ iopc = "exit"
                 /\ joined => serverQueue = <<>> /\ ioQueue = <<>>)
=============================================================================
