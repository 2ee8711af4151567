------------------------------ MODULE Playlist ------------------------------
(***************************************************************************)
(* Which file is played. The file explorer (src/source/system/util/expl.c) *)
(* shows the list of a directory; one of its threads reads it, the user    *)
(* moves a cursor over it and picks a file. The decode thread of           *)
(* src/source/video_player.c plays what was picked, and when the file ends *)
(* looks in the same list for the next one. Nothing here is locked.        *)
(*                                                                         *)
(* A directory is its depth: the root is 0, every other one is in the one  *)
(* before it. What is in a directory may change between two reads. Player  *)
(* has what happens to a file that is open; here it plays until it ends.   *)
(***************************************************************************)
EXTENDS QueueOps, Integers

CONSTANTS
    MaxFiles,       \* DEF_EXPL_MAX_FILES
    Displayed,      \* NUM_OF_DISPLAYED_ITEMS
    Depth,          \* of the deepest directory
    Contents,       \* what may be in a directory: numbers of directories and files
    Modes,          \* playback_mode
    MaxRandom,      \* bound: turns in search of a random file, num_of_files + 256
    MaxReads, MaxPicks, MaxEnds     \* bounds: reads of a directory, files picked or
                                    \* aborted by the user, ends of files

ASSUME PlaylistAssumption ==
    /\ Displayed \in Nat \ {0} /\ MaxFiles \in Nat /\ MaxFiles > Displayed
    /\ Depth \in Nat
    /\ Contents \subseteq [dirs : Nat, files : Nat]
    /\ Modes \subseteq {"NO_REPEAT", "REPEAT", "IN_ORDER", "RANDOM"}
    /\ {MaxRandom, MaxReads, MaxPicks, MaxEnds} \subseteq Nat

Dirs == 0 .. Depth
Places == 0 .. MaxFiles - 1
Entries == [kind : {"none", "dir", "file"}, dir : Dirs, number : Nat]
NoEntry == [kind |-> "none", dir |-> 0, number |-> 0]
Parent(d) == [kind |-> "dir", dir |-> d, number |-> 0]

(* Vid_file: a name, the directory it is looked for in, and its place.     *)
Files == [entry : Entries, dir : Dirs, index : Nat]
NoFile == [entry |-> NoEntry, dir |-> 0, index |-> 0]
Exists(f) == f.entry.kind = "file" /\ f.entry.dir = f.dir

(* What was found in a directory that cannot be read.                      *)
Failed == [dir |-> 0, in |-> "failed", dirs |-> 0, files |-> 0]

VARIABLES
    dir,            \* util_expl_current_dir
    request,        \* util_expl_read_dir_request
    show,           \* util_expl_show_flag
    offset, active, \* util_expl_y_offset, util_expl_active_index
    list,           \* util_expl_files
    num,            \* util_expl_num_of_files
    second,         \* Util_expl_main goes on to a second key of this moment
    rpc, found,     \* where Util_expl_read_dir_thread is, what it found
    state,          \* vid_player.state: "PLAYING" whenever a file is open
    file,           \* vid_player.file
    mode,           \* vid_player.playback_mode
    cmdQ,           \* decode_thread_command_queue
    dpc, turn, name,    \* where the decode thread is
    reads, picks, ends, \* used up
    calm, from,     \* since the choice of the next file began nobody asked for
                    \* another list; the place it began at (history)
    pick,           \* what the user picked last and was not opened yet (history)
    crossed         \* another directory was asked for while one was read (history)

cursorVars == <<offset, active>>
explVars == <<dir, request, show, cursorVars, second>>
listVars == <<list, num, rpc, found>>
playVars == <<state, file, mode, dpc, turn, name, ends, from>>
vars == <<explVars, listVars, playVars, cmdQ, reads, picks, calm, pick, crossed>>

Init ==
    /\ dir = 0 /\ request = FALSE /\ show = FALSE /\ second = FALSE
    /\ offset = 0 /\ active = 0
    /\ list = [i \in Places |-> NoEntry] /\ num = 0
    /\ rpc = "idle" /\ found = Failed
    /\ state = "IDLE" /\ file = NoFile /\ mode \in Modes
    /\ cmdQ = <<>> /\ dpc = "command" /\ turn = 0 /\ name = NoEntry
    /\ reads = 0 /\ picks = 0 /\ ends = 0
    /\ calm = FALSE /\ from = 0 /\ pick = NoFile /\ crossed = FALSE

-----------------------------------------------------------------------------
(* The user: Vid_hid, and Util_expl_main while the explorer is shown.      *)
AskToRead(d) ==
    /\ reads < MaxReads /\ reads' = reads + 1
    /\ dir' = d /\ request' = TRUE
    /\ calm' = FALSE
    /\ crossed' = (crossed \/ (request /\ rpc # "idle" /\ d # dir))

OpenExplorer ==
    /\ ~show /\ ~second /\ show' = TRUE
    /\ AskToRead(dir)
    /\ UNCHANGED <<cursorVars, second, listVars, playVars, cmdQ, picks, pick>>

Cancel ==
    /\ show /\ ~second /\ show' = FALSE
    /\ UNCHANGED <<dir, request, cursorVars, second, listVars, playVars, cmdQ, reads, picks, calm, pick, crossed>>

(* Keys do nothing while the list is read; that is looked at once for all  *)
(* the keys of a moment.                                                   *)
FirstKey == show /\ ~second /\ ~request
AnyKey == FirstKey \/ second

(* The list is dragged.                                                    *)
Scroll ==
    /\ FirstKey /\ num > Displayed
    /\ \E o \in Places :
           /\ o <= num - Displayed \/ o < offset
           /\ offset' = o
    /\ UNCHANGED <<dir, request, show, active, second, listVars, playVars, cmdQ, reads, picks, calm, pick, crossed>>

Touch ==
    /\ FirstKey
    /\ \E i \in 0 .. Displayed - 1 : i + offset < num /\ active' = i
    /\ UNCHANGED <<dir, request, show, offset, second, listVars, playVars, cmdQ, reads, picks, calm, pick, crossed>>

Down ==
    /\ AnyKey /\ second' = FALSE
    /\ \/ active < Displayed - 1 /\ active + 1 < num
          /\ active' = active + 1 /\ UNCHANGED offset
       \/ ~(active < Displayed - 1 /\ active + 1 < num) /\ offset + active + 1 < num
          /\ offset' = offset + 1 /\ UNCHANGED active
    /\ UNCHANGED <<dir, request, show, listVars, playVars, cmdQ, reads, picks, calm, pick, crossed>>

Up ==
    /\ AnyKey /\ second' = FALSE
    /\ \/ active > 0 /\ active' = active - 1 /\ UNCHANGED offset
       \/ active = 0 /\ offset > 0 /\ offset' = offset - 1 /\ UNCHANGED active
    /\ UNCHANGED <<dir, request, show, listVars, playVars, cmdQ, reads, picks, calm, pick, crossed>>

GoTo(d) ==
    /\ d \in Dirs
    /\ offset' = 0 /\ active' = 0
    /\ AskToRead(d)

Back ==
    /\ AnyKey /\ second' = FALSE
    /\ dir > 0 /\ GoTo(dir - 1)
    /\ UNCHANGED <<show, listVars, playVars, cmdQ, picks, pick>>

NoSecondKey ==
    /\ second /\ second' = FALSE
    /\ UNCHANGED <<dir, request, show, cursorVars, listVars, playVars, cmdQ, reads, picks, calm, pick, crossed>>

Selected == offset + active
IsUp == Selected = 0 /\ dir > 0

(* The entry under the cursor is opened. A file goes to Vid_expl_callback; *)
(* the name of a place without an entry is empty, and there is no call.    *)
EnterDir ==
    /\ FirstKey /\ second' = TRUE
    /\ \/ IsUp /\ GoTo(dir - 1)
       \/ ~IsUp /\ list[Selected].kind = "dir" /\ GoTo(dir + 1)
    /\ UNCHANGED <<show, listVars, playVars, cmdQ, picks, pick>>

PickFile ==
    /\ FirstKey /\ second' = TRUE
    /\ ~IsUp /\ list[Selected].kind # "dir"
    /\ show' = FALSE
    /\ IF list[Selected].kind = "file"
       THEN LET f == [entry |-> list[Selected], dir |-> dir, index |-> Selected] IN
            /\ picks < MaxPicks /\ picks' = picks + 1
            /\ cmdQ' = Append(cmdQ, Item("PLAY", f))
            /\ pick' = f
       ELSE UNCHANGED <<picks, cmdQ, pick>>
    /\ UNCHANGED <<dir, request, cursorVars, listVars, playVars, reads, calm, crossed>>

(* The play button, which plays the file of before, and the abort.         *)
AskPlay ==
    /\ ~show /\ ~second /\ state = "IDLE" /\ ~HasEvent(cmdQ, "PLAY")
    /\ picks < MaxPicks /\ picks' = picks + 1
    /\ cmdQ' = Append(cmdQ, Item("PLAY", NoFile))
    /\ UNCHANGED <<explVars, listVars, playVars, reads, calm, pick, crossed>>

AskAbort ==
    /\ ~show /\ ~second
    /\ picks < MaxPicks /\ picks' = picks + 1
    /\ cmdQ' = InsertItem(cmdQ, Item("ABORT", NoFile), TRUE)
    /\ UNCHANGED <<explVars, listVars, playVars, reads, calm, pick, crossed>>

User ==
    \/ OpenExplorer \/ Cancel \/ Scroll \/ Touch \/ Down \/ Up \/ Back \/ NoSecondKey
    \/ EnterDir \/ PickFile \/ AskPlay \/ AskAbort

-----------------------------------------------------------------------------
(* Util_expl_read_dir_thread. The sizes that it looks up afterwards are    *)
(* left out.                                                               *)
notReader == <<dir, show, cursorVars, second, playVars, cmdQ, reads, picks, calm, pick, crossed>>

ReadClear ==
    /\ rpc = "idle" /\ request
    /\ rpc' = "cleared"
    /\ list' = [i \in Places |-> NoEntry]
    /\ UNCHANGED <<request, num, found, notReader>>

ReadParent ==
    /\ rpc = "cleared"
    /\ rpc' = IF dir > 0 THEN "inside" ELSE "root"
    /\ list' = IF dir > 0 THEN [list EXCEPT ![0] = Parent(dir)] ELSE list
    /\ UNCHANGED <<request, num, found, notReader>>

(* Util_file_read_dir gives up when its arrays are full, before it has     *)
(* seen that there is nothing more (mutant: after).                        *)
FitsBarely(c) == c.dirs + c.files <= MaxFiles
Fits(c) == c.dirs + c.files < MaxFiles

(* Mutant: the list may be used as soon as the directory has been read.    *)
ReadFilesEarly ==
    /\ rpc \in {"inside", "root"}
    /\ found' \in {[dir |-> dir, in |-> rpc, dirs |-> c.dirs, files |-> c.files] :
                       c \in {d \in Contents : Fits(d) /\ (dir = Depth => d.dirs = 0)}}
                  \cup {Failed}
    /\ rpc' = "read"
    /\ request' = FALSE
    /\ UNCHANGED <<list, num, notReader>>

ReadFiles ==
    /\ rpc \in {"inside", "root"}
    /\ found' \in {[dir |-> dir, in |-> rpc, dirs |-> c.dirs, files |-> c.files] :
                       c \in {d \in Contents : Fits(d) /\ (dir = Depth => d.dirs = 0)}}
                  \cup {Failed}
    /\ rpc' = "read"
    /\ UNCHANGED <<request, list, num, notReader>>

(* The parent, the directories, the files.                                 *)
First == IF found.in = "inside" THEN 1 ELSE 0
Detected == found.dirs + found.files

ReadFill ==
    /\ rpc = "read" /\ rpc' = "filled"
    /\ list' = IF found = Failed THEN list
               ELSE [i \in Places |->
                        IF i < First \/ i >= First + Detected THEN list[i]
                        ELSE [kind |-> IF i < First + found.dirs THEN "dir" ELSE "file",
                              dir |-> found.dir, number |-> i - First + 1]]
    /\ UNCHANGED <<request, num, found, notReader>>

ReadDone ==
    /\ rpc = "filled" /\ rpc' = "idle"
    /\ num' = IF found = Failed THEN 1 ELSE First + Detected
    /\ found' = Failed
    /\ request' = FALSE
    /\ UNCHANGED <<list, notReader>>

Reader == ReadClear \/ ReadParent \/ ReadFiles \/ ReadFill \/ ReadDone

-----------------------------------------------------------------------------
(* Vid_decode_thread: a request, then a step of decoding, in turn.         *)
notDecoder == <<explVars, listVars, mode, reads, picks, crossed>>

Takes(kind) == dpc = "command" /\ cmdQ # <<>> /\ Head(cmdQ).id = kind
Closed == state \in {"IDLE", "PREPARE_PLAYING"}

(* The file is opened, or it cannot be and is aborted.                     *)
PlayOpens ==
    /\ Takes("PLAY") /\ Closed
    /\ state' = "PLAYING"
    /\ LET new == Head(cmdQ).data IN
       /\ file' = IF new = NoFile THEN file ELSE new
       /\ pick' = IF new = pick THEN NoFile ELSE pick
    /\ \/ Exists(file') /\ cmdQ' = Tail(cmdQ) /\ dpc' = "step"
       \/ cmdQ' = InsertItem(Tail(cmdQ), Item("ABORT", NoFile), TRUE) /\ dpc' = "command"
    /\ UNCHANGED <<turn, name, ends, calm, from, notDecoder>>

(* Mutant: the abort takes the request with it.                            *)
PlayForgotten ==
    /\ Takes("PLAY") /\ ~Closed
    /\ cmdQ' = Append(Tail(cmdQ), Item("ABORT", NoFile))
    /\ dpc' = "step"
    /\ UNCHANGED <<state, file, turn, name, ends, calm, from, pick, notDecoder>>

(* Another file is open: it is aborted first.                              *)
PlayLater ==
    /\ Takes("PLAY") /\ ~Closed
    /\ cmdQ' = Tail(cmdQ) \o <<Item("ABORT", NoFile), Head(cmdQ)>>
    /\ dpc' = "step"
    /\ UNCHANGED <<state, file, turn, name, ends, calm, from, pick, notDecoder>>

Stop ==
    /\ Takes("ABORT") \/ (Takes("PLAY_NEXT") /\ (Closed \/ mode = "NO_REPEAT"))
    /\ cmdQ' = Tail(cmdQ)
    /\ state' = "IDLE" /\ dpc' = "step"
    /\ UNCHANGED <<file, turn, name, ends, calm, from, pick, notDecoder>>

ChooseNext ==
    /\ Takes("PLAY_NEXT") /\ ~Closed /\ mode # "NO_REPEAT"
    /\ cmdQ' = Tail(cmdQ)
    /\ dpc' = IF mode = "REPEAT" THEN "name" ELSE "choose"
    /\ turn' = 0
    /\ calm' = ~request /\ from' = file.index
    /\ UNCHANGED <<state, file, name, ends, pick, notDecoder>>

(* One turn of the loop over the list (mutant: it runs over the end).      *)
NextPlaceLate(i) == IF i + 1 > num THEN 0 ELSE i + 1
NextPlace(i) == IF i + 1 >= num THEN 0 ELSE i + 1

IsFile(i) == i \in Places /\ list[i].kind = "file"
Turns == IF mode = "RANDOM" THEN num + MaxRandom ELSE num

ChooseTurn ==
    /\ dpc = "choose" /\ turn < Turns
    /\ LET i == NextPlace(file.index) IN
       /\ file' = [file EXCEPT !.index = i]
       /\ \/ IsFile(i) /\ dpc' = "name" /\ turn' = 0
          \/ (IsFile(i) => mode = "RANDOM") /\ turn' = turn + 1 /\ UNCHANGED dpc
    /\ UNCHANGED <<state, cmdQ, name, ends, calm, from, pick, notDecoder>>

ChooseNone ==
    /\ dpc = "choose" /\ turn >= Turns
    /\ dpc' = "name" /\ turn' = 0
    /\ UNCHANGED <<state, file, cmdQ, name, ends, calm, from, pick, notDecoder>>

(* Util_expl_query_file_name, Util_expl_query_current_dir.                 *)
ChooseName ==
    /\ dpc = "name" /\ dpc' = "dir"
    /\ name' = list[file.index]
    /\ UNCHANGED <<state, file, cmdQ, turn, ends, calm, from, pick, notDecoder>>

NextFile == [entry |-> name, dir |-> dir, index |-> file.index]

ChooseDir ==
    /\ dpc = "dir" /\ dpc' = "step"
    /\ cmdQ' = Append(cmdQ, Item("PLAY", NextFile))
    /\ state' = "PREPARE_PLAYING"
    /\ name' = NoEntry
    /\ UNCHANGED <<file, turn, ends, calm, from, pick, notDecoder>>

NoCommand ==
    /\ dpc = "command" /\ cmdQ = <<>> /\ dpc' = "step"
    /\ UNCHANGED <<state, file, cmdQ, turn, name, ends, calm, from, pick, notDecoder>>

(* The file goes on, or it ends.                                           *)
Step ==
    /\ dpc = "step" /\ dpc' = "command"
    /\ \/ UNCHANGED <<cmdQ, ends>>
       \/ /\ state = "PLAYING" /\ ends < MaxEnds
          /\ ends' = ends + 1
          /\ cmdQ' = Append(cmdQ, Item("PLAY_NEXT", NoFile))
    /\ UNCHANGED <<state, file, turn, name, calm, from, pick, notDecoder>>

Decoder ==
    \/ PlayOpens \/ PlayLater \/ Stop
    \/ ChooseNext \/ ChooseTurn \/ ChooseNone \/ ChooseName \/ ChooseDir
    \/ NoCommand \/ Step

-----------------------------------------------------------------------------
Next == User \/ Reader \/ Decoder

Spec == Init /\ [][Next]_vars

-----------------------------------------------------------------------------
(* Properties.                                                             *)
TypeOK ==
    /\ dir \in Dirs /\ request \in BOOLEAN /\ show \in BOOLEAN /\ second \in BOOLEAN
    /\ offset \in Nat /\ active \in Nat /\ num \in Nat
    /\ list \in [Places -> Entries]
    /\ rpc \in {"idle", "cleared", "inside", "root", "read", "filled"}
    /\ found \in [dir : Dirs, in : {"inside", "root", "failed"}, dirs : Nat, files : Nat]
    /\ state \in {"IDLE", "PREPARE_PLAYING", "PLAYING"}
    /\ file \in Files /\ mode \in Modes
    /\ cmdQ \in Seq([id : {"PLAY", "PLAY_NEXT", "ABORT"}, data : Files])
    /\ dpc \in {"command", "step", "choose", "name", "dir"}
    /\ turn \in Nat /\ name \in Entries
    /\ reads \in Nat /\ picks \in Nat /\ ends \in Nat
    /\ calm \in BOOLEAN /\ from \in Nat /\ pick \in Files /\ crossed \in BOOLEAN

(* Whatever is in the directories, whatever of it changed since the list   *)
(* was last read, and whatever failed: neither the lines on the screen nor *)
(* the cursor nor the search for the next file leave the arrays, although  *)
(* the number of files counts the parent directory (expl.c:874) and the    *)
(* offset is not looked at when a shorter list comes.                      *)
IndexInArrays ==
    /\ TypeOK
    /\ num <= MaxFiles
    /\ active < Displayed /\ offset + Displayed <= MaxFiles
    /\ file.index < MaxFiles

(* What the user picked is a file of the directory that it is looked for   *)
(* in: the list and the name of the directory belong together whenever the *)
(* keys do something, although the thread that reads the list and the one  *)
(* that changes the directory share them with one flag (expl.c:884). It    *)
(* takes two keys of one moment, the second of which asks for another      *)
(* directory when the first is already read, for it to be lost.            *)
PickedTogether == pick # NoFile /\ ~crossed => Exists(pick)

(* In sequential mode the next file is the first one that comes after the  *)
(* one before in the list, from its end on from its beginning, as long as  *)
(* nobody asks for another list meanwhile (video_player.c:5321). It is in  *)
(* the directory it is looked for in, unless the list has been lost to two *)
(* keys of one moment.                                                     *)
Between(i, j) == IF i < j THEN {k \in Places : i < k /\ k < j}
                 ELSE {k \in Places : (i < k /\ k < num) \/ k < j}
NextIsNext ==
    [][ChooseDir /\ calm /\ mode = "IN_ORDER" /\ (\E k \in 0 .. num - 1 : IsFile(k)) =>
           /\ ~crossed => Exists(NextFile)
           /\ \A k \in Between(from, file.index) : ~IsFile(k)]_vars

(* What the user picked waits for the decode thread until it is opened,    *)
(* whatever ends, is aborted or is chosen as the next file meanwhile: the  *)
(* request that finds another file open puts itself behind the abort of it *)
(* (video_player.c:5070).                                                  *)
PickKept == pick # NoFile => \E i \in DOMAIN cmdQ : cmdQ[i] = Item("PLAY", pick)

-----------------------------------------------------------------------------
(* "Repeat playback mode." (video_player.c:481): what is played next is    *)
(* what was played before.                                                 *)
RepeatRepeats ==
    [][ChooseDir /\ mode = "REPEAT" =>
           /\ NextFile.dir = file.dir
           /\ NextFile.entry = file.entry]_vars
=============================================================================
