--------------------------- MODULE PlaylistProofs ---------------------------
(***************************************************************************)
(* For lists of any size, directories of any depth and any number of       *)
(* reads, picks and ends: no index of the explorer or of the search for    *)
(* the next file leaves its array; no file that the user picked is lost on *)
(* its way to the decode thread, and it is one of the directory that it is *)
(* looked for in; the file played next in sequential mode is the next one. *)
(***************************************************************************)
EXTENDS Playlist, TLAPS

Requests == [id : {"PLAY", "PLAY_NEXT", "ABORT"}, data : Files]
Finds == [dir : Dirs, in : {"inside", "root", "failed"}, dirs : Nat, files : Nat]
RequestSeq == Seq(Requests)
Pictures == [Places -> Entries]

(* The types, by the thread that changes them.                             *)
ExplTypes ==
    /\ dir \in Dirs /\ request \in BOOLEAN /\ show \in BOOLEAN /\ second \in BOOLEAN
    /\ offset \in Nat /\ active \in Nat
    /\ reads \in Nat /\ picks \in Nat
    /\ crossed \in BOOLEAN /\ calm \in BOOLEAN
ListTypes ==
    /\ list \in Pictures /\ num \in Nat
    /\ rpc \in {"idle", "cleared", "inside", "root", "read", "filled"}
    /\ found \in Finds
PlayTypes ==
    /\ state \in {"IDLE", "PREPARE_PLAYING", "PLAYING"}
    /\ file \in Files /\ mode \in Modes
    /\ dpc \in {"command", "step", "choose", "name", "dir"}
    /\ turn \in Nat /\ name \in Entries /\ ends \in Nat
    /\ from \in Nat
SharedTypes == cmdQ \in RequestSeq /\ pick \in Files
Types == ExplTypes /\ ListTypes /\ PlayTypes /\ SharedTypes

(* A request is in the queue; no request of the queue carries a place      *)
(* beyond the list.                                                        *)
Waits(q, r) == \E i \in DOMAIN q : q[i] = r
InList(q) == \A i \in DOMAIN q : q[i].data.index < MaxFiles

(* The cursor and the screen stay inside the list. What was found fits     *)
(* with the parent in front of it. Every request that carries a file       *)
(* carries a place of the list.                                            *)
CursorInList == active < Displayed /\ offset + Displayed <= MaxFiles
FoundFits == num <= MaxFiles /\ (found # Failed => First + Detected <= MaxFiles)
FilesInList ==
    /\ file.index < MaxFiles /\ pick.index < MaxFiles
    /\ InList(cmdQ)
PickInv == pick # NoFile => Waits(cmdQ, Item("PLAY", pick))

Inv == Types /\ CursorInList /\ FoundFits /\ FilesInList /\ PickInv

-----------------------------------------------------------------------------
(* No file is a file, and a place of the list.                             *)
LEMMA NoFileIsOne == NoFile \in Files /\ NoFile.index = 0 /\ NoEntry \in Entries
<1>1. 0 \in Dirs  BY PlaylistAssumption DEF Dirs
<1>. QED BY <1>1 DEF NoFile, Files, NoEntry, Entries

LEMMA ItemIsRequest ==
    ASSUME NEW kind \in {"PLAY", "PLAY_NEXT", "ABORT"}, NEW f \in Files
    PROVE  /\ Item(kind, f) \in Requests
           /\ Item(kind, f).id = kind /\ Item(kind, f).data = f
BY DEF Item, Requests

(* What Append does to the requests that wait.                             *)
LEMMA Appended ==
    ASSUME NEW q \in RequestSeq, NEW r \in Requests
    PROVE  /\ Append(q, r) \in RequestSeq
           /\ DOMAIN Append(q, r) = DOMAIN q \cup {Len(q) + 1}
           /\ \A i \in DOMAIN q : Append(q, r)[i] = q[i]
           /\ Append(q, r)[Len(q) + 1] = r
BY DEF RequestSeq

(* The same for QUEUE_OPTION_SEND_TO_FRONT.                                *)
LEMMA SentToFront ==
    ASSUME NEW q \in RequestSeq, NEW r \in Requests
    PROVE  /\ InsertItem(q, r, TRUE) \in RequestSeq
           /\ DOMAIN InsertItem(q, r, TRUE) = 1 .. Len(q) + 1
           /\ InsertItem(q, r, TRUE)[1] = r
           /\ \A i \in DOMAIN q : InsertItem(q, r, TRUE)[i + 1] = q[i]
BY DEF RequestSeq, InsertItem

(* And for the request that is taken.                                      *)
LEMMA Taken ==
    ASSUME NEW q \in RequestSeq, q # <<>>
    PROVE  /\ Tail(q) \in RequestSeq /\ Head(q) \in Requests
           /\ DOMAIN Tail(q) = 1 .. Len(q) - 1 /\ Len(Tail(q)) = Len(q) - 1
           /\ 1 \in DOMAIN q /\ Head(q) = q[1]
           /\ \A i \in DOMAIN q : i # 1 => i - 1 \in DOMAIN Tail(q) /\ Tail(q)[i - 1] = q[i]
           /\ \A i \in DOMAIN Tail(q) : i + 1 \in DOMAIN q /\ Tail(q)[i] = q[i + 1]
BY DEF RequestSeq

-----------------------------------------------------------------------------
(* A step that leaves the requests and the files alone keeps what is said  *)
(* of them.                                                                *)
LEMMA SharedKept ==
    ASSUME SharedTypes, FilesInList, PickInv, UNCHANGED <<cmdQ, pick, file>>
    PROVE  SharedTypes' /\ FilesInList' /\ PickInv'
BY DEF SharedTypes, FilesInList, PickInv

(* A request is added, at either end: the pick still waits, and so do      *)
(* places of the list only.                                                *)
LEMMA AddedKept ==
    ASSUME NEW q \in RequestSeq, NEW r \in Requests, NEW q2,
           q2 = Append(q, r) \/ q2 = InsertItem(q, r, TRUE)
    PROVE  /\ q2 \in RequestSeq
           /\ \A x : Waits(q, x) => Waits(q2, x)
           /\ Waits(q2, r)
           /\ InList(q) /\ r.data.index < MaxFiles => InList(q2)
<1>. USE DEF Waits, InList
<1>1. CASE q2 = Append(q, r)
      BY <1>1, Appended
<1>2. CASE q2 = InsertItem(q, r, TRUE)
  <2>1. /\ q2 \in RequestSeq /\ DOMAIN q2 = 1 .. Len(q) + 1 /\ q2[1] = r
        /\ \A i \in DOMAIN q : q2[i + 1] = q[i]
        BY <1>2, SentToFront
  <2>2. Len(q) \in Nat /\ DOMAIN q = 1 .. Len(q)  BY DEF RequestSeq
  <2>3. \A i \in DOMAIN q2 : i = 1 \/ (i - 1 \in DOMAIN q /\ q2[i] = q[i - 1])
        BY <2>1, <2>2
  <2>4. \A i \in DOMAIN q : i + 1 \in DOMAIN q2  BY <2>1, <2>2
  <2>. QED BY <2>1, <2>2, <2>3, <2>4
<1>. QED BY <1>1, <1>2

(* A request is taken: everything but it still waits.                      *)
LEMMA TakenKept ==
    ASSUME NEW q \in RequestSeq, q # <<>>
    PROVE  /\ Tail(q) \in RequestSeq /\ Head(q) \in Requests
           /\ \A x : Waits(q, x) /\ x # Head(q) => Waits(Tail(q), x)
           /\ InList(q) => Head(q).data.index < MaxFiles /\ InList(Tail(q))
BY Taken DEF Waits, InList

LEMMA InitInv == Init => Inv
<1>. SUFFICES ASSUME Init PROVE Inv  OBVIOUS
<1>1. NoFile \in Files /\ NoFile.index = 0 /\ NoEntry \in Entries  BY NoFileIsOne
<1>2. 0 \in Dirs /\ MaxFiles \in Nat /\ Displayed \in Nat \ {0} /\ MaxFiles > Displayed
      BY PlaylistAssumption DEF Dirs
<1>3. Types
  <2>1. ExplTypes  BY <1>2 DEF Init, ExplTypes
  <2>2. Failed \in Finds  BY <1>2 DEF Failed, Finds
  <2>3. ListTypes  BY <1>1, <2>2 DEF Init, ListTypes, Pictures
  <2>4. mode \in Modes  BY DEF Init
  <2>5. PlayTypes  BY <1>1, <2>4 DEF Init, PlayTypes
  <2>6. SharedTypes  BY <1>1 DEF Init, SharedTypes, RequestSeq
  <2>. QED BY <2>1, <2>3, <2>5, <2>6 DEF Types
<1>4. CursorInList /\ FoundFits  BY <1>2 DEF Init, CursorInList, FoundFits
<1>5. FilesInList  BY <1>1, <1>2 DEF Init, FilesInList, InList
<1>6. PickInv  BY DEF Init, PickInv
<1>. QED BY <1>3, <1>4, <1>5, <1>6 DEF Inv

-----------------------------------------------------------------------------
(* The user.                                                               *)
(* The cursor is inside the list, so there is an entry under it.           *)
LEMMA SelectedIsPlace ==
    ASSUME Types, CursorInList
    PROVE  Selected \in Places /\ list[Selected] \in Entries
<1>1. offset \in Nat /\ active \in Nat /\ list \in [Places -> Entries]
      BY DEF Types, ExplTypes, ListTypes, Pictures
<1>2. Selected \in Places
      BY <1>1, PlaylistAssumption DEF CursorInList, Selected, Places
<1>. QED BY <1>1, <1>2

(* A key that asks for a list, or moves the cursor, or does nothing.       *)
LEMMA KeyInv ==
    ASSUME Inv,
           \/ OpenExplorer \/ Cancel \/ Scroll \/ Touch \/ Down \/ Up \/ Back
           \/ NoSecondKey \/ EnterDir
    PROVE  Inv'
<1>. USE DEF Inv
<1>1. /\ offset \in Nat /\ active \in Nat /\ num \in Nat /\ num <= MaxFiles
      /\ active < Displayed /\ offset + Displayed <= MaxFiles
      /\ MaxFiles \in Nat /\ Displayed \in Nat \ {0} /\ MaxFiles > Displayed
      BY PlaylistAssumption DEF Types, ExplTypes, ListTypes, CursorInList, FoundFits
<1>2. UNCHANGED <<listVars, playVars, cmdQ, pick>>
      BY DEF OpenExplorer, Cancel, Scroll, Touch, Down, Up, Back, NoSecondKey, EnterDir
<1>3. SharedTypes' /\ FilesInList' /\ PickInv'
      BY <1>2, SharedKept DEF Types, playVars
<1>4. ListTypes' /\ PlayTypes' /\ FoundFits'
  <2>1. ListTypes /\ PlayTypes  BY DEF Types
  <2>2. ListTypes'  BY <1>2, <2>1 DEF listVars, ListTypes
  <2>3. PlayTypes'  BY <1>2, <2>1 DEF playVars, PlayTypes
  <2>. QED BY <1>2, <2>2, <2>3 DEF FoundFits, listVars, First, Detected
<1>5. ExplTypes' /\ CursorInList'
  <2>. USE DEF CursorInList
  <2>0. ExplTypes  BY DEF Types
  <2>1. ASSUME NEW d \in Dirs, AskToRead(d)
        PROVE  /\ dir' \in Dirs /\ request' \in BOOLEAN /\ reads' \in Nat
               /\ crossed' \in BOOLEAN /\ calm' \in BOOLEAN
    <3>1. /\ dir' \in Dirs /\ request' \in BOOLEAN /\ reads' \in Nat
          /\ calm' \in BOOLEAN
      <4>1. dir' = d /\ request' = TRUE /\ reads' = reads + 1 /\ calm' = FALSE
            BY <2>1 DEF AskToRead
      <4>2. reads \in Nat  BY <2>0 DEF ExplTypes
      <4>3. reads' \in Nat  BY <4>1, <4>2
      <4>. QED BY <2>1, <4>1, <4>3, Zenon
    <3>2. crossed' = (crossed \/ (request /\ rpc # "idle" /\ d # dir))
          BY <2>1 DEF AskToRead
    <3>. QED BY <3>1, <3>2, Zenon
  <2>2. CASE OpenExplorer
        BY <2>0, <2>1, <2>2, <1>1 DEF OpenExplorer, ExplTypes, cursorVars
  <2>3. CASE Cancel
        BY <2>0, <2>3, <1>1 DEF Cancel, ExplTypes, cursorVars
  <2>4. CASE Scroll
    <3>1. PICK o \in Places : (o <= num - Displayed \/ o < offset) /\ offset' = o
          BY <2>4 DEF Scroll
    <3>2. num > Displayed  BY <2>4 DEF Scroll
    <3>3. offset' \in Nat /\ offset' + Displayed <= MaxFiles
          BY <3>1, <3>2, <1>1 DEF Places
    <3>. QED BY <2>0, <2>4, <3>3, <1>1 DEF Scroll, ExplTypes
  <2>5. CASE Touch
    <3>1. active' \in 0 .. Displayed - 1  BY <2>5 DEF Touch
    <3>2. active' \in Nat /\ active' < Displayed  BY <3>1, <1>1
    <3>. QED BY <2>0, <2>5, <3>2, <1>1 DEF Touch, ExplTypes
  <2>6. CASE Down
    <3>1. /\ active' \in Nat /\ offset' \in Nat
          /\ active' < Displayed /\ offset' + Displayed <= MaxFiles
          BY <2>6, <1>1 DEF Down
    <3>. QED BY <2>0, <2>6, <3>1 DEF Down, ExplTypes
  <2>7. CASE Up
    <3>1. /\ active' \in Nat /\ offset' \in Nat
          /\ active' < Displayed /\ offset' + Displayed <= MaxFiles
          BY <2>7, <1>1 DEF Up
    <3>. QED BY <2>0, <2>7, <3>1 DEF Up, ExplTypes
  <2>8. CASE Back
    <3>1. PICK d \in {dir - 1} : GoTo(d)  BY <2>8 DEF Back
    <3>2. d \in Dirs /\ AskToRead(d) /\ offset' = 0 /\ active' = 0
          BY <3>1 DEF GoTo
    <3>3. /\ dir' \in Dirs /\ request' \in BOOLEAN /\ reads' \in Nat
          /\ crossed' \in BOOLEAN /\ calm' \in BOOLEAN
          BY <2>1, <3>2
    <3>4. second' = FALSE /\ show' = show /\ picks' = picks  BY <2>8 DEF Back
    <3>5. offset' \in Nat /\ active' \in Nat /\ CursorInList'  BY <3>2, <1>1
    <3>6. second' \in BOOLEAN /\ show' \in BOOLEAN /\ picks' \in Nat
          BY <2>0, <3>4, Zenon DEF ExplTypes
    <3>. QED BY <3>3, <3>5, <3>6, Zenon DEF ExplTypes
  <2>9. CASE NoSecondKey
        BY <2>0, <2>9, <1>1 DEF NoSecondKey, ExplTypes, cursorVars
  <2>10. CASE EnterDir
    <3>1. PICK d \in {dir - 1, dir + 1} : GoTo(d)  BY <2>10 DEF EnterDir
    <3>2. d \in Dirs /\ AskToRead(d) /\ offset' = 0 /\ active' = 0
          BY <3>1 DEF GoTo
    <3>. QED BY <2>0, <2>1, <2>10, <3>2, <1>1 DEF EnterDir, ExplTypes
  <2>. QED BY <2>2, <2>3, <2>4, <2>5, <2>6, <2>7, <2>8, <2>9, <2>10
<1>. QED BY <1>3, <1>4, <1>5 DEF Types

(* The requests of the user: a pick, which carries the place under the     *)
(* cursor, and requests that carry no file.                                *)
LEMMA RequestInv ==
    ASSUME Inv, PickFile \/ AskPlay \/ AskAbort
    PROVE  Inv'
<1>. USE DEF Inv
<1>0. NoFile \in Files /\ NoFile.index = 0 /\ MaxFiles \in Nat /\ 0 < MaxFiles
      BY NoFileIsOne, PlaylistAssumption
<1>1. UNCHANGED <<cursorVars, listVars, playVars, dir, request, reads, calm, crossed>>
      BY DEF PickFile, AskPlay, AskAbort, explVars
<1>2. ListTypes' /\ PlayTypes' /\ FoundFits' /\ CursorInList' /\ file' = file
  <2>1. ListTypes /\ PlayTypes  BY DEF Types
  <2>2. ListTypes'  BY <1>1, <2>1 DEF listVars, ListTypes
  <2>3. PlayTypes'  BY <1>1, <2>1 DEF playVars, PlayTypes
  <2>. QED BY <1>1, <2>2, <2>3
           DEF FoundFits, CursorInList, cursorVars, listVars, playVars, First, Detected
<1>3. ExplTypes'
  <2>1. ExplTypes  BY DEF Types
  <2>2. picks' \in Nat /\ show' \in BOOLEAN /\ second' \in BOOLEAN
    <3>1. show \in BOOLEAN /\ second \in BOOLEAN /\ picks \in Nat  BY <2>1 DEF ExplTypes
    <3>2. CASE PickFile
      <4>1. show' = FALSE /\ second' = TRUE /\ (picks' = picks \/ picks' = picks + 1)
            BY <3>2, Zenon DEF PickFile
      <4>2. picks' \in Nat  BY <3>1, <4>1
      <4>. QED BY <4>1, <4>2, Zenon
    <3>3. CASE AskPlay
          BY <3>1, <3>3 DEF AskPlay, explVars
    <3>4. CASE AskAbort
          BY <3>1, <3>4 DEF AskAbort, explVars
    <3>. QED BY <3>2, <3>3, <3>4
  <2>. QED BY <1>1, <2>1, <2>2 DEF ExplTypes, cursorVars
<1>4. SharedTypes' /\ FilesInList' /\ PickInv'
  <2>0. /\ cmdQ \in RequestSeq /\ pick \in Files
        /\ file.index < MaxFiles /\ pick.index < MaxFiles
        /\ InList(cmdQ)
        BY DEF Types, SharedTypes, FilesInList
  <2>1. ASSUME NEW kind \in {"PLAY", "PLAY_NEXT", "ABORT"}, NEW f \in Files,
               f.index < MaxFiles,
               \/ cmdQ' = Append(cmdQ, Item(kind, f))
               \/ cmdQ' = InsertItem(cmdQ, Item(kind, f), TRUE),
               pick' = pick \/ (pick' = f /\ kind = "PLAY")
        PROVE  SharedTypes' /\ FilesInList' /\ PickInv'
    <3>1. Item(kind, f) \in Requests /\ Item(kind, f).data = f  BY ItemIsRequest
    <3>. DEFINE r == Item(kind, f)
    <3>4. cmdQ' = Append(cmdQ, r) \/ cmdQ' = InsertItem(cmdQ, r, TRUE)  BY <2>1
    <3>5. r \in Requests /\ r.data.index < MaxFiles  BY <2>1, <3>1
    <3>2. /\ cmdQ' \in RequestSeq
          /\ \A x : Waits(cmdQ, x) => Waits(cmdQ', x)
          /\ Waits(cmdQ', Item(kind, f))
          /\ InList(cmdQ')
      <4>. HIDE DEF r
      <4>1. /\ cmdQ' \in RequestSeq
            /\ \A x : Waits(cmdQ, x) => Waits(cmdQ', x)
            /\ Waits(cmdQ', r)
            /\ InList(cmdQ) /\ r.data.index < MaxFiles => InList(cmdQ')
            BY <2>0, <3>4, <3>5, AddedKept
      <4>. QED BY <2>0, <3>5, <4>1 DEF r
    <3>3. PickInv'  BY <2>1, <3>2 DEF PickInv
    <3>. QED BY <1>2, <2>0, <2>1, <3>2, <3>3 DEF SharedTypes, FilesInList
  <2>2. CASE PickFile
    <3>1. CASE list[Selected].kind = "file"
      <4>. DEFINE f == [entry |-> list[Selected], dir |-> dir, index |-> Selected]
      <4>1. cmdQ' = Append(cmdQ, Item("PLAY", f)) /\ pick' = f
            BY <2>2, <3>1 DEF PickFile
      <4>2. Selected \in Places /\ list[Selected] \in Entries /\ dir \in Dirs
            BY SelectedIsPlace DEF Types, ExplTypes
      <4>3. f \in Files /\ f.index < MaxFiles  BY <1>0, <4>2 DEF Files, Places
      <4>. HIDE DEF f
      <4>. QED BY <2>1, <4>1, <4>3
    <3>2. CASE list[Selected].kind # "file"
          BY <1>2, <2>2, <3>2, SharedKept DEF PickFile, Types
    <3>. QED BY <3>1, <3>2
  <2>3. CASE AskPlay
    <3>1. cmdQ' = Append(cmdQ, Item("PLAY", NoFile)) /\ pick' = pick
          BY <2>3 DEF AskPlay
    <3>. QED BY <1>0, <2>1, <3>1
  <2>4. CASE AskAbort
    <3>1. cmdQ' = InsertItem(cmdQ, Item("ABORT", NoFile), TRUE) /\ pick' = pick
          BY <2>4 DEF AskAbort
    <3>. QED BY <1>0, <2>1, <3>1
  <2>. QED BY <2>2, <2>3, <2>4
<1>. QED BY <1>2, <1>3, <1>4 DEF Types

-----------------------------------------------------------------------------
(* The reader: the list that it fills is no longer than its array.         *)
LEMMA ReaderInv ==
    ASSUME Inv, Reader
    PROVE  Inv'
<1>. USE DEF Inv
<1>1. UNCHANGED notReader
      BY DEF Reader, ReadClear, ReadParent, ReadFiles, ReadFill, ReadDone
<1>2. SharedTypes' /\ FilesInList' /\ PickInv'
      BY <1>1, SharedKept DEF Types, notReader, playVars
<1>3. ExplTypes' /\ PlayTypes' /\ CursorInList'
  <2>1. ExplTypes /\ PlayTypes  BY DEF Types
  <2>2. request' \in BOOLEAN
        BY <2>1 DEF ExplTypes, Reader, ReadClear, ReadParent, ReadFiles, ReadFill, ReadDone
  <2>. QED BY <1>1, <2>1, <2>2
           DEF notReader, cursorVars, playVars, ExplTypes, PlayTypes, CursorInList
<1>4. ListTypes' /\ FoundFits'
  <2>0. /\ list \in Pictures /\ num \in Nat /\ found \in Finds /\ dir \in Dirs
        /\ rpc \in {"idle", "cleared", "inside", "root", "read", "filled"}
        /\ num <= MaxFiles /\ (found # Failed => First + Detected <= MaxFiles)
        BY DEF Types, ExplTypes, ListTypes, FoundFits
  <2>. USE DEF Inv, ListTypes, FoundFits, First, Detected
  <2>1. NoEntry \in Entries /\ Failed \in Finds /\ MaxFiles \in Nat /\ 1 <= MaxFiles
        BY NoFileIsOne, PlaylistAssumption DEF Failed, Finds, Dirs
  <2>2. CASE ReadClear
    <3>1. list' \in Pictures  BY <2>1, <2>2 DEF ReadClear, Pictures
    <3>. QED BY <2>0, <2>2, <3>1 DEF ReadClear
  <2>3. CASE ReadParent
    <3>1. Parent(dir) \in Entries  BY <2>0 DEF Parent, Entries
    <3>2. list' \in Pictures  BY <2>0, <2>3, <3>1 DEF ReadParent, Pictures
    <3>. QED BY <2>0, <2>3, <3>2 DEF ReadParent
  <2>4. CASE ReadFiles
    <3>1. CASE found' = Failed
          BY <2>0, <2>1, <2>4, <3>1 DEF ReadFiles
    <3>2. CASE found' # Failed
      <4>1. PICK c \in Contents :
                /\ Fits(c)
                /\ found' = [dir |-> dir, in |-> rpc, dirs |-> c.dirs, files |-> c.files]
            BY <2>4, <3>2 DEF ReadFiles
      <4>2. c.dirs \in Nat /\ c.files \in Nat /\ c.dirs + c.files < MaxFiles
            BY <4>1, PlaylistAssumption DEF Fits
      <4>3. rpc \in {"inside", "root"}  BY <2>4 DEF ReadFiles
      <4>4. found' \in Finds  BY <2>0, <4>1, <4>2, <4>3 DEF Finds
      <4>5. (First + Detected <= MaxFiles)'  BY <2>1, <4>1, <4>2
      <4>. QED BY <2>0, <2>4, <4>4, <4>5 DEF ReadFiles
    <3>. QED BY <3>1, <3>2
  <2>5. CASE ReadFill
    <3>1. \A i \in Places : \A k \in {"dir", "file"} :
              i >= First => [kind |-> k, dir |-> found.dir, number |-> i - First + 1] \in Entries
          BY <2>0 DEF Entries, Finds, Places
    <3>2. list' \in Pictures
      <4>1. CASE found = Failed  BY <2>0, <2>5, <4>1 DEF ReadFill
      <4>2. CASE found # Failed
        <5>1. \A i \in Places : list[i] \in Entries  BY <2>0 DEF Pictures
        <5>. DEFINE kindOf(i) == IF i < First + found.dirs THEN "dir" ELSE "file"
                    entryOf(i) == [kind |-> kindOf(i), dir |-> found.dir, number |-> i - First + 1]
                    after(i) == IF i < First \/ i >= First + Detected THEN list[i] ELSE entryOf(i)
        <5>2. \A i \in Places : after(i) \in Entries
          <6>1. SUFFICES ASSUME NEW i \in Places PROVE after(i) \in Entries
                OBVIOUS
          <6>2. CASE i < First \/ i >= First + Detected  BY <5>1, <6>2
          <6>3. CASE ~(i < First \/ i >= First + Detected)
            <7>1. First \in Nat /\ i \in Nat  BY DEF Places
            <7>2. i >= First /\ after(i) = entryOf(i)  BY <6>3, <7>1
            <7>3. kindOf(i) \in {"dir", "file"}  OBVIOUS
            <7>. HIDE DEF kindOf, after
            <7>. QED BY <3>1, <7>2, <7>3
          <6>. QED BY <6>2, <6>3
        <5>. QED BY <2>5, <4>2, <5>2 DEF ReadFill, Pictures
      <4>. QED BY <4>1, <4>2
    <3>. QED BY <2>0, <2>5, <3>2 DEF ReadFill
  <2>6. CASE ReadDone
    <3>1. num' \in Nat /\ num' <= MaxFiles
          BY <2>0, <2>1, <2>6 DEF ReadDone, Finds
    <3>. QED BY <2>0, <2>1, <2>6, <3>1 DEF ReadDone
  <2>. QED BY <2>2, <2>3, <2>4, <2>5, <2>6 DEF Reader
<1>. QED BY <1>2, <1>3, <1>4 DEF Types
-----------------------------------------------------------------------------
(* The decode thread.                                                      *)
(* What every step of it leaves alone.                                     *)
LEMMA DecoderLeaves ==
    ASSUME Inv, Decoder, calm' \in BOOLEAN
    PROVE  ExplTypes' /\ ListTypes' /\ CursorInList' /\ FoundFits' /\ mode' = mode
<1>1. UNCHANGED notDecoder
      BY DEF Decoder, PlayOpens, PlayLater, Stop, ChooseNext, ChooseTurn, ChooseNone,
             ChooseName, ChooseDir, NoCommand, Step
<1>2. ExplTypes /\ ListTypes /\ CursorInList /\ FoundFits  BY DEF Inv, Types
<1>. USE <1>1 DEF notDecoder, explVars, listVars, cursorVars
<1>3. ExplTypes'  BY <1>2 DEF ExplTypes
<1>4. ListTypes'  BY <1>2 DEF ListTypes
<1>5. CursorInList'  BY <1>2 DEF CursorInList
<1>6. FoundFits'  BY <1>2 DEF FoundFits, First, Detected
<1>. QED BY <1>3, <1>4, <1>5, <1>6

(* A request is taken.                                                     *)
LEMMA CommandInv ==
    ASSUME Inv, PlayOpens \/ PlayLater \/ Stop \/ ChooseNext
    PROVE  Inv'
<1>. DEFINE new == Head(cmdQ)
            rest == Tail(cmdQ)
<1>0. NoFile \in Files /\ NoFile.index = 0 /\ MaxFiles \in Nat /\ 0 < MaxFiles
      BY NoFileIsOne, PlaylistAssumption
<1>1. /\ cmdQ \in RequestSeq /\ InList(cmdQ) /\ pick \in Files
      /\ file.index < MaxFiles /\ pick.index < MaxFiles
      /\ pick # NoFile => Waits(cmdQ, Item("PLAY", pick))
      BY DEF Inv, Types, SharedTypes, FilesInList, PickInv
<1>2. cmdQ # <<>>
      BY DEF PlayOpens, PlayLater, Stop, ChooseNext, Takes
<1>3. /\ rest \in RequestSeq /\ new \in Requests
      /\ \A x : Waits(cmdQ, x) /\ x # new => Waits(rest, x)
      /\ new.data.index < MaxFiles /\ InList(rest)
      BY <1>1, <1>2, TakenKept
<1>4. PlayTypes  BY DEF Inv, Types
<1>5. new.data \in Files  BY <1>3 DEF Requests
<1>6. new.id # "PLAY" => new # Item("PLAY", pick)  BY DEF Item
<1>7. new.id = "PLAY" => new = Item("PLAY", new.data)
      BY <1>3 DEF Requests, Item
<1>8. Item("ABORT", NoFile) \in Requests /\ Item("ABORT", NoFile).data = NoFile
      BY <1>0, ItemIsRequest
<1>. HIDE DEF new, rest
<1>9. ASSUME NEW q \in {rest}, cmdQ' \in {q, InsertItem(q, Item("ABORT", NoFile), TRUE)}
      PROVE  /\ cmdQ' \in RequestSeq /\ InList(cmdQ')
             /\ \A x : Waits(rest, x) => Waits(cmdQ', x)
      BY <1>0, <1>3, <1>8, <1>9, AddedKept
<1>10. ASSUME cmdQ' = rest, pick' = pick, file' = file, new.id # "PLAY"
       PROVE  SharedTypes' /\ FilesInList' /\ PickInv'
       BY <1>1, <1>3, <1>6, <1>10 DEF SharedTypes, FilesInList, PickInv
<1>11. CASE PlayOpens
  <2>1. /\ new.id = "PLAY" /\ state' = "PLAYING"
        /\ file' = (IF new.data = NoFile THEN file ELSE new.data)
        /\ pick' = (IF new.data = pick THEN NoFile ELSE pick)
        /\ cmdQ' = rest \/ cmdQ' = InsertItem(rest, Item("ABORT", NoFile), TRUE)
        /\ dpc' \in {"step", "command"}
        /\ UNCHANGED <<turn, name, ends, calm, from, mode>>
        BY <1>11 DEF PlayOpens, Takes, new, rest, notDecoder
  <2>2. file' \in Files /\ file'.index < MaxFiles /\ pick' \in Files /\ pick'.index < MaxFiles
        BY <1>0, <1>1, <1>3, <1>4, <1>5, <2>1 DEF PlayTypes
  <2>3. /\ cmdQ' \in RequestSeq /\ InList(cmdQ')
        /\ \A x : Waits(rest, x) => Waits(cmdQ', x)
        BY <1>9, <2>1
  <2>4. PickInv'
    <3>1. SUFFICES ASSUME pick' # NoFile PROVE Waits(cmdQ', Item("PLAY", pick'))
          BY DEF PickInv
    <3>2. pick' = pick /\ new.data # pick /\ pick # NoFile  BY <2>1, <3>1
    <3>3. new # Item("PLAY", pick)  BY <3>2 DEF Item
    <3>. QED BY <1>1, <1>3, <2>3, <3>2, <3>3
  <2>5. PlayTypes'  BY <1>4, <2>1, <2>2 DEF PlayTypes
  <2>6. calm' \in BOOLEAN  BY <2>1 DEF Inv, Types, ExplTypes
  <2>. QED BY <1>11, <2>2, <2>3, <2>4, <2>5, <2>6, DecoderLeaves
           DEF Decoder, Inv, Types, SharedTypes, FilesInList
<1>12. CASE PlayLater
  <2>1. /\ new.id = "PLAY" /\ dpc' = "step"
        /\ cmdQ' = rest \o <<Item("ABORT", NoFile), new>>
        /\ UNCHANGED <<state, file, turn, name, ends, calm, from, pick, mode>>
        BY <1>12 DEF PlayLater, Takes, new, rest, notDecoder
  <2>. DEFINE q == Append(rest, Item("ABORT", NoFile))
  <2>2. q \in RequestSeq /\ InList(q) /\ \A x : Waits(rest, x) => Waits(q, x)
        BY <1>0, <1>3, <1>8, AddedKept
  <2>3. cmdQ' = Append(q, new)  BY <1>3, <1>8, <2>1 DEF RequestSeq
  <2>. HIDE DEF q
  <2>4. /\ cmdQ' \in RequestSeq /\ InList(cmdQ') /\ Waits(cmdQ', new)
        /\ \A x : Waits(q, x) => Waits(cmdQ', x)
        BY <1>3, <2>2, <2>3, AddedKept
  <2>5. PickInv'
        BY <1>1, <1>3, <2>1, <2>2, <2>4 DEF PickInv
  <2>6. PlayTypes' /\ calm' \in BOOLEAN
        BY <1>4, <2>1 DEF PlayTypes, Inv, Types, ExplTypes
  <2>. QED BY <1>1, <1>12, <2>1, <2>4, <2>5, <2>6, DecoderLeaves
           DEF Decoder, Inv, Types, SharedTypes, FilesInList
<1>13. CASE Stop
  <2>1. /\ new.id # "PLAY" /\ cmdQ' = rest /\ state' = "IDLE" /\ dpc' = "step"
        /\ UNCHANGED <<file, turn, name, ends, calm, from, pick, mode>>
        BY <1>13 DEF Stop, Takes, new, rest, notDecoder
  <2>2. PlayTypes' /\ calm' \in BOOLEAN
        BY <1>4, <2>1 DEF PlayTypes, Inv, Types, ExplTypes
  <2>. QED BY <1>10, <1>13, <2>1, <2>2, DecoderLeaves DEF Decoder, Inv, Types
<1>14. CASE ChooseNext
  <2>1. /\ new.id # "PLAY" /\ cmdQ' = rest /\ turn' = 0 /\ dpc' \in {"name", "choose"}
        /\ from' = file.index
        /\ UNCHANGED <<state, file, name, ends, pick, mode>>
        BY <1>14 DEF ChooseNext, Takes, new, rest, notDecoder
  <2>2. calm' \in BOOLEAN
    <3>1. request \in BOOLEAN  BY DEF Inv, Types, ExplTypes
    <3>2. calm' = ~request  BY <1>14 DEF ChooseNext
    <3>. QED BY <3>1, <3>2
  <2>3. file.index \in Nat  BY <1>4 DEF PlayTypes, Files
  <2>4. PlayTypes'  BY <1>4, <2>1, <2>3 DEF PlayTypes
  <2>. QED BY <1>10, <1>14, <2>1, <2>2, <2>4, DecoderLeaves DEF Decoder, Inv, Types
<1>. QED BY <1>11, <1>12, <1>13, <1>14

(* The search for the next file, and the steps between the requests.       *)
LEMMA SearchInv ==
    ASSUME Inv, ChooseTurn \/ ChooseNone \/ ChooseName \/ ChooseDir \/ NoCommand \/ Step
    PROVE  Inv'
<1>0. NoFile \in Files /\ NoFile.index = 0 /\ NoEntry \in Entries /\ MaxFiles \in Nat /\ 0 < MaxFiles
      BY NoFileIsOne, PlaylistAssumption
<1>1. /\ cmdQ \in RequestSeq /\ InList(cmdQ) /\ pick \in Files
      /\ file.index < MaxFiles /\ pick.index < MaxFiles
      /\ pick # NoFile => Waits(cmdQ, Item("PLAY", pick))
      BY DEF Inv, Types, SharedTypes, FilesInList, PickInv
<1>2. PlayTypes /\ list \in Pictures /\ num \in Nat /\ num <= MaxFiles /\ dir \in Dirs
      BY DEF Inv, Types, ListTypes, ExplTypes, FoundFits
<1>3. UNCHANGED <<pick, calm, mode>> /\ calm' \in BOOLEAN
      BY DEF Inv, Types, ExplTypes, notDecoder,
             ChooseTurn, ChooseNone, ChooseName, ChooseDir, NoCommand, Step
<1>4. ExplTypes' /\ ListTypes' /\ CursorInList' /\ FoundFits'
      BY <1>3, DecoderLeaves DEF Decoder
<1>5. file.index \in Nat /\ file.index \in Places /\ list[file.index] \in Entries
      BY <1>0, <1>1, <1>2 DEF PlayTypes, Files, Places, Pictures
<1>6. ASSUME NEW kind \in {"PLAY", "PLAY_NEXT"}, NEW f \in Files, f.index < MaxFiles,
             cmdQ' = cmdQ \/ cmdQ' = Append(cmdQ, Item(kind, f)),
             file' \in Files, file'.index < MaxFiles
      PROVE  SharedTypes' /\ FilesInList' /\ PickInv'
  <2>. DEFINE r == Item(kind, f)
  <2>1. r \in Requests /\ r.data.index < MaxFiles  BY <1>6, ItemIsRequest
  <2>2. cmdQ' = cmdQ \/ cmdQ' = Append(cmdQ, r)  BY <1>6
  <2>. HIDE DEF r
  <2>3. /\ cmdQ' \in RequestSeq /\ InList(cmdQ')
        /\ \A x : Waits(cmdQ, x) => Waits(cmdQ', x)
    <3>1. CASE cmdQ' = cmdQ  BY <1>1, <3>1
    <3>2. CASE cmdQ' = Append(cmdQ, r)  BY <1>1, <2>1, <3>2, AddedKept
    <3>. QED BY <2>2, <3>1, <3>2
  <2>. QED BY <1>1, <1>3, <1>6, <2>3 DEF SharedTypes, FilesInList, PickInv
<1>7. CASE ChooseTurn
  <2>. DEFINE i == NextPlace(file.index)
  <2>1. i \in Nat /\ i < MaxFiles
        BY <1>0, <1>2, <1>5 DEF NextPlace
  <2>2. file' = [file EXCEPT !.index = i] /\ cmdQ' = cmdQ
        BY <1>7 DEF ChooseTurn
  <2>. HIDE DEF i
  <2>3. file' \in Files /\ file'.index < MaxFiles
        BY <1>2, <2>1, <2>2 DEF PlayTypes, Files
  <2>4. /\ turn' \in Nat /\ dpc' \in {"name", "choose"}
        /\ UNCHANGED <<state, name, ends, from>>
        BY <1>2, <1>7 DEF ChooseTurn, PlayTypes
  <2>5. PlayTypes'  BY <1>2, <1>3, <2>3, <2>4 DEF PlayTypes
  <2>. QED BY <1>0, <1>4, <1>6, <2>2, <2>3, <2>5 DEF Inv, Types
<1>8. CASE ChooseNone \/ ChooseName \/ NoCommand
  <2>1. /\ name' \in Entries /\ turn' \in Nat /\ dpc' \in {"name", "dir", "step"}
        /\ UNCHANGED <<state, file, cmdQ, ends, from>>
        BY <1>2, <1>5, <1>8 DEF ChooseNone, ChooseName, NoCommand, PlayTypes
  <2>2. PlayTypes'  BY <1>2, <1>3, <2>1 DEF PlayTypes
  <2>3. file' \in Files  BY <2>2 DEF PlayTypes
  <2>. QED BY <1>0, <1>1, <1>4, <1>6, <2>1, <2>2, <2>3 DEF Inv, Types
<1>9. CASE ChooseDir
  <2>1. NextFile \in Files /\ NextFile.index < MaxFiles
        BY <1>1, <1>2, <1>5 DEF NextFile, Files, PlayTypes
  <2>2. /\ cmdQ' = Append(cmdQ, Item("PLAY", NextFile))
        /\ state' = "PREPARE_PLAYING" /\ dpc' = "step" /\ name' = NoEntry
        /\ UNCHANGED <<file, turn, ends, from>>
        BY <1>9 DEF ChooseDir
  <2>3. PlayTypes'  BY <1>0, <1>2, <1>3, <2>2 DEF PlayTypes
  <2>4. file' \in Files  BY <2>3 DEF PlayTypes
  <2>. QED BY <1>1, <1>4, <1>6, <2>1, <2>2, <2>3, <2>4 DEF Inv, Types
<1>10. CASE Step
  <2>1. /\ cmdQ' = cmdQ \/ cmdQ' = Append(cmdQ, Item("PLAY_NEXT", NoFile))
        /\ ends' \in Nat /\ dpc' = "command"
        /\ UNCHANGED <<state, file, turn, name, from>>
        BY <1>2, <1>10 DEF Step, PlayTypes
  <2>2. PlayTypes'  BY <1>2, <1>3, <2>1 DEF PlayTypes
  <2>3. file' \in Files  BY <2>2 DEF PlayTypes
  <2>. QED BY <1>0, <1>1, <1>4, <1>6, <2>1, <2>2, <2>3 DEF Inv, Types
<1>. QED BY <1>7, <1>8, <1>9, <1>10

-----------------------------------------------------------------------------
(* Every step keeps the invariant.                                         *)
LEMMA NextInv == Inv /\ [Next]_vars => Inv'
<1>1. Inv /\ User => Inv'      BY KeyInv, RequestInv DEF User
<1>2. Inv /\ Reader => Inv'    BY ReaderInv
<1>3. Inv /\ Decoder => Inv'   BY CommandInv, SearchInv DEF Decoder
<1>4. Inv /\ UNCHANGED vars => Inv'
  <2>. SUFFICES ASSUME Inv, UNCHANGED vars PROVE Inv'  OBVIOUS
  <2>. USE DEF Inv, Types, vars, explVars, listVars, playVars, cursorVars
  <2>1. SharedTypes' /\ FilesInList' /\ PickInv'  BY SharedKept
  <2>2. ExplTypes' /\ CursorInList'  BY DEF ExplTypes, CursorInList
  <2>3. ListTypes' /\ FoundFits'  BY DEF ListTypes, FoundFits, First, Detected
  <2>4. PlayTypes'  BY DEF PlayTypes
  <2>. QED BY <2>1, <2>2, <2>3, <2>4
<1>. QED BY <1>1, <1>2, <1>3, <1>4 DEF Next

(* The invariant that the results below follow from.                       *)
THEOREM PlaylistInvariant == Spec => []Inv
<1>. QED BY InitInv, NextInv, PTL DEF Spec

(* No index leaves its array: neither that of the lines on the screen, nor *)
(* the cursor's, nor that of the search for the next file.                 *)
THEOREM IndicesAreInArrays == Spec => []IndexInArrays
<1>1. Inv => TypeOK
  <2>. SUFFICES ASSUME Inv PROVE TypeOK  OBVIOUS
  <2>1. cmdQ \in Seq([id : {"PLAY", "PLAY_NEXT", "ABORT"}, data : Files])
        BY DEF Inv, Types, SharedTypes, RequestSeq, Requests
  <2>. QED BY <2>1 DEF TypeOK, Inv, Types, ExplTypes, ListTypes, PlayTypes, SharedTypes, Pictures, Finds
<1>2. Inv => IndexInArrays
      BY <1>1 DEF Inv, FoundFits, CursorInList, FilesInList, IndexInArrays
<1>. QED BY <1>2, PlaylistInvariant, PTL

(* What the user picked stays among the requests until it is opened.       *)
THEOREM PicksAreKept == Spec => []PickKept
<1>1. Inv => PickKept
      BY DEF Inv, PickInv, PickKept, Waits
<1>. QED BY <1>1, PlaylistInvariant, PTL
-----------------------------------------------------------------------------
(* The list and the name of the directory, which the key thread and the    *)
(* reader thread share with one flag.                                      *)
OfDir(l, d) == \A i \in Places : l[i].kind = "file" => l[i].dir = d

NoFiles(l) == \A i \in Places : l[i].kind # "file"

(* The flag is set as long as the list is read; until then the list is of  *)
(* the directory, and so is what was found for it.                         *)
ListFits ==
    /\ rpc # "idle" => request
    /\ ~crossed =>
           /\ ~request \/ rpc = "filled" => OfDir(list, dir)
           /\ rpc \in {"cleared", "inside", "root", "read"} => NoFiles(list)
           /\ rpc = "read" /\ found # Failed => found.dir = dir

(* The user asks for a list.                                               *)
LEMMA AskFits ==
    ASSUME Types, ListFits, NEW d, AskToRead(d), UNCHANGED listVars
    PROVE  ListFits'
<1>1. request' = TRUE /\ dir' = d /\ UNCHANGED <<list, num, rpc, found>>
  BY DEF AskToRead, listVars
<1>2. ~crossed' => ~crossed /\ (~request \/ rpc = "idle" \/ d = dir)
  BY DEF AskToRead
<1>3. ASSUME ~crossed'
      PROVE  /\ rpc = "filled" => OfDir(list, dir')
             /\ rpc \in {"cleared", "inside", "root", "read"} => NoFiles(list)
             /\ rpc = "read" /\ found # Failed => found.dir = dir'
  BY <1>1, <1>2, <1>3 DEF ListFits
<1> QED
  BY <1>1, <1>3 DEF ListFits, OfDir, NoFiles

(* The user does something else.                                           *)
LEMMA UserFits ==
    ASSUME Types, ListFits, User
    PROVE  ListFits'
<1>1. CASE \E d \in Dirs : AskToRead(d) /\ UNCHANGED listVars
  BY <1>1, AskFits
<1>2. CASE UNCHANGED <<dir, request, listVars, crossed>>
  BY <1>2 DEF ListFits, OfDir, NoFiles, listVars
<1>3. dir \in Dirs
  BY DEF Types, ExplTypes
<1>4. \/ \E d \in Dirs : AskToRead(d) /\ UNCHANGED listVars
      \/ UNCHANGED <<dir, request, listVars, crossed>>
  <2>1. CASE OpenExplorer
    BY <1>3, <2>1 DEF OpenExplorer
  <2>2. CASE Back
    BY <2>2 DEF Back, GoTo
  <2>3. CASE EnterDir
    BY <2>3 DEF EnterDir, GoTo
  <2>4. CASE Cancel \/ Scroll \/ Touch \/ Down \/ Up \/ NoSecondKey
    BY <2>4 DEF Cancel, Scroll, Touch, Down, Up, NoSecondKey
  <2>5. CASE PickFile \/ AskPlay \/ AskAbort
    BY <2>5 DEF PickFile, AskPlay, AskAbort, explVars
  <2> QED
    BY <2>1, <2>2, <2>3, <2>4, <2>5 DEF User
<1> QED
  BY <1>1, <1>2, <1>4

(* The reader clears the list, fills it from what it found in the          *)
(* directory, and clears the flag last of all.                             *)
LEMMA ReaderFits ==
    ASSUME Types, ListFits, Reader
    PROVE  ListFits'
<1>1. dir' = dir /\ crossed' = crossed
  BY DEF Reader, ReadClear, ReadParent, ReadFiles, ReadFill, ReadDone, notReader
<1>2. list \in [Places -> Entries]
  BY DEF Types, ListTypes, Pictures
<1>3. CASE ReadClear
  <2>1. request' = request /\ request /\ rpc' = "cleared" /\ NoFiles(list')
    BY <1>3 DEF ReadClear, NoFiles, NoEntry
  <2> QED
    BY <1>1, <2>1 DEF ListFits, NoFiles
<1>4. CASE ReadParent
  <2>1. rpc = "cleared" /\ rpc' \in {"inside", "root"} /\ request' = request
    BY <1>4 DEF ReadParent
  <2>2. NoFiles(list) => NoFiles(list')
    BY <1>2, <1>4 DEF ReadParent, NoFiles, Parent
  <2> QED
    BY <1>1, <2>1, <2>2 DEF ListFits, NoFiles
<1>5. CASE ReadFiles
  <2>1. rpc \in {"inside", "root"} /\ rpc' = "read" /\ request' = request /\ list' = list
    BY <1>5 DEF ReadFiles
  <2>2. found' # Failed => found'.dir = dir
    BY <1>5 DEF ReadFiles
  <2> QED
    BY <1>1, <2>1, <2>2 DEF ListFits, NoFiles
<1>6. CASE ReadFill
  <2>1. rpc = "read" /\ rpc' = "filled" /\ request' = request
    BY <1>6 DEF ReadFill
  <2>2. ASSUME NoFiles(list), found # Failed => found.dir = dir
        PROVE  OfDir(list', dir)
    <3>1. CASE found = Failed
      BY <1>6, <2>2, <3>1 DEF ReadFill, NoFiles, OfDir
    <3>2. CASE found # Failed
      <4>1. \A i \in Places : list'[i] = list[i] \/ list'[i].dir = found.dir
        BY <1>6, <3>2 DEF ReadFill
      <4> QED
        BY <2>2, <3>2, <4>1 DEF NoFiles, OfDir
    <3> QED
      BY <3>1, <3>2
  <2> QED
    BY <1>1, <2>1, <2>2 DEF ListFits, OfDir
<1>7. CASE ReadDone
  <2>1. rpc = "filled" /\ rpc' = "idle" /\ list' = list
    BY <1>7 DEF ReadDone
  <2> QED
    BY <1>1, <2>1 DEF ListFits, OfDir
<1> QED
  BY <1>3, <1>4, <1>5, <1>6, <1>7 DEF Reader

(* What the decode thread leaves as it is.                                 *)
LEMMA DecoderFrame ==
    ASSUME Decoder
    PROVE  UNCHANGED notDecoder
BY DEF Decoder, PlayOpens, PlayLater, Stop, ChooseNext, ChooseTurn, ChooseNone,
       ChooseName, ChooseDir, NoCommand, Step

(* The list and the directory fit together whenever the keys do something. *)
LEMMA FitsStep == Inv /\ ListFits /\ [Next]_vars => ListFits'
<1> SUFFICES ASSUME Inv, ListFits, [Next]_vars
             PROVE  ListFits'
  OBVIOUS
<1>1. Types
  BY DEF Inv
<1>2. CASE Decoder \/ UNCHANGED vars
  <2>1. UNCHANGED <<dir, request, listVars, crossed>>
    BY <1>2, DecoderFrame DEF notDecoder, explVars, vars
  <2> QED
    BY <2>1 DEF ListFits, OfDir, NoFiles, listVars
<1> QED
  BY <1>1, <1>2, UserFits, ReaderFits DEF Next

(* What was picked was in the directory when it was picked, and goes on    *)
(* naming it.                                                              *)
LEMMA PickedStep == Inv /\ ListFits /\ PickedTogether /\ [Next]_vars => PickedTogether'
<1> SUFFICES ASSUME Inv, ListFits, PickedTogether, [Next]_vars
             PROVE  PickedTogether'
  OBVIOUS
<1>1. CASE (pick' = pick \/ pick' = NoFile) /\ (~crossed' => ~crossed)
  BY <1>1 DEF PickedTogether, Exists
<1>2. CASE PickFile
  <2>1. Selected \in Places /\ ~request /\ crossed' = crossed
    BY <1>2, SelectedIsPlace DEF Inv, PickFile, FirstKey
  <2>2. CASE list[Selected].kind = "file"
    <3>1. pick'.entry = list[Selected] /\ pick'.dir = dir
      BY <1>2, <2>2 DEF PickFile
    <3>2. ~crossed => list[Selected].dir = dir
      BY <2>1, <2>2 DEF ListFits, OfDir
    <3> QED
      BY <2>1, <2>2, <3>1, <3>2 DEF PickedTogether, Exists
  <2>3. CASE list[Selected].kind # "file"
    BY <1>1, <1>2, <2>1, <2>3 DEF PickFile
  <2> QED
    BY <2>2, <2>3
<1>3. CASE User /\ ~PickFile
  <2>1. pick' = pick
    BY <1>3 DEF User, OpenExplorer, Cancel, Scroll, Touch, Down, Up, Back, NoSecondKey,
                EnterDir, AskPlay, AskAbort
  <2>2. ~crossed' => ~crossed
    BY <1>3 DEF User, OpenExplorer, Cancel, Scroll, Touch, Down, Up, Back, NoSecondKey,
                EnterDir, AskPlay, AskAbort, GoTo, AskToRead
  <2> QED
    BY <1>1, <2>1, <2>2
<1>4. CASE Reader
  BY <1>1, <1>4 DEF Reader, ReadClear, ReadParent, ReadFiles, ReadFill, ReadDone, notReader
<1>5. CASE Decoder
  <2>1. pick' = pick \/ pick' = NoFile
    BY <1>5 DEF Decoder, PlayOpens, PlayLater, Stop, ChooseNext, ChooseTurn, ChooseNone,
                ChooseName, ChooseDir, NoCommand, Step
  <2> QED
    BY <1>1, <1>5, <2>1, DecoderFrame DEF notDecoder
<1>6. CASE UNCHANGED vars
  BY <1>1, <1>6 DEF vars
<1> QED
  BY <1>2, <1>3, <1>4, <1>5, <1>6 DEF Next

(* What the user picks is looked for in the directory that it is in: the   *)
(* list and the name of the directory, which two threads share with one    *)
(* flag, fit together, as long as no second key of a moment asked for      *)
(* another directory while one was read.                                   *)
THEOREM PicksAreTogether == Spec => []PickedTogether
<1>1. Init => ListFits /\ PickedTogether
  BY DEF Init, ListFits, OfDir, NoFiles, NoEntry, PickedTogether
<1> QED
  BY <1>1, FitsStep, PickedStep, PlaylistInvariant, PTL DEF Spec

-----------------------------------------------------------------------------
(* The search for the next file.                                           *)
Passed(j) == \A k \in Between(from, j) : ~IsFile(k)

NoneInList == \A k \in 0 .. num - 1 : ~IsFile(k)

(* The place after so many turns, from a place in the list or beyond its   *)
(* end.                                                                    *)
Reached ==
    IF from + turn < num THEN from + turn
    ELSE IF from < num THEN from + turn - num
    ELSE turn - 1

Choosing ==
    dpc = "choose" =>
        /\ turn <= num
        /\ turn = 0 => file.index = from
        /\ turn > 0 => file.index = Reached /\ Passed(file.index) /\ ~IsFile(file.index)

Chosen == NoneInList \/ (Passed(file.index) /\ IsFile(file.index))

Searched ==
    /\ calm => ~request
    /\ calm /\ mode = "IN_ORDER" =>
           /\ Choosing
           /\ dpc \in {"name", "dir"} => Chosen
           /\ dpc = "dir" => name = list[file.index]

(* What it is to be between two places.                                    *)
LEMMA BetweenIs ==
    ASSUME NEW i, NEW j, NEW k
    PROVE  k \in Between(i, j) <=>
               /\ k \in Places
               /\ IF i < j THEN i < k /\ k < j ELSE (i < k /\ k < num) \/ k < j
BY DEF Between

(* One place further, and nothing between it and where the search began.   *)
LEMMA TurnPasses ==
    ASSUME Inv, Choosing, dpc = "choose", turn < num
    PROVE  LET i == NextPlace(file.index) IN
           /\ Passed(i)
           /\ i = IF from + (turn + 1) < num THEN from + (turn + 1)
                  ELSE IF from < num THEN from + (turn + 1) - num
                  ELSE (turn + 1) - 1
<1>1. /\ turn \in Nat /\ num \in Nat /\ from \in Nat /\ file.index \in Nat
  BY DEF Inv, Types, PlayTypes, ListTypes, Files
<1>2. Places \subseteq Nat
  BY DEF Places
<1>3. CASE turn = 0
  <2>1. file.index = from
    BY <1>3 DEF Choosing
  <2>2. ASSUME NEW k \in Between(from, NextPlace(from))
        PROVE  FALSE
    <3>1. k \in Nat
      BY <1>2, BetweenIs
    <3> QED
      BY <1>1, <2>2, <3>1, BetweenIs DEF NextPlace
  <2> QED
    BY <1>1, <1>3, <2>1, <2>2 DEF Passed, NextPlace
<1>4. CASE turn > 0
  <2>1. file.index = Reached /\ Passed(file.index) /\ ~IsFile(file.index)
    BY <1>4 DEF Choosing
  <2>2. ASSUME NEW k \in Between(from, NextPlace(file.index)), k # file.index
        PROVE  k \in Between(from, file.index)
    <3>1. k \in Nat
      BY <1>2, BetweenIs
    <3>2. file.index = Reached
      BY <2>1
    <3> QED
      BY <1>1, <1>4, <2>2, <3>1, <3>2, BetweenIs DEF NextPlace, Reached
  <2> QED
    BY <1>1, <1>4, <2>1, <2>2 DEF Passed, NextPlace, Reached
<1> QED
  BY <1>1, <1>3, <1>4

(* Having passed every place the search has found nothing.                 *)
LEMMA NothingFound ==
    ASSUME Inv, Choosing, dpc = "choose", turn >= num
    PROVE  NoneInList
<1>1. /\ turn \in Nat /\ num \in Nat /\ from \in Nat /\ MaxFiles \in Nat /\ num <= MaxFiles
      /\ turn = num
  BY PlaylistAssumption DEF Inv, Types, PlayTypes, ListTypes, FoundFits, Choosing
<1>2. SUFFICES ASSUME NEW k \in 0 .. num - 1
               PROVE  ~IsFile(k)
  BY DEF NoneInList
<1>3. turn > 0 /\ k \in Places
  BY <1>1 DEF Places
<1>4. file.index = Reached /\ Passed(file.index) /\ ~IsFile(file.index)
  BY <1>3 DEF Choosing
<1>5. k \in Between(from, file.index) \cup {file.index}
  BY <1>1, <1>3, <1>4 DEF Between, Reached
<1> QED
  BY <1>4, <1>5 DEF Passed

(* As long as nobody asks for another list, the list stays as it is.       *)
LEMMA CalmFrame ==
    ASSUME Inv, ListFits, Searched, User \/ Reader \/ UNCHANGED vars, calm'
    PROVE  /\ calm /\ UNCHANGED <<request, list, num, dpc, turn, file, from, name, mode>>
<1>1. CASE User
  <2>1. UNCHANGED <<listVars, playVars>>
    BY <1>1 DEF User, OpenExplorer, Cancel, Scroll, Touch, Down, Up, Back, NoSecondKey,
                EnterDir, PickFile, AskPlay, AskAbort
  <2>2. calm /\ request' = request
    BY <1>1 DEF User, OpenExplorer, Cancel, Scroll, Touch, Down, Up, Back, NoSecondKey,
                EnterDir, PickFile, AskPlay, AskAbort, GoTo, AskToRead, explVars
  <2> QED
    BY <2>1, <2>2 DEF listVars, playVars
<1>2. CASE Reader
  <2>1. calm /\ (rpc # "idle" \/ request)
    BY <1>2 DEF Reader, ReadClear, ReadParent, ReadFiles, ReadFill, ReadDone, notReader
  <2> QED
    BY <2>1 DEF ListFits, Searched
<1>3. CASE UNCHANGED vars
  BY <1>3 DEF vars, explVars, listVars, playVars
<1> QED
  BY <1>1, <1>2, <1>3

(* The search, step by step.                                               *)
LEMMA SearchStep == Inv /\ ListFits /\ Searched /\ [Next]_vars => Searched'
<1> SUFFICES ASSUME Inv, ListFits, Searched, [Next]_vars
             PROVE  Searched'
  OBVIOUS
<1>1. CASE User \/ Reader \/ UNCHANGED vars
  <2> SUFFICES ASSUME calm'
               PROVE  Searched'
    BY DEF Searched
  <2>1. calm /\ UNCHANGED <<request, list, num, dpc, turn, file, from, name, mode>>
    BY <1>1, CalmFrame
  <2> QED
    BY <2>1 DEF Searched, Choosing, Chosen, NoneInList, Passed, Reached, IsFile, Between
<1>2. CASE Decoder
  <2>1. UNCHANGED <<request, list, num, mode>>
    BY <1>2, DecoderFrame DEF notDecoder, explVars, listVars
  <2>2. CASE ChooseNext
    <3>1. /\ calm' = ~request /\ from' = file.index /\ file' = file /\ turn' = 0
          /\ mode = "IN_ORDER" => dpc' = "choose"
      BY <2>2 DEF ChooseNext
    <3>2. num \in Nat /\ request \in BOOLEAN
      BY DEF Inv, Types, ListTypes, ExplTypes
    <3>3. calm' => ~request'
      BY <2>1, <3>1, <3>2
    <3>4. Choosing'
      BY <2>1, <3>1, <3>2 DEF Choosing
    <3>5. mode' = "IN_ORDER" => dpc' = "choose"
      BY <2>1, <3>1
    <3> QED
      BY <3>3, <3>4, <3>5 DEF Searched
  <2>3. ASSUME ~ChooseNext
        PROVE  calm' = calm /\ from' = from
    BY <1>2, <2>3 DEF Decoder, PlayOpens, PlayLater, Stop, ChooseTurn, ChooseNone, ChooseName,
                      ChooseDir, NoCommand, Step
  <2>4. CASE PlayOpens \/ PlayLater \/ Stop \/ NoCommand \/ Step \/ ChooseDir
    <3>1. dpc' \in {"command", "step"}
      BY <2>4 DEF PlayOpens, PlayLater, Stop, NoCommand, Step, ChooseDir
    <3>2. ~ChooseNext
      BY <2>4 DEF PlayOpens, PlayLater, Stop, NoCommand, Step, ChooseDir, ChooseNext, Takes
    <3> QED
      BY <2>1, <2>3, <3>1, <3>2 DEF Searched, Choosing
  <2>5. CASE ChooseTurn \/ ChooseNone \/ ChooseName
    <3>1. dpc \in {"choose", "name"} /\ calm' = calm /\ from' = from
      BY <2>3, <2>5 DEF ChooseTurn, ChooseNone, ChooseName, ChooseNext, Takes
    <3>2. SUFFICES ASSUME calm, mode = "IN_ORDER"
                   PROVE  Choosing' /\ (dpc' \in {"name", "dir"} => Chosen')
                              /\ (dpc' = "dir" => name' = list'[file'.index])
      BY <2>1, <3>1 DEF Searched
    <3>3. Choosing /\ (dpc = "name" => Chosen)
      BY <3>2 DEF Searched
    <3>4. CASE ChooseTurn
      <4>0. PICK i : i = NextPlace(file.index)
        OBVIOUS
      <4>1. dpc = "choose" /\ turn < num /\ file' = [file EXCEPT !.index = i]
        BY <3>2, <3>4, <4>0 DEF ChooseTurn, Turns
      <4>2. /\ Passed(i)
            /\ i = IF from + (turn + 1) < num THEN from + (turn + 1)
                   ELSE IF from < num THEN from + (turn + 1) - num
                   ELSE (turn + 1) - 1
        BY <3>3, <4>0, <4>1, TurnPasses
      <4>3. \/ IsFile(i) /\ dpc' = "name"
            \/ ~IsFile(i) /\ turn' = turn + 1 /\ dpc' = "choose"
        BY <3>2, <3>4, <4>0, <4>1 DEF ChooseTurn
      <4>4. file'.index = i
        BY <4>1 DEF Inv, Types, PlayTypes, Files
      <4>5. Passed(i)' /\ (IsFile(i)' <=> IsFile(i))
        BY <2>1, <3>1, <4>2 DEF Passed, Between, IsFile
      <4>6. CASE dpc' = "name" /\ IsFile(i)
        BY <4>4, <4>5, <4>6 DEF Choosing, Chosen, Passed
      <4>7. CASE ~IsFile(i) /\ turn' = turn + 1 /\ dpc' = "choose"
        <5>1. turn' <= num' /\ turn' # 0 /\ file'.index = Reached'
          BY <2>1, <3>1, <4>1, <4>2, <4>4, <4>7 DEF Reached, Inv, Types, PlayTypes, ListTypes
        <5> QED
          BY <4>4, <4>5, <4>7, <5>1 DEF Choosing, Passed
      <4> QED
        BY <4>3, <4>6, <4>7
    <3>5. CASE ChooseNone
      <4>1. dpc = "choose" /\ turn >= num /\ dpc' = "name"
        BY <3>2, <3>5 DEF ChooseNone, Turns
      <4>2. NoneInList
        BY <3>3, <4>1, NothingFound
      <4>3. NoneInList'
        BY <2>1, <4>2 DEF NoneInList, IsFile
      <4> QED
        BY <4>1, <4>3 DEF Choosing, Chosen
    <3>6. CASE ChooseName
      <4>1. dpc = "name" /\ dpc' = "dir" /\ name' = list[file.index] /\ file' = file
        BY <3>6 DEF ChooseName
      <4>2. Chosen'
        BY <2>1, <3>1, <3>3, <4>1 DEF Chosen, NoneInList, Passed, Between, IsFile
      <4> QED
        BY <2>1, <4>1, <4>2 DEF Choosing
    <3> QED
      BY <2>5, <3>4, <3>5, <3>6
  <2> QED
    BY <1>2, <2>2, <2>4, <2>5 DEF Decoder
<1> QED
  BY <1>1, <1>2 DEF Next

(* In sequential mode the file played next is the first one that comes     *)
(* after the last in the list, from its end on from its beginning, if      *)
(* nobody asks for another list while it is searched; the last file may    *)
(* have been beyond the end of the list by then.                           *)
THEOREM NextFileIsNext == Spec => NextIsNext
<1>1. Init => ListFits /\ Searched
  BY DEF Init, ListFits, OfDir, NoFiles, NoEntry, Searched
<1>2. Inv /\ ListFits /\ Searched /\ [Next]_vars =>
          [ChooseDir /\ calm /\ mode = "IN_ORDER" /\ (\E k \in 0 .. num - 1 : IsFile(k)) =>
               /\ ~crossed => Exists(NextFile)
               /\ \A k \in Between(from, file.index) : ~IsFile(k)]_vars
  <2> SUFFICES ASSUME Inv, ListFits, Searched, ChooseDir, calm, mode = "IN_ORDER",
                      \E k \in 0 .. num - 1 : IsFile(k)
               PROVE  /\ ~crossed => Exists(NextFile)
                      /\ \A k \in Between(from, file.index) : ~IsFile(k)
    OBVIOUS
  <2>1. ~request /\ Chosen /\ name = list[file.index]
    BY DEF Searched, ChooseDir
  <2>2. Passed(file.index) /\ IsFile(file.index)
    BY <2>1 DEF Chosen, NoneInList
  <2>3. ~crossed => name.kind = "file" /\ name.dir = dir
    BY <2>1, <2>2 DEF IsFile, ListFits, OfDir
  <2> QED
    BY <2>2, <2>3 DEF Passed, Exists, NextFile
<1> QED
  BY <1>1, <1>2, FitsStep, SearchStep, PlaylistInvariant, PTL DEF Spec, NextIsNext
=============================================================================
