------------------------------ MODULE MCPlayer ------------------------------
(* Instances of Player for TLC: the situations of each run.                *)
EXTENDS Player

Once(kinds) == [k \in RequestKinds |-> IF k \in kinds THEN 1 ELSE 0]

(* A video of one packet, nothing that fails.                              *)
Short ==
    [requests |-> Once({"PLAY"}), video |-> TRUE, repeat |-> FALSE, remembers |-> FALSE,
     openFails |-> FALSE, memoryFails |-> FALSE, fileLen |-> 1, maxPackets |-> 2]

PauseAndSeek == [Short EXCEPT !.requests = Once({"PLAY", "PAUSE", "RESUME", "SEEK"})]
SeekAndAbort ==
    [Short EXCEPT !.requests = [Once({"SEEK", "ABORT"}) EXCEPT !["PLAY"] = 2],
                  !.maxPackets = 3]
Keyboard ==
    [Short EXCEPT !.requests = Once({"PLAY", "SEEK", "KEYBOARD"}), !.video = FALSE,
                  !.fileLen = 2]
Audio ==
    [Short EXCEPT !.requests = Once({"PLAY", "PICK", "SEEK", "HOME"}), !.video = FALSE,
                  !.repeat = TRUE, !.remembers = TRUE, !.openFails = TRUE, !.fileLen = 2]
SeekOnce == [Short EXCEPT !.requests = Once({"PLAY", "SEEK"}), !.fileLen = 2]
NoMemory == [Short EXCEPT !.memoryFails = TRUE, !.fileLen = 2, !.maxPackets = 3]
TwoSeeks == [Short EXCEPT !.requests = Once({"PLAY", "SEEK"}), !.remembers = TRUE]

OneSession == {PauseAndSeek, NoMemory, TwoSeeks}
Sessions == {SeekAndAbort, Keyboard, Audio}
Exit == {[Short EXCEPT !.requests = Once({"PLAY", "SHUTDOWN"}), !.remembers = TRUE]}
SeekOnceVideo == {SeekOnce}
SeekOnceAudio == {[SeekOnce EXCEPT !.video = FALSE, !.fileLen = 1]}
=============================================================================
