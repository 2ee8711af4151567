---------------------------- MODULE MCFtpServer ----------------------------
(* Values of the constants of FtpServer for TLC.                           *)
EXTENDS FtpServer

(* A file of two units.                                                    *)
Exact == {2}

AllCommands == {"RETR", "STOR", "LIST", "RNFR", "PASV", "ABOR", "QUIT"}
DataCommands == {"RETR", "STOR"}
=============================================================================
