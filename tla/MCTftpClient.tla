---------------------------- MODULE MCTftpClient ----------------------------
(* Small instances of TftpClient for TLC. *)
EXTENDS TftpClient

CONSTANTS short, long

MCFiles == {short, long}
MCFileLen == [f \in MCFiles |-> IF f = short THEN 2 ELSE 5]
MCServers == {"plain", "blksize", "tsize", "refused"}
=============================================================================
