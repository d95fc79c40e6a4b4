---- MODULE MCExfatCache ----
(* Three buffers and two lists for TLC. *)
EXTENDS ExfatCache
CONSTANTS b1, b2, b3
MCArray == <<b1, b2, b3>>
====
