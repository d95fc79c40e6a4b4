------------------------------- MODULE NetFile -------------------------------
(***************************************************************************)
(* What GRUB expects of its network file system (the fsys_table entry      *)
(* "tftp"): opening a file finds its size, reading copies what the file    *)
(* has at filepos, and each call may fail.  Byte k of file f is <<f, k>>.  *)
(***************************************************************************)
EXTENDS Integers, Sequences

CONSTANTS Files, FileLen, None

VARIABLES call,     \* the call being made: "open", "read", "close" or "none"
          opened,   \* the file that is open, or None
          size,     \* filemax, once the file is open
          pos,      \* filepos
          want,     \* what the current read still has to copy; more than 0
                    \* after a read says that it failed
          out       \* what the current read has copied, or the last one

vars == <<call, opened, size, pos, want, out>>

Bytes(f, from, n) == [k \in 1 .. n |-> <<f, from + k - 1>>]

Init ==
    call = "none" /\ opened = None /\ size = -1 /\ pos = 0 /\ want = 0 /\ out = <<>>

Open ==
    /\ call = "none" /\ call' = "open"
    /\ size' = -1 /\ pos' = 0
    /\ UNCHANGED <<opened, want, out>>

OpenEnds ==
    /\ call = "open" /\ call' = "none"
    /\ \/ \E f \in Files : opened' = f /\ size' = FileLen[f]
       \/ opened' = None /\ UNCHANGED size
    /\ UNCHANGED <<pos, want, out>>

Seek ==
    /\ call = "none" /\ opened # None
    /\ pos' \in 0 .. size
    /\ UNCHANGED <<call, opened, size, want, out>>

Read ==
    /\ call = "none" /\ opened # None
    /\ want' \in 1 .. size - pos
    /\ call' = "read" /\ out' = <<>>
    /\ UNCHANGED <<opened, size, pos>>

Copy ==
    /\ call = "read"
    /\ \E n \in 1 .. want :
          pos' = pos + n /\ want' = want - n /\ out' = out \o Bytes(opened, pos, n)
    /\ call' = IF want' = 0 THEN "none" ELSE "read"
    /\ UNCHANGED <<opened, size>>

ReadFails ==
    /\ call = "read" /\ call' = "none"
    /\ UNCHANGED <<opened, size, pos, want, out>>

Close ==
    /\ call = "none" /\ opened # None
    /\ call' = "close"
    /\ UNCHANGED <<opened, size, pos, want, out>>

CloseEnds ==
    /\ call = "close" /\ call' = "none"
    /\ opened' = None /\ size' = -1
    /\ UNCHANGED <<pos, want, out>>

Next == Open \/ OpenEnds \/ Seek \/ Read \/ Copy \/ ReadFails \/ Close \/ CloseEnds

Spec == Init /\ [][Next]_vars
=============================================================================
