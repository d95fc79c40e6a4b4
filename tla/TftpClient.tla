----------------------------- MODULE TftpClient -----------------------------
(***************************************************************************)
(* GRUB's network drive: files read by TFTP with acknowledgements,         *)
(* retransmission and a buffer, over a network that loses, repeats and     *)
(* reorders (netboot/fsys_tftp.c, await_reply of netboot/main.c), built    *)
(* with CONGESTED, as configure does unless it is told otherwise.          *)
(*                                                                         *)
(* Messages are never removed from the network: they may come at any time, *)
(* again, or never.  The server is external, modelled after what the       *)
(* client expects of it.  Lengths are counted in units of the file.        *)
(***************************************************************************)
EXTENDS Integers, Sequences, FiniteSets

CONSTANTS
    Files, FileLen,   \* the server's files and their lengths
    Missing,          \* a name that the server does not have
    None,
    DefaultSize,      \* TFTP_DEFAULTSIZE_PACKET
    BigSize,          \* the block size the server grants when asked
    BufLen,           \* FSYS_BUFLEN
    BlockMod,         \* 2^16, what the numbers of blocks are counted in
    MaxRetries,       \* MAX_TFTP_RETRIES
    Rexmt, RexmtLimit,\* TFTP_REXMT, TFTP_TIMEOUT
    Servers,          \* what servers answer: "plain", "blksize", "tsize", "refused"
    AnySeek,          \* whether callers seek to what is not buffered
    MaxSessions,      \* bound: how often the server answers the requests of one port
    MaxCalls,         \* bound: opens and reads
    MaxRead           \* bound: units read by one call

ASSUME TftpAssumption ==
    /\ FileLen \in [Files -> Nat] /\ Missing \notin Files /\ None \notin Files \cup {Missing}
    /\ DefaultSize \in Nat \ {0} /\ BigSize \in Nat /\ BigSize >= DefaultSize
    /\ BufLen \in Nat /\ BufLen % 2 = 0 /\ BufLen >= 2 * BigSize
    /\ BlockMod \in Nat /\ BlockMod > 1
    /\ MaxRetries \in Nat /\ Rexmt \in Nat \ {0} /\ RexmtLimit \in Nat
    /\ Servers \subseteq {"plain", "blksize", "tsize", "refused"} /\ AnySeek \in BOOLEAN
    /\ MaxSessions \in Nat /\ MaxCalls \in Nat /\ MaxRead \in Nat \ {0}

VARIABLES
    pc,             \* "idle", "request" (at send_rrq), "fill" (in buf_fill),
                    \* "copy" (at the head of the loop of tftp_read)
    call,           \* "dir", "count" (tftp_dir's first pass, which counts), "read",
                    \* "reopen" (tftp_read when filepos has gone back), "close", "none"
    opened,         \* dirname
    filemax, filepos, errnum,
    arp,            \* the server's address has been asked for and is known
    retry, iport, oport, block, prevblock, bcounter,
    tp,             \* the packet to send: the request, an ACK or an ERROR
    packetsize, buf_eof, buf_read, saved_filepos,
    buf,            \* the memory at FSYS_BUF
    left, out,      \* tftp_read: units still wanted, what was copied to addr
    calls,          \* bound: how many opens and reads were made
    sent, answers,  \* the network: what the client has sent, and what is sent to it
    sessions,       \* the server's transfers
    server          \* what kind of server it is

file == <<opened, filemax, filepos>>
transfer == <<retry, oport, block, prevblock, bcounter, tp, packetsize>>
buffer == <<buf_eof, buf_read, saved_filepos, buf>>
copied == <<left, out>>
client == <<pc, call, errnum, arp, iport, calls, file, transfer, buffer, copied>>
network == <<answers, sessions, server>>
vars == <<client, sent, network>>

Junk == "junk"
Request == [kind |-> "RRQ", blk |-> -1]

Init ==
    /\ pc = "idle" /\ call = "none" /\ errnum = "none" /\ calls = 0
    /\ opened = None /\ filemax = -1 /\ filepos = 0
    /\ arp = FALSE /\ iport = 0
    /\ retry = 0 /\ oport = 0 /\ block = 0 /\ prevblock = 0 /\ bcounter = 0
    /\ tp = Request /\ packetsize = DefaultSize
    /\ buf_eof = FALSE /\ buf_read = 0 /\ saved_filepos = 0
    /\ buf = [k \in 0 .. BufLen - 1 |-> Junk]
    /\ left = 0 /\ out = <<>>
    /\ sent = {} /\ answers = {} /\ sessions = {} /\ server \in Servers

Smaller(a, b) == IF a <= b THEN a ELSE b

-----------------------------------------------------------------------------
(* The server (external).                                                  *)

BlockSize == IF server = "plain" THEN DefaultSize ELSE BigSize

Data(s) ==
    [port |-> s.port, type |-> "DATA", tid |-> s.tid, blk |-> s.blk % BlockMod, file |-> s.file,
     from |-> (s.blk - 1) * BlockSize,
     len |-> Smaller(BlockSize, FileLen[s.file] - (s.blk - 1) * BlockSize)]

Answer(s) ==
    CASE s.file = Missing   -> [port |-> s.port, type |-> "ERROR", tid |-> s.tid]
      [] s.file # Missing /\ server = "plain" -> Data(s)
      [] OTHER -> [port |-> s.port, type |-> "OACK", tid |-> s.tid, ok |-> server # "refused",
                   tsize |-> IF server = "tsize" THEN FileLen[s.file] ELSE -1]

\* A request is answered as often as it arrives, each time from another port.
Serve ==
    /\ Cardinality(sessions) < MaxSessions
    /\ \E m \in sent :
        /\ m.type = "RRQ"
        /\ LET s == [tid |-> Cardinality(sessions) + 1, port |-> m.port, file |-> m.file,
                     blk |-> IF server = "plain" THEN 1 ELSE 0]
           IN sessions' = sessions \cup {s} /\ answers' = answers \cup {Answer(s)}
    /\ UNCHANGED <<client, sent, server>>

\* The next block, while there is one: the last is shorter than the others.
Acked ==
    /\ \E s \in sessions, m \in sent :
        /\ m.type = "ACK" /\ m.tid = s.tid /\ m.blk = s.blk % BlockMod
        /\ s.file # Missing /\ s.blk * BlockSize <= FileLen[s.file]
        /\ LET next == [s EXCEPT !.blk = @ + 1]
           IN sessions' = (sessions \ {s}) \cup {next} /\ answers' = answers \cup {Data(next)}
    /\ UNCHANGED <<client, sent, server>>

-----------------------------------------------------------------------------
(* udp_transmit, send_rrq, and how calls end.                              *)

\* What belongs to a port that the client has left cannot reach it any more: await_reply
\* compares the port a packet was sent to.  The model forgets it.
Alive(things, p) == {x \in things : x.port = p}

\* Mutant: requests are all sent from one port.
ToTftpPortOld(packet, ok) ==
    /\ ok \/ ~arp
    /\ arp' = ok
    /\ iport' = iport
    /\ LET rrq == [type |-> "RRQ", port |-> iport', file |-> opened]
       IN sent' = Alive(sent, iport') \cup (IF ok /\ packet.kind = "RRQ" THEN {rrq} ELSE {})
    /\ answers' = Alive(answers, iport')
    /\ sessions' = Alive(sessions, iport')
    /\ UNCHANGED server

\* udp_transmit to TFTP_PORT from a port of its own.  It fails when the address of
\* the server is not known and nobody answers for it.  Only requests mean anything
\* to a server at that port.
ToTftpPort(packet, ok) ==
    /\ ok \/ ~arp
    /\ arp' = ok
    /\ iport' = iport + 1
    /\ LET rrq == [type |-> "RRQ", port |-> iport', file |-> opened]
       IN sent' = Alive(sent, iport') \cup (IF ok /\ packet.kind = "RRQ" THEN {rrq} ELSE {})
    /\ answers' = Alive(answers, iport')
    /\ sessions' = Alive(sessions, iport')
    /\ UNCHANGED server

\* udp_transmit to the port of a transfer.
ToTransfer(tid, packet) ==
    sent' = sent \cup {[type |-> packet.kind, port |-> iport, tid |-> tid, blk |-> packet.blk]}

Ends(err) == pc' = "idle" /\ call' = "none" /\ errnum' = err

\* A failed open leaves no file.
OpenFails(err) == Ends(err) /\ opened' = None /\ filemax' = -1 /\ UNCHANGED filepos

\* send_rrq, after the packet was made anew or restored from saved_tp.
SendRrq ==
    /\ pc = "request"
    /\ retry' = 0 /\ block' = 0 /\ prevblock' = 0 /\ packetsize' = DefaultSize /\ bcounter' = 0
    /\ buf_eof' = FALSE /\ buf_read' = 0 /\ saved_filepos' = 0
    /\ tp' = Request
    /\ \E ok \in BOOLEAN :
        /\ ToTftpPort(Request, ok)
        /\ \/ ok /\ call = "dir" /\ pc' = "fill" /\ UNCHANGED <<call, errnum, file>>
           \/ ok /\ call = "reopen" /\ pc' = "copy" /\ call' = "read" /\ UNCHANGED <<errnum, file>>
           \/ ~ok /\ call = "dir" /\ OpenFails("write")
           \/ ~ok /\ call = "reopen" /\ Ends("write") /\ UNCHANGED file
    /\ UNCHANGED <<oport, buf, copied, calls>>

\* buf_fill returned 0.  When tftp_read reopens and in tftp_close this is not looked at.
Returns0 ==
    \/ call = "dir" /\ OpenFails("file_not_found")
    \/ call = "count" /\ OpenFails("read")
    \/ call = "read" /\ Ends("read") /\ UNCHANGED file
    \/ call = "reopen" /\ pc' = "request" /\ UNCHANGED <<call, errnum, file>>
    \/ call = "close" /\ Ends(errnum) /\ opened' = None /\ filemax' = -1 /\ UNCHANGED filepos

\* buf_fill goes on.
Again == UNCHANGED <<pc, call, errnum, opened, filepos>>

-----------------------------------------------------------------------------
(* buf_fill.                                                               *)

abort == call \in {"reopen", "close"}

\* Mutant: room for a packet is enough while some is left.
FillingOver == pc = "fill" /\ ~buf_eof /\ buf_read <= BufLen

Filling == pc = "fill" /\ ~buf_eof /\ buf_read + packetsize <= BufLen

\* Mutant: an ACK that is sent again does not count.
NextRetryFree == retry + (IF block = 0 THEN 1 ELSE 0)

NextRetry == retry + (IF block = 0 THEN 1 ELSE Rexmt)
GivesUp == IF block = 0 THEN retry >= MaxRetries ELSE retry + Rexmt >= RexmtLimit

\* Nothing came in time.  The request is sent again, from another port, until an answer
\* has come; the last ACK is sent again while there is patience left.
Timeout ==
    /\ Filling
    /\ retry' = NextRetry
    /\ \/ /\ ~GivesUp /\ block = 0
          /\ \E ok \in BOOLEAN :
                ToTftpPort(tp, ok) /\ IF ok THEN Again /\ UNCHANGED filemax ELSE Returns0
       \/ /\ ~GivesUp /\ block # 0
          /\ ToTransfer(oport, tp)
          /\ Again /\ UNCHANGED <<filemax, arp, iport, network>>
       \/ /\ GivesUp
          /\ Returns0
          /\ UNCHANGED <<arp, iport, sent, network>>
    /\ UNCHANGED <<oport, block, prevblock, bcounter, tp, packetsize, buffer, copied, calls>>

\* Ctrl-C while waiting sets ip_abort.
CtrlC ==
    /\ Filling
    /\ Returns0
    /\ UNCHANGED <<arp, iport, transfer, buffer, copied, calls, sent, network>>

\* await_reply takes what is sent to iport, whoever sent it.  Servers send a client nothing
\* but OACKs, blocks and errors, and no block that is larger than the size they granted.
Arrived(type) == {m \in answers : m.type = type /\ m.port = iport}

ReceiveError ==
    /\ Filling /\ Arrived("ERROR") # {}
    /\ Returns0
    /\ UNCHANGED <<arp, iport, transfer, buffer, copied, calls, sent, network>>

\* The number of the block to acknowledge: the one before, unless this one is next.
\* prevblock + 1 is an int: it does not wrap as block does.
Expected(blk) == IF (blk # 0 \/ bcounter # 0) /\ blk # prevblock + 1 THEN prevblock ELSE blk

\* What is done with an OACK or a block that is not ignored: it is acknowledged, or
\* the transfer is given up, and a block that is next is put into the buffer.
Acknowledge(m, blk, content) ==
    /\ block' = Expected(blk)
    /\ tp' = [kind |-> IF abort THEN "ERROR" ELSE "ACK", blk |-> block']
    /\ oport' = m.tid
    /\ ToTransfer(m.tid, tp')
    /\ IF ~abort /\ (block' - prevblock) % BlockMod = 1
       THEN /\ prevblock' = block' /\ retry' = 0 /\ bcounter' = bcounter + 1
            /\ buf' = [k \in DOMAIN buf |->
                          IF k - buf_read \in 0 .. Len(content) - 1
                          THEN content[k - buf_read + 1] ELSE buf[k]]
            /\ buf_read' = buf_read + Len(content)
            /\ buf_eof' = (Len(content) < packetsize)
       ELSE /\ buf_eof' = abort
            /\ UNCHANGED <<prevblock, retry, bcounter, buf, buf_read>>
    /\ UNCHANGED saved_filepos

ReceiveOack ==
    /\ Filling
    /\ prevblock = 0
    /\ \E m \in Arrived("OACK") :
        IF m.ok
        THEN /\ packetsize' = BigSize
             /\ filemax' = IF m.tsize = -1 THEN filemax ELSE m.tsize
             /\ Acknowledge(m, 0, <<>>) /\ Again
        ELSE /\ tp' = [kind |-> "ERROR", blk |-> tp.blk]
             /\ ToTransfer(m.tid, tp')
             /\ Returns0
             /\ UNCHANGED <<retry, oport, block, prevblock, bcounter, packetsize, buffer>>
    /\ UNCHANGED <<arp, iport, copied, calls, network>>

ReceiveData ==
    /\ Filling
    /\ \E m \in Arrived("DATA") :
        /\ m.len <= packetsize
        /\ Acknowledge(m, m.blk, [k \in 1 .. m.len |-> <<m.file, m.from + k - 1>>])
    /\ Again
    /\ UNCHANGED <<packetsize, filemax, arp, iport, copied, calls, network>>

\* Mutant: what remains in the buffer at the end of the file is forgotten.
CountedFull == IF buf_eof THEN filemax ELSE filemax + buf_read

Counted == filemax + buf_read

\* buf_fill returns 1: the buffer is full, or the file is at its end, or given up.
Filled ==
    /\ pc = "fill" /\ ~Filling
    /\ \/ /\ call = "dir" /\ filemax # -1
          /\ Ends("none") /\ UNCHANGED <<file, buf_read>>
       \/ /\ call = "dir" /\ filemax = -1      \* the size has to be counted
          /\ call' = "count" /\ filemax' = buf_read /\ buf_read' = 0
          /\ UNCHANGED <<pc, errnum, opened, filepos>>
       \/ /\ call = "count" /\ ~buf_eof
          /\ filemax' = Counted /\ buf_read' = 0 /\ Again
       \/ /\ call = "count" /\ buf_eof
          /\ filemax' = Counted
          /\ pc' = "request" /\ call' = "dir"
          /\ UNCHANGED <<errnum, opened, filepos, buf_read>>
       \/ /\ call = "read" /\ buf_read # 0
          /\ pc' = "copy" /\ UNCHANGED <<call, errnum, file, buf_read>>
       \/ /\ call = "read" /\ buf_read = 0
          /\ Ends("read") /\ UNCHANGED <<file, buf_read>>
       \/ /\ abort
          /\ Returns0 /\ UNCHANGED buf_read
    /\ UNCHANGED <<arp, iport, transfer, buf_eof, saved_filepos, buf, copied, calls, sent,
                   network>>

-----------------------------------------------------------------------------
(* The calls: grub_open with tftp_dir, grub_seek, grub_read with           *)
(* tftp_read, grub_close with tftp_close.                                  *)

Open ==
    /\ pc = "idle" /\ opened = None /\ calls < MaxCalls
    /\ \E f \in Files \cup {Missing} : opened' = f
    /\ filepos' = 0 /\ filemax' = -1 /\ errnum' = "none"
    /\ pc' = "request" /\ call' = "dir" /\ calls' = calls + 1
    /\ UNCHANGED <<arp, iport, transfer, buffer, copied, sent, network>>

\* To the start, to what is buffered, or anywhere.
Seek ==
    /\ pc = "idle" /\ opened # None /\ calls < MaxCalls
    /\ \E p \in 0 .. filemax :
        /\ p = 0 \/ p - saved_filepos \in 0 .. buf_read \/ AnySeek
        /\ filepos' = p
    /\ UNCHANGED <<pc, call, errnum, arp, iport, calls, opened, filemax, transfer, buffer, copied,
                   sent, network>>

Read ==
    /\ pc = "idle" /\ opened # None /\ calls < MaxCalls
    /\ left' \in 1 .. Smaller(MaxRead, filemax - filepos)
    /\ out' = <<>> /\ errnum' = "none" /\ calls' = calls + 1
    /\ IF filepos < saved_filepos
       THEN pc' = "fill" /\ call' = "reopen" /\ buf_read' = 0
       ELSE pc' = "copy" /\ call' = "read" /\ UNCHANGED buf_read
    /\ UNCHANGED <<arp, iport, file, transfer, buf_eof, saved_filepos, buf, sent, network>>

\* amt is compared with the unsigned size: below 0 it is over the requested size too.
Amount(buffered) == IF buffered < 0 \/ buffered > left THEN left ELSE buffered

MemoryAt(k) == IF k \in DOMAIN buf THEN buf[k] ELSE Junk

\* The body of tftp_read's loop, up to its call of buf_fill.
Copy ==
    /\ pc = "copy"
    /\ LET amt == Amount(buf_read + saved_filepos - filepos)
           half == BufLen \div 2
       IN IF amt > 0
          THEN /\ out' = out \o [k \in 1 .. amt |-> MemoryAt(filepos - saved_filepos + k - 1)]
               /\ left' = left - amt /\ filepos' = filepos + amt
               /\ IF filepos' - saved_filepos > half
                  THEN /\ buf' = [k \in DOMAIN buf |-> IF k < half THEN buf[k + half] ELSE buf[k]]
                       /\ buf_read' = buf_read - half
                       /\ saved_filepos' = saved_filepos + half
                  ELSE UNCHANGED <<buf, buf_read, saved_filepos>>
          ELSE /\ saved_filepos' = saved_filepos + buf_read /\ buf_read' = 0
               /\ UNCHANGED <<out, left, filepos, buf>>
    /\ IF left' = 0 THEN Ends("none") ELSE pc' = "fill" /\ UNCHANGED <<call, errnum>>
    /\ UNCHANGED <<arp, iport, calls, opened, filemax, transfer, buf_eof, sent, network>>

Close ==
    /\ pc = "idle" /\ opened # None
    /\ buf_read' = 0
    /\ pc' = "fill" /\ call' = "close"
    /\ UNCHANGED <<errnum, arp, iport, calls, file, transfer, buf_eof, saved_filepos, buf, copied,
                   sent, network>>

-----------------------------------------------------------------------------

Next ==
    \/ Serve \/ Acked
    \/ SendRrq \/ Timeout \/ CtrlC \/ ReceiveError \/ ReceiveOack \/ ReceiveData \/ Filled
    \/ Open \/ Seek \/ Read \/ Copy \/ Close

Spec == Init /\ [][Next]_vars

\* A timeout comes: await_reply looks at the clock when no packet is waiting, and the
\* server stops repeating itself some day.  Nothing is promised of the network.
Fairness ==
    /\ WF_vars(SendRrq) /\ WF_vars(Timeout) /\ WF_vars(Filled) /\ WF_vars(Copy)

FairSpec == Spec /\ Fairness

-----------------------------------------------------------------------------
(* Properties.                                                             *)

Units == {Junk} \cup (Files \X Nat)

TypeOK ==
    /\ pc \in {"idle", "request", "fill", "copy"}
    /\ call \in {"dir", "count", "read", "reopen", "close", "none"}
    /\ (pc = "idle") = (call = "none")
    /\ errnum \in {"none", "file_not_found", "read", "write"}
    /\ arp \in BOOLEAN /\ iport \in Nat /\ calls \in 0 .. MaxCalls
    /\ opened \in Files \cup {Missing, None} /\ filemax \in Nat \cup {-1} /\ filepos \in Nat
    /\ retry \in Nat /\ oport \in Nat /\ bcounter \in Nat
    /\ block \in 0 .. BlockMod - 1 /\ prevblock \in 0 .. BlockMod - 1
    /\ tp.kind \in {"RRQ", "ACK", "ERROR"} /\ packetsize \in {DefaultSize, BigSize}
    /\ buf_eof \in BOOLEAN /\ saved_filepos \in Nat
    /\ buf_read \in 0 .. BufLen
    /\ buf \in [0 .. BufLen - 1 -> Units]
    /\ left \in 0 .. MaxRead

\* What is buffered is the part of the open file that begins at saved_filepos, whatever the
\* network did to the blocks (buf_fill, and the moves of the buffer in tftp_read).  While
\* the size is counted nothing is kept, and filemax says how much went by.
BufferIsFile ==
    LET base == IF call = "count" THEN filemax ELSE saved_filepos
    IN opened # None /\ pc # "request" => \A k \in 0 .. buf_read - 1 : buf[k] = <<opened, base + k>>

Abstract == INSTANCE NetFile WITH
    call <- CASE call \in {"dir", "count"} -> "open"
              [] call \in {"read", "reopen"} -> "read"
              [] OTHER -> call,
    opened <- IF call \in {"dir", "count"} THEN None ELSE opened,
    size <- IF call \in {"dir", "count"} THEN -1 ELSE filemax,
    pos <- filepos,
    want <- left

\* Whatever the network loses, repeats or reorders, a file that is opened has its size, a read
\* copies the bytes of the file at filepos in their order, and only those, or fails.
ReadsTheFile == Abstract!Spec

\* What a read copies is the part of the file at filepos (tftp_read).
CopiesFromFile ==
    [][\A k \in 1 .. Len(out') - Len(out) :
          out'[Len(out) + k] = <<opened, filepos + k - 1>>]_vars

\* Every call returns, even when the network never delivers anything: the retries of
\* buf_fill end (MAX_TFTP_RETRIES, TFTP_TIMEOUT), and so do the loops around it.
CallsReturn == pc # "idle" ~> pc = "idle"
=============================================================================
