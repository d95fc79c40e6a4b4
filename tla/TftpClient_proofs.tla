-------------------------- MODULE TftpClient_proofs --------------------------
(***************************************************************************)
(* What TLAPS proves of TftpClient: for any files and sizes of blocks, and *)
(* whatever the network does, the buffer holds the open file, and calls    *)
(* keep to NetFile as long as callers do not seek outside the buffer.      *)
(***************************************************************************)
EXTENDS TftpClient, FiniteSetTheorems, TLAPS

-----------------------------------------------------------------------------
(* The inductive invariant.                                                *)

\* A transfer of the open file is, or may be, under way.
Live == opened # None /\ pc # "request"

\* The size of blocks is the one that the server uses.
Granted == server = "plain" \/ packetsize = BigSize

\* No block after the next one has been sent; when the numbers are used up nothing is
\* known, and nothing is taken.
Near(n) == n <= prevblock + 1 \/ prevblock = BlockMod - 1

Kinds ==
    /\ server \in {"plain", "blksize", "tsize", "refused"}
    /\ tp.blk \in Int /\ IsFiniteSet(sessions)
    /\ server = "plain" => packetsize = DefaultSize
    /\ bcounter = prevblock
    /\ block # 0 => tp.kind \in {"ACK", "ERROR"}
    /\ tp.kind = "ACK" => tp.blk <= prevblock /\ Granted
    /\ call # "none" => opened # None
    /\ call = "count" => filemax \in Nat
    /\ pc = "request" => call \in {"dir", "reopen"}
    /\ pc = "copy" => call = "read"
    /\ call \in {"read", "reopen"} => left > 0

SentOK(m) ==
    /\ m.type \in {"RRQ", "ACK", "ERROR"} /\ m.port = iport
    /\ m.type = "RRQ" => m.file \in Files \cup {Missing} /\ (Live => m.file = opened)
    /\ m.type = "ACK" => m.blk \in Int /\ m.blk <= prevblock /\ Granted

SessionOK(s) ==
    /\ s = [tid |-> s.tid, port |-> iport, file |-> s.file, blk |-> s.blk]
    /\ s.tid \in Nat /\ s.file \in Files \cup {Missing} /\ (Live => s.file = opened)
    /\ s.blk \in Nat /\ Near(s.blk)
    /\ server = "plain" => s.blk # 0
    /\ s.blk # 0 => Granted /\ (s.file # Missing => (s.blk - 1) * BlockSize <= FileLen[s.file])

DataOK(m) ==
    /\ m.file \in Files /\ (Live => m.file = opened)
    /\ Granted
    /\ \E n \in Nat \ {0} :
        /\ Near(n) /\ m.blk = n % BlockMod
        /\ m.from = (n - 1) * BlockSize /\ m.from <= FileLen[m.file]
        /\ m.len = Smaller(BlockSize, FileLen[m.file] - m.from)

AnswerOK(m) ==
    /\ m.type \in {"DATA", "OACK", "ERROR"} /\ m.port = iport /\ m.tid \in Nat
    /\ m.type = "DATA" => DataOK(m)
    /\ m.type = "OACK" =>
        /\ server # "plain"
        /\ \E f \in Files : m.tsize \in {-1, FileLen[f]} /\ (Live => opened = f)

Net ==
    /\ \A m \in sent : SentOK(m)
    /\ \A s \in sessions : SessionOK(s)
    /\ \A m \in answers : AnswerOK(m)

Base == IF call = "count" THEN filemax ELSE saved_filepos

\* The buffer is what was received of the file so far, but for what was thrown away.
Received ==
    /\ call = "count" => prevblock # 0
    /\ abort => buf_read = 0
    /\ Live /\ ~abort /\ ~buf_eof => Base + buf_read = prevblock * packetsize
    /\ Live /\ ~abort /\ buf_eof =>
        opened \in Files /\ Base + buf_read = FileLen[opened] /\ prevblock # 0

\* filepos is in the buffer, behind its end, or 0.
Position ==
    /\ opened # None => saved_filepos <= filepos \/ filepos = 0
    /\ opened # None /\ call # "close" => filepos <= saved_filepos + buf_read
    /\ pc = "copy" \/ (pc = "fill" /\ call = "read") => saved_filepos <= filepos
    /\ call \in {"dir", "count", "reopen"} => filepos = 0
    /\ pc = "fill" /\ call \in {"dir", "count"} => saved_filepos = 0

\* The size that is known is the size of the file.
Size ==
    opened # None /\ (call \notin {"dir", "count"} \/ (call = "dir" /\ filemax # -1))
    => opened \in Files /\ filemax = FileLen[opened]

IInv == TypeOK /\ Kinds /\ Net /\ BufferIsFile /\ Received /\ Position /\ Size

-----------------------------------------------------------------------------
(* Facts about numbers and messages.                                       *)

\* Numbers of blocks are kept in two bytes (buf_fill's block).
LEMMA ModIsSmall ==
    /\ \A n \in Nat : n % BlockMod \in 0 .. BlockMod - 1
    /\ \A n \in 0 .. BlockMod - 1 : n % BlockMod = n
  BY TftpAssumption

\* One more block is one more times its size.
LEMMA OneMore == \A n, size \in Nat : (n + 1) * size = n * size + size
  OBVIOUS

\* What a request sent anew leaves of the network: the request, if anything.
LEMMA Flushed ==
    ASSUME TypeOK, Net, NEW packet, NEW ok, ToTftpPort(packet, ok)
    PROVE  /\ answers' = {} /\ sessions' = {} /\ server' = server /\ iport' = iport + 1
           /\ \A m \in sent' : m = [type |-> "RRQ", port |-> iport', file |-> opened]
<1>1. \A x \in sent \cup answers \cup sessions : x.port # iport + 1
  <2>0. iport \in Nat
    BY DEF TypeOK
  <2>1. iport # iport + 1
    BY <2>0
  <2>2. ASSUME NEW s \in sessions PROVE s.port = iport
    <3>1. s = [tid |-> s.tid, port |-> iport, file |-> s.file, blk |-> s.blk]
      BY DEF Net, SessionOK
    <3> QED BY <3>1
  <2>3. \A m \in sent \cup answers : m.port = iport
    BY DEF Net, SentOK, AnswerOK
  <2> QED BY <2>1, <2>2, <2>3
<1>2. iport' = iport + 1 /\ server' = server
  BY DEF ToTftpPort
<1>3. Alive(sent, iport') = {} /\ Alive(answers, iport') = {} /\ Alive(sessions, iport') = {}
  BY <1>1, <1>2 DEF Alive
<1> QED BY <1>2, <1>3 DEF ToTftpPort

\* So nothing of an earlier transfer is left that could be taken for an answer.
LEMMA NetFlushed ==
    ASSUME TypeOK, Net, NEW packet, NEW ok, ToTftpPort(packet, ok), opened # None,
           Live' => opened' = opened
    PROVE  Net'
<1>1. /\ answers' = {} /\ sessions' = {}
      /\ \A m \in sent' : m = [type |-> "RRQ", port |-> iport', file |-> opened]
  BY Flushed
<1>2. opened \in Files \cup {Missing}
  BY DEF TypeOK
<1>3. \A m \in sent' : m.type = "RRQ" /\ m.port = iport' /\ m.file = opened
  BY <1>1
<1> QED BY <1>1, <1>2, <1>3 DEF Net, SentOK

\* The network stays as it is while the client does something else.
LEMMA NetKept ==
    ASSUME Net, UNCHANGED <<sent, network, iport, prevblock, packetsize>>,
           Live' => Live /\ opened' = opened
    PROVE  Net'
  BY DEF Net, SentOK, SessionOK, AnswerOK, DataOK, Near, Granted, BlockSize, network

\* A packet is sent to the server of the transfer; the network loses nothing by it.
LEMMA NetPlus ==
    ASSUME TypeOK, Net, NEW tid, NEW packet, ToTransfer(tid, packet), UNCHANGED <<iport, network>>,
           packet.kind \in {"ACK", "ERROR"}, packet.blk \in Int,
           packet.kind = "ACK" => packet.blk <= prevblock' /\ Granted',
           prevblock' \in {prevblock, prevblock + 1}, prevblock' < BlockMod, Granted => Granted',
           Live' => Live /\ opened' = opened
    PROVE  Net'
<1>1. /\ prevblock \in 0 .. BlockMod - 1 /\ BlockMod \in Nat
      /\ prevblock' \in 0 .. BlockMod - 1
      /\ prevblock' = prevblock \/ prevblock' = prevblock + 1
  BY TftpAssumption DEF TypeOK
<1>2. ASSUME NEW n \in Nat PROVE Near(n) => Near(n)'
  <2>1. CASE prevblock' = prevblock
    BY <2>1 DEF Near
  <2>2. CASE prevblock' = prevblock + 1 /\ prevblock = BlockMod - 1
    BY <1>1, <2>2
  <2>3. CASE prevblock' = prevblock + 1 /\ n <= prevblock + 1
    <3>1. n <= prevblock' + 1
      BY <1>1, <2>3
    <3> QED BY <3>1 DEF Near
  <2> QED BY <1>1, <2>1, <2>2, <2>3 DEF Near
<1>3. \A m \in sent : SentOK(m) => SentOK(m)'
  BY <1>1 DEF SentOK
<1>4. SentOK([type |-> packet.kind, port |-> iport, tid |-> tid, blk |-> packet.blk])'
  BY DEF SentOK
<1>5. \A s \in sessions : SessionOK(s) => SessionOK(s)'
  BY <1>2 DEF SessionOK, network, BlockSize
<1>6. \A m \in answers : DataOK(m) => DataOK(m)'
  BY <1>2 DEF DataOK, network, BlockSize
<1>7. \A m \in answers : AnswerOK(m) => AnswerOK(m)'
  BY <1>6 DEF AnswerOK, network
<1> QED BY <1>3, <1>4, <1>5, <1>7 DEF Net, ToTransfer, network

-----------------------------------------------------------------------------
(* Every step keeps the invariant.                                         *)

\* At first there is no file, and nothing on the network.
LEMMA InitIInv == Init => IInv
<1> SUFFICES ASSUME Init PROVE IInv
  OBVIOUS
<1> USE DEF Init
<1>1. TypeOK
  <2>1. buf \in [0 .. BufLen - 1 -> Units]
    BY DEF Units
  <2>2. tp.kind \in {"RRQ", "ACK", "ERROR"}
    BY DEF Request
  <2>3. 0 \in 0 .. MaxCalls /\ 0 \in 0 .. MaxRead /\ 0 \in 0 .. BufLen /\ 0 \in 0 .. BlockMod - 1
    BY TftpAssumption
  <2> QED BY <2>1, <2>2, <2>3 DEF TypeOK
<1>2. Kinds
  BY TftpAssumption, FS_EmptySet DEF Kinds, Request
<1>3. Net /\ BufferIsFile /\ Received /\ Position /\ Size
  BY DEF Net, BufferIsFile, Received, Position, Size, Live, abort
<1> QED BY <1>1, <1>2, <1>3 DEF IInv

LEMMA OpenKeeps == ASSUME IInv, Open PROVE IInv'
<1> USE DEF IInv, Open
<1>1. TypeOK'
  <2>1. calls' \in 0 .. MaxCalls
    BY TftpAssumption DEF TypeOK
  <2> QED BY <2>1 DEF TypeOK, transfer, buffer, copied
<1>2. Kinds'
  BY TftpAssumption DEF TypeOK, Kinds, Granted, transfer, network, copied
<1>3. Net'
  BY NetKept DEF transfer, network, Live
<1>4. BufferIsFile' /\ Received'
  BY DEF BufferIsFile, Received, Live, abort
<1>5. Position' /\ Size'
  BY DEF TypeOK, Position, Size, buffer
<1> QED BY <1>1, <1>2, <1>3, <1>4, <1>5

LEMMA SeekKeeps == ASSUME ~AnySeek, IInv, Seek PROVE IInv'
<1> USE DEF IInv, Seek
<1>1. TypeOK'
  BY DEF TypeOK, transfer, buffer, copied
<1>2. Kinds'
  BY DEF Kinds, Granted, transfer, network, copied
<1>3. Net'
  BY NetKept DEF transfer, network, Live
<1>4. BufferIsFile' /\ Received'
  BY DEF BufferIsFile, Received, Live, abort, Base, transfer, buffer
<1>5. Position' /\ Size'
  BY DEF TypeOK, Position, Size, buffer
<1> QED BY <1>1, <1>2, <1>3, <1>4, <1>5

LEMMA ReadKeeps == ASSUME IInv, Read PROVE IInv'
<1> USE DEF IInv, Read
<1>1. TypeOK'
  <2>1. left' \in 0 .. MaxRead
    BY TftpAssumption DEF TypeOK, Smaller
  <2> QED BY <2>1, TftpAssumption DEF TypeOK, file, transfer
<1>2. Kinds'
  <2>1. left' > 0
    BY DEF TypeOK, Smaller
  <2> QED BY <2>1 DEF Kinds, Granted, transfer, network, file
<1>3. Net'
  BY NetKept DEF transfer, network, Live, file
<1>4. BufferIsFile' /\ Received'
  BY DEF TypeOK, BufferIsFile, Received, Live, abort, Base, transfer, file
<1>5. Position' /\ Size'
  BY DEF TypeOK, Position, Size, file
<1> QED BY <1>1, <1>2, <1>3, <1>4, <1>5

LEMMA CloseKeeps == ASSUME IInv, Close PROVE IInv'
<1> USE DEF IInv, Close
<1>1. TypeOK'
  BY TftpAssumption DEF TypeOK, transfer, file, copied
<1>2. Kinds'
  BY DEF Kinds, Granted, transfer, network, copied, file
<1>3. Net'
  BY NetKept DEF transfer, network, Live, file
<1>4. BufferIsFile' /\ Received'
  BY DEF BufferIsFile, Received, Live, abort, Base, transfer, file
<1>5. Position' /\ Size'
  BY DEF TypeOK, Position, Size, file
<1> QED BY <1>1, <1>2, <1>3, <1>4, <1>5


\* The part of the client that the ends of calls change (Returns0, Ends).
CallOK ==
    /\ pc \in {"idle", "request", "fill", "copy"}
    /\ call \in {"dir", "count", "read", "reopen", "close", "none"}
    /\ (pc = "idle") = (call = "none")
    /\ errnum \in {"none", "file_not_found", "read", "write"}
    /\ opened \in Files \cup {Missing, None} /\ filemax \in Nat \cup {-1} /\ filepos \in Nat
    /\ call # "none" => opened # None
    /\ call = "count" => filemax \in Nat
    /\ pc = "request" => call \in {"dir", "reopen"}
    /\ pc = "copy" => call = "read"

\* However buf_fill fails, what its caller leaves is in order.
LEMMA Returns0Keeps ==
    ASSUME IInv, pc = "fill", Returns0, UNCHANGED <<buffer, copied, prevblock, packetsize>>
    PROVE  /\ CallOK' /\ BufferIsFile' /\ Received' /\ Position' /\ Size'
           /\ (call' \in {"read", "reopen"} => left' > 0)
           /\ (Live' => Live /\ opened' = opened)
<1> USE DEF IInv, Returns0, OpenFails, Ends, file
<1>1. CallOK'
  BY DEF TypeOK, Kinds, CallOK
<1>2. (call' \in {"read", "reopen"} => left' > 0) /\ (Live' => Live /\ opened' = opened)
  BY DEF Kinds, Live, copied
<1>3. BufferIsFile'
  BY DEF BufferIsFile, buffer
<1>4. Received'
  BY DEF Received, Live, abort, Base, buffer
<1>5. Position'
  BY DEF TypeOK, Position, buffer
<1>6. Size'
  BY DEF TypeOK, Size
<1> QED BY <1>1, <1>2, <1>3, <1>4, <1>5, <1>6

LEMMA GivenUpKeeps ==
    ASSUME IInv, CtrlC \/ ReceiveError PROVE IInv'
<1> USE DEF IInv, CtrlC, ReceiveError
<1>0. pc = "fill" /\ Returns0 /\ UNCHANGED <<arp, iport, transfer, buffer, copied, calls, sent, network>>
  BY DEF Filling
<1>1. /\ CallOK' /\ BufferIsFile' /\ Received' /\ Position' /\ Size'
      /\ (call' \in {"read", "reopen"} => left' > 0)
      /\ (Live' => Live /\ opened' = opened)
  BY <1>0, Returns0Keeps DEF transfer
<1>2. TypeOK'
  BY <1>0, <1>1 DEF TypeOK, CallOK, transfer, buffer, copied
<1>3. Kinds'
  BY <1>0, <1>1 DEF Kinds, CallOK, Granted, transfer, network
<1>4. Net'
  BY <1>0, <1>1, NetKept DEF transfer
<1> QED BY <1>1, <1>2, <1>3, <1>4


\* Packets fit into half of the buffer.
LEMMA PacketsFit ==
    TypeOK => /\ packetsize \in Nat \ {0} /\ BufLen \in Nat /\ 2 * packetsize <= BufLen
              /\ BlockMod \in Nat /\ BlockMod > 1
  BY TftpAssumption DEF TypeOK

LEMMA FilledKeeps == ASSUME IInv, Filled PROVE IInv'
<1> USE DEF IInv
<1>0. /\ pc = "fill"
      /\ UNCHANGED <<arp, iport, transfer, buf_eof, saved_filepos, buf, copied, calls, sent, network>>
  BY DEF Filled
<1>1. buf_read \in 0 .. BufLen /\ BufLen \in Nat /\ prevblock \in Nat
  BY PacketsFit DEF TypeOK
<1>2. ASSUME ~buf_eof PROVE buf_read > 0
  <2>1. ~(buf_read + packetsize <= BufLen)
    BY <1>2 DEF Filled, Filling
  <2> QED BY <1>1, <2>1, PacketsFit
<1>3. CASE call = "dir" /\ filemax # -1 /\ Ends("none") /\ UNCHANGED <<file, buf_read>>
  <2> USE <1>0, <1>3 DEF Ends, file
  <2>1. TypeOK'
    BY DEF TypeOK, transfer, copied
  <2>2. Kinds'
    BY DEF Kinds, Granted, transfer, network
  <2>3. Net'
    BY NetKept DEF transfer, Live
  <2>4. BufferIsFile' /\ Received'
    BY DEF BufferIsFile, Received, Live, abort, Base, transfer
  <2>5. Position' /\ Size'
    BY DEF TypeOK, Position, Size
  <2> QED BY <2>1, <2>2, <2>3, <2>4, <2>5
<1>4. CASE /\ call = "dir" /\ filemax = -1 /\ call' = "count"
           /\ filemax' = buf_read /\ buf_read' = 0
           /\ UNCHANGED <<pc, errnum, opened, filepos>>
  <2> USE <1>0, <1>4
  <2>1. TypeOK'
    BY <1>1 DEF TypeOK, transfer, copied
  <2>2. Kinds'
    BY <1>1 DEF Kinds, Granted, transfer, network
  <2>3. Net'
    BY NetKept DEF transfer, Live
  <2>4. saved_filepos = 0 /\ opened # None /\ Live
    BY DEF Position, Kinds, Live
  <2>5. prevblock # 0
    <3>1. CASE buf_eof
      BY <2>4, <3>1 DEF Received, abort
    <3>2. CASE ~buf_eof
      <4>1. buf_read = prevblock * packetsize
        BY <1>1, <2>4, <3>2 DEF Received, Base, abort
      <4>2. 0 * packetsize = 0
        BY PacketsFit
      <4> QED BY <4>1, <4>2, <1>2, <1>1, <3>2
    <3> QED BY <3>1, <3>2
  <2>6. BufferIsFile' /\ Received'
    BY <1>1, <2>4, <2>5 DEF BufferIsFile, Received, Live, abort, Base, transfer
  <2>7. Position' /\ Size'
    BY <2>4 DEF TypeOK, Position, Size
  <2> QED BY <2>1, <2>2, <2>3, <2>6, <2>7
<1>5. CASE call = "count" /\ ~buf_eof /\ filemax' = Counted /\ buf_read' = 0 /\ Again
  <2> USE <1>0, <1>5 DEF Counted, Again
  <2>0. filemax' \in Nat
    BY <1>1 DEF Kinds
  <2>1. TypeOK'
    BY <1>1, <2>0 DEF TypeOK, transfer, copied
  <2>2. Kinds'
    BY <2>0 DEF Kinds, Granted, transfer, network
  <2>3. Net'
    BY NetKept DEF transfer, Live
  <2>4. BufferIsFile' /\ Received'
    BY <1>1, <2>0 DEF BufferIsFile, Received, Live, abort, Base, transfer
  <2>5. Position' /\ Size'
    BY DEF TypeOK, Position, Size
  <2> QED BY <2>1, <2>2, <2>3, <2>4, <2>5
<1>6. CASE /\ call = "count" /\ buf_eof /\ filemax' = Counted
           /\ pc' = "request" /\ call' = "dir"
           /\ UNCHANGED <<errnum, opened, filepos, buf_read>>
  <2> USE <1>0, <1>6 DEF Counted
  <2>0. filemax' \in Nat
    BY <1>1 DEF Kinds
  <2>1. TypeOK'
    BY <1>1, <2>0 DEF TypeOK, transfer, copied
  <2>2. Kinds'
    BY <2>0 DEF Kinds, Granted, transfer, network
  <2>3. Net'
    BY NetKept DEF transfer, Live
  <2>4. BufferIsFile' /\ Received'
    BY DEF BufferIsFile, Received, Live, abort
  <2>5. Position'
    BY DEF TypeOK, Position
  <2>6. Size'
    BY DEF Kinds, Received, Live, abort, Base, Size
  <2> QED BY <2>1, <2>2, <2>3, <2>4, <2>5, <2>6
<1>7. CASE call = "read" /\ buf_read # 0 /\ pc' = "copy" /\ UNCHANGED <<call, errnum, file, buf_read>>
  <2> USE <1>0, <1>7 DEF file
  <2>1. TypeOK'
    BY DEF TypeOK, transfer, copied
  <2>2. Kinds'
    BY DEF Kinds, Granted, transfer, network, copied
  <2>3. Net'
    BY NetKept DEF transfer, Live
  <2>4. BufferIsFile' /\ Received'
    BY DEF BufferIsFile, Received, Live, abort, Base, transfer
  <2>5. Position' /\ Size'
    BY DEF TypeOK, Position, Size
  <2> QED BY <2>1, <2>2, <2>3, <2>4, <2>5
<1>8. CASE call = "read" /\ buf_read = 0 /\ Ends("read") /\ UNCHANGED <<file, buf_read>>
  <2> USE <1>0, <1>8 DEF file, Ends
  <2>1. TypeOK'
    BY DEF TypeOK, transfer, copied
  <2>2. Kinds'
    BY DEF Kinds, Granted, transfer, network, copied
  <2>3. Net'
    BY NetKept DEF transfer, Live
  <2>4. BufferIsFile' /\ Received'
    BY DEF BufferIsFile, Received, Live, abort, Base, transfer
  <2>5. Position' /\ Size'
    BY DEF TypeOK, Position, Size
  <2> QED BY <2>1, <2>2, <2>3, <2>4, <2>5
<1>9. CASE abort /\ Returns0 /\ UNCHANGED buf_read
  <2> USE <1>0, <1>9
  <2>1. /\ CallOK' /\ BufferIsFile' /\ Received' /\ Position' /\ Size'
        /\ (call' \in {"read", "reopen"} => left' > 0)
        /\ (Live' => Live /\ opened' = opened)
    BY Returns0Keeps DEF transfer, buffer
  <2>2. TypeOK'
    BY <2>1 DEF TypeOK, CallOK, transfer, copied
  <2>3. Kinds'
    BY <2>1 DEF Kinds, CallOK, Granted, transfer, network
  <2>4. Net'
    BY <2>1, NetKept DEF transfer
  <2> QED BY <2>1, <2>2, <2>3, <2>4
<1> QED BY <1>3, <1>4, <1>5, <1>6, <1>7, <1>8, <1>9 DEF Filled

LEMMA CopyKeeps == ASSUME IInv, Copy PROVE IInv'
<1> USE DEF IInv
<1> DEFINE half == BufLen \div 2
           amt == Amount(buf_read + saved_filepos - filepos)
<1>0. /\ pc = "copy" /\ call = "read" /\ opened # None /\ Live
      /\ UNCHANGED <<arp, iport, calls, opened, filemax, transfer, buf_eof, sent, network>>
  BY DEF Copy, Kinds, Live
<1>1. /\ buf_read \in 0 .. BufLen /\ saved_filepos \in Nat /\ filepos \in Nat
      /\ left \in 0 .. MaxRead /\ left > 0 /\ MaxRead \in Nat
      /\ BufLen \in Nat /\ half \in Nat /\ half + half = BufLen
      /\ buf \in [0 .. BufLen - 1 -> Units]
  BY <1>0, TftpAssumption DEF TypeOK, Kinds
<1>2. saved_filepos <= filepos /\ filepos <= saved_filepos + buf_read
  BY <1>0 DEF Position
<1>3. amt \in 0 .. left /\ filepos + amt <= saved_filepos + buf_read
      /\ (amt = 0 => filepos = saved_filepos + buf_read)
  BY <1>1, <1>2 DEF Amount
<1>4. /\ pc' \in {"idle", "fill"} /\ call' = (IF pc' = "idle" THEN "none" ELSE "read")
      /\ errnum' \in {errnum, "none"} /\ (pc' = "fill" => left' # 0)
  BY <1>0 DEF Copy, Ends
<1>5. ASSUME left' \in 0 .. MaxRead, buf_read' \in 0 .. BufLen, saved_filepos' \in Nat,
             filepos' \in Nat, buf' \in [0 .. BufLen - 1 -> Units],
             saved_filepos' <= filepos' /\ filepos' <= saved_filepos' + buf_read',
             saved_filepos' + buf_read' = saved_filepos + buf_read,
             \A k \in 0 .. buf_read' - 1 : buf'[k] = <<opened, saved_filepos' + k>>
      PROVE  IInv'
  <2> USE <1>0, <1>4, <1>5
  <2>1. TypeOK'
    BY DEF TypeOK, transfer, Units
  <2>2. Kinds'
    BY <1>1 DEF Kinds, Granted, transfer, network
  <2>3. Net'
    BY NetKept DEF transfer, Live
  <2>4. BufferIsFile'
    BY DEF BufferIsFile
  <2>5. Received'
    BY DEF Received, Live, abort, Base, transfer
  <2>6. Position' /\ Size'
    BY DEF Position, Size
  <2> QED BY <2>1, <2>2, <2>3, <2>4, <2>5, <2>6
<1>6. \A k \in 0 .. buf_read - 1 : buf[k] = <<opened, saved_filepos + k>>
  BY <1>0 DEF BufferIsFile, Live
<1>7. CASE amt > 0 /\ filepos' - saved_filepos > half
  <2>1. /\ left' = left - amt /\ filepos' = filepos + amt
        /\ buf' = [k \in DOMAIN buf |-> IF k < half THEN buf[k + half] ELSE buf[k]]
        /\ buf_read' = buf_read - half /\ saved_filepos' = saved_filepos + half
    BY <1>7 DEF Copy
  <2>2. /\ left' \in 0 .. MaxRead /\ buf_read' \in 0 .. half /\ saved_filepos' \in Nat
        /\ filepos' \in Nat
        /\ saved_filepos' <= filepos' /\ filepos' <= saved_filepos' + buf_read'
        /\ saved_filepos' + buf_read' = saved_filepos + buf_read
    BY <1>1, <1>2, <1>3, <1>7, <2>1
  <2>3. buf' \in [0 .. BufLen - 1 -> Units] /\ buf_read' \in 0 .. BufLen
    BY <1>1, <2>1, <2>2
  <2>4. ASSUME NEW k \in 0 .. buf_read' - 1 PROVE buf'[k] = <<opened, saved_filepos' + k>>
    <3>1. k < half /\ k \in 0 .. BufLen - 1 /\ k + half \in 0 .. buf_read - 1
      BY <1>1, <2>1, <2>2, <2>4
    <3>2. buf'[k] = buf[k + half]
      BY <1>1, <2>1, <3>1
    <3>3. saved_filepos + (k + half) = saved_filepos' + k
      BY <1>1, <2>1, <3>1
    <3> QED BY <1>6, <3>1, <3>2, <3>3
  <2> QED BY <1>1, <1>5, <2>2, <2>3, <2>4
<1>8. CASE amt > 0 /\ ~(filepos' - saved_filepos > half)
  <2>1. left' = left - amt /\ filepos' = filepos + amt /\ UNCHANGED <<buf, buf_read, saved_filepos>>
    BY <1>8 DEF Copy
  <2>2. left' \in 0 .. MaxRead /\ filepos' \in Nat /\ saved_filepos <= filepos'
        /\ filepos' <= saved_filepos + buf_read
    BY <1>1, <1>2, <1>3, <2>1
  <2> QED BY <1>1, <1>5, <1>6, <2>1, <2>2
<1>9. CASE ~(amt > 0)
  <2>1. saved_filepos' = saved_filepos + buf_read /\ buf_read' = 0 /\ UNCHANGED <<out, left, filepos, buf>>
    BY <1>9 DEF Copy
  <2>2. filepos = saved_filepos + buf_read
    BY <1>1, <1>3, <1>9
  <2> QED BY <1>1, <1>5, <2>1, <2>2
<1> QED BY <1>7, <1>8, <1>9


LEMMA SendRrqKeeps == ASSUME IInv, SendRrq PROVE IInv'
<1> USE DEF IInv
<1>1. PICK ok \in BOOLEAN :
        /\ ToTftpPort(Request, ok)
        /\ \/ ok /\ call = "dir" /\ pc' = "fill" /\ UNCHANGED <<call, errnum, file>>
           \/ ok /\ call = "reopen" /\ pc' = "copy" /\ call' = "read" /\ UNCHANGED <<errnum, file>>
           \/ ~ok /\ call = "dir" /\ OpenFails("write")
           \/ ~ok /\ call = "reopen" /\ Ends("write") /\ UNCHANGED file
  BY DEF SendRrq
<1>2. /\ pc = "request" /\ opened # None /\ opened \in Files \cup {Missing} /\ filepos = 0
      /\ retry' = 0 /\ block' = 0 /\ prevblock' = 0 /\ packetsize' = DefaultSize /\ bcounter' = 0
      /\ buf_eof' = FALSE /\ buf_read' = 0 /\ saved_filepos' = 0 /\ tp' = Request
      /\ UNCHANGED <<oport, buf, copied, calls>>
  BY DEF SendRrq, Kinds, TypeOK, Position
<1>3. /\ CallOK' /\ (opened' = opened \/ opened' = None) /\ filepos' = 0 /\ call' # "count"
      /\ (call' \in {"read", "reopen"} => left' > 0)
  BY <1>1, <1>2 DEF TypeOK, Kinds, CallOK, OpenFails, Ends, file, copied
<1>4. TypeOK'
  <2>1. 0 \in 0 .. BufLen /\ 0 \in 0 .. BlockMod - 1
    BY PacketsFit
  <2>2. iport' \in Nat /\ arp' \in BOOLEAN
    BY <1>1 DEF ToTftpPort, TypeOK
  <2>3. tp'.kind = "RRQ"
    BY <1>2 DEF Request
  <2> QED BY <1>2, <1>3, <2>1, <2>2, <2>3 DEF TypeOK, CallOK, copied
<1>5. Kinds'
  <2>1. sessions' = {} /\ server' = server
    BY <1>1, Flushed
  <2>2. tp' = [kind |-> "RRQ", blk |-> -1]
    BY <1>2 DEF Request
  <2> QED BY <1>2, <1>3, <2>1, <2>2, FS_EmptySet DEF Kinds, CallOK
<1>6. Net'
  BY <1>1, <1>2, <1>3, NetFlushed DEF Live
<1>7. BufferIsFile' /\ Received'
  <2>1. 0 * packetsize' = 0
    BY <1>2, TftpAssumption
  <2> QED BY <1>2, <1>3, <2>1 DEF BufferIsFile, Received, Base
<1>8. Position' /\ Size'
  BY <1>1, <1>2, <1>3 DEF Position, Size, OpenFails, Ends, file, Kinds
<1> QED BY <1>4, <1>5, <1>6, <1>7, <1>8

LEMMA TimeoutKeeps == ASSUME IInv, Timeout PROVE IInv'
<1> USE DEF IInv
<1>1. /\ pc = "fill" /\ opened # None /\ call # "none"
      /\ retry' = NextRetry
      /\ UNCHANGED <<oport, block, prevblock, bcounter, tp, packetsize, buffer, copied, calls>>
  BY DEF Timeout, Filling, Kinds, TypeOK
<1>2. retry' \in Nat
  BY <1>1, TftpAssumption DEF TypeOK, NextRetry
<1>3. ASSUME iport' \in Nat, arp' \in BOOLEAN, IsFiniteSet(sessions'), server' = server, Net',
             Returns0 \/ (Again /\ UNCHANGED filemax)
      PROVE  IInv'
  <2> USE <1>1, <1>2, <1>3
  <2>1. /\ CallOK' /\ BufferIsFile' /\ Received' /\ Position' /\ Size'
        /\ (call' \in {"read", "reopen"} => left' > 0)
    <3>1. CASE Returns0
      BY <3>1, Returns0Keeps
    <3>2. CASE Again /\ UNCHANGED filemax
      <4> USE <3>2 DEF Again, buffer, copied
      <4>1. CallOK' /\ (call' \in {"read", "reopen"} => left' > 0)
        BY DEF CallOK, TypeOK, Kinds
      <4>2. BufferIsFile'
        BY DEF BufferIsFile
      <4>3. Received'
        BY DEF Received, Live, abort, Base
      <4>4. Position' /\ Size'
        BY DEF Position, Size
      <4> QED BY <4>1, <4>2, <4>3, <4>4
    <3> QED BY <1>3, <3>1, <3>2
  <2>2. TypeOK'
    BY <2>1 DEF TypeOK, CallOK, buffer, copied
  <2>3. Kinds'
    BY <2>1 DEF Kinds, CallOK, Granted
  <2> QED BY <2>1, <2>2, <2>3
<1>4. ASSUME Returns0 \/ (Again /\ UNCHANGED filemax)
      PROVE  Live' => Live /\ opened' = opened
  BY <1>1, <1>4 DEF Returns0, Again, Live, OpenFails, Ends, file
<1>5. CASE \E ok \in BOOLEAN :
             ToTftpPort(tp, ok) /\ IF ok THEN Again /\ UNCHANGED filemax ELSE Returns0
  <2>1. PICK ok \in BOOLEAN :
          ToTftpPort(tp, ok) /\ (Returns0 \/ (Again /\ UNCHANGED filemax))
    BY <1>5
  <2>2. iport' \in Nat /\ arp' \in BOOLEAN
    BY <2>1 DEF ToTftpPort, TypeOK
  <2>3. IsFiniteSet(sessions') /\ server' = server
    BY <2>1, Flushed, FS_EmptySet
  <2>4. Net'
    BY <1>1, <1>4, <2>1, NetFlushed
  <2> QED BY <1>3, <2>1, <2>2, <2>3, <2>4
<1>6. CASE block # 0 /\ ToTransfer(oport, tp) /\ Again /\ UNCHANGED <<filemax, arp, iport, network>>
  <2>1. Net'
    <3>1. tp.kind \in {"ACK", "ERROR"} /\ tp.blk \in Int
          /\ (tp.kind = "ACK" => tp.blk <= prevblock /\ Granted)
      BY <1>6 DEF Kinds
    <3>2. prevblock' \in {prevblock, prevblock + 1} /\ prevblock' < BlockMod
      BY <1>1, PacketsFit DEF TypeOK
    <3>3. Granted = Granted'
      BY <1>1, <1>6 DEF Granted, network
    <3> QED BY <1>1, <1>4, <1>6, <3>1, <3>2, <3>3, NetPlus
  <2> QED BY <1>3, <1>6, <2>1 DEF TypeOK, Kinds, network
<1>7. CASE Returns0 /\ UNCHANGED <<arp, iport, sent, network>>
  <2>1. Net'
    BY <1>1, <1>4, <1>7, NetKept
  <2> QED BY <1>3, <1>7, <2>1 DEF TypeOK, Kinds, network
<1> QED BY <1>5, <1>6, <1>7 DEF Timeout


\* A block that the server sends for a transfer is the one it has come to.
LEMMA DataIsOK ==
    ASSUME TypeOK, Kinds, NEW s, SessionOK(s), s.file # Missing, s.blk # 0
    PROVE  AnswerOK(Data(s))
<1> DEFINE m == Data(s)
<1>1. /\ m.type = "DATA" /\ m.port = s.port /\ m.tid = s.tid /\ m.blk = s.blk % BlockMod
      /\ m.file = s.file /\ m.from = (s.blk - 1) * BlockSize
      /\ m.len = Smaller(BlockSize, FileLen[m.file] - m.from)
  BY DEF Data
<1>2. /\ s.file \in Files /\ s.tid \in Nat /\ s.blk \in Nat \ {0} /\ Near(s.blk) /\ Granted
      /\ (Live => s.file = opened) /\ (s.blk - 1) * BlockSize <= FileLen[s.file]
  BY DEF SessionOK
<1>3. s.port = iport
  <2>1. s = [tid |-> s.tid, port |-> iport, file |-> s.file, blk |-> s.blk]
    BY DEF SessionOK
  <2> QED BY <2>1
<1> HIDE DEF m
<1>4. DataOK(m)
  BY <1>1, <1>2 DEF DataOK
<1>5. AnswerOK(m)
  BY <1>1, <1>2, <1>3, <1>4 DEF AnswerOK
<1> QED BY <1>5 DEF m

\* What the servers do is none of the client's steps.
LEMMA ServedKeeps ==
    ASSUME IInv, UNCHANGED <<client, sent, server>>, Net', IsFiniteSet(sessions')
    PROVE  IInv'
<1> USE DEF IInv, client, file, transfer, buffer, copied
<1>1. TypeOK'
  BY DEF TypeOK
<1>2. Kinds'
  BY DEF Kinds, Granted
<1>3. BufferIsFile' /\ Received'
  BY DEF BufferIsFile, Received, Live, abort, Base
<1>4. Position' /\ Size'
  BY DEF Position, Size
<1> QED BY <1>1, <1>2, <1>3, <1>4

LEMMA NetServed ==
    ASSUME IInv, UNCHANGED <<client, sent, server>>, NEW s, SessionOK(s), NEW m, AnswerOK(m),
           sessions' \in SUBSET (sessions \cup {s}), answers' = answers \cup {m}
    PROVE  IInv'
<1> USE DEF IInv
<1>1. IsFiniteSet(sessions')
  BY FS_AddElement, FS_Subset DEF Kinds
<1>2. \A x : (SentOK(x) => SentOK(x)') /\ (SessionOK(x) => SessionOK(x)')
             /\ (AnswerOK(x) => AnswerOK(x)')
  BY DEF SentOK, SessionOK, AnswerOK, DataOK, Near, Granted, Live, BlockSize,
         client, file, transfer, buffer, copied
<1>3. Net'
  BY <1>2 DEF Net
<1> QED BY <1>1, <1>3, ServedKeeps

LEMMA ServeKeeps == ASSUME IInv, Serve PROVE IInv'
<1> USE DEF IInv
<1>1. PICK m \in sent : /\ m.type = "RRQ"
        /\ LET s == [tid |-> Cardinality(sessions) + 1, port |-> m.port, file |-> m.file,
                     blk |-> IF server = "plain" THEN 1 ELSE 0]
           IN sessions' = sessions \cup {s} /\ answers' = answers \cup {Answer(s)}
  BY DEF Serve
<1> DEFINE s == [tid |-> Cardinality(sessions) + 1, port |-> m.port, file |-> m.file,
                 blk |-> IF server = "plain" THEN 1 ELSE 0]
<1>2. m.port = iport /\ m.file \in Files \cup {Missing} /\ (Live => m.file = opened)
  BY <1>1 DEF Net, SentOK
<1>3. Cardinality(sessions) \in Nat
  BY FS_CardinalityType DEF Kinds
<1>4. SessionOK(s)
  <2>1. s = [tid |-> s.tid, port |-> iport, file |-> s.file, blk |-> s.blk]
        /\ s.tid \in Nat /\ s.file = m.file /\ s.blk \in {0, 1} /\ (s.blk = 1 <=> server = "plain")
    BY <1>2, <1>3
  <2>2. Near(s.blk)
    BY <2>1 DEF Near, TypeOK
  <2>3. (1 - 1) * BlockSize = 0
    BY TftpAssumption DEF BlockSize
  <2>4. s.file # Missing => 0 <= FileLen[s.file]
    BY <1>2, <2>1, TftpAssumption
  <2> HIDE DEF s
  <2> QED BY <1>2, <2>1, <2>2, <2>3, <2>4 DEF SessionOK, Granted
<1>5. AnswerOK(Answer(s))
  <2>1. s.file = m.file /\ s.port = iport /\ s.tid \in Nat /\ (server = "plain" => s.blk # 0)
    BY <1>2, <1>3
  <2> HIDE DEF s
  <2>2. CASE s.file = Missing
    <3>1. Answer(s) = [port |-> s.port, type |-> "ERROR", tid |-> s.tid]
      BY <2>2 DEF Answer
    <3> QED BY <2>1, <3>1 DEF AnswerOK
  <2>3. CASE s.file # Missing /\ server = "plain"
    BY <1>4, <2>1, <2>3, DataIsOK DEF Answer
  <2>4. CASE s.file # Missing /\ server # "plain"
    <3>1. Answer(s) = [port |-> s.port, type |-> "OACK", tid |-> s.tid, ok |-> server # "refused",
                       tsize |-> IF server = "tsize" THEN FileLen[s.file] ELSE -1]
      BY <2>4 DEF Answer
    <3> QED BY <1>2, <2>1, <2>4, <3>1 DEF AnswerOK
  <2> QED BY <2>2, <2>3, <2>4
<1> HIDE DEF s
<1>6. sessions' = sessions \cup {s} /\ answers' = answers \cup {Answer(s)}
  BY <1>1 DEF s
<1> QED BY <1>4, <1>5, <1>6, NetServed DEF Serve

LEMMA AckedKeeps == ASSUME IInv, Acked PROVE IInv'
<1> USE DEF IInv
<1>1. PICK s \in sessions, m \in sent :
        /\ m.type = "ACK" /\ m.blk = s.blk % BlockMod
        /\ s.file # Missing /\ s.blk * BlockSize <= FileLen[s.file]
        /\ LET next == [s EXCEPT !.blk = @ + 1]
           IN sessions' = (sessions \ {s}) \cup {next} /\ answers' = answers \cup {Data(next)}
  BY DEF Acked
<1> DEFINE next == [s EXCEPT !.blk = @ + 1]
<1>2. SessionOK(s) /\ s = [tid |-> s.tid, port |-> iport, file |-> s.file, blk |-> s.blk]
  BY DEF Net, SessionOK
<1>3. next = [tid |-> s.tid, port |-> iport, file |-> s.file, blk |-> s.blk + 1]
  BY <1>2
<1>4. m.blk \in Int /\ m.blk <= prevblock /\ Granted
  BY <1>1 DEF Net, SentOK
<1>5. Near(s.blk + 1)
  <2>1. s.blk \in Nat /\ Near(s.blk) /\ prevblock \in 0 .. BlockMod - 1
    BY <1>2 DEF SessionOK, TypeOK
  <2>2. CASE prevblock = BlockMod - 1
    BY <2>2 DEF Near
  <2>3. CASE prevblock # BlockMod - 1
    <3>1. s.blk <= prevblock + 1 /\ s.blk \in 0 .. BlockMod - 1
      BY <2>1, <2>3, PacketsFit DEF Near
    <3>2. m.blk = s.blk
      BY <1>1, <3>1, ModIsSmall
    <3> QED BY <1>4, <2>1, <3>2 DEF Near
  <2> QED BY <2>2, <2>3
<1>6. SessionOK(next)
  <2>1. /\ next.tid = s.tid /\ next.file = s.file /\ next.blk = s.blk + 1
        /\ next = [tid |-> next.tid, port |-> iport, file |-> next.file, blk |-> next.blk]
    BY <1>3
  <2>2. s.tid \in Nat /\ s.file \in Files \cup {Missing} /\ (Live => s.file = opened) /\ s.blk \in Nat
    BY <1>2 DEF SessionOK
  <2>3. next.blk \in Nat /\ next.blk # 0 /\ next.blk - 1 = s.blk
    BY <2>1, <2>2
  <2> HIDE DEF next
  <2> QED BY <1>1, <1>4, <1>5, <2>1, <2>2, <2>3 DEF SessionOK
<1>7. next.file # Missing /\ next.blk # 0
  BY <1>1, <1>2, <1>3 DEF SessionOK
<1> HIDE DEF next
<1>8. AnswerOK(Data(next))
  BY <1>6, <1>7, DataIsOK
<1>9. sessions' = (sessions \ {s}) \cup {next} /\ answers' = answers \cup {Data(next)}
  BY <1>1 DEF next
<1> QED BY <1>6, <1>8, <1>9, NetServed DEF Acked


\* A block is either next, and then it is taken, or the one before is acknowledged.
LEMMA NumberNext ==
    ASSUME TypeOK, Kinds, NEW blk \in 0 .. BlockMod - 1
    PROVE  /\ Expected(blk) \in {prevblock, prevblock + 1} /\ Expected(blk) \in 0 .. BlockMod - 1
           /\ Expected(blk) = prevblock + 1 => blk = prevblock + 1
           /\ (Expected(blk) - prevblock) % BlockMod = 1 <=> Expected(blk) = prevblock + 1
           /\ Expected(blk) = prevblock + 1 => Expected(blk) # 0
<1>1. prevblock \in 0 .. BlockMod - 1 /\ bcounter = prevblock
  BY DEF TypeOK, Kinds
<1>2. Expected(blk) \in {prevblock, prevblock + 1} /\ Expected(blk) \in 0 .. BlockMod - 1
      /\ (Expected(blk) = prevblock + 1 => blk = prevblock + 1)
  BY <1>1, PacketsFit DEF Expected
<1>3. 0 % BlockMod = 0 /\ 1 % BlockMod = 1
  BY PacketsFit, ModIsSmall
<1>4. CASE Expected(blk) = prevblock
  BY <1>1, <1>2, <1>3, <1>4
<1>5. CASE Expected(blk) = prevblock + 1
  BY <1>1, <1>2, <1>3, <1>5
<1> QED BY <1>2, <1>4, <1>5

LEMMA ReceiveOackKeeps == ASSUME IInv, ReceiveOack PROVE IInv'
<1> USE DEF IInv
<1>1. PICK m \in Arrived("OACK") :
        IF m.ok
        THEN /\ packetsize' = BigSize
             /\ filemax' = IF m.tsize = -1 THEN filemax ELSE m.tsize
             /\ Acknowledge(m, 0, <<>>) /\ Again
        ELSE /\ tp' = [kind |-> "ERROR", blk |-> tp.blk]
             /\ ToTransfer(m.tid, tp')
             /\ Returns0
             /\ UNCHANGED <<retry, oport, block, prevblock, bcounter, packetsize, buffer>>
  BY DEF ReceiveOack
<1>2. /\ pc = "fill" /\ ~buf_eof /\ prevblock = 0 /\ opened # None /\ Live
      /\ UNCHANGED <<arp, iport, copied, calls, network>>
  BY DEF ReceiveOack, Filling, Kinds, TypeOK, Live
<1>3. m.tid \in Nat /\ server # "plain" /\ \E f \in Files : m.tsize \in {-1, FileLen[f]} /\ opened = f
  BY <1>2 DEF Arrived, Net, AnswerOK
<1>4. prevblock = 0 /\ prevblock < BlockMod
  BY <1>2, PacketsFit
<1>5. CASE m.ok
  <2>1. /\ packetsize' = BigSize /\ filemax' = (IF m.tsize = -1 THEN filemax ELSE m.tsize)
        /\ block' = Expected(0) /\ oport' = m.tid
        /\ tp' = [kind |-> IF abort THEN "ERROR" ELSE "ACK", blk |-> block']
        /\ ToTransfer(m.tid, tp') /\ Again
    BY <1>1, <1>5 DEF Acknowledge
  <2>2. Expected(0) = 0
    BY <1>4 DEF Expected, Kinds
  <2>3. (block' - prevblock) % BlockMod # 1
    BY <1>4, <2>1, <2>2, ModIsSmall, PacketsFit
  <2>4. buf_eof' = abort /\ UNCHANGED <<prevblock, retry, bcounter, buf, buf_read, saved_filepos>>
    BY <1>1, <1>5, <2>3 DEF Acknowledge
  <2>5. /\ tp'.kind \in {"ACK", "ERROR"} /\ tp'.blk = 0
        /\ UNCHANGED <<pc, call, errnum, opened, filepos>> /\ call # "count"
    BY <1>4, <2>1, <2>2 DEF Again, Received
  <2>6. /\ filemax' \in Nat \cup {-1}
        /\ (filemax' # filemax => opened \in Files /\ filemax' = FileLen[opened])
    BY <1>3, <2>1, TftpAssumption DEF TypeOK
  <2>7. TypeOK'
    BY <1>2, <1>3, <2>1, <2>2, <2>4, <2>5, <2>6 DEF TypeOK, copied, abort
  <2>8. Kinds'
    BY <1>2, <1>3, <1>4, <2>1, <2>2, <2>4, <2>5, <2>6 DEF Kinds, Granted, network, copied
  <2>9. Net'
    BY <1>2, <1>4, <2>1, <2>4, <2>5, NetPlus DEF Granted, Live
  <2>10. BufferIsFile'
    BY <2>4, <2>5 DEF BufferIsFile
  <2>11. Received'
    <3>1. 0 * packetsize = 0 /\ 0 * packetsize' = 0
      BY <2>1, PacketsFit, TftpAssumption
    <3> QED BY <1>2, <1>4, <2>4, <2>5, <3>1 DEF Received, Live, abort, Base
  <2>12. Position' /\ Size'
    BY <2>4, <2>5, <2>6 DEF Position, Size
  <2> QED BY <2>7, <2>8, <2>9, <2>10, <2>11, <2>12
<1>6. CASE ~m.ok
  <2>1. /\ tp' = [kind |-> "ERROR", blk |-> tp.blk] /\ ToTransfer(m.tid, tp') /\ Returns0
        /\ UNCHANGED <<retry, oport, block, prevblock, bcounter, packetsize, buffer>>
    BY <1>1, <1>6
  <2>2. /\ CallOK' /\ BufferIsFile' /\ Received' /\ Position' /\ Size'
        /\ (call' \in {"read", "reopen"} => left' > 0)
        /\ (Live' => Live /\ opened' = opened)
    BY <1>2, <2>1, Returns0Keeps
  <2>3. tp'.kind = "ERROR" /\ tp'.blk = tp.blk /\ tp.blk \in Int
    BY <2>1 DEF Kinds
  <2>4. TypeOK'
    BY <1>2, <2>1, <2>2, <2>3 DEF TypeOK, CallOK, buffer, copied
  <2>5. Kinds'
    BY <1>2, <2>1, <2>2, <2>3 DEF Kinds, CallOK, Granted, network
  <2>6. Net'
    BY <1>2, <1>4, <2>1, <2>2, <2>3, NetPlus DEF Granted, network
  <2> QED BY <2>2, <2>4, <2>5, <2>6
<1> QED BY <1>5, <1>6

LEMMA ReceiveDataKeeps == ASSUME IInv, ReceiveData PROVE IInv'
<1> USE DEF IInv
<1>1. PICK m \in Arrived("DATA") :
        /\ m.len <= packetsize
        /\ Acknowledge(m, m.blk, [k \in 1 .. m.len |-> <<m.file, m.from + k - 1>>])
  BY DEF ReceiveData
<1> DEFINE content == [k \in 1 .. m.len |-> <<m.file, m.from + k - 1>>]
<1>2. /\ pc = "fill" /\ ~buf_eof /\ buf_read + packetsize <= BufLen /\ opened # None /\ Live
      /\ UNCHANGED <<pc, call, errnum, opened, filepos, packetsize, filemax, arp, iport, copied,
                     calls, network>>
  BY DEF ReceiveData, Filling, Again, Kinds, TypeOK, Live
<1>3. /\ m.tid \in Nat /\ m.file \in Files /\ m.file = opened /\ Granted
      /\ \E n \in Nat \ {0} :
          /\ Near(n) /\ m.blk = n % BlockMod
          /\ m.from = (n - 1) * BlockSize /\ m.from <= FileLen[m.file]
          /\ m.len = Smaller(BlockSize, FileLen[m.file] - m.from)
  BY <1>2 DEF Arrived, Net, AnswerOK, DataOK
<1>4. m.blk \in 0 .. BlockMod - 1
  BY <1>3, ModIsSmall
<1>5. BlockSize = packetsize /\ packetsize \in Nat \ {0}
  BY <1>3, PacketsFit DEF BlockSize, Granted, Kinds
<1>6. /\ block' = Expected(m.blk) /\ oport' = m.tid
      /\ tp' = [kind |-> IF abort THEN "ERROR" ELSE "ACK", blk |-> block']
      /\ ToTransfer(m.tid, tp') /\ UNCHANGED saved_filepos
  BY <1>1 DEF Acknowledge
<1>7. /\ block' \in {prevblock, prevblock + 1} /\ block' \in 0 .. BlockMod - 1
      /\ (block' = prevblock + 1 => m.blk = prevblock + 1 /\ block' # 0)
      /\ ((block' - prevblock) % BlockMod = 1 <=> block' = prevblock + 1)
  BY <1>4, <1>6, NumberNext
<1>8. tp'.kind \in {"ACK", "ERROR"} /\ tp'.blk = block' /\ (tp'.kind = "ACK" => ~abort)
  BY <1>6
<1>9. CASE ~abort /\ block' = prevblock + 1
  <2>1. /\ prevblock' = block' /\ retry' = 0 /\ bcounter' = bcounter + 1
        /\ buf' = [k \in DOMAIN buf |-> IF k - buf_read \in 0 .. Len(content) - 1
                                         THEN content[k - buf_read + 1] ELSE buf[k]]
        /\ buf_read' = buf_read + Len(content)
        /\ buf_eof' = (Len(content) < packetsize)
    BY <1>1, <1>7, <1>9 DEF Acknowledge
  <2>2. /\ prevblock \in Nat /\ prevblock + 1 < BlockMod /\ BlockMod \in Nat
        /\ FileLen[opened] \in Nat /\ buf_read \in 0 .. BufLen /\ BufLen \in Nat
        /\ buf \in [0 .. BufLen - 1 -> Units] /\ prevblock * packetsize \in Nat
    BY <1>3, <1>5, <1>7, <1>9, TftpAssumption, SMTT(60) DEF TypeOK
  <2>3. /\ m.from = prevblock * packetsize /\ m.from \in Nat /\ m.from <= FileLen[opened]
        /\ m.len = Smaller(packetsize, FileLen[opened] - m.from)
    <3>1. PICK n \in Nat \ {0} :
            /\ Near(n) /\ m.blk = n % BlockMod
            /\ m.from = (n - 1) * BlockSize /\ m.from <= FileLen[m.file]
            /\ m.len = Smaller(BlockSize, FileLen[m.file] - m.from)
      BY <1>3
    <3>2. n <= prevblock + 1
      BY <2>2, <3>1 DEF Near
    <3>3. n % BlockMod = n
      <4>1. n \in 0 .. BlockMod - 1
        BY <2>2, <3>2
      <4> QED BY <4>1, ModIsSmall
    <3>4. n - 1 = prevblock
      <4>1. m.blk = prevblock + 1
        BY <1>7, <1>9
      <4>2. n = prevblock + 1
        BY <3>1, <3>3, <4>1
      <4> QED BY <2>2, <4>2
    <3> QED BY <1>3, <1>5, <2>2, <3>1, <3>4
  <2>4. m.len \in 0 .. packetsize /\ (m.len < packetsize => m.from + m.len = FileLen[opened])
    BY <1>5, <2>2, <2>3 DEF Smaller
  <2>5. content \in Seq(Files \X Nat) /\ Len(content) = m.len
    BY <1>3, <2>3, <2>4
  <2>6. Base \in Nat /\ Base' = Base /\ Base + buf_read = m.from
    <3>1. Base \in Nat
      BY DEF Base, Kinds, TypeOK
    <3>2. Base' = Base
      BY <1>2, <1>6 DEF Base
    <3> QED BY <1>2, <1>9, <2>3, <3>1, <3>2 DEF Received
  <2> HIDE DEF content
  <2>7. buf_read' \in 0 .. BufLen /\ buf' \in [0 .. BufLen - 1 -> Units]
    <3>1. buf_read' \in 0 .. BufLen
      BY <1>2, <1>5, <2>1, <2>2, <2>4, <2>5
    <3>2. \A k \in 1 .. m.len : content[k] \in Units
      BY <1>3, <2>3, <2>4 DEF content, Units
    <3>3. \A k \in 0 .. BufLen - 1 : k - buf_read \in 0 .. m.len - 1 => k - buf_read + 1 \in 1 .. m.len
      BY <2>2, <2>4
    <3> QED BY <2>1, <2>2, <2>5, <3>1, <3>2, <3>3
  <2>8. TypeOK'
    <3>1. /\ block' \in 0 .. BlockMod - 1 /\ prevblock' \in 0 .. BlockMod - 1
          /\ oport' \in Nat /\ bcounter' \in Nat /\ buf_eof' \in BOOLEAN
      BY <1>3, <1>6, <1>7, <2>1 DEF TypeOK
    <3> QED BY <1>2, <1>6, <1>8, <2>1, <2>7, <3>1 DEF TypeOK, copied
  <2>9. Kinds'
    BY <1>2, <1>3, <1>6, <1>7, <1>8, <1>9, <2>1, <2>2 DEF Kinds, Granted, network, copied
  <2>10. Net'
    <3>1. prevblock' \in {prevblock, prevblock + 1} /\ prevblock' < BlockMod
      BY <1>9, <2>1, <2>2
    <3>2. tp'.blk \in Int /\ tp'.blk <= prevblock'
      BY <1>7, <1>8, <2>1
    <3>3. Granted' /\ (Live' => Live /\ opened' = opened)
      BY <1>2, <1>3 DEF Granted, Live, network
    <3> QED BY <1>2, <1>6, <1>8, <3>1, <3>2, <3>3, NetPlus
  <2>11. BufferIsFile'
    <3>1. ASSUME NEW k \in 0 .. buf_read' - 1 PROVE buf'[k] = <<opened, Base + k>>
      <4>0. /\ k \in 0 .. (buf_read + m.len) - 1 /\ buf_read + m.len <= BufLen
            /\ buf_read + m.len \in Nat
        BY <1>2, <1>5, <2>1, <2>2, <2>4, <2>5, SMTT(60)
      <4>1. k \in 0 .. BufLen - 1
        BY <2>2, <4>0
      <4>2. CASE k < buf_read
        BY <1>2, <2>1, <2>2, <2>4, <2>5, <4>1, <4>2, SMTT(60) DEF BufferIsFile, Live, Base
      <4>3. CASE k >= buf_read
        <5>1. k - buf_read \in 0 .. m.len - 1 /\ k - buf_read + 1 \in 1 .. m.len
          BY <2>2, <2>4, <4>0, <4>3
        <5>2. buf'[k] = content[k - buf_read + 1]
          BY <2>1, <2>2, <2>5, <4>1, <5>1
        <5>3. content[k - buf_read + 1] = <<m.file, m.from + (k - buf_read + 1) - 1>>
          BY <5>1 DEF content
        <5>4. m.from + (k - buf_read + 1) - 1 = Base + k
          BY <2>2, <2>3, <2>6, <4>1
        <5> QED BY <1>3, <5>2, <5>3, <5>4
      <4> QED BY <2>2, <4>1, <4>2, <4>3
    <3> QED BY <1>2, <2>6, <3>1 DEF BufferIsFile, Base
  <2>12. Received'
    <3>1. (prevblock + 1) * packetsize = prevblock * packetsize + packetsize
      BY <1>5, <2>2, OneMore
    <3>2. Base' + buf_read' = m.from + m.len
      BY <2>1, <2>2, <2>3, <2>4, <2>5, <2>6
    <3>3. prevblock' # 0
      BY <1>7, <1>9, <2>1
    <3>4. ~abort'
      BY <1>2, <1>9 DEF abort
    <3>5. CASE m.len < packetsize
      BY <1>3, <2>1, <2>4, <2>5, <3>2, <3>3, <3>4, <3>5, <1>2 DEF Received
    <3>6. CASE m.len = packetsize
      <4>1. Base' + buf_read' = prevblock' * packetsize'
        <5>1. prevblock' = prevblock + 1 /\ packetsize' = packetsize
          BY <1>2, <1>9, <2>1
        <5> QED BY <2>3, <3>1, <3>2, <3>6, <5>1
      <4>2. ~buf_eof'
        <5>1. ~(Len(content) < packetsize)
          BY <1>5, <2>5, <3>6
        <5> QED BY <2>1, <5>1
      <4>3. call' # "count" \/ prevblock' # 0
        BY <3>3
      <4> QED BY <3>3, <3>4, <4>1, <4>2 DEF Received
    <3> QED BY <1>5, <2>4, <3>5, <3>6
  <2>13. Position' /\ Size'
    BY <1>2, <1>6, <2>1, <2>2, <2>4, <2>5, SMTT(60) DEF Position, Size, abort, TypeOK
  <2> QED BY <2>8, <2>9, <2>10, <2>11, <2>12, <2>13
<1>10. CASE abort \/ block' # prevblock + 1
  <2>1. buf_eof' = abort /\ UNCHANGED <<prevblock, retry, bcounter, buf, buf_read>>
    BY <1>1, <1>7, <1>10 DEF Acknowledge
  <2>2. ~abort => block' = prevblock
    BY <1>7, <1>10
  <2>3. TypeOK'
    BY <1>2, <1>3, <1>6, <1>7, <1>8, <2>1 DEF TypeOK, copied, abort
  <2>4. prevblock \in Nat /\ prevblock < BlockMod /\ block' \in Nat
    BY <1>7, PacketsFit DEF TypeOK
  <2>5. Kinds'
    BY <1>2, <1>3, <1>6, <1>7, <1>8, <2>1, <2>2, <2>4 DEF Kinds, Granted, network, copied
  <2>6. Net'
    BY <1>2, <1>3, <1>6, <1>7, <1>8, <2>1, <2>2, <2>4, NetPlus DEF Granted, Live, network
  <2>7. BufferIsFile' /\ Received'
    BY <1>2, <1>6, <2>1 DEF BufferIsFile, Received, Live, abort, Base
  <2>8. Position' /\ Size'
    BY <1>2, <1>6, <2>1 DEF Position, Size
  <2> QED BY <2>3, <2>5, <2>6, <2>7, <2>8
<1> QED BY <1>9, <1>10


-----------------------------------------------------------------------------
(* The theorems.                                                           *)

\* Every step of the client or of the servers keeps the invariant.
LEMMA NextKeeps == ASSUME ~AnySeek, IInv, [Next]_vars PROVE IInv'
<1>1. CASE Serve
  BY <1>1, ServeKeeps
<1>2. CASE Acked
  BY <1>2, AckedKeeps
<1>3. CASE SendRrq
  BY <1>3, SendRrqKeeps
<1>4. CASE Timeout
  BY <1>4, TimeoutKeeps
<1>5. CASE CtrlC \/ ReceiveError
  BY <1>5, GivenUpKeeps
<1>6. CASE ReceiveOack
  BY <1>6, ReceiveOackKeeps
<1>7. CASE ReceiveData
  BY <1>7, ReceiveDataKeeps
<1>8. CASE Filled
  BY <1>8, FilledKeeps
<1>9. CASE Open
  BY <1>9, OpenKeeps
<1>10. CASE Seek
  BY <1>10, SeekKeeps
<1>11. CASE Read
  BY <1>11, ReadKeeps
<1>12. CASE Copy
  BY <1>12, CopyKeeps
<1>13. CASE Close
  BY <1>13, CloseKeeps
<1>14. CASE UNCHANGED vars
  <2> USE <1>14 DEF vars, client, network
  <2>1. UNCHANGED <<client, sent, server>> /\ IsFiniteSet(sessions')
    BY DEF IInv, Kinds
  <2>2. Net'
    BY NetKept DEF IInv, transfer, Live, file
  <2> QED BY <2>1, <2>2, ServedKeeps
<1> QED BY <1>1, <1>2, <1>3, <1>4, <1>5, <1>6, <1>7, <1>8, <1>9, <1>10, <1>11, <1>12, <1>13,
            <1>14 DEF Next

\* The invariant holds throughout, as long as callers seek to the start or inside the buffer.
THEOREM Invariance == ASSUME ~AnySeek PROVE Spec => []IInv
<1>1. Init => IInv
  BY InitIInv
<1>2. IInv /\ [Next]_vars => IInv'
  BY NextKeeps
<1> QED BY <1>1, <1>2, PTL DEF Spec

\* The client's variables keep to their types; its buffer is never overrun (buf_fill).
THEOREM TypeCorrect == ASSUME ~AnySeek PROVE Spec => []TypeOK
<1>1. IInv => TypeOK
  BY DEF IInv
<1> QED BY <1>1, Invariance, PTL

\* Whatever the network does, the buffer holds the bytes of the open file (buf_fill, tftp_read).
THEOREM BufferHoldsFile == ASSUME ~AnySeek PROVE Spec => []BufferIsFile
<1>1. IInv => BufferIsFile
  BY DEF IInv
<1> QED BY <1>1, Invariance, PTL

-----------------------------------------------------------------------------
(* The client implements NetFile.                                          *)

\* However buf_fill fails, the call fails, or tftp_read goes on to reopen the file.
LEMMA Returns0Fails ==
    ASSUME IInv, pc = "fill", Returns0, UNCHANGED copied
    PROVE  [Abstract!Next]_Abstract!vars
<1> USE DEF Returns0, OpenFails, Ends, file, copied
<1>1. CASE call \in {"dir", "count"}
  <2>1. Abstract!OpenEnds
    BY <1>1 DEF Abstract!OpenEnds
  <2> QED BY <2>1 DEF Abstract!Next
<1>2. CASE call = "read"
  <2>1. Abstract!ReadFails
    BY <1>2 DEF Abstract!ReadFails
  <2> QED BY <2>1 DEF Abstract!Next
<1>3. CASE call = "reopen"
  BY <1>3 DEF Abstract!vars
<1>4. CASE call = "close"
  <2>1. Abstract!CloseEnds
    BY <1>4 DEF Abstract!CloseEnds
  <2> QED BY <2>1 DEF Abstract!Next
<1> QED BY <1>1, <1>2, <1>3, <1>4

\* A step that changes nothing a caller sees.
LEMMA Unseen ==
    ASSUME UNCHANGED <<call, opened, filepos, copied>>,
           filemax' = filemax \/ call \in {"dir", "count"}
    PROVE  [Abstract!Next]_Abstract!vars
  BY DEF Abstract!vars, copied

LEMMA CopyCopies == ASSUME IInv, Copy PROVE [Abstract!Next]_Abstract!vars
<1> USE DEF IInv
<1> DEFINE amt == Amount(buf_read + saved_filepos - filepos)
<1>0. pc = "copy" /\ call = "read" /\ opened # None /\ Live /\ UNCHANGED <<opened, filemax>>
  BY DEF Copy, Kinds, Live
<1>1. /\ buf_read \in 0 .. BufLen /\ saved_filepos \in Nat /\ filepos \in Nat
      /\ left \in 0 .. MaxRead /\ left > 0 /\ MaxRead \in Nat /\ BufLen \in Nat
      /\ buf \in [0 .. BufLen - 1 -> Units]
  BY <1>0, TftpAssumption DEF TypeOK, Kinds
<1>2. saved_filepos <= filepos /\ filepos <= saved_filepos + buf_read
  BY <1>0 DEF Position
<1>3. amt \in 0 .. left /\ filepos + amt <= saved_filepos + buf_read
  BY <1>1, <1>2 DEF Amount
<1>4. CASE amt > 0
  <2>1. /\ left' = left - amt /\ filepos' = filepos + amt
        /\ out' = out \o [k \in 1 .. amt |-> MemoryAt(filepos - saved_filepos + k - 1)]
        /\ call' = IF left' = 0 THEN "none" ELSE "read"
    BY <1>0, <1>4 DEF Copy, Ends
  <2>2. ASSUME NEW k \in 1 .. amt
        PROVE  MemoryAt(filepos - saved_filepos + k - 1) = <<opened, filepos + k - 1>>
    <3>1. /\ filepos - saved_filepos + k - 1 \in 0 .. buf_read - 1
          /\ filepos - saved_filepos + k - 1 \in 0 .. BufLen - 1
          /\ saved_filepos + (filepos - saved_filepos + k - 1) = filepos + k - 1
      BY <1>1, <1>2, <1>3
    <3>2. buf[filepos - saved_filepos + k - 1]
            = <<opened, saved_filepos + (filepos - saved_filepos + k - 1)>>
      BY <1>0, <3>1 DEF BufferIsFile, Live
    <3> QED BY <1>1, <3>1, <3>2 DEF MemoryAt
  <2> HIDE DEF amt
  <2>3. out' = out \o Abstract!Bytes(opened, filepos, amt)
    BY <2>1, <2>2 DEF Abstract!Bytes
  <2>4. amt \in 1 .. left
    BY <1>1, <1>3, <1>4
  <2>5. Abstract!Copy
    BY <1>0, <2>1, <2>3, <2>4 DEF Abstract!Copy
  <2> QED BY <2>5 DEF Abstract!Next
<1>5. CASE ~(amt > 0)
  <2>1. UNCHANGED <<out, left, filepos>>
    BY <1>5 DEF Copy
  <2>2. UNCHANGED call
    BY <1>0, <1>1, <2>1 DEF Copy
  <2> QED BY <1>0, <2>1, <2>2, Unseen DEF copied
<1> QED BY <1>4, <1>5

LEMMA CallsBegin == ASSUME IInv, Open \/ Seek \/ Read \/ Close PROVE [Abstract!Next]_Abstract!vars
<1>0. call = "none" /\ filemax \in Nat \cup {-1} /\ filepos \in Nat
  BY DEF IInv, TypeOK, Open, Seek, Read, Close
<1>1. CASE Open
  <2>1. Abstract!Open
    BY <1>0, <1>1 DEF Open, Abstract!Open, copied
  <2> QED BY <2>1 DEF Abstract!Next
<1>2. CASE Seek
  <2>1. Abstract!Seek
    BY <1>0, <1>2 DEF Seek, Abstract!Seek, copied
  <2> QED BY <2>1 DEF Abstract!Next
<1>3. CASE Read
  <2>1. left' \in 1 .. filemax - filepos
    BY <1>0, <1>3, TftpAssumption DEF Read, Smaller
  <2>2. Abstract!Read
    BY <1>0, <1>3, <2>1 DEF Read, Abstract!Read, file
  <2> QED BY <2>2 DEF Abstract!Next
<1>4. CASE Close
  <2>1. Abstract!Close
    BY <1>0, <1>4 DEF Close, Abstract!Close, copied, file
  <2> QED BY <2>1 DEF Abstract!Next
<1> QED BY <1>1, <1>2, <1>3, <1>4

LEMMA FilledAnswers == ASSUME IInv, Filled PROVE [Abstract!Next]_Abstract!vars
<1> USE DEF Filled, copied
<1>0. pc = "fill" /\ opened # None
  BY DEF IInv, TypeOK, Kinds
<1>1. CASE call = "dir" /\ filemax # -1
  <2>1. opened \in Files /\ filemax = FileLen[opened]
    BY <1>0, <1>1 DEF IInv, Size
  <2>2. Abstract!OpenEnds
    BY <1>1, <2>1 DEF Abstract!OpenEnds, Ends, file, abort
  <2> QED BY <2>2 DEF Abstract!Next
<1>2. CASE (call = "dir" /\ filemax = -1) \/ call = "count"
  BY <1>2 DEF Abstract!vars, abort, Again
<1>3. CASE call = "read" /\ buf_read # 0
  BY <1>3, Unseen DEF file, abort
<1>4. CASE call = "read" /\ buf_read = 0
  <2>1. Abstract!ReadFails
    BY <1>4 DEF Abstract!ReadFails, Ends, file, abort
  <2> QED BY <2>1 DEF Abstract!Next
<1>5. CASE abort
  BY <1>0, <1>5, Returns0Fails DEF abort
<1> QED BY <1>1, <1>2, <1>3, <1>4, <1>5

LEMMA SendRrqSeen == ASSUME IInv, SendRrq PROVE [Abstract!Next]_Abstract!vars
<1>0. UNCHANGED copied
  BY DEF SendRrq
<1>1. CASE UNCHANGED <<call, opened, filemax, filepos>>
  BY <1>0, <1>1, Unseen
<1>2. CASE call = "reopen" /\ call' = "read" /\ UNCHANGED file
  BY <1>0, <1>2 DEF Abstract!vars, file, copied
<1>3. CASE call = "dir" /\ OpenFails("write")
  <2>1. Abstract!OpenEnds
    BY <1>0, <1>3 DEF Abstract!OpenEnds, OpenFails, Ends, copied
  <2> QED BY <2>1 DEF Abstract!Next
<1>4. CASE call = "reopen" /\ Ends("write") /\ UNCHANGED file
  <2>1. Abstract!ReadFails
    BY <1>0, <1>4 DEF Abstract!ReadFails, Ends, file, copied
  <2> QED BY <2>1 DEF Abstract!Next
<1> QED BY <1>1, <1>2, <1>3, <1>4 DEF SendRrq, file

LEMMA ReceivedUnseen ==
    ASSUME IInv, Timeout \/ CtrlC \/ ReceiveError \/ ReceiveOack \/ ReceiveData
    PROVE  [Abstract!Next]_Abstract!vars
<1>0. pc = "fill" /\ opened # None /\ Live /\ UNCHANGED copied
  BY DEF IInv, TypeOK, Kinds, Live, Timeout, CtrlC, ReceiveError, ReceiveOack, ReceiveData, Filling
<1>1. CASE Returns0
  BY <1>0, <1>1, Returns0Fails
<1>2. CASE Again /\ UNCHANGED filemax
  BY <1>0, <1>2, Unseen DEF Again
<1>3. CASE ReceiveOack /\ Again
  <2>1. PICK m \in Arrived("OACK") :
          filemax' = (IF m.tsize = -1 THEN filemax ELSE m.tsize) \/ Returns0
    BY <1>3 DEF ReceiveOack
  <2>2. \E f \in Files : m.tsize \in {-1, FileLen[f]} /\ opened = f
    BY <1>0 DEF IInv, Arrived, Net, AnswerOK
  <2>3. CASE call \in {"dir", "count"}
    BY <1>0, <1>3, <2>3, Unseen DEF Again
  <2>4. CASE call \notin {"dir", "count"} /\ ~Returns0
    <3>1. filemax = FileLen[opened]
      BY <1>0, <2>4 DEF IInv, Size
    <3>2. filemax' = filemax
      BY <2>1, <2>2, <2>4, <3>1
    <3> QED BY <1>0, <1>3, <3>2, Unseen DEF Again
  <2> QED BY <1>1, <2>3, <2>4
<1> QED BY <1>1, <1>2, <1>3 DEF Timeout, CtrlC, ReceiveError, ReceiveOack, ReceiveData

\* GRUB's network drive is a file system: an open file has its size, and reads copy what is at
\* filepos or fail, whatever the network does (tftp_dir, tftp_read, tftp_close).
THEOREM ImplementsNetFile == ASSUME ~AnySeek PROVE Spec => ReadsTheFile
<1>1. Init => Abstract!Init
  BY DEF Init, Abstract!Init
<1>2. IInv /\ [Next]_vars => [Abstract!Next]_Abstract!vars
  <2> SUFFICES ASSUME IInv, [Next]_vars PROVE [Abstract!Next]_Abstract!vars
    OBVIOUS
  <2>1. CASE Serve \/ Acked \/ UNCHANGED vars
    BY <2>1, Unseen DEF Serve, Acked, vars, client, file, copied
  <2>2. CASE SendRrq
    BY <2>2, SendRrqSeen
  <2>3. CASE Timeout \/ CtrlC \/ ReceiveError \/ ReceiveOack \/ ReceiveData
    BY <2>3, ReceivedUnseen
  <2>4. CASE Filled
    BY <2>4, FilledAnswers
  <2>5. CASE Open \/ Seek \/ Read \/ Close
    BY <2>5, CallsBegin
  <2>6. CASE Copy
    BY <2>6, CopyCopies
  <2> QED BY <2>1, <2>2, <2>3, <2>4, <2>5, <2>6 DEF Next
<1> QED BY <1>1, <1>2, Invariance, PTL DEF Spec, ReadsTheFile, Abstract!Spec
=============================================================================
