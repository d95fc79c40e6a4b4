---------------------------- MODULE Wubi_proofs -----------------------------
(***************************************************************************)
(* What wubi and the boot loader it brings promise. NetConfig, *)
(* for every set of servers and number of retries and commands: when the   *)
(* network is ready, its address was granted; what is requested was        *)
(* offered. WubiInstall, for all drives and identifiers and any set of     *)
(* faults: what installing and uninstalling leave on the machine.          *)
(***************************************************************************)
EXTENDS WubiInstall, NetConfig, TLAPS

-----------------------------------------------------------------------------
(* NetConfig.                                                              *)

Types == {"OFFER", "ACK", "NAK", "none", "RARP"}

\* What a reply says of its type is true: a refusal gives no address.
RepliesAreTyped == \A m \in replies : m.type \in Types /\ (m.type = "NAK" => m.addr = NoAddress)

\* The network is ready only between commands.
ReadyIsIdle == network_ready => pc = "idle"

IInv == RepliesAreTyped /\ ReadyIsIdle /\ ReadyIsGranted /\ RequestsTheOffer

-----------------------------------------------------------------------------

\* At first nothing is ready and nothing is requested.
LEMMA InitIInv == NetInit => IInv
  BY DEF NetInit, IInv, RepliesAreTyped, ReadyIsIdle, ReadyIsGranted, RequestsTheOffer, Discover

\* Servers add replies and take none away.
LEMMA ServeAdds ==
  ASSUME IInv, Serve
  PROVE  IInv'
<1> USE DEF IInv
<1>1. PICK s \in Servers, m \in sent : Answer(s, m)
  BY DEF Serve
<1>2. \E x, a : \E type \in Types :
        replies' = replies \cup {Reply(x, type, s, a)} /\ (type = "NAK" => a = NoAddress)
  <2>1. CASE replies' = replies \cup {Reply(m.xid, "none", s, Offer[s])}
    BY <2>1 DEF Types
  <2>2. CASE replies' = replies \cup {Reply(m.xid, "OFFER", s, Offer[s])}
    BY <2>2 DEF Types
  <2>3. CASE replies' = replies \cup {Reply(m.xid, "NAK", s, NoAddress)}
    BY <2>3 DEF Types
  <2>4. CASE replies' = replies \cup {Reply(m.xid, "ACK", s, Offer[s])}
    BY <2>4 DEF Types
  <2>5. CASE replies' = replies \cup {Reply(0, "RARP", s, Offer[s])}
    BY <2>5 DEF Types
  <2> QED BY <1>1, <2>1, <2>2, <2>3, <2>4, <2>5 DEF Answer
<1>2a. PICK x, a : \E type \in Types :
        replies' = replies \cup {Reply(x, type, s, a)} /\ (type = "NAK" => a = NoAddress)
  BY <1>2
<1>2b. PICK type \in Types :
        replies' = replies \cup {Reply(x, type, s, a)} /\ (type = "NAK" => a = NoAddress)
  BY <1>2a
<1> DEFINE new == Reply(x, type, s, a)
<1>3. /\ replies' = replies \cup {new}
      /\ new.type \in Types /\ (new.type = "NAK" => new.addr = NoAddress)
  BY <1>2b DEF Reply
<1> HIDE DEF new
<1>4. UNCHANGED <<pc, xid, packet, client, server, network_ready, typed>>
  BY DEF Serve, loops, dhcp, addresses
<1>5. RepliesAreTyped'
  BY <1>3 DEF RepliesAreTyped
<1>6. ReadyIsIdle'
  BY <1>4 DEF ReadyIsIdle
<1>7. ReadyIsGranted'
  BY <1>3, <1>4 DEF ReadyIsGranted, Refused, Granted
<1>8. RequestsTheOffer'
  BY <1>3, <1>4 DEF RequestsTheOffer
<1> QED BY <1>5, <1>6, <1>7, <1>8

\* A reply that is taken sets the addresses: those of a grant, unless it is an offer or a
\* refusal.
LEMMA TakenIsGranted ==
  ASSUME IInv, NEW m \in replies, ForUs(m), TakeAddresses(m), UNCHANGED <<replies, xid>>,
         m.type # "OFFER"
  PROVE  (Refused \/ \E n \in Granted : client = n.addr /\ server = n.from)'
<1>1. m.type \in {"ACK", "NAK", "none"}
  BY DEF IInv, RepliesAreTyped, Types, ForUs
<1>2. CASE m.type = "NAK"
  BY <1>2 DEF IInv, RepliesAreTyped, ForUs, TakeAddresses, Refused
<1>3. CASE m.type \in {"ACK", "none"}
  <2>1. m \in Granted'
    BY <1>3 DEF ForUs, Granted
  <2>2. client' = m.addr /\ server' = m.from
    BY <1>3 DEF TakeAddresses
  <2> QED BY <2>1, <2>2
<1> QED BY <1>1, <1>2, <1>3

\* The replies that end or prolong a call of bootp.
LEMMA ReceiveReplyKeeps ==
  ASSUME IInv, ReceiveReply
  PROVE  IInv'
<1>1. PICK m \in replies :
        /\ ForUs(m) /\ TakeAddresses(m)
        /\ IF TypeFound(m) = "OFFER" THEN TakeOffer(m)
           ELSE Returns(TRUE) /\ dhcp_reply' = TypeFound(m) /\ UNCHANGED <<packet, reqretry>>
  BY DEF ReceiveReply
<1>2. UNCHANGED <<replies, xid, typed>> /\ pc = "await"
  BY DEF ReceiveReply
<1>3. ~network_ready
  BY <1>2 DEF IInv, ReadyIsIdle
<1>4. RepliesAreTyped'
  BY <1>2 DEF IInv, RepliesAreTyped
<1>5. CASE TypeFound(m) = "OFFER"
  <2>1. UNCHANGED network_ready /\ packet' = RequestOf(dhcp_server', m.addr)
    BY <1>1, <1>5 DEF TakeOffer, Requests
  <2>2. ASSUME \A n \in replies : n.type # "none"
        PROVE  m.type = "OFFER" /\ dhcp_server' = m.from /\ m.xid = xid
    BY <1>1, <1>5, <2>2 DEF TypeFound, TakeAddresses, ForUs
  <2>3. RequestsTheOffer'
    BY <1>2, <2>1, <2>2 DEF RequestsTheOffer, RequestOf
  <2> QED BY <1>3, <1>4, <2>1, <2>3 DEF IInv, ReadyIsIdle, ReadyIsGranted
<1>6. CASE TypeFound(m) # "OFFER"
  <2>1. network_ready' /\ pc' = "idle" /\ UNCHANGED packet
    BY <1>1, <1>6 DEF Returns
  <2>2. m.type # "OFFER"
    BY <1>6 DEF TypeFound
  <2>3. ReadyIsGranted'
    BY <1>1, <1>2, <2>2, TakenIsGranted DEF ReadyIsGranted
  <2>4. RequestsTheOffer'
    BY <1>2, <2>1 DEF IInv, RequestsTheOffer
  <2> QED BY <1>4, <2>1, <2>3, <2>4 DEF IInv, ReadyIsIdle
<1> QED BY <1>5, <1>6

\* Of the replies to a request only an acknowledgement makes the network ready.
LEMMA ReceiveAckKeeps ==
  ASSUME IInv, ReceiveAck
  PROVE  IInv'
<1>1. PICK m \in replies :
        /\ ForUs(m) /\ TakeAddresses(m)
        /\ dhcp_reply' = TypeFound(m)
        /\ IF Accepts(dhcp_reply') THEN Returns(TRUE) ELSE pc' = "inner" /\ UNCHANGED network_ready
  BY DEF ReceiveAck
<1>2. UNCHANGED <<replies, xid, typed, packet>> /\ pc = "awaitack"
  BY DEF ReceiveAck
<1>3. ~network_ready
  BY <1>2 DEF IInv, ReadyIsIdle
<1>4. RepliesAreTyped' /\ RequestsTheOffer'
  BY <1>2 DEF IInv, RepliesAreTyped, RequestsTheOffer
<1>5. CASE TypeFound(m) = "ACK"
  <2>1. network_ready' /\ pc' = "idle"
    BY <1>1, <1>5 DEF Returns, Accepts
  <2>2. m.type # "OFFER"
    BY <1>5 DEF TypeFound
  <2>3. ReadyIsGranted'
    BY <1>1, <1>2, <2>2, TakenIsGranted DEF ReadyIsGranted
  <2> QED BY <1>4, <2>1, <2>3 DEF IInv, ReadyIsIdle
<1>6. CASE TypeFound(m) # "ACK"
  <2>1. UNCHANGED network_ready
    BY <1>1, <1>6 DEF Accepts
  <2> QED BY <1>3, <1>4, <2>1 DEF IInv, ReadyIsIdle, ReadyIsGranted
<1> QED BY <1>5, <1>6

\* An answer of RARP is a grant.
LEMMA ReceiveRarpKeeps ==
  ASSUME IInv, ReceiveRarp
  PROVE  IInv'
<1>1. PICK m \in replies : m.type = "RARP" /\ client' = m.addr /\ server' = m.from
  BY DEF ReceiveRarp
<1>2. UNCHANGED <<replies, xid, packet>> /\ pc' = "idle"
  BY DEF ReceiveRarp, dhcp, Returns
<1>3. m \in Granted'
  BY <1>1, <1>2 DEF Granted
<1> QED BY <1>1, <1>2, <1>3 DEF IInv, RepliesAreTyped, ReadyIsIdle, ReadyIsGranted, RequestsTheOffer

\* What the user types is what it is about no longer.
LEMMA IfconfigKeeps ==
  ASSUME IInv, Ifconfig
  PROVE  IInv'
<1>1. PICK ip \in Typed \cup {NoAddress}, svr \in Typed \cup {NoAddress}, mask \in BOOLEAN, bad \in BOOLEAN :
        /\ client' = IF ip = NoAddress THEN client ELSE ip
        /\ server' = IF svr = NoAddress \/ bad THEN server ELSE svr
        /\ typed' = (typed \/ ip # NoAddress \/ mask \/ svr # NoAddress)
        /\ IF bad \/ (ip = NoAddress /\ ~mask) THEN UNCHANGED network_ready
           ELSE network_ready' \in IF client' = NoAddress THEN {FALSE} ELSE BOOLEAN
  BY DEF Ifconfig
<1>2. UNCHANGED <<pc, replies, xid, packet>> /\ pc = "idle"
  BY DEF Ifconfig, loops, dhcp
<1>3. CASE ~typed'
  <2>1. ~typed /\ UNCHANGED <<client, server, network_ready>>
    BY <1>1, <1>3
  <2> QED BY <1>2, <1>3, <2>1
          DEF IInv, RepliesAreTyped, ReadyIsIdle, ReadyIsGranted, Refused, Granted, RequestsTheOffer
<1>4. CASE typed'
  BY <1>2, <1>4 DEF IInv, RepliesAreTyped, ReadyIsIdle, ReadyIsGranted, RequestsTheOffer
<1> QED BY <1>3, <1>4

\* The steps that take no reply: a new call requests nothing yet and forgets that the network
\* was ready, the others leave the addresses and the request alone.
LEMMA OthersKeep ==
  ASSUME IInv,
         \/ Bootp \/ Transmit \/ TransmitRequest \/ Timeout \/ CtrlC \/ Rarp \/ RarpTimeout \/ Cleanup
         \/ UNCHANGED netVars
  PROVE  IInv'
<1> USE DEF IInv, RepliesAreTyped, ReadyIsIdle, ReadyIsGranted, Refused, Granted, RequestsTheOffer,
            loops, dhcp, addresses
<1>1. CASE Bootp
  BY <1>1 DEF Bootp, Discover
<1>2. CASE Transmit
  BY <1>2 DEF Transmit, Returns
<1>3. CASE TransmitRequest
  BY <1>3 DEF TransmitRequest
<1>4. CASE Timeout
  BY <1>4 DEF Timeout
<1>5. CASE CtrlC
  BY <1>5 DEF CtrlC, Returns
<1>6. CASE Rarp
  BY <1>6 DEF Rarp
<1>7. CASE RarpTimeout
  BY <1>7 DEF RarpTimeout, Returns
<1>8. CASE Cleanup
  BY <1>8 DEF Cleanup
<1>9. CASE UNCHANGED netVars
  BY <1>9 DEF netVars
<1> QED BY <1>1, <1>2, <1>3, <1>4, <1>5, <1>6, <1>7, <1>8, <1>9

\* Every step keeps the inductive invariant.
LEMMA Inductive == NetSpec => []IInv
<1>1. IInv /\ [NetNext]_netVars => IInv'
  BY ServeAdds, ReceiveReplyKeeps, ReceiveAckKeeps, ReceiveRarpKeeps, IfconfigKeeps, OthersKeep
     DEF NetNext
<1> QED BY InitIInv, <1>1, PTL DEF NetSpec

-----------------------------------------------------------------------------

\* bootp, rarp and ifconfig: a network that is ready has the addresses that one server granted,
\* whatever the network does to the replies, but for the refusal that is taken for success.
THEOREM ReadyIsGrantedHolds == NetSpec => []ReadyIsGranted
  BY Inductive, PTL DEF IInv

\* bootp and decode_rfc1533: a request names a server and the address that it offered.
THEOREM RequestsTheOfferHolds == NetSpec => []RequestsTheOffer
  BY Inductive, PTL DEF IInv

-----------------------------------------------------------------------------
(* WubiInstall. The invariants say what holds at each task as long as      *)
(* certain faults have not happened.                                       *)

USE Machine DEF Machine

Installing   == {"register", "files", "fetch", "boot", "create", "aim", "record", "rest", "complete"}
Uninstalling == {"undo", "clear", "unlink", "rmtree", "unregister"}

\* The directory that wubi works on is a drive's, there while it installs into
\* it, and the registered one while it uninstalls.
Placed ==
  /\ run.at \notin {"idle", "settings"} => run.dir \in Drive
  /\ run.at \in Installing => run.dir \in made
  /\ run.at \in {"aim", "record"} => run.id \in Id
  /\ run.at \in Uninstalling => run.dir = key.dir

TypeInv == TypeOK /\ Placed

LEMMA InitTypeInv == Init => TypeInv
  <1> SUFFICES ASSUME Init PROVE TypeInv
    OBVIOUS
  <1>1. run.at = "idle" /\ run \in [at : Steps, dir : Drive \cup {None}, id : Id \cup {None}, image : BOOLEAN]
    BY DEF Init, Idle, Away, Steps
  <1>2. key \in [dir : Drive \cup {None}, boot : Id \cup {None}]
    BY DEF Init, NoKey
  <1>3. Placed
    BY <1>1 DEF Placed, Installing, Uninstalling
  <1> QED BY <1>1, <1>2, <1>3 DEF Init, TypeInv, TypeOK

LEMMA NextTypeInv == TypeInv /\ [Next]_vars => TypeInv'
  <1> SUFFICES ASSUME TypeInv, [Next]_vars PROVE TypeInv'
    OBVIOUS
  <1> USE DEF TypeInv, TypeOK, Placed, NoKey, Idle, Away, Goto, Rest, Steps, Boundaries,
       Installing, Uninstalling, Fault
  <1>1. CASE Start  BY <1>1 DEF Start
  <1>2. CASE CreateDirs  BY <1>2 DEF CreateDirs
  <1>3. CASE CreateUninstaller  BY <1>3 DEF CreateUninstaller
  <1>4. CASE CopyWinboot  BY <1>4 DEF CopyWinboot
  <1>5. CASE Fetch  BY <1>5 DEF Fetch
  <1>6. CASE CopyLoader  BY <1>6 DEF CopyLoader
  <1>7. CASE AimEntry  BY <1>7 DEF AimEntry
  <1>8. CASE RecordEntry  BY <1>8 DEF RecordEntry
  <1>9. CASE FinishTasks  BY <1>9 DEF FinishTasks
  <1>10. CASE LeaveFinishPage  BY <1>10 DEF LeaveFinishPage
  <1>11. CASE DeleteEntry  BY <1>11 DEF DeleteEntry
  <1>12. CASE SkipEntry  BY <1>12 DEF SkipEntry
  <1>13. CASE ClearRecord  BY <1>13 DEF ClearRecord
  <1>14. CASE RemoveLoader  BY <1>14 DEF RemoveLoader
  <1>15. CASE RemoveFiles  BY <1>15 DEF RemoveFiles
  <1>16. CASE RemoveDir  BY <1>16 DEF RemoveDir
  <1>17. CASE KeepDir  BY <1>17 DEF KeepDir
  <1>18. CASE RemoveKey  BY <1>18 DEF RemoveKey
  <1>19. CASE Uninstalled
    <2>1. CASE run' = Away("idle")  BY <1>19, <2>1 DEF Uninstalled
    <2>2. CASE run' = Away("settings")  BY <1>19, <2>2 DEF Uninstalled
    <2> QED BY <1>19, <2>1, <2>2 DEF Uninstalled
  <1>20. CASE Abandon  BY <1>20 DEF Abandon
  <1>21. CASE Killed  BY <1>21 DEF Killed
  <1>22. ASSUME NEW d \in Drive, RemoveByHand(d) PROVE TypeInv'
    BY <1>22 DEF RemoveByHand
  <1>23. ASSUME NEW d \in Drive, NEW image \in BOOLEAN, Choose(d, image) PROVE TypeInv'
    BY <1>23 DEF Choose
  <1>24. ASSUME NEW i \in Id, CreateEntry(i) PROVE TypeInv'
    BY <1>24 DEF CreateEntry
  <1>25. CASE UNCHANGED vars  BY <1>25 DEF vars
  <1> QED
    BY <1>1, <1>2, <1>3, <1>4, <1>5, <1>6, <1>7, <1>8, <1>9, <1>10, <1>11, <1>12,
       <1>13, <1>14, <1>15, <1>16, <1>17, <1>18, <1>19, <1>20, <1>21, <1>22, <1>23, <1>24, <1>25 DEF Next

LEMMA AlwaysTypeInv == Spec => []TypeInv
  BY InitTypeInv, NextTypeInv, PTL DEF Spec

\* The machine's and wubi's state keep to their values.
THEOREM TypeCorrect == Spec => []TypeOK
  <1>1. TypeInv => TypeOK  BY DEF TypeInv
  <1> QED BY <1>1, AlwaysTypeInv, PTL
-----------------------------------------------------------------------------
(* The registered directory. As long as no locked file has made            *)
(* remove_target_dir give up without a word, nothing is in a directory     *)
(* that is not registered but the directories themselves.                  *)

KeyInv == Spared({"locked"}) =>
  /\ winboot \subseteq {key.dir}
  /\ run.at \in {"settings", "mkdir"} => key.dir \notin made
  /\ run.at = "register" => winboot = {} /\ (key.dir \in made => key.dir = run.dir)
  /\ run.at \in Installing \ {"register"} => key.dir = run.dir
  /\ run.at = "unregister" => run.dir \notin made
  /\ run.at = "uninstalled" => key = NoKey

LEMMA InitKeyInv == Init => KeyInv
  BY DEF Init, KeyInv, NoKey, Idle, Away, Installing

LEMMA NextKeyInv == TypeInv /\ KeyInv /\ [Next]_vars => KeyInv'
  <1> SUFFICES ASSUME TypeInv, KeyInv, [Next]_vars PROVE KeyInv'
    OBVIOUS
  <1> USE DEF TypeInv, TypeOK, Placed, NoKey, Idle, Away, Goto, Rest, Steps, Boundaries,
       Installing, Uninstalling, Fault, KeyInv, Spared
  <1>1. CASE Start  BY <1>1 DEF Start
  <1>2. CASE CreateDirs  BY <1>2 DEF CreateDirs
  <1>3. CASE CreateUninstaller  BY <1>3 DEF CreateUninstaller
  <1>4. CASE CopyWinboot  BY <1>4 DEF CopyWinboot
  <1>5. CASE Fetch  BY <1>5 DEF Fetch
  <1>6. CASE CopyLoader  BY <1>6 DEF CopyLoader
  <1>7. CASE AimEntry  BY <1>7 DEF AimEntry
  <1>8. CASE RecordEntry  BY <1>8 DEF RecordEntry
  <1>9. CASE FinishTasks  BY <1>9 DEF FinishTasks
  <1>10. CASE LeaveFinishPage  BY <1>10 DEF LeaveFinishPage
  <1>11. CASE DeleteEntry  BY <1>11 DEF DeleteEntry
  <1>12. CASE SkipEntry  BY <1>12 DEF SkipEntry
  <1>13. CASE ClearRecord  BY <1>13 DEF ClearRecord
  <1>14. CASE RemoveLoader  BY <1>14 DEF RemoveLoader
  <1>15. CASE RemoveFiles  BY <1>15 DEF RemoveFiles
  <1>16. CASE RemoveDir  BY <1>16 DEF RemoveDir
  <1>17. CASE KeepDir  BY <1>17 DEF KeepDir
  <1>18. CASE RemoveKey  BY <1>18 DEF RemoveKey
  <1>19. CASE Uninstalled  BY <1>19 DEF Uninstalled
  <1>20. CASE Abandon  BY <1>20 DEF Abandon
  <1>21. CASE Killed  BY <1>21 DEF Killed
  <1>22. ASSUME NEW d \in Drive, RemoveByHand(d) PROVE KeyInv'
    BY <1>22 DEF RemoveByHand
  <1>23. ASSUME NEW d \in Drive, NEW image \in BOOLEAN, Choose(d, image) PROVE KeyInv'
    BY <1>23 DEF Choose
  <1>24. ASSUME NEW i \in Id, CreateEntry(i) PROVE KeyInv'
    BY <1>24 DEF CreateEntry
  <1>25. CASE UNCHANGED vars  BY <1>25 DEF vars
  <1> QED
    BY <1>1, <1>2, <1>3, <1>4, <1>5, <1>6, <1>7, <1>8, <1>9, <1>10, <1>11, <1>12,
       <1>13, <1>14, <1>15, <1>16, <1>17, <1>18, <1>19, <1>20, <1>21, <1>22, <1>23, <1>24, <1>25 DEF Next

LEMMA KeyStep == TypeInv /\ KeyInv /\ [Next]_vars => [NotForgotten]_vars
  <1> SUFFICES ASSUME TypeInv, KeyInv, [Next]_vars PROVE NotForgotten \/ UNCHANGED vars
    OBVIOUS
  <1>1. CASE key' = key  BY <1>1 DEF NotForgotten
  <1>2. CASE CreateUninstaller
    BY <1>2 DEF CreateUninstaller, NotForgotten, KeyInv, Spared, TypeInv, TypeOK
  <1>3. CASE RecordEntry \/ ClearRecord
    BY <1>3 DEF RecordEntry, ClearRecord, NotForgotten, TypeInv, TypeOK
  <1>4. CASE RemoveKey
    BY <1>4 DEF RemoveKey, NotForgotten, KeyInv, Spared, TypeInv, TypeOK, Placed, Uninstalling
  <1> QED BY <1>1, <1>2, <1>3, <1>4 DEF Next, vars, Start, CreateDirs, CopyWinboot, Fetch,
       CopyLoader, AimEntry, FinishTasks, LeaveFinishPage, DeleteEntry, SkipEntry, RemoveLoader,
       RemoveFiles, RemoveDir, KeepDir, Uninstalled, Abandon, Killed, RemoveByHand, Choose, CreateEntry

LEMMA AlwaysKeyInv == Spec => [](TypeInv /\ KeyInv)
  <1>1. TypeInv /\ KeyInv /\ [Next]_vars => KeyInv'
    BY NextKeyInv
  <1> QED BY <1>1, InitKeyInv, AlwaysTypeInv, PTL DEF Spec

\* Boot files are in no directory but the registered one.
THEOREM FilesRegistered == Spec => []FilesAreRegistered
  <1>1. KeyInv => FilesAreRegistered  BY DEF KeyInv, FilesAreRegistered
  <1> QED BY <1>1, AlwaysKeyInv, PTL

\* No step gives up the registration of a directory that is there.
THEOREM RegistrationStays == Spec => NeverForgotten
  <1>1. TypeInv /\ KeyInv /\ [Next]_vars => [NotForgotten]_vars
    BY KeyStep
  <1> QED BY <1>1, AlwaysKeyInv, PTL DEF Spec, NeverForgotten

-----------------------------------------------------------------------------
(* The boot entry. As long as undo_bcd does what it is called for and the  *)
(* user leaves the directory to wubi, whatever installations were stopped  *)
(* half way.                                                               *)

BootFaults == {"killClear", "delete", "byHand"}

\* Nothing is recorded from the settings page to the end of modify_bcd.
Unrecorded ==
  \/ run.at \in {"settings", "mkdir", "register", "fetch", "boot", "create", "aim", "record",
                 "unlink", "rmtree", "unregister", "uninstalled"}
  \/ run.at = "files" /\ ~run.image

\* The boot loader is set up: the tasks after modify_bootloader.
Recorded ==
  \/ run.at \in {"rest", "complete"}
  \/ run.at = "files" /\ run.image

BootInv == Spared(BootFaults) =>
  /\ key.boot # None /\ run.at # "clear" => entries[key.boot] = key.dir /\ key.dir \in made
  /\ Unrecorded => key.boot = None
  /\ Recorded => key.boot # None /\ loader
  /\ run.at \in {"create", "aim", "record"} => loader
  /\ run.at \in Installing \ {"register"} => key.dir = run.dir
  /\ run.at = "record" => entries[run.id] = run.dir
  /\ run.at = "rest" => ~run.image
  /\ run.at \in {"fetch", "boot", "create", "aim", "record", "rest"} /\ ~run.image => run.dir \in winboot
  /\ run.at = "complete" => run.dir \in winboot

LEMMA InitBootInv == Init => BootInv
  BY DEF Init, BootInv, Unrecorded, Recorded, NoKey, Idle, Away, Installing

LEMMA NextBootInv ==
  TypeInv /\ BootInv /\ [Next]_vars => BootInv'
  <1> SUFFICES ASSUME TypeInv, BootInv, [Next]_vars PROVE BootInv'
    OBVIOUS
  <1> USE DEF TypeInv, TypeOK, Placed, NoKey, Idle, Away, Goto, Rest, Steps, Boundaries,
       Installing, Uninstalling, Fault, BootInv, Spared, Unrecorded, Recorded, BootFaults
  <1>1. CASE Start  BY <1>1 DEF Start
  <1>2. CASE CreateDirs  BY <1>2 DEF CreateDirs
  <1>3. CASE CreateUninstaller  BY <1>3 DEF CreateUninstaller
  <1>4. CASE CopyWinboot  BY <1>4 DEF CopyWinboot
  <1>5. CASE Fetch  BY <1>5 DEF Fetch
  <1>6. CASE CopyLoader  BY <1>6 DEF CopyLoader
  <1>7. CASE AimEntry  BY <1>7 DEF AimEntry
  <1>8. CASE RecordEntry  BY <1>8 DEF RecordEntry
  <1>9. CASE FinishTasks  BY <1>9 DEF FinishTasks
  <1>10. CASE LeaveFinishPage  BY <1>10 DEF LeaveFinishPage
  <1>11. CASE DeleteEntry  BY <1>11 DEF DeleteEntry
  <1>12. CASE SkipEntry  BY <1>12 DEF SkipEntry
  <1>13. CASE ClearRecord  BY <1>13 DEF ClearRecord
  <1>14. CASE RemoveLoader  BY <1>14 DEF RemoveLoader
  <1>15. CASE RemoveFiles  BY <1>15 DEF RemoveFiles
  <1>16. CASE RemoveDir  BY <1>16 DEF RemoveDir
  <1>17. CASE KeepDir  BY <1>17 DEF KeepDir
  <1>18. CASE RemoveKey  BY <1>18 DEF RemoveKey
  <1>19. CASE Uninstalled  BY <1>19 DEF Uninstalled
  <1>20. CASE Abandon  BY <1>20 DEF Abandon
  <1>21. CASE Killed  BY <1>21 DEF Killed
  <1>22. ASSUME NEW d \in Drive, RemoveByHand(d) PROVE BootInv'
    BY <1>22 DEF RemoveByHand
  <1>23. ASSUME NEW d \in Drive, NEW image \in BOOLEAN, Choose(d, image) PROVE BootInv'
    BY <1>23 DEF Choose
  <1>24. ASSUME NEW i \in Id, CreateEntry(i) PROVE BootInv'
    BY <1>24 DEF CreateEntry
  <1>25. CASE UNCHANGED vars  BY <1>25 DEF vars
  <1> QED
    BY <1>1, <1>2, <1>3, <1>4, <1>5, <1>6, <1>7, <1>8, <1>9, <1>10, <1>11, <1>12,
       <1>13, <1>14, <1>15, <1>16, <1>17, <1>18, <1>19, <1>20, <1>21, <1>22, <1>23, <1>24, <1>25 DEF Next

LEMMA AlwaysBootInv == Spec => [](TypeInv /\ BootInv)
  <1>1. TypeInv /\ BootInv /\ [Next]_vars => BootInv'
    BY NextBootInv
  <1> QED BY <1>1, InitBootInv, AlwaysTypeInv, PTL DEF Spec

\* A recorded entry starts the registered installation, whose directory is there.
THEOREM RecordsAreTrue == Spec => []RecordIsTrue
  <1>1. BootInv => RecordIsTrue  BY DEF BootInv, RecordIsTrue, BootFaults
  <1> QED BY <1>1, AlwaysBootInv, PTL

\* Every installation that completes can be started from the boot menu.
THEOREM CompletedBoots == Spec => []InstalledBoots
  <1>1. TypeInv /\ BootInv => InstalledBoots
    BY DEF TypeInv, TypeOK, BootInv, Recorded, BootFaults, InstalledBoots, AddsBootEntry, Installing
  <1> QED BY <1>1, AlwaysBootInv, PTL

-----------------------------------------------------------------------------
(* What an uninstallation leaves. Entries are recorded or about to be, so  *)
(* undo_bcd finds the one there is, unless modify_bcd was stopped between  *)
(* creating an entry and recording it.                                     *)

EntryFaults == {"killEntry", "bcdedit", "delete", "locked"}

EntryInv == Spared(EntryFaults) =>
  /\ \A i \in Id : entries[i] # None =>
       \/ key.boot = i
       \/ run.at \in {"aim", "record"} /\ run.id = i
  /\ run.at \in {"create", "aim", "record"} => key.boot = None
  /\ run.at \in {"clear", "unlink", "rmtree", "unregister", "uninstalled"} =>
       \A i \in Id : entries[i] = None
  /\ run.at \in {"unregister", "uninstalled"} => run.dir \notin made

LEMMA InitEntryInv == Init => EntryInv
  BY DEF Init, EntryInv, Idle, Away

LEMMA NextEntryInv == TypeInv /\ EntryInv /\ [Next]_vars => EntryInv'
  <1> SUFFICES ASSUME TypeInv, EntryInv, [Next]_vars PROVE EntryInv'
    OBVIOUS
  <1> USE DEF TypeInv, TypeOK, Placed, NoKey, Idle, Away, Goto, Rest, Steps, Boundaries,
       Installing, Uninstalling, Fault, EntryInv, Spared, EntryFaults
  <1>1. CASE Start  BY <1>1 DEF Start
  <1>2. CASE CreateDirs  BY <1>2 DEF CreateDirs
  <1>3. CASE CreateUninstaller  BY <1>3 DEF CreateUninstaller
  <1>4. CASE CopyWinboot  BY <1>4 DEF CopyWinboot
  <1>5. CASE Fetch  BY <1>5 DEF Fetch
  <1>6. CASE CopyLoader  BY <1>6 DEF CopyLoader
  <1>7. CASE AimEntry  BY <1>7 DEF AimEntry
  <1>8. CASE RecordEntry  BY <1>8 DEF RecordEntry
  <1>9. CASE FinishTasks  BY <1>9 DEF FinishTasks
  <1>10. CASE LeaveFinishPage  BY <1>10 DEF LeaveFinishPage
  <1>11. CASE DeleteEntry  BY <1>11 DEF DeleteEntry
  <1>12. CASE SkipEntry  BY <1>12 DEF SkipEntry
  <1>13. CASE ClearRecord  BY <1>13 DEF ClearRecord
  <1>14. CASE RemoveLoader  BY <1>14 DEF RemoveLoader
  <1>15. CASE RemoveFiles  BY <1>15 DEF RemoveFiles
  <1>16. CASE RemoveDir  BY <1>16 DEF RemoveDir
  <1>17. CASE KeepDir  BY <1>17 DEF KeepDir
  <1>18. CASE RemoveKey  BY <1>18 DEF RemoveKey
  <1>19. CASE Uninstalled  BY <1>19 DEF Uninstalled
  <1>20. CASE Abandon  BY <1>20 DEF Abandon
  <1>21. CASE Killed  BY <1>21 DEF Killed
  <1>22. ASSUME NEW d \in Drive, RemoveByHand(d) PROVE EntryInv'
    BY <1>22 DEF RemoveByHand
  <1>23. ASSUME NEW d \in Drive, NEW image \in BOOLEAN, Choose(d, image) PROVE EntryInv'
    BY <1>23 DEF Choose
  <1>24. ASSUME NEW i \in Id, CreateEntry(i) PROVE EntryInv'
    BY <1>24 DEF CreateEntry
  <1>25. CASE UNCHANGED vars  BY <1>25 DEF vars
  <1> QED
    BY <1>1, <1>2, <1>3, <1>4, <1>5, <1>6, <1>7, <1>8, <1>9, <1>10, <1>11, <1>12,
       <1>13, <1>14, <1>15, <1>16, <1>17, <1>18, <1>19, <1>20, <1>21, <1>22, <1>23, <1>24, <1>25 DEF Next

LEMMA AlwaysEntryInv == Spec => [](TypeInv /\ EntryInv)
  <1>1. TypeInv /\ EntryInv /\ [Next]_vars => EntryInv'
    BY NextEntryInv
  <1> QED BY <1>1, InitEntryInv, AlwaysTypeInv, PTL DEF Spec

\* An uninstallation that finishes leaves neither directory nor boot entry.
THEOREM UninstallsWhole == Spec => []UninstalledIsGone
  <1>1. EntryInv => UninstalledIsGone
    BY DEF EntryInv, EntryFaults, UninstalledIsGone, NothingLeft
  <1> QED BY <1>1, AlwaysEntryInv, PTL
=============================================================================
