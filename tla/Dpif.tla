-------------------------------- MODULE Dpif --------------------------------
(***************************************************************************)
(* Opening and closing a Dpif (odp/dpif.go, LookupGenlFamily of            *)
(* odp/genetlink.go, OpenNetlinkSocket and Close of odp/netlink.go) in     *)
(* several goroutines at once: NewDpif with the attempt to load the kernel *)
(* module, ConsumeVportEvents, which reopens the Dpif and starts a         *)
(* goroutine that reads from it, and Close, also of the Dpif that          *)
(* goroutine is reading from.                                              *)
(*                                                                         *)
(* The kernel is external: descriptor numbers are given out lowest first   *)
(* and used again once closed; the generic netlink families of openvswitch *)
(* are registered one after the other while its module is being loaded;    *)
(* the ioctl of loadOpenvswitchModule returns when that is over.           *)
(***************************************************************************)
EXTENDS Integers, FiniteSets

CONSTANTS
    Procs,       \* goroutines that open a Dpif
    MaxFd,       \* bound: descriptors 0 .. MaxFd - 1 are available
    FamilyCount, \* FAMILY_COUNT
    MaxFaults    \* bound: failing system calls, unloads and loads by an administrator

ASSUME BoundsAssumption == MaxFd \in Nat /\ FamilyCount \in Nat \ {0} /\ MaxFaults \in Nat

VARIABLES
    \* kernel
    files,      \* open descriptors: the socket behind each number, or Free
    registered, \* how many families are registered
    loading,    \* the module is being loaded
    loadable,   \* may this process make the kernel load it?
    \* process
    tried,      \* triedLoadOpenvswitchModule: the goroutines that have set it
    sockFd,     \* the fd field of a goroutine's two Dpifs
    pc,         \* where a goroutine is
    cur,        \* which of them it is opening or closing
    fd,         \* a local descriptor: fd in OpenNetlinkSocket, s in loadOpenvswitchModule
    family,     \* i in NewDpif
    unavailable,\* the goroutines whose last call ended in a familyUnavailableError
    reader,     \* where the goroutine reading from the events Dpif is
    readFd,     \* the value of s.fd it read
    readFile,   \* the socket its Recvfrom is reading from
    \* history
    unloaded,   \* the module was unloaded
    noAttempt,  \* a load attempt had no socket
    faults      \* see MaxFaults

moduleVars == <<registered, loading, loadable>>
kernelVars == <<files, moduleVars>>
readerVars == <<reader, readFd, readFile>>
historyVars == <<unloaded, noAttempt, faults>>
vars == <<kernelVars, tried, sockFd, pc, cur, fd, family, unavailable, readerVars, historyVars>>

Fds == 0 .. MaxFd - 1
Closed == -1
Slots == {"main", "events"}
Kinds == Slots \cup {"inet"}
Sockets == Procs \X Kinds
Free == <<>>
Places == {"idle", "socket", "setup", "undo", "lookup", "check", "load", "ioctl", "loading",
           "tried", "loaded", "again", "join", "close", "mark"}

TypeOK ==
    /\ files \in [Fds -> Sockets \cup {Free}]
    /\ registered \in 0 .. FamilyCount
    /\ loading \in BOOLEAN /\ loadable \in BOOLEAN
    /\ tried \in SUBSET Procs
    /\ sockFd \in [Procs -> [Slots -> Fds \cup {Closed}]]
    /\ pc \in [Procs -> Places]
    /\ cur \in [Procs -> Slots]
    /\ fd \in [Procs -> Fds \cup {Closed}]
    /\ family \in [Procs -> 0 .. FamilyCount - 1]
    /\ unavailable \in SUBSET Procs
    /\ reader \in [Procs -> {"none", "loop", "call", "recv"}]
    /\ readFd \in [Procs -> Fds \cup {Closed}]
    /\ readFile \in [Procs -> Sockets \cup {Free}]
    /\ unloaded \in BOOLEAN /\ noAttempt \in BOOLEAN /\ faults \in 0 .. MaxFaults

Init ==
    /\ files = [n \in Fds |-> Free]
    /\ registered \in {0, FamilyCount} /\ loading = FALSE /\ loadable \in BOOLEAN
    /\ tried = {}
    /\ sockFd = [p \in Procs |-> [s \in Slots |-> Closed]]
    /\ pc = [p \in Procs |-> "idle"]
    /\ cur = [p \in Procs |-> "main"]
    /\ fd = [p \in Procs |-> Closed]
    /\ family = [p \in Procs |-> 0]
    /\ unavailable = {}
    /\ reader = [p \in Procs |-> "none"]
    /\ readFd = [p \in Procs |-> Closed]
    /\ readFile = [p \in Procs |-> Free]
    /\ unloaded = FALSE /\ noAttempt = FALSE /\ faults = 0

-----------------------------------------------------------------------------
\* The kernel

Fault == faults < MaxFaults /\ faults' = faults + 1

\* socket(2) gives sock the lowest free number.
GiveFd(p, sock) ==
    \E n \in Fds :
        /\ files[n] = Free /\ \A m \in 0 .. n - 1 : files[m] # Free
        /\ files' = [files EXCEPT ![n] = sock]
        /\ fd' = [fd EXCEPT ![p] = n]

\* close(2); of a number that is not open it does nothing (EBADF).
SysClose(n) == files' = [m \in Fds |-> IF m = n THEN Free ELSE files[m]]

\* One more family of the module being loaded.
Register ==
    /\ loading
    /\ registered' = registered + 1
    /\ loading' = (registered + 1 < FamilyCount)
    /\ UNCHANGED <<files, loadable, tried, sockFd, pc, cur, fd, family, unavailable,
                   readerVars, historyVars>>

CanLoad == ~loading /\ registered < FamilyCount

\* An administrator runs modprobe, or removes the module.
Modprobe ==
    /\ CanLoad /\ Fault
    /\ loading' = TRUE
    /\ UNCHANGED <<files, registered, loadable, tried, sockFd, pc, cur, fd, family,
                   unavailable, readerVars, unloaded, noAttempt>>

Unload ==
    /\ ~loading /\ registered = FamilyCount /\ Fault
    /\ registered' = 0 /\ unloaded' = TRUE
    /\ UNCHANGED <<files, loading, loadable, tried, sockFd, pc, cur, fd, family,
                   unavailable, readerVars, noAttempt>>

-----------------------------------------------------------------------------
\* Goroutine p

GoTo(p, label) == pc' = [pc EXCEPT ![p] = label]
Begin(p, slot) == cur' = [cur EXCEPT ![p] = slot] /\ unavailable' = unavailable \ {p}
End(p) == GoTo(p, "idle") /\ cur' = [cur EXCEPT ![p] = "main"]

\* NewDpif
NewDpif(p) ==
    /\ pc[p] = "idle" /\ sockFd[p]["main"] = Closed
    /\ GoTo(p, "socket") /\ Begin(p, "main")
    /\ UNCHANGED <<kernelVars, tried, sockFd, fd, family, readerVars, historyVars>>

\* ConsumeVportEvents and Reopen. A Dpif that is still being read from is not
\* replaced: it is an object of its own.
ConsumeVportEvents(p) ==
    /\ pc[p] = "idle" /\ sockFd[p]["main"] # Closed
    /\ sockFd[p]["events"] = Closed /\ reader[p] = "none"
    /\ GoTo(p, "socket") /\ Begin(p, "events")
    /\ UNCHANGED <<kernelVars, tried, sockFd, fd, family, readerVars, historyVars>>

\* OpenNetlinkSocket: syscall.Socket
Socket(p) ==
    /\ pc[p] = "socket"
    /\ GiveFd(p, <<p, cur[p]>>)
    /\ GoTo(p, "setup")
    /\ UNCHANGED <<moduleVars, tried, sockFd, cur, family, unavailable, readerVars,
                   historyVars>>

NoneFree == \A n \in Fds : files[n] # Free

SocketFails(p) ==
    /\ pc[p] = "socket"
    /\ IF NoneFree THEN UNCHANGED faults ELSE Fault
    /\ End(p)
    /\ UNCHANGED <<kernelVars, tried, unavailable, sockFd, fd, family, readerVars,
                   unloaded, noAttempt>>

\* SetsockoptInt, Bind and Getsockname: the NetlinkSocket is returned.
Setup(p) ==
    /\ pc[p] = "setup"
    /\ sockFd' = [sockFd EXCEPT ![p][cur[p]] = fd[p]]
    /\ fd' = [fd EXCEPT ![p] = Closed]
    /\ GoTo(p, IF cur[p] = "main" THEN "lookup" ELSE "join")
    /\ UNCHANGED <<kernelVars, tried, cur, family, unavailable, readerVars,
                   historyVars>>

\* One of them fails
SetupFails(p) ==
    /\ pc[p] = "setup" /\ Fault
    /\ GoTo(p, "undo")
    /\ UNCHANGED <<kernelVars, tried, unavailable, sockFd, cur, fd, family, readerVars,
                   unloaded, noAttempt>>

\* The deferred Close of OpenNetlinkSocket.
Undo(p) ==
    /\ pc[p] = "undo"
    /\ SysClose(fd[p]) /\ fd' = [fd EXCEPT ![p] = Closed]
    /\ End(p)
    /\ UNCHANGED <<moduleVars, tried, sockFd, family, unavailable, readerVars,
                   historyVars>>

-----------------------------------------------------------------------------
\* lookupFamily

NextFamily(p, i) == family' = [family EXCEPT ![p] = i]

\* Mutant: the loop goes one family too far.
FoundPastEnd(p) ==
    /\ pc[p] \in {"lookup", "again"} /\ family[p] < registered
    /\ IF family[p] = FamilyCount
       THEN End(p) /\ NextFamily(p, 0)
       ELSE GoTo(p, "lookup") /\ UNCHANGED cur /\ NextFamily(p, family[p] + 1)
    /\ UNCHANGED <<kernelVars, tried, sockFd, fd, unavailable, readerVars, historyVars>>

\* LookupGenlFamily finds familyNames[i]: on with the loop of NewDpif.
Found(p) ==
    /\ pc[p] \in {"lookup", "again"} /\ family[p] < registered
    /\ IF family[p] + 1 = FamilyCount
       THEN End(p) /\ NextFamily(p, 0)
       ELSE GoTo(p, "lookup") /\ UNCHANGED cur /\ NextFamily(p, family[p] + 1)
    /\ UNCHANGED <<kernelVars, tried, sockFd, fd, unavailable, readerVars, historyVars>>

\* ENOENT: the first time, try to load the module; the second time, give up.
NotFound(p) ==
    /\ family[p] >= registered
    /\ \/ pc[p] = "lookup" /\ GoTo(p, "check") /\ UNCHANGED <<unavailable, family>>
       \/ /\ pc[p] = "again" /\ GoTo(p, "close")
          /\ unavailable' = unavailable \cup {p} /\ NextFamily(p, 0)
    /\ UNCHANGED <<kernelVars, tried, sockFd, cur, fd, readerVars, historyVars>>

\* Any other error of the request, or an answer that does not parse.
LookupFails(p) ==
    /\ pc[p] \in {"lookup", "again"} /\ Fault
    /\ GoTo(p, "close") /\ NextFamily(p, 0)
    /\ UNCHANGED <<kernelVars, tried, unavailable, sockFd, cur, fd, readerVars,
                   unloaded, noAttempt>>

\* loadOpenvswitchModule reads triedLoadOpenvswitchModule without synchronisation: it may
\* miss what another goroutine has written.
Check(p) ==
    /\ pc[p] = "check"
    /\ \/ tried # {} /\ GoTo(p, "again")
       \/ p \notin tried /\ GoTo(p, "load")
    /\ UNCHANGED <<kernelVars, tried, sockFd, cur, fd, family, unavailable, readerVars,
                   historyVars>>

\* Mutant: the flag is set before the attempt.
LoadSocketEarly(p) ==
    /\ pc[p] = "load"
    /\ GiveFd(p, <<p, "inet">>)
    /\ tried' = tried \cup {p}
    /\ GoTo(p, "ioctl")
    /\ UNCHANGED <<moduleVars, sockFd, cur, family, unavailable, readerVars,
                   historyVars>>

LoadSocket(p) ==
    /\ pc[p] = "load"
    /\ GiveFd(p, <<p, "inet">>)
    /\ GoTo(p, "ioctl")
    /\ UNCHANGED <<moduleVars, tried, sockFd, cur, family, unavailable, readerVars,
                   historyVars>>

LoadSocketFails(p) ==
    /\ pc[p] = "load"
    /\ IF NoneFree THEN UNCHANGED faults ELSE Fault
    /\ tried' = tried \cup {p}
    /\ noAttempt' = TRUE
    /\ GoTo(p, "again")
    /\ UNCHANGED <<kernelVars, sockFd, cur, fd, family, unavailable, readerVars,
                   unloaded>>

\* SIOCGIFINDEX of a device called openvswitch
Ioctl(p) ==
    /\ pc[p] = "ioctl"
    /\ loading' = (loading \/ (loadable /\ CanLoad))
    /\ GoTo(p, "loading")
    /\ UNCHANGED <<files, registered, loadable, tried, sockFd, cur, fd, family,
                   unavailable, readerVars, historyVars>>

IoctlReturns(p) ==
    /\ pc[p] = "loading" /\ ~loading
    /\ GoTo(p, "tried")
    /\ UNCHANGED <<kernelVars, tried, sockFd, cur, fd, family, unavailable, readerVars,
                   historyVars>>

SetTried(p) ==
    /\ pc[p] = "tried"
    /\ tried' = tried \cup {p}
    /\ GoTo(p, "loaded")
    /\ UNCHANGED <<kernelVars, sockFd, cur, fd, family, unavailable, readerVars,
                   historyVars>>

\* The deferred Close of loadOpenvswitchModule.
LoadClose(p) ==
    /\ pc[p] = "loaded"
    /\ SysClose(fd[p]) /\ fd' = [fd EXCEPT ![p] = Closed]
    /\ GoTo(p, "again")
    /\ UNCHANGED <<moduleVars, tried, sockFd, cur, family, unavailable, readerVars,
                   historyVars>>

-----------------------------------------------------------------------------
\* ConsumeVportEvents joins the multicast group and starts the event loop.

Join(p) ==
    /\ pc[p] = "join"
    /\ End(p)
    /\ reader' = [reader EXCEPT ![p] = "loop"]
    /\ UNCHANGED <<kernelVars, tried, unavailable, sockFd, fd, family, readFd, readFile,
                   historyVars>>

JoinFails(p) ==
    /\ pc[p] = "join" /\ Fault
    /\ GoTo(p, "close")
    /\ UNCHANGED <<kernelVars, tried, unavailable, sockFd, cur, fd, family, readerVars,
                   unloaded, noAttempt>>

-----------------------------------------------------------------------------
\* NetlinkSocket.Close, called by NewDpif and ConsumeVportEvents on their way out, and by the
\* client (Dpif.Close, Cancel) at any time, more than once too.

Close(p, slot) ==
    /\ pc[p] = "idle" /\ sockFd[p][slot] # Closed
    /\ GoTo(p, "close") /\ Begin(p, slot)
    /\ UNCHANGED <<kernelVars, tried, sockFd, fd, family, readerVars, historyVars>>

CloseFd(p) ==
    /\ pc[p] = "close"
    /\ SysClose(sockFd[p][cur[p]])
    /\ GoTo(p, "mark")
    /\ UNCHANGED <<moduleVars, tried, sockFd, cur, fd, family, unavailable, readerVars,
                   historyVars>>

\* Mutant: the fd field keeps its value.
MarkClosedMissing(p) ==
    /\ pc[p] = "mark"
    /\ End(p)
    /\ UNCHANGED <<kernelVars, tried, sockFd, fd, family, unavailable, readerVars,
                   historyVars>>

MarkClosed(p) ==
    /\ pc[p] = "mark"
    /\ sockFd' = [sockFd EXCEPT ![p][cur[p]] = Closed]
    /\ End(p)
    /\ UNCHANGED <<kernelVars, tried, fd, family, unavailable, readerVars, historyVars>>

-----------------------------------------------------------------------------
\* consume: Receive, again and again, in a goroutine of its own.

\* Mutant: the loop is started on the Dpif that was reopened.
ReadFdFieldMain(p) ==
    /\ reader[p] = "loop"
    /\ readFd' = [readFd EXCEPT ![p] = sockFd[p]["main"]]
    /\ reader' = [reader EXCEPT ![p] = "call"]
    /\ UNCHANGED <<kernelVars, tried, sockFd, pc, cur, fd, family, unavailable, readFile,
                   historyVars>>

ReadFdField(p) ==
    /\ reader[p] = "loop"
    /\ readFd' = [readFd EXCEPT ![p] = sockFd[p]["events"]]
    /\ reader' = [reader EXCEPT ![p] = "call"]
    /\ UNCHANGED <<kernelVars, tried, sockFd, pc, cur, fd, family, unavailable,
                   readFile, historyVars>>

\* Recvfrom finds the socket behind the number, or there is none (EBADF).
Recvfrom(p) ==
    /\ reader[p] = "call"
    /\ LET file == IF readFd[p] = Closed THEN Free ELSE files[readFd[p]]
       IN  /\ readFile' = [readFile EXCEPT ![p] = file]
           /\ reader' = [reader EXCEPT ![p] = IF file = Free THEN "none" ELSE "recv"]
    /\ readFd' = [readFd EXCEPT ![p] = Closed]
    /\ UNCHANGED <<kernelVars, tried, sockFd, pc, cur, fd, family, unavailable,
                   historyVars>>

\* It returns a datagram, which the loop processes, or an error, which ends the loop.
Received(p) ==
    /\ reader[p] = "recv"
    /\ \/ reader' = [reader EXCEPT ![p] = "loop"] /\ UNCHANGED faults
       \/ reader' = [reader EXCEPT ![p] = "none"] /\ Fault
    /\ readFile' = [readFile EXCEPT ![p] = Free]
    /\ UNCHANGED <<kernelVars, tried, sockFd, pc, cur, fd, family, unavailable, readFd,
                   unloaded, noAttempt>>

-----------------------------------------------------------------------------
Open(p) == NewDpif(p) \/ ConsumeVportEvents(p) \/ Socket(p) \/ SocketFails(p) \/ Setup(p)
    \/ SetupFails(p) \/ Undo(p) \/ Join(p) \/ JoinFails(p)

LookupFamily(p) == Found(p) \/ NotFound(p) \/ LookupFails(p) \/ Check(p) \/ LoadSocket(p)
    \/ LoadSocketFails(p) \/ Ioctl(p) \/ IoctlReturns(p) \/ SetTried(p) \/ LoadClose(p)

CloseStep(p) == CloseFd(p) \/ MarkClosed(p) \/ \E slot \in Slots : Close(p, slot)

Consume(p) == ReadFdField(p) \/ Recvfrom(p) \/ Received(p)

Next ==
    \/ Register \/ Modprobe \/ Unload
    \/ \E p \in Procs : Open(p) \/ LookupFamily(p) \/ CloseStep(p) \/ Consume(p)

Spec == Init /\ [][Next]_vars

-----------------------------------------------------------------------------
(* Properties.                                                             *)

\* Goroutine p is responsible for number n, as that of its socket of this kind.
HasFd(p, kind, n) ==
    \/ kind = "inet" /\ pc[p] \in {"ioctl", "loading", "tried", "loaded"} /\ fd[p] = n
    \/ kind = cur[p] /\ pc[p] \in {"setup", "undo"} /\ fd[p] = n
    \/ kind \in Slots /\ sockFd[p][kind] = n /\ ~(pc[p] = "mark" /\ cur[p] = kind)

\* netlink.go:26-31, 73-81, dpif.go:100-105, vport.go:379-382: on whatever path a call ends, an
\* open descriptor is one that somebody still holds and will close (nothing leaks), and
\* the number somebody holds is that of his own socket (nobody closes another's).
Owned ==
    \A n \in Fds, p \in Procs, kind \in Kinds : files[n] = <<p, kind>> <=> HasFd(p, kind, n)

\* dpif.go:70-90: a goroutine is told that the families are unavailable only if the module could
\* not be loaded; never because another goroutine is just loading it.
UnavailableSound ==
    \A p \in Procs : p \in unavailable => ~loadable \/ unloaded \/ noAttempt

Closing(p) == sockFd[p]["events"] = Closed \/ (pc[p] = "mark" /\ cur[p] = "events")

\* netlink.go:551-552: as long as nobody closes it, the event loop reads from its own socket,
\* whatever other goroutines open and close. (Once it is being closed this is not so: the
\* loop may have read s.fd already, or read it before Close sets it to -1, and the number
\* may be another socket's by then.)
ReadsOwn ==
    \A p \in Procs : reader[p] = "recv" /\ ~Closing(p) => readFile[p] = <<p, "events">>

-----------------------------------------------------------------------------
(* The inductive invariant.                                                *)

\* What a goroutine holds, by its place in the code.
HoldsLocal == {"setup", "undo", "ioctl", "loading", "tried", "loaded"}
InLookup == {"lookup", "check", "load", "ioctl", "loading", "tried", "loaded", "again"}
InOpen == {"socket", "setup", "undo"}

PlaceInv ==
    \A p \in Procs :
        /\ pc[p] \in HoldsLocal => fd[p] # Closed
        /\ pc[p] \in InOpen => sockFd[p][cur[p]] = Closed
        /\ pc[p] \in InLookup => cur[p] = "main"
        /\ pc[p] \in InLookup \cup {"join", "close", "mark"} => sockFd[p][cur[p]] # Closed
        /\ pc[p] = "join" => cur[p] = "events"

\* A load attempt that is over has loaded the module, unless it was in vain.
InVain == ~loadable \/ unloaded \/ noAttempt
LoadInv ==
    /\ loading => registered < FamilyCount
    /\ tried # {} => InVain \/ registered = FamilyCount
    /\ \A p \in Procs :
          /\ pc[p] = "loading" => InVain \/ loading \/ registered = FamilyCount
          /\ pc[p] \in {"tried", "loaded", "again"} => InVain \/ registered = FamilyCount

ReaderInv ==
    \A p \in Procs :
        /\ pc[p] \in InOpen \cup {"join"} /\ cur[p] = "events" => reader[p] = "none"
        /\ reader[p] = "call" /\ ~Closing(p) => readFd[p] = sockFd[p]["events"]

IndInv == PlaceInv /\ Owned /\ LoadInv /\ UnavailableSound /\ ReaderInv /\ ReadsOwn
=============================================================================
