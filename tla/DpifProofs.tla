---------------------------- MODULE DpifProofs ----------------------------
(***************************************************************************)
(* Proofs about Dpif, for any set of goroutines, any number of descriptors *)
(* and families, and any number of faults.                                 *)
(*                                                                         *)
(* Owned is inductive once it is known where in the code a goroutine holds *)
(* a local descriptor and where the fd field is set (PlaceInv).            *)
(* UnavailableSound needs what a load attempt has achieved when it is over *)
(* (LoadInv): that is why the flag may only be set after the ioctl.        *)
(* ReadsOwn needs that an fd read from a Dpif that is not being closed is  *)
(* still its fd when Recvfrom is entered (ReaderInv).                      *)
(***************************************************************************)
EXTENDS Dpif, TLAPS

USE BoundsAssumption

\* NewDpif starts with the first family.
LEMMA Zero == 0 \in 0 .. FamilyCount - 1
  OBVIOUS

\* Every step keeps the types; Register needs that loading ends with the last family.
LEMMA TypeStep ==
    TypeOK /\ LoadInv /\ [Next]_vars => TypeOK'
<1> SUFFICES ASSUME TypeOK, LoadInv, [Next]_vars PROVE TypeOK'
  OBVIOUS
<1>1. CASE Register
  <2>1. registered' \in 0 .. FamilyCount
    BY <1>1 DEF Register, TypeOK, LoadInv
  <2>2. loading' \in BOOLEAN
    BY <1>1 DEF Register
  <2> QED
    BY <1>1, <2>1, <2>2 DEF Register, TypeOK, Places, vars, kernelVars, moduleVars, readerVars,
       historyVars, Fds, Closed, Slots, Kinds, Sockets, Free
<1>2. CASE Modprobe
  BY <1>2 DEF Modprobe, Fault, CanLoad, TypeOK, Places, vars, kernelVars, moduleVars,
     readerVars, historyVars, Fds, Closed, Slots, Kinds, Sockets, Free
<1>3. CASE Unload
  BY <1>3 DEF Unload, Fault, TypeOK, Places, vars, kernelVars, moduleVars, readerVars,
     historyVars, Fds, Closed, Slots, Kinds, Sockets, Free
<1>4. ASSUME NEW q \in Procs, NewDpif(q) PROVE TypeOK'
  BY <1>4 DEF NewDpif, Begin, GoTo, TypeOK, Places, vars, kernelVars, moduleVars, readerVars,
     historyVars, Fds, Closed, Slots, Kinds, Sockets, Free
<1>5. ASSUME NEW q \in Procs, ConsumeVportEvents(q) PROVE TypeOK'
  BY <1>5 DEF ConsumeVportEvents, Begin, GoTo, TypeOK, Places, vars, kernelVars, moduleVars,
     readerVars, historyVars, Fds, Closed, Slots, Kinds, Sockets, Free
<1>6. ASSUME NEW q \in Procs, Socket(q) PROVE TypeOK'
  BY <1>6 DEF Socket, GiveFd, GoTo, TypeOK, Places, vars, kernelVars, moduleVars, readerVars,
     historyVars, Fds, Closed, Slots, Kinds, Sockets, Free
<1>7. ASSUME NEW q \in Procs, SocketFails(q) PROVE TypeOK'
  BY <1>7, SMTT(30) DEF SocketFails, End, GoTo, Fault, NoneFree, TypeOK, Places, vars, kernelVars,
     moduleVars, readerVars, historyVars, Fds, Closed, Slots, Kinds, Sockets, Free
<1>8. ASSUME NEW q \in Procs, Setup(q) PROVE TypeOK'
  BY <1>8 DEF Setup, GoTo, TypeOK, Places, vars, kernelVars, moduleVars, readerVars,
     historyVars, Fds, Closed, Slots, Kinds, Sockets, Free
<1>9. ASSUME NEW q \in Procs, SetupFails(q) PROVE TypeOK'
  BY <1>9 DEF SetupFails, GoTo, Fault, TypeOK, Places, vars, kernelVars, moduleVars, readerVars,
     historyVars, Fds, Closed, Slots, Kinds, Sockets, Free
<1>10. ASSUME NEW q \in Procs, Undo(q) PROVE TypeOK'
  BY <1>10 DEF Undo, SysClose, End, GoTo, TypeOK, Places, vars, kernelVars, moduleVars,
     readerVars, historyVars, Fds, Closed, Slots, Kinds, Sockets, Free
<1>11. ASSUME NEW q \in Procs, Join(q) PROVE TypeOK'
  BY <1>11 DEF Join, End, GoTo, TypeOK, Places, vars, kernelVars, moduleVars, readerVars,
     historyVars, Fds, Closed, Slots, Kinds, Sockets, Free
<1>12. ASSUME NEW q \in Procs, JoinFails(q) PROVE TypeOK'
  BY <1>12 DEF JoinFails, GoTo, Fault, TypeOK, Places, vars, kernelVars, moduleVars, readerVars,
     historyVars, Fds, Closed, Slots, Kinds, Sockets, Free
<1>13. ASSUME NEW q \in Procs, Found(q) PROVE TypeOK'
  <2>1. family' \in [Procs -> 0 .. FamilyCount - 1]
    <3>1. CASE family[q] + 1 = FamilyCount
      BY <1>13, <3>1, Zero DEF Found, NextFamily, TypeOK
    <3>2. CASE family[q] + 1 # FamilyCount
      <4>1. family[q] \in 0 .. FamilyCount - 1
        BY DEF TypeOK
      <4>2. family[q] + 1 \in 0 .. FamilyCount - 1
        BY <3>2, <4>1
      <4> QED
        BY <1>13, <3>2, <4>2 DEF Found, NextFamily, TypeOK
    <3> QED
      BY <3>1, <3>2
  <2>2. cur' \in [Procs -> Slots]
    BY <1>13 DEF Found, End, TypeOK, Slots
  <2>3. UNCHANGED <<kernelVars, tried, sockFd, fd, unavailable, readerVars, historyVars>>
    BY <1>13 DEF Found
  <2>4. pc' \in [Procs -> Places]
    <3>1. pc' = [pc EXCEPT ![q] = "idle"] \/ pc' = [pc EXCEPT ![q] = "lookup"]
      BY <1>13 DEF Found, End, GoTo
    <3> QED
      BY <3>1 DEF TypeOK, Places
  <2> QED
    BY <2>1, <2>2, <2>3, <2>4 DEF TypeOK, Places, kernelVars, moduleVars, readerVars, historyVars
<1>14. ASSUME NEW q \in Procs, NotFound(q) PROVE TypeOK'
  <2>1. family' \in [Procs -> 0 .. FamilyCount - 1]
    BY <1>14, Zero DEF NotFound, NextFamily, TypeOK
  <2>2. unavailable' \in SUBSET Procs
    BY <1>14 DEF NotFound, TypeOK
  <2>3. UNCHANGED <<kernelVars, tried, sockFd, cur, fd, readerVars, historyVars>>
    BY <1>14 DEF NotFound
  <2>4. pc' \in [Procs -> Places]
    BY <1>14 DEF NotFound, GoTo, TypeOK, Places
  <2> QED
    BY <2>1, <2>2, <2>3, <2>4 DEF TypeOK, Places, kernelVars, moduleVars, readerVars, historyVars
<1>15. ASSUME NEW q \in Procs, LookupFails(q) PROVE TypeOK'
  BY <1>15 DEF LookupFails, GoTo, Fault, NextFamily, TypeOK, Places, vars, kernelVars,
     moduleVars, readerVars, historyVars, Fds, Closed, Slots, Kinds, Sockets, Free
<1>16. ASSUME NEW q \in Procs, Check(q) PROVE TypeOK'
  BY <1>16 DEF Check, GoTo, TypeOK, Places, vars, kernelVars, moduleVars, readerVars,
     historyVars, Fds, Closed, Slots, Kinds, Sockets, Free
<1>17. ASSUME NEW q \in Procs, LoadSocket(q) PROVE TypeOK'
  BY <1>17 DEF LoadSocket, GiveFd, GoTo, TypeOK, Places, vars, kernelVars, moduleVars,
     readerVars, historyVars, Fds, Closed, Slots, Kinds, Sockets, Free
<1>18. ASSUME NEW q \in Procs, LoadSocketFails(q) PROVE TypeOK'
  BY <1>18 DEF LoadSocketFails, GoTo, Fault, NoneFree, TypeOK, Places, vars, kernelVars,
     moduleVars, readerVars, historyVars, Fds, Closed, Slots, Kinds, Sockets, Free
<1>19. ASSUME NEW q \in Procs, Ioctl(q) PROVE TypeOK'
  BY <1>19 DEF Ioctl, GoTo, CanLoad, TypeOK, Places, vars, kernelVars, moduleVars, readerVars,
     historyVars, Fds, Closed, Slots, Kinds, Sockets, Free
<1>20. ASSUME NEW q \in Procs, IoctlReturns(q) PROVE TypeOK'
  BY <1>20 DEF IoctlReturns, GoTo, TypeOK, Places, vars, kernelVars, moduleVars, readerVars,
     historyVars, Fds, Closed, Slots, Kinds, Sockets, Free
<1>21. ASSUME NEW q \in Procs, SetTried(q) PROVE TypeOK'
  BY <1>21 DEF SetTried, GoTo, TypeOK, Places, vars, kernelVars, moduleVars, readerVars,
     historyVars, Fds, Closed, Slots, Kinds, Sockets, Free
<1>22. ASSUME NEW q \in Procs, LoadClose(q) PROVE TypeOK'
  BY <1>22 DEF LoadClose, SysClose, GoTo, TypeOK, Places, vars, kernelVars, moduleVars,
     readerVars, historyVars, Fds, Closed, Slots, Kinds, Sockets, Free
<1>23. ASSUME NEW q \in Procs, CloseFd(q) PROVE TypeOK'
  BY <1>23 DEF CloseFd, SysClose, GoTo, TypeOK, Places, vars, kernelVars, moduleVars,
     readerVars, historyVars, Fds, Closed, Slots, Kinds, Sockets, Free
<1>24. ASSUME NEW q \in Procs, MarkClosed(q) PROVE TypeOK'
  BY <1>24 DEF MarkClosed, End, GoTo, TypeOK, Places, vars, kernelVars, moduleVars, readerVars,
     historyVars, Fds, Closed, Slots, Kinds, Sockets, Free
<1>25. ASSUME NEW q \in Procs, ReadFdField(q) PROVE TypeOK'
  BY <1>25 DEF ReadFdField, TypeOK, Places, vars, kernelVars, moduleVars, readerVars,
     historyVars, Fds, Closed, Slots, Kinds, Sockets, Free
<1>26. ASSUME NEW q \in Procs, Recvfrom(q) PROVE TypeOK'
  BY <1>26 DEF Recvfrom, TypeOK, Places, vars, kernelVars, moduleVars, readerVars, historyVars,
     Fds, Closed, Slots, Kinds, Sockets, Free
<1>27. ASSUME NEW q \in Procs, Received(q) PROVE TypeOK'
  <2>1. reader' \in [Procs -> {"none", "loop", "call", "recv"}] /\ faults' \in 0 .. MaxFaults
    BY <1>27 DEF Received, Fault, TypeOK
  <2>2. readFile' \in [Procs -> Sockets \cup {Free}]
    BY <1>27 DEF Received, TypeOK
  <2> QED
    BY <1>27, <2>1, <2>2 DEF Received, TypeOK, kernelVars, moduleVars
<1>28. ASSUME NEW q \in Procs, NEW slot \in Slots, Close(q, slot) PROVE TypeOK'
  BY <1>28 DEF Close, Begin, GoTo, TypeOK, Places, vars, kernelVars, moduleVars, readerVars,
     historyVars, Fds, Closed, Slots, Kinds, Sockets, Free
<1>29. CASE UNCHANGED vars
  BY <1>29 DEF TypeOK, Places, vars, kernelVars, moduleVars, readerVars, historyVars, Fds,
     Closed, Slots, Kinds, Sockets, Free
<1> QED
  BY <1>1, <1>2, <1>3, <1>4, <1>5, <1>6, <1>7, <1>8, <1>9, <1>10, <1>11, <1>12, <1>13, <1>14,
     <1>15, <1>16, <1>17, <1>18, <1>19, <1>20, <1>21, <1>22, <1>23, <1>24, <1>25, <1>26, <1>27,
     <1>28, <1>29
  DEF Next, Open, LookupFamily, CloseStep, Consume

\* Every step keeps what is said of the goroutine's place in the code.
LEMMA PlaceStep ==
    TypeOK /\ PlaceInv /\ [Next]_vars => PlaceInv'
<1> SUFFICES ASSUME TypeOK, PlaceInv, [Next]_vars PROVE PlaceInv'
  OBVIOUS
<1>1. CASE Register
  BY <1>1 DEF Register, TypeOK, Places, PlaceInv, vars, kernelVars, moduleVars, readerVars,
     historyVars, HoldsLocal, InLookup, InOpen, Fds, Closed, Slots
<1>2. CASE Modprobe
  BY <1>2 DEF Modprobe, Fault, CanLoad, TypeOK, Places, PlaceInv, vars, kernelVars, moduleVars,
     readerVars, historyVars, HoldsLocal, InLookup, InOpen, Fds, Closed, Slots
<1>3. CASE Unload
  BY <1>3 DEF Unload, Fault, TypeOK, Places, PlaceInv, vars, kernelVars, moduleVars, readerVars,
     historyVars, HoldsLocal, InLookup, InOpen, Fds, Closed, Slots
<1>4. ASSUME NEW q \in Procs, NewDpif(q) PROVE PlaceInv'
  BY <1>4 DEF NewDpif, Begin, GoTo, TypeOK, Places, PlaceInv, vars, kernelVars, moduleVars,
     readerVars, historyVars, HoldsLocal, InLookup, InOpen, Fds, Closed, Slots
<1>5. ASSUME NEW q \in Procs, ConsumeVportEvents(q) PROVE PlaceInv'
  BY <1>5 DEF ConsumeVportEvents, Begin, GoTo, TypeOK, Places, PlaceInv, vars, kernelVars,
     moduleVars, readerVars, historyVars, HoldsLocal, InLookup, InOpen, Fds, Closed, Slots
<1>6. ASSUME NEW q \in Procs, Socket(q) PROVE PlaceInv'
  BY <1>6 DEF Socket, GiveFd, GoTo, TypeOK, Places, PlaceInv, vars, kernelVars, moduleVars,
     readerVars, historyVars, HoldsLocal, InLookup, InOpen, Fds, Closed, Slots
<1>7. ASSUME NEW q \in Procs, SocketFails(q) PROVE PlaceInv'
  BY <1>7 DEF SocketFails, End, GoTo, Fault, NoneFree, TypeOK, Places, PlaceInv, vars,
     kernelVars, moduleVars, readerVars, historyVars, HoldsLocal, InLookup, InOpen, Fds, Closed,
     Slots
<1>8. ASSUME NEW q \in Procs, Setup(q) PROVE PlaceInv'
  BY <1>8 DEF Setup, GoTo, TypeOK, Places, PlaceInv, vars, kernelVars, moduleVars, readerVars,
     historyVars, HoldsLocal, InLookup, InOpen, Fds, Closed, Slots
<1>9. ASSUME NEW q \in Procs, SetupFails(q) PROVE PlaceInv'
  BY <1>9 DEF SetupFails, GoTo, Fault, TypeOK, Places, PlaceInv, vars, kernelVars, moduleVars,
     readerVars, historyVars, HoldsLocal, InLookup, InOpen, Fds, Closed, Slots
<1>10. ASSUME NEW q \in Procs, Undo(q) PROVE PlaceInv'
  BY <1>10 DEF Undo, SysClose, End, GoTo, TypeOK, Places, PlaceInv, vars, kernelVars,
     moduleVars, readerVars, historyVars, HoldsLocal, InLookup, InOpen, Fds, Closed, Slots
<1>11. ASSUME NEW q \in Procs, Join(q) PROVE PlaceInv'
  BY <1>11 DEF Join, End, GoTo, TypeOK, Places, PlaceInv, vars, kernelVars, moduleVars,
     readerVars, historyVars, HoldsLocal, InLookup, InOpen, Fds, Closed, Slots
<1>12. ASSUME NEW q \in Procs, JoinFails(q) PROVE PlaceInv'
  BY <1>12 DEF JoinFails, GoTo, Fault, TypeOK, Places, PlaceInv, vars, kernelVars, moduleVars,
     readerVars, historyVars, HoldsLocal, InLookup, InOpen, Fds, Closed, Slots
<1>13. ASSUME NEW q \in Procs, Found(q) PROVE PlaceInv'
  BY <1>13 DEF Found, End, GoTo, NextFamily, TypeOK, Places, PlaceInv, vars, kernelVars,
     moduleVars, readerVars, historyVars, HoldsLocal, InLookup, InOpen, Fds, Closed, Slots
<1>14. ASSUME NEW q \in Procs, NotFound(q) PROVE PlaceInv'
  BY <1>14 DEF NotFound, GoTo, NextFamily, TypeOK, Places, PlaceInv, vars, kernelVars,
     moduleVars, readerVars, historyVars, HoldsLocal, InLookup, InOpen, Fds, Closed, Slots
<1>15. ASSUME NEW q \in Procs, LookupFails(q) PROVE PlaceInv'
  BY <1>15 DEF LookupFails, GoTo, Fault, NextFamily, TypeOK, Places, PlaceInv, vars, kernelVars,
     moduleVars, readerVars, historyVars, HoldsLocal, InLookup, InOpen, Fds, Closed, Slots
<1>16. ASSUME NEW q \in Procs, Check(q) PROVE PlaceInv'
  BY <1>16 DEF Check, GoTo, TypeOK, Places, PlaceInv, vars, kernelVars, moduleVars, readerVars,
     historyVars, HoldsLocal, InLookup, InOpen, Fds, Closed, Slots
<1>17. ASSUME NEW q \in Procs, LoadSocket(q) PROVE PlaceInv'
  BY <1>17 DEF LoadSocket, GiveFd, GoTo, TypeOK, Places, PlaceInv, vars, kernelVars, moduleVars,
     readerVars, historyVars, HoldsLocal, InLookup, InOpen, Fds, Closed, Slots
<1>18. ASSUME NEW q \in Procs, LoadSocketFails(q) PROVE PlaceInv'
  BY <1>18 DEF LoadSocketFails, GoTo, Fault, NoneFree, TypeOK, Places, PlaceInv, vars,
     kernelVars, moduleVars, readerVars, historyVars, HoldsLocal, InLookup, InOpen, Fds, Closed,
     Slots
<1>19. ASSUME NEW q \in Procs, Ioctl(q) PROVE PlaceInv'
  BY <1>19 DEF Ioctl, GoTo, CanLoad, TypeOK, Places, PlaceInv, vars, kernelVars, moduleVars,
     readerVars, historyVars, HoldsLocal, InLookup, InOpen, Fds, Closed, Slots
<1>20. ASSUME NEW q \in Procs, IoctlReturns(q) PROVE PlaceInv'
  BY <1>20 DEF IoctlReturns, GoTo, TypeOK, Places, PlaceInv, vars, kernelVars, moduleVars,
     readerVars, historyVars, HoldsLocal, InLookup, InOpen, Fds, Closed, Slots
<1>21. ASSUME NEW q \in Procs, SetTried(q) PROVE PlaceInv'
  BY <1>21 DEF SetTried, GoTo, TypeOK, Places, PlaceInv, vars, kernelVars, moduleVars,
     readerVars, historyVars, HoldsLocal, InLookup, InOpen, Fds, Closed, Slots
<1>22. ASSUME NEW q \in Procs, LoadClose(q) PROVE PlaceInv'
  BY <1>22 DEF LoadClose, SysClose, GoTo, TypeOK, Places, PlaceInv, vars, kernelVars,
     moduleVars, readerVars, historyVars, HoldsLocal, InLookup, InOpen, Fds, Closed, Slots
<1>23. ASSUME NEW q \in Procs, CloseFd(q) PROVE PlaceInv'
  BY <1>23 DEF CloseFd, SysClose, GoTo, TypeOK, Places, PlaceInv, vars, kernelVars, moduleVars,
     readerVars, historyVars, HoldsLocal, InLookup, InOpen, Fds, Closed, Slots
<1>24. ASSUME NEW q \in Procs, MarkClosed(q) PROVE PlaceInv'
  BY <1>24 DEF MarkClosed, End, GoTo, TypeOK, Places, PlaceInv, vars, kernelVars, moduleVars,
     readerVars, historyVars, HoldsLocal, InLookup, InOpen, Fds, Closed, Slots
<1>25. ASSUME NEW q \in Procs, ReadFdField(q) PROVE PlaceInv'
  BY <1>25 DEF ReadFdField, TypeOK, Places, PlaceInv, vars, kernelVars, moduleVars, readerVars,
     historyVars, HoldsLocal, InLookup, InOpen, Fds, Closed, Slots
<1>26. ASSUME NEW q \in Procs, Recvfrom(q) PROVE PlaceInv'
  BY <1>26 DEF Recvfrom, TypeOK, Places, PlaceInv, vars, kernelVars, moduleVars, readerVars,
     historyVars, HoldsLocal, InLookup, InOpen, Fds, Closed, Slots
<1>27. ASSUME NEW q \in Procs, Received(q) PROVE PlaceInv'
  BY <1>27 DEF Received, Fault, TypeOK, Places, PlaceInv, vars, kernelVars, moduleVars,
     readerVars, historyVars, HoldsLocal, InLookup, InOpen, Fds, Closed, Slots
<1>28. ASSUME NEW q \in Procs, NEW slot \in Slots, Close(q, slot) PROVE PlaceInv'
  BY <1>28 DEF Close, Begin, GoTo, TypeOK, Places, PlaceInv, vars, kernelVars, moduleVars,
     readerVars, historyVars, HoldsLocal, InLookup, InOpen, Fds, Closed, Slots
<1>29. CASE UNCHANGED vars
  BY <1>29 DEF TypeOK, Places, PlaceInv, vars, kernelVars, moduleVars, readerVars, historyVars,
     HoldsLocal, InLookup, InOpen, Fds, Closed, Slots
<1> QED
  BY <1>1, <1>2, <1>3, <1>4, <1>5, <1>6, <1>7, <1>8, <1>9, <1>10, <1>11, <1>12, <1>13, <1>14,
     <1>15, <1>16, <1>17, <1>18, <1>19, <1>20, <1>21, <1>22, <1>23, <1>24, <1>25, <1>26, <1>27,
     <1>28, <1>29
  DEF Next, Open, LookupFamily, CloseStep, Consume

\* Every step keeps descriptors and their holders in step. The steps that matter are the ones
\* that open and close a descriptor: no other socket had the number, none has it afterwards.
LEMMA OwnedStep ==
    TypeOK /\ PlaceInv /\ Owned /\ [Next]_vars => Owned'
<1> SUFFICES ASSUME TypeOK, PlaceInv, Owned, [Next]_vars PROVE Owned'
  OBVIOUS
<1>1. CASE Register
  BY <1>1 DEF Register, TypeOK, PlaceInv, Owned, HasFd, vars, kernelVars, moduleVars,
     readerVars, historyVars, HoldsLocal, InLookup, InOpen, Fds, Closed, Slots, Kinds
<1>2. CASE Modprobe
  BY <1>2 DEF Modprobe, Fault, CanLoad, TypeOK, PlaceInv, Owned, HasFd, vars, kernelVars,
     moduleVars, readerVars, historyVars, HoldsLocal, InLookup, InOpen, Fds, Closed, Slots,
     Kinds
<1>3. CASE Unload
  BY <1>3 DEF Unload, Fault, TypeOK, PlaceInv, Owned, HasFd, vars, kernelVars, moduleVars,
     readerVars, historyVars, HoldsLocal, InLookup, InOpen, Fds, Closed, Slots, Kinds
<1>4. ASSUME NEW q \in Procs, NewDpif(q) PROVE Owned'
  BY <1>4 DEF NewDpif, Begin, GoTo, TypeOK, PlaceInv, Owned, HasFd, vars, kernelVars,
     moduleVars, readerVars, historyVars, HoldsLocal, InLookup, InOpen, Fds, Closed, Slots,
     Kinds
<1>5. ASSUME NEW q \in Procs, ConsumeVportEvents(q) PROVE Owned'
  BY <1>5 DEF ConsumeVportEvents, Begin, GoTo, TypeOK, PlaceInv, Owned, HasFd, vars, kernelVars,
     moduleVars, readerVars, historyVars, HoldsLocal, InLookup, InOpen, Fds, Closed, Slots,
     Kinds
<1>6. ASSUME NEW q \in Procs, Socket(q) PROVE Owned'
  <2>1. PICK m \in Fds : /\ files[m] = Free
                         /\ files' = [files EXCEPT ![m] = <<q, cur[q]>>]
                         /\ fd' = [fd EXCEPT ![q] = m]
    BY <1>6 DEF Socket, GiveFd
  <2>2. /\ sockFd' = sockFd /\ cur' = cur
        /\ pc[q] = "socket" /\ pc' = [pc EXCEPT ![q] = "setup"]
    BY <1>6 DEF Socket, GoTo
  <2> SUFFICES ASSUME NEW n \in Fds, NEW p \in Procs, NEW kind \in Kinds
               PROVE  files'[n] = <<p, kind>> <=> HasFd(p, kind, n)'
    BY DEF Owned
  <2>3. files[n] = <<p, kind>> <=> HasFd(p, kind, n)
    BY DEF Owned
  <2>4. files[m] # <<p, kind>>
    BY <2>1 DEF Free
  <2>5. CASE p # q
    BY <2>1, <2>2, <2>3, <2>4, <2>5 DEF HasFd, TypeOK
  <2>6. CASE p = q /\ n # m
    BY <2>1, <2>2, <2>3, <2>6 DEF HasFd, TypeOK
  <2>7. CASE p = q /\ n = m
    BY <2>1, <2>2, <2>3, <2>4, <2>7 DEF HasFd, TypeOK, PlaceInv, InOpen, Kinds, Slots, Closed
  <2> QED
    BY <2>5, <2>6, <2>7
<1>7. ASSUME NEW q \in Procs, SocketFails(q) PROVE Owned'
  BY <1>7 DEF SocketFails, End, GoTo, Fault, NoneFree, TypeOK, PlaceInv, Owned, HasFd, vars,
     kernelVars, moduleVars, readerVars, historyVars, HoldsLocal, InLookup, InOpen, Fds, Closed,
     Slots, Kinds
<1>8. ASSUME NEW q \in Procs, Setup(q) PROVE Owned'
  BY <1>8 DEF Setup, GoTo, TypeOK, PlaceInv, Owned, HasFd, vars, kernelVars, moduleVars,
     readerVars, historyVars, HoldsLocal, InLookup, InOpen, Fds, Closed, Slots, Kinds
<1>9. ASSUME NEW q \in Procs, SetupFails(q) PROVE Owned'
  BY <1>9 DEF SetupFails, GoTo, Fault, TypeOK, PlaceInv, Owned, HasFd, vars, kernelVars,
     moduleVars, readerVars, historyVars, HoldsLocal, InLookup, InOpen, Fds, Closed, Slots,
     Kinds
<1>10. ASSUME NEW q \in Procs, Undo(q) PROVE Owned'
  <2> DEFINE m == fd[q]
  <2>1. /\ files' = [k \in Fds |-> IF k = m THEN Free ELSE files[k]]
        /\ sockFd' = sockFd
        /\ pc[q] = "undo" /\ pc' = [pc EXCEPT ![q] = "idle"]
        /\ fd' = [fd EXCEPT ![q] = Closed]
        /\ cur' = [cur EXCEPT ![q] = "main"]
    BY <1>10 DEF Undo, SysClose, End, GoTo
  <2>2. m \in Fds /\ files[m] = <<q, cur[q]>>
    BY <2>1 DEF Owned, HasFd, TypeOK, PlaceInv, HoldsLocal, InOpen, InLookup, Closed, Kinds, Slots
  <2> SUFFICES ASSUME NEW n \in Fds, NEW p \in Procs, NEW kind \in Kinds
               PROVE  files'[n] = <<p, kind>> <=> HasFd(p, kind, n)'
    BY DEF Owned
  <2>3. files[n] = <<p, kind>> <=> HasFd(p, kind, n)
    BY DEF Owned
  <2>4. files'[m] # <<p, kind>>
    BY <2>1, <2>2 DEF Free
  <2>5. CASE p # q
    BY <2>1, <2>2, <2>3, <2>4, <2>5 DEF HasFd, TypeOK
  <2>6. CASE p = q /\ n # m
    BY <2>1, <2>2, <2>3, <2>6 DEF HasFd, TypeOK, Kinds, Slots
  <2>7. CASE p = q /\ n = m
    <3>1. ASSUME HasFd(p, kind, n)' PROVE FALSE
      <4>1. kind \in Slots /\ sockFd[q][kind] = n /\ ~(pc'[q] = "mark" /\ cur'[q] = kind)
        BY <2>1, <2>2, <2>7, <3>1 DEF HasFd, TypeOK, Fds, Closed
      <4>2. HasFd(q, kind, n)
        BY <2>1, <4>1 DEF HasFd
      <4>3. kind = cur[q]
        BY <2>2, <2>3, <2>7, <4>2
      <4> QED
        BY <2>1, <2>2, <2>7, <4>1, <4>3 DEF PlaceInv, InOpen, TypeOK, Fds, Closed, Slots
    <3> QED
      BY <2>4, <2>7, <3>1
  <2> QED
    BY <2>5, <2>6, <2>7
<1>11. ASSUME NEW q \in Procs, Join(q) PROVE Owned'
  BY <1>11 DEF Join, End, GoTo, TypeOK, PlaceInv, Owned, HasFd, vars, kernelVars, moduleVars,
     readerVars, historyVars, HoldsLocal, InLookup, InOpen, Fds, Closed, Slots, Kinds
<1>12. ASSUME NEW q \in Procs, JoinFails(q) PROVE Owned'
  BY <1>12 DEF JoinFails, GoTo, Fault, TypeOK, PlaceInv, Owned, HasFd, vars, kernelVars,
     moduleVars, readerVars, historyVars, HoldsLocal, InLookup, InOpen, Fds, Closed, Slots,
     Kinds
<1>13. ASSUME NEW q \in Procs, Found(q) PROVE Owned'
  <2>1. /\ pc' = [pc EXCEPT ![q] = "idle"] \/ pc' = [pc EXCEPT ![q] = "lookup"]
        /\ pc[q] \in {"lookup", "again"}
        /\ UNCHANGED <<files, sockFd, fd>>
    BY <1>13 DEF Found, End, GoTo, kernelVars
  <2>2. cur[q] = "main"
    BY <2>1 DEF PlaceInv, InLookup
  <2>3. cur' = cur
    <3>1. cur' = [cur EXCEPT ![q] = "main"] \/ cur' = cur
      BY <1>13 DEF Found, End
    <3> QED
      BY <2>2, <3>1 DEF TypeOK
  <2> QED
    BY <2>1, <2>3 DEF Owned, HasFd, TypeOK
<1>14. ASSUME NEW q \in Procs, NotFound(q) PROVE Owned'
  BY <1>14 DEF NotFound, GoTo, NextFamily, TypeOK, PlaceInv, Owned, HasFd, vars, kernelVars,
     moduleVars, readerVars, historyVars, HoldsLocal, InLookup, InOpen, Fds, Closed, Slots,
     Kinds
<1>15. ASSUME NEW q \in Procs, LookupFails(q) PROVE Owned'
  BY <1>15 DEF LookupFails, GoTo, Fault, NextFamily, TypeOK, PlaceInv, Owned, HasFd, vars,
     kernelVars, moduleVars, readerVars, historyVars, HoldsLocal, InLookup, InOpen, Fds, Closed,
     Slots, Kinds
<1>16. ASSUME NEW q \in Procs, Check(q) PROVE Owned'
  BY <1>16 DEF Check, GoTo, TypeOK, PlaceInv, Owned, HasFd, vars, kernelVars, moduleVars,
     readerVars, historyVars, HoldsLocal, InLookup, InOpen, Fds, Closed, Slots, Kinds
<1>17. ASSUME NEW q \in Procs, LoadSocket(q) PROVE Owned'
  <2>1. PICK m \in Fds : /\ files[m] = Free
                         /\ files' = [files EXCEPT ![m] = <<q, "inet">>]
                         /\ fd' = [fd EXCEPT ![q] = m]
    BY <1>17 DEF LoadSocket, GiveFd
  <2>2. /\ sockFd' = sockFd /\ cur' = cur
        /\ pc[q] = "load" /\ pc' = [pc EXCEPT ![q] = "ioctl"]
    BY <1>17 DEF LoadSocket, GoTo
  <2> SUFFICES ASSUME NEW n \in Fds, NEW p \in Procs, NEW kind \in Kinds
               PROVE  files'[n] = <<p, kind>> <=> HasFd(p, kind, n)'
    BY DEF Owned
  <2>3. files[n] = <<p, kind>> <=> HasFd(p, kind, n)
    BY DEF Owned
  <2>4. files[m] # <<p, kind>>
    BY <2>1 DEF Free
  <2>5. CASE p # q
    BY <2>1, <2>2, <2>3, <2>4, <2>5 DEF HasFd, TypeOK
  <2>6. CASE p = q /\ n # m
    BY <2>1, <2>2, <2>3, <2>6 DEF HasFd, TypeOK
  <2>7. CASE p = q /\ n = m
    BY <2>1, <2>2, <2>3, <2>4, <2>7 DEF HasFd, TypeOK, PlaceInv, InOpen, Kinds, Slots, Closed
  <2> QED
    BY <2>5, <2>6, <2>7
<1>18. ASSUME NEW q \in Procs, LoadSocketFails(q) PROVE Owned'
  BY <1>18 DEF LoadSocketFails, GoTo, Fault, NoneFree, TypeOK, PlaceInv, Owned, HasFd, vars,
     kernelVars, moduleVars, readerVars, historyVars, HoldsLocal, InLookup, InOpen, Fds, Closed,
     Slots, Kinds
<1>19. ASSUME NEW q \in Procs, Ioctl(q) PROVE Owned'
  BY <1>19 DEF Ioctl, GoTo, CanLoad, TypeOK, PlaceInv, Owned, HasFd, vars, kernelVars,
     moduleVars, readerVars, historyVars, HoldsLocal, InLookup, InOpen, Fds, Closed, Slots,
     Kinds
<1>20. ASSUME NEW q \in Procs, IoctlReturns(q) PROVE Owned'
  BY <1>20 DEF IoctlReturns, GoTo, TypeOK, PlaceInv, Owned, HasFd, vars, kernelVars, moduleVars,
     readerVars, historyVars, HoldsLocal, InLookup, InOpen, Fds, Closed, Slots, Kinds
<1>21. ASSUME NEW q \in Procs, SetTried(q) PROVE Owned'
  BY <1>21 DEF SetTried, GoTo, TypeOK, PlaceInv, Owned, HasFd, vars, kernelVars, moduleVars,
     readerVars, historyVars, HoldsLocal, InLookup, InOpen, Fds, Closed, Slots, Kinds
<1>22. ASSUME NEW q \in Procs, LoadClose(q) PROVE Owned'
  <2> DEFINE m == fd[q]
  <2>1. /\ files' = [k \in Fds |-> IF k = m THEN Free ELSE files[k]]
        /\ sockFd' = sockFd
        /\ pc[q] = "loaded" /\ pc' = [pc EXCEPT ![q] = "again"]
        /\ fd' = [fd EXCEPT ![q] = Closed]
        /\ cur' = cur
    BY <1>22 DEF LoadClose, SysClose, End, GoTo
  <2>2. m \in Fds /\ files[m] = <<q, "inet">>
    BY <2>1 DEF Owned, HasFd, TypeOK, PlaceInv, HoldsLocal, InOpen, InLookup, Closed, Kinds, Slots
  <2> SUFFICES ASSUME NEW n \in Fds, NEW p \in Procs, NEW kind \in Kinds
               PROVE  files'[n] = <<p, kind>> <=> HasFd(p, kind, n)'
    BY DEF Owned
  <2>3. files[n] = <<p, kind>> <=> HasFd(p, kind, n)
    BY DEF Owned
  <2>4. files'[m] # <<p, kind>>
    BY <2>1, <2>2 DEF Free
  <2>5. CASE p # q
    BY <2>1, <2>2, <2>3, <2>4, <2>5 DEF HasFd, TypeOK
  <2>6. CASE p = q /\ n # m
    BY <2>1, <2>2, <2>3, <2>6 DEF HasFd, TypeOK, Kinds, Slots
  <2>7. CASE p = q /\ n = m
    <3>1. ASSUME HasFd(p, kind, n)' PROVE FALSE
      <4>1. kind \in Slots /\ sockFd[q][kind] = n /\ ~(pc'[q] = "mark" /\ cur'[q] = kind)
        BY <2>1, <2>2, <2>7, <3>1 DEF HasFd, TypeOK, Fds, Closed
      <4>2. HasFd(q, kind, n)
        BY <2>1, <4>1 DEF HasFd
      <4>3. kind = "inet"
        BY <2>2, <2>3, <2>7, <4>2
      <4> QED
        BY <2>1, <2>2, <2>7, <4>1, <4>3 DEF PlaceInv, InOpen, TypeOK, Fds, Closed, Slots
    <3> QED
      BY <2>4, <2>7, <3>1
  <2> QED
    BY <2>5, <2>6, <2>7
<1>23. ASSUME NEW q \in Procs, CloseFd(q) PROVE Owned'
  <2> DEFINE m == sockFd[q][cur[q]]
  <2>1. /\ files' = [k \in Fds |-> IF k = m THEN Free ELSE files[k]]
        /\ sockFd' = sockFd
        /\ pc[q] = "close" /\ pc' = [pc EXCEPT ![q] = "mark"]
        /\ fd' = fd
        /\ cur' = cur
    BY <1>23 DEF CloseFd, SysClose, End, GoTo
  <2>2. m \in Fds /\ files[m] = <<q, cur[q]>>
    BY <2>1 DEF Owned, HasFd, TypeOK, PlaceInv, HoldsLocal, InOpen, InLookup, Closed, Kinds, Slots
  <2> SUFFICES ASSUME NEW n \in Fds, NEW p \in Procs, NEW kind \in Kinds
               PROVE  files'[n] = <<p, kind>> <=> HasFd(p, kind, n)'
    BY DEF Owned
  <2>3. files[n] = <<p, kind>> <=> HasFd(p, kind, n)
    BY DEF Owned
  <2>4. files'[m] # <<p, kind>>
    BY <2>1, <2>2 DEF Free
  <2>5. CASE p # q
    BY <2>1, <2>2, <2>3, <2>4, <2>5 DEF HasFd, TypeOK
  <2>6. CASE p = q /\ n # m
    BY <2>1, <2>2, <2>3, <2>6 DEF HasFd, TypeOK, Kinds, Slots
  <2>7. CASE p = q /\ n = m
    <3>1. ASSUME HasFd(p, kind, n)' PROVE FALSE
      <4>1. kind \in Slots /\ sockFd[q][kind] = n /\ ~(pc'[q] = "mark" /\ cur'[q] = kind)
        BY <2>1, <2>2, <2>7, <3>1 DEF HasFd, TypeOK, Fds, Closed
      <4>2. HasFd(q, kind, n)
        BY <2>1, <4>1 DEF HasFd
      <4>3. kind = cur[q]
        BY <2>2, <2>3, <2>7, <4>2
      <4> QED
        BY <2>1, <2>2, <2>7, <4>1, <4>3 DEF PlaceInv, InOpen, TypeOK, Fds, Closed, Slots
    <3> QED
      BY <2>4, <2>7, <3>1
  <2> QED
    BY <2>5, <2>6, <2>7
<1>24. ASSUME NEW q \in Procs, MarkClosed(q) PROVE Owned'
  BY <1>24 DEF MarkClosed, End, GoTo, TypeOK, PlaceInv, Owned, HasFd, vars, kernelVars,
     moduleVars, readerVars, historyVars, HoldsLocal, InLookup, InOpen, Fds, Closed, Slots,
     Kinds
<1>25. ASSUME NEW q \in Procs, ReadFdField(q) PROVE Owned'
  BY <1>25 DEF ReadFdField, TypeOK, PlaceInv, Owned, HasFd, vars, kernelVars, moduleVars,
     readerVars, historyVars, HoldsLocal, InLookup, InOpen, Fds, Closed, Slots, Kinds
<1>26. ASSUME NEW q \in Procs, Recvfrom(q) PROVE Owned'
  BY <1>26 DEF Recvfrom, TypeOK, PlaceInv, Owned, HasFd, vars, kernelVars, moduleVars,
     readerVars, historyVars, HoldsLocal, InLookup, InOpen, Fds, Closed, Slots, Kinds
<1>27. ASSUME NEW q \in Procs, Received(q) PROVE Owned'
  <2>1. UNCHANGED <<files, sockFd, pc, cur, fd>>
    BY <1>27 DEF Received, kernelVars
  <2> QED
    BY <2>1 DEF Owned, HasFd
<1>28. ASSUME NEW q \in Procs, NEW slot \in Slots, Close(q, slot) PROVE Owned'
  BY <1>28 DEF Close, Begin, GoTo, TypeOK, PlaceInv, Owned, HasFd, vars, kernelVars, moduleVars,
     readerVars, historyVars, HoldsLocal, InLookup, InOpen, Fds, Closed, Slots, Kinds
<1>29. CASE UNCHANGED vars
  BY <1>29 DEF TypeOK, PlaceInv, Owned, HasFd, vars, kernelVars, moduleVars, readerVars,
     historyVars, HoldsLocal, InLookup, InOpen, Fds, Closed, Slots, Kinds
<1> QED
  BY <1>1, <1>2, <1>3, <1>4, <1>5, <1>6, <1>7, <1>8, <1>9, <1>10, <1>11, <1>12, <1>13, <1>14,
     <1>15, <1>16, <1>17, <1>18, <1>19, <1>20, <1>21, <1>22, <1>23, <1>24, <1>25, <1>26, <1>27,
     <1>28, <1>29
  DEF Next, Open, LookupFamily, CloseStep, Consume

\* Every step keeps what is known of load attempts.
LEMMA LoadStep ==
    TypeOK /\ LoadInv /\ [Next]_vars => LoadInv'
<1> SUFFICES ASSUME TypeOK, LoadInv, [Next]_vars PROVE LoadInv'
  OBVIOUS
<1>1. CASE Register
  <2>1. registered \in 0 .. FamilyCount /\ registered < FamilyCount
    BY <1>1 DEF Register, TypeOK, LoadInv
  <2>2. /\ loading' = (registered + 1 < FamilyCount) /\ registered' = registered + 1
        /\ UNCHANGED <<loadable, tried, pc, unloaded, noAttempt>>
    BY <1>1 DEF Register, historyVars
  <2>3. loading' \/ registered' = FamilyCount
    <3>1. registered + 1 < FamilyCount \/ registered + 1 = FamilyCount
      BY <2>1
    <3>2. CASE registered + 1 < FamilyCount
      BY <2>2, <3>2, Zenon
    <3>3. CASE registered + 1 = FamilyCount
      BY <2>2, <3>3
    <3> QED
      BY <3>1, <3>2, <3>3
  <2>4. loading' => registered' < FamilyCount
    BY <2>2
  <2>5. registered # FamilyCount
    BY <2>1
  <2>6. ASSUME NEW p \in Procs PROVE pc[p] \in {"tried", "loaded", "again"} => InVain
    BY <2>5 DEF LoadInv
  <2>7. tried # {} => InVain
    BY <2>5 DEF LoadInv
  <2> QED
    BY <2>2, <2>3, <2>4, <2>6, <2>7 DEF LoadInv, InVain
<1>2. CASE Modprobe
  BY <1>2 DEF Modprobe, Fault, CanLoad, TypeOK, LoadInv, InVain, vars, kernelVars, moduleVars,
     readerVars, historyVars
<1>3. CASE Unload
  BY <1>3 DEF Unload, Fault, TypeOK, LoadInv, InVain, vars, kernelVars, moduleVars, readerVars,
     historyVars
<1>4. ASSUME NEW q \in Procs, NewDpif(q) PROVE LoadInv'
  BY <1>4 DEF NewDpif, Begin, GoTo, TypeOK, LoadInv, InVain, vars, kernelVars, moduleVars,
     readerVars, historyVars
<1>5. ASSUME NEW q \in Procs, ConsumeVportEvents(q) PROVE LoadInv'
  BY <1>5 DEF ConsumeVportEvents, Begin, GoTo, TypeOK, LoadInv, InVain, vars, kernelVars,
     moduleVars, readerVars, historyVars
<1>6. ASSUME NEW q \in Procs, Socket(q) PROVE LoadInv'
  BY <1>6 DEF Socket, GiveFd, GoTo, TypeOK, LoadInv, InVain, vars, kernelVars, moduleVars,
     readerVars, historyVars
<1>7. ASSUME NEW q \in Procs, SocketFails(q) PROVE LoadInv'
  BY <1>7 DEF SocketFails, End, GoTo, Fault, NoneFree, TypeOK, LoadInv, InVain, vars,
     kernelVars, moduleVars, readerVars, historyVars
<1>8. ASSUME NEW q \in Procs, Setup(q) PROVE LoadInv'
  BY <1>8 DEF Setup, GoTo, TypeOK, LoadInv, InVain, vars, kernelVars, moduleVars, readerVars,
     historyVars
<1>9. ASSUME NEW q \in Procs, SetupFails(q) PROVE LoadInv'
  BY <1>9 DEF SetupFails, GoTo, Fault, TypeOK, LoadInv, InVain, vars, kernelVars, moduleVars,
     readerVars, historyVars
<1>10. ASSUME NEW q \in Procs, Undo(q) PROVE LoadInv'
  BY <1>10 DEF Undo, SysClose, End, GoTo, TypeOK, LoadInv, InVain, vars, kernelVars, moduleVars,
     readerVars, historyVars
<1>11. ASSUME NEW q \in Procs, Join(q) PROVE LoadInv'
  BY <1>11 DEF Join, End, GoTo, TypeOK, LoadInv, InVain, vars, kernelVars, moduleVars,
     readerVars, historyVars
<1>12. ASSUME NEW q \in Procs, JoinFails(q) PROVE LoadInv'
  BY <1>12 DEF JoinFails, GoTo, Fault, TypeOK, LoadInv, InVain, vars, kernelVars, moduleVars,
     readerVars, historyVars
<1>13. ASSUME NEW q \in Procs, Found(q) PROVE LoadInv'
  BY <1>13 DEF Found, End, GoTo, NextFamily, TypeOK, LoadInv, InVain, vars, kernelVars,
     moduleVars, readerVars, historyVars
<1>14. ASSUME NEW q \in Procs, NotFound(q) PROVE LoadInv'
  BY <1>14 DEF NotFound, GoTo, NextFamily, TypeOK, LoadInv, InVain, vars, kernelVars,
     moduleVars, readerVars, historyVars
<1>15. ASSUME NEW q \in Procs, LookupFails(q) PROVE LoadInv'
  BY <1>15 DEF LookupFails, GoTo, Fault, NextFamily, TypeOK, LoadInv, InVain, vars, kernelVars,
     moduleVars, readerVars, historyVars
<1>16. ASSUME NEW q \in Procs, Check(q) PROVE LoadInv'
  BY <1>16 DEF Check, GoTo, TypeOK, LoadInv, InVain, vars, kernelVars, moduleVars, readerVars,
     historyVars
<1>17. ASSUME NEW q \in Procs, LoadSocket(q) PROVE LoadInv'
  BY <1>17 DEF LoadSocket, GiveFd, GoTo, TypeOK, LoadInv, InVain, vars, kernelVars, moduleVars,
     readerVars, historyVars
<1>18. ASSUME NEW q \in Procs, LoadSocketFails(q) PROVE LoadInv'
  BY <1>18 DEF LoadSocketFails, GoTo, Fault, NoneFree, TypeOK, LoadInv, InVain, vars,
     kernelVars, moduleVars, readerVars, historyVars
<1>19. ASSUME NEW q \in Procs, Ioctl(q) PROVE LoadInv'
  BY <1>19 DEF Ioctl, GoTo, CanLoad, TypeOK, LoadInv, InVain, vars, kernelVars, moduleVars,
     readerVars, historyVars
<1>20. ASSUME NEW q \in Procs, IoctlReturns(q) PROVE LoadInv'
  BY <1>20 DEF IoctlReturns, GoTo, TypeOK, LoadInv, InVain, vars, kernelVars, moduleVars,
     readerVars, historyVars
<1>21. ASSUME NEW q \in Procs, SetTried(q) PROVE LoadInv'
  BY <1>21 DEF SetTried, GoTo, TypeOK, LoadInv, InVain, vars, kernelVars, moduleVars,
     readerVars, historyVars
<1>22. ASSUME NEW q \in Procs, LoadClose(q) PROVE LoadInv'
  BY <1>22 DEF LoadClose, SysClose, GoTo, TypeOK, LoadInv, InVain, vars, kernelVars, moduleVars,
     readerVars, historyVars
<1>23. ASSUME NEW q \in Procs, CloseFd(q) PROVE LoadInv'
  BY <1>23 DEF CloseFd, SysClose, GoTo, TypeOK, LoadInv, InVain, vars, kernelVars, moduleVars,
     readerVars, historyVars
<1>24. ASSUME NEW q \in Procs, MarkClosed(q) PROVE LoadInv'
  BY <1>24 DEF MarkClosed, End, GoTo, TypeOK, LoadInv, InVain, vars, kernelVars, moduleVars,
     readerVars, historyVars
<1>25. ASSUME NEW q \in Procs, ReadFdField(q) PROVE LoadInv'
  BY <1>25 DEF ReadFdField, TypeOK, LoadInv, InVain, vars, kernelVars, moduleVars, readerVars,
     historyVars
<1>26. ASSUME NEW q \in Procs, Recvfrom(q) PROVE LoadInv'
  BY <1>26 DEF Recvfrom, TypeOK, LoadInv, InVain, vars, kernelVars, moduleVars, readerVars,
     historyVars
<1>27. ASSUME NEW q \in Procs, Received(q) PROVE LoadInv'
  BY <1>27 DEF Received, Fault, TypeOK, LoadInv, InVain, vars, kernelVars, moduleVars,
     readerVars, historyVars
<1>28. ASSUME NEW q \in Procs, NEW slot \in Slots, Close(q, slot) PROVE LoadInv'
  BY <1>28 DEF Close, Begin, GoTo, TypeOK, LoadInv, InVain, vars, kernelVars, moduleVars,
     readerVars, historyVars
<1>29. CASE UNCHANGED vars
  BY <1>29 DEF TypeOK, LoadInv, InVain, vars, kernelVars, moduleVars, readerVars, historyVars
<1> QED
  BY <1>1, <1>2, <1>3, <1>4, <1>5, <1>6, <1>7, <1>8, <1>9, <1>10, <1>11, <1>12, <1>13, <1>14,
     <1>15, <1>16, <1>17, <1>18, <1>19, <1>20, <1>21, <1>22, <1>23, <1>24, <1>25, <1>26, <1>27,
     <1>28, <1>29
  DEF Next, Open, LookupFamily, CloseStep, Consume

\* A goroutine that gives up does so after a load attempt that was in vain.
LEMMA UnavailableStep ==
    TypeOK /\ LoadInv /\ UnavailableSound /\ [Next]_vars => UnavailableSound'
<1> SUFFICES ASSUME TypeOK, LoadInv, UnavailableSound, [Next]_vars PROVE UnavailableSound'
  OBVIOUS
<1>1. CASE Register
  BY <1>1 DEF Register, TypeOK, LoadInv, InVain, UnavailableSound, vars, kernelVars, moduleVars,
     readerVars, historyVars
<1>2. CASE Modprobe
  BY <1>2 DEF Modprobe, Fault, CanLoad, TypeOK, LoadInv, InVain, UnavailableSound, vars,
     kernelVars, moduleVars, readerVars, historyVars
<1>3. CASE Unload
  BY <1>3 DEF Unload, Fault, TypeOK, LoadInv, InVain, UnavailableSound, vars, kernelVars,
     moduleVars, readerVars, historyVars
<1>4. ASSUME NEW q \in Procs, NewDpif(q) PROVE UnavailableSound'
  BY <1>4 DEF NewDpif, Begin, GoTo, TypeOK, LoadInv, InVain, UnavailableSound, vars, kernelVars,
     moduleVars, readerVars, historyVars
<1>5. ASSUME NEW q \in Procs, ConsumeVportEvents(q) PROVE UnavailableSound'
  BY <1>5 DEF ConsumeVportEvents, Begin, GoTo, TypeOK, LoadInv, InVain, UnavailableSound, vars,
     kernelVars, moduleVars, readerVars, historyVars
<1>6. ASSUME NEW q \in Procs, Socket(q) PROVE UnavailableSound'
  BY <1>6 DEF Socket, GiveFd, GoTo, TypeOK, LoadInv, InVain, UnavailableSound, vars, kernelVars,
     moduleVars, readerVars, historyVars
<1>7. ASSUME NEW q \in Procs, SocketFails(q) PROVE UnavailableSound'
  BY <1>7 DEF SocketFails, End, GoTo, Fault, NoneFree, TypeOK, LoadInv, InVain,
     UnavailableSound, vars, kernelVars, moduleVars, readerVars, historyVars
<1>8. ASSUME NEW q \in Procs, Setup(q) PROVE UnavailableSound'
  BY <1>8 DEF Setup, GoTo, TypeOK, LoadInv, InVain, UnavailableSound, vars, kernelVars,
     moduleVars, readerVars, historyVars
<1>9. ASSUME NEW q \in Procs, SetupFails(q) PROVE UnavailableSound'
  BY <1>9 DEF SetupFails, GoTo, Fault, TypeOK, LoadInv, InVain, UnavailableSound, vars,
     kernelVars, moduleVars, readerVars, historyVars
<1>10. ASSUME NEW q \in Procs, Undo(q) PROVE UnavailableSound'
  BY <1>10 DEF Undo, SysClose, End, GoTo, TypeOK, LoadInv, InVain, UnavailableSound, vars,
     kernelVars, moduleVars, readerVars, historyVars
<1>11. ASSUME NEW q \in Procs, Join(q) PROVE UnavailableSound'
  BY <1>11 DEF Join, End, GoTo, TypeOK, LoadInv, InVain, UnavailableSound, vars, kernelVars,
     moduleVars, readerVars, historyVars
<1>12. ASSUME NEW q \in Procs, JoinFails(q) PROVE UnavailableSound'
  BY <1>12 DEF JoinFails, GoTo, Fault, TypeOK, LoadInv, InVain, UnavailableSound, vars,
     kernelVars, moduleVars, readerVars, historyVars
<1>13. ASSUME NEW q \in Procs, Found(q) PROVE UnavailableSound'
  BY <1>13 DEF Found, End, GoTo, NextFamily, TypeOK, LoadInv, InVain, UnavailableSound, vars,
     kernelVars, moduleVars, readerVars, historyVars
<1>14. ASSUME NEW q \in Procs, NotFound(q) PROVE UnavailableSound'
  BY <1>14 DEF NotFound, GoTo, NextFamily, TypeOK, LoadInv, InVain, UnavailableSound, vars,
     kernelVars, moduleVars, readerVars, historyVars
<1>15. ASSUME NEW q \in Procs, LookupFails(q) PROVE UnavailableSound'
  BY <1>15 DEF LookupFails, GoTo, Fault, NextFamily, TypeOK, LoadInv, InVain, UnavailableSound,
     vars, kernelVars, moduleVars, readerVars, historyVars
<1>16. ASSUME NEW q \in Procs, Check(q) PROVE UnavailableSound'
  BY <1>16 DEF Check, GoTo, TypeOK, LoadInv, InVain, UnavailableSound, vars, kernelVars,
     moduleVars, readerVars, historyVars
<1>17. ASSUME NEW q \in Procs, LoadSocket(q) PROVE UnavailableSound'
  BY <1>17 DEF LoadSocket, GiveFd, GoTo, TypeOK, LoadInv, InVain, UnavailableSound, vars,
     kernelVars, moduleVars, readerVars, historyVars
<1>18. ASSUME NEW q \in Procs, LoadSocketFails(q) PROVE UnavailableSound'
  BY <1>18 DEF LoadSocketFails, GoTo, Fault, NoneFree, TypeOK, LoadInv, InVain,
     UnavailableSound, vars, kernelVars, moduleVars, readerVars, historyVars
<1>19. ASSUME NEW q \in Procs, Ioctl(q) PROVE UnavailableSound'
  BY <1>19 DEF Ioctl, GoTo, CanLoad, TypeOK, LoadInv, InVain, UnavailableSound, vars,
     kernelVars, moduleVars, readerVars, historyVars
<1>20. ASSUME NEW q \in Procs, IoctlReturns(q) PROVE UnavailableSound'
  BY <1>20 DEF IoctlReturns, GoTo, TypeOK, LoadInv, InVain, UnavailableSound, vars, kernelVars,
     moduleVars, readerVars, historyVars
<1>21. ASSUME NEW q \in Procs, SetTried(q) PROVE UnavailableSound'
  BY <1>21 DEF SetTried, GoTo, TypeOK, LoadInv, InVain, UnavailableSound, vars, kernelVars,
     moduleVars, readerVars, historyVars
<1>22. ASSUME NEW q \in Procs, LoadClose(q) PROVE UnavailableSound'
  BY <1>22 DEF LoadClose, SysClose, GoTo, TypeOK, LoadInv, InVain, UnavailableSound, vars,
     kernelVars, moduleVars, readerVars, historyVars
<1>23. ASSUME NEW q \in Procs, CloseFd(q) PROVE UnavailableSound'
  BY <1>23 DEF CloseFd, SysClose, GoTo, TypeOK, LoadInv, InVain, UnavailableSound, vars,
     kernelVars, moduleVars, readerVars, historyVars
<1>24. ASSUME NEW q \in Procs, MarkClosed(q) PROVE UnavailableSound'
  BY <1>24 DEF MarkClosed, End, GoTo, TypeOK, LoadInv, InVain, UnavailableSound, vars,
     kernelVars, moduleVars, readerVars, historyVars
<1>25. ASSUME NEW q \in Procs, ReadFdField(q) PROVE UnavailableSound'
  BY <1>25 DEF ReadFdField, TypeOK, LoadInv, InVain, UnavailableSound, vars, kernelVars,
     moduleVars, readerVars, historyVars
<1>26. ASSUME NEW q \in Procs, Recvfrom(q) PROVE UnavailableSound'
  BY <1>26 DEF Recvfrom, TypeOK, LoadInv, InVain, UnavailableSound, vars, kernelVars,
     moduleVars, readerVars, historyVars
<1>27. ASSUME NEW q \in Procs, Received(q) PROVE UnavailableSound'
  BY <1>27 DEF Received, Fault, TypeOK, LoadInv, InVain, UnavailableSound, vars, kernelVars,
     moduleVars, readerVars, historyVars
<1>28. ASSUME NEW q \in Procs, NEW slot \in Slots, Close(q, slot) PROVE UnavailableSound'
  BY <1>28 DEF Close, Begin, GoTo, TypeOK, LoadInv, InVain, UnavailableSound, vars, kernelVars,
     moduleVars, readerVars, historyVars
<1>29. CASE UNCHANGED vars
  BY <1>29 DEF TypeOK, LoadInv, InVain, UnavailableSound, vars, kernelVars, moduleVars,
     readerVars, historyVars
<1> QED
  BY <1>1, <1>2, <1>3, <1>4, <1>5, <1>6, <1>7, <1>8, <1>9, <1>10, <1>11, <1>12, <1>13, <1>14,
     <1>15, <1>16, <1>17, <1>18, <1>19, <1>20, <1>21, <1>22, <1>23, <1>24, <1>25, <1>26, <1>27,
     <1>28, <1>29
  DEF Next, Open, LookupFamily, CloseStep, Consume

\* Every step keeps the number the event loop is about to read from in step with its Dpif.
LEMMA ReaderStep ==
    TypeOK /\ PlaceInv /\ ReaderInv /\ [Next]_vars => ReaderInv'
<1> SUFFICES ASSUME TypeOK, PlaceInv, ReaderInv, [Next]_vars PROVE ReaderInv'
  OBVIOUS
<1>1. CASE Register
  BY <1>1 DEF Register, TypeOK, PlaceInv, ReaderInv, Closing, vars, kernelVars, moduleVars,
     readerVars, historyVars, HoldsLocal, InLookup, InOpen, Fds, Closed, Slots
<1>2. CASE Modprobe
  BY <1>2 DEF Modprobe, Fault, CanLoad, TypeOK, PlaceInv, ReaderInv, Closing, vars, kernelVars,
     moduleVars, readerVars, historyVars, HoldsLocal, InLookup, InOpen, Fds, Closed, Slots
<1>3. CASE Unload
  BY <1>3 DEF Unload, Fault, TypeOK, PlaceInv, ReaderInv, Closing, vars, kernelVars, moduleVars,
     readerVars, historyVars, HoldsLocal, InLookup, InOpen, Fds, Closed, Slots
<1>4. ASSUME NEW q \in Procs, NewDpif(q) PROVE ReaderInv'
  BY <1>4 DEF NewDpif, Begin, GoTo, TypeOK, PlaceInv, ReaderInv, Closing, vars, kernelVars,
     moduleVars, readerVars, historyVars, HoldsLocal, InLookup, InOpen, Fds, Closed, Slots
<1>5. ASSUME NEW q \in Procs, ConsumeVportEvents(q) PROVE ReaderInv'
  BY <1>5 DEF ConsumeVportEvents, Begin, GoTo, TypeOK, PlaceInv, ReaderInv, Closing, vars,
     kernelVars, moduleVars, readerVars, historyVars, HoldsLocal, InLookup, InOpen, Fds, Closed,
     Slots
<1>6. ASSUME NEW q \in Procs, Socket(q) PROVE ReaderInv'
  BY <1>6 DEF Socket, GiveFd, GoTo, TypeOK, PlaceInv, ReaderInv, Closing, vars, kernelVars,
     moduleVars, readerVars, historyVars, HoldsLocal, InLookup, InOpen, Fds, Closed, Slots
<1>7. ASSUME NEW q \in Procs, SocketFails(q) PROVE ReaderInv'
  BY <1>7 DEF SocketFails, End, GoTo, Fault, NoneFree, TypeOK, PlaceInv, ReaderInv, Closing,
     vars, kernelVars, moduleVars, readerVars, historyVars, HoldsLocal, InLookup, InOpen, Fds,
     Closed, Slots
<1>8. ASSUME NEW q \in Procs, Setup(q) PROVE ReaderInv'
  BY <1>8 DEF Setup, GoTo, TypeOK, PlaceInv, ReaderInv, Closing, vars, kernelVars, moduleVars,
     readerVars, historyVars, HoldsLocal, InLookup, InOpen, Fds, Closed, Slots
<1>9. ASSUME NEW q \in Procs, SetupFails(q) PROVE ReaderInv'
  BY <1>9 DEF SetupFails, GoTo, Fault, TypeOK, PlaceInv, ReaderInv, Closing, vars, kernelVars,
     moduleVars, readerVars, historyVars, HoldsLocal, InLookup, InOpen, Fds, Closed, Slots
<1>10. ASSUME NEW q \in Procs, Undo(q) PROVE ReaderInv'
  BY <1>10 DEF Undo, SysClose, End, GoTo, TypeOK, PlaceInv, ReaderInv, Closing, vars,
     kernelVars, moduleVars, readerVars, historyVars, HoldsLocal, InLookup, InOpen, Fds, Closed,
     Slots
<1>11. ASSUME NEW q \in Procs, Join(q) PROVE ReaderInv'
  BY <1>11 DEF Join, End, GoTo, TypeOK, PlaceInv, ReaderInv, Closing, vars, kernelVars,
     moduleVars, readerVars, historyVars, HoldsLocal, InLookup, InOpen, Fds, Closed, Slots
<1>12. ASSUME NEW q \in Procs, JoinFails(q) PROVE ReaderInv'
  BY <1>12 DEF JoinFails, GoTo, Fault, TypeOK, PlaceInv, ReaderInv, Closing, vars, kernelVars,
     moduleVars, readerVars, historyVars, HoldsLocal, InLookup, InOpen, Fds, Closed, Slots
<1>13. ASSUME NEW q \in Procs, Found(q) PROVE ReaderInv'
  BY <1>13 DEF Found, End, GoTo, NextFamily, TypeOK, PlaceInv, ReaderInv, Closing, vars,
     kernelVars, moduleVars, readerVars, historyVars, HoldsLocal, InLookup, InOpen, Fds, Closed,
     Slots
<1>14. ASSUME NEW q \in Procs, NotFound(q) PROVE ReaderInv'
  BY <1>14 DEF NotFound, GoTo, NextFamily, TypeOK, PlaceInv, ReaderInv, Closing, vars,
     kernelVars, moduleVars, readerVars, historyVars, HoldsLocal, InLookup, InOpen, Fds, Closed,
     Slots
<1>15. ASSUME NEW q \in Procs, LookupFails(q) PROVE ReaderInv'
  BY <1>15 DEF LookupFails, GoTo, Fault, NextFamily, TypeOK, PlaceInv, ReaderInv, Closing, vars,
     kernelVars, moduleVars, readerVars, historyVars, HoldsLocal, InLookup, InOpen, Fds, Closed,
     Slots
<1>16. ASSUME NEW q \in Procs, Check(q) PROVE ReaderInv'
  BY <1>16 DEF Check, GoTo, TypeOK, PlaceInv, ReaderInv, Closing, vars, kernelVars, moduleVars,
     readerVars, historyVars, HoldsLocal, InLookup, InOpen, Fds, Closed, Slots
<1>17. ASSUME NEW q \in Procs, LoadSocket(q) PROVE ReaderInv'
  BY <1>17 DEF LoadSocket, GiveFd, GoTo, TypeOK, PlaceInv, ReaderInv, Closing, vars, kernelVars,
     moduleVars, readerVars, historyVars, HoldsLocal, InLookup, InOpen, Fds, Closed, Slots
<1>18. ASSUME NEW q \in Procs, LoadSocketFails(q) PROVE ReaderInv'
  BY <1>18 DEF LoadSocketFails, GoTo, Fault, NoneFree, TypeOK, PlaceInv, ReaderInv, Closing,
     vars, kernelVars, moduleVars, readerVars, historyVars, HoldsLocal, InLookup, InOpen, Fds,
     Closed, Slots
<1>19. ASSUME NEW q \in Procs, Ioctl(q) PROVE ReaderInv'
  BY <1>19 DEF Ioctl, GoTo, CanLoad, TypeOK, PlaceInv, ReaderInv, Closing, vars, kernelVars,
     moduleVars, readerVars, historyVars, HoldsLocal, InLookup, InOpen, Fds, Closed, Slots
<1>20. ASSUME NEW q \in Procs, IoctlReturns(q) PROVE ReaderInv'
  BY <1>20 DEF IoctlReturns, GoTo, TypeOK, PlaceInv, ReaderInv, Closing, vars, kernelVars,
     moduleVars, readerVars, historyVars, HoldsLocal, InLookup, InOpen, Fds, Closed, Slots
<1>21. ASSUME NEW q \in Procs, SetTried(q) PROVE ReaderInv'
  BY <1>21 DEF SetTried, GoTo, TypeOK, PlaceInv, ReaderInv, Closing, vars, kernelVars,
     moduleVars, readerVars, historyVars, HoldsLocal, InLookup, InOpen, Fds, Closed, Slots
<1>22. ASSUME NEW q \in Procs, LoadClose(q) PROVE ReaderInv'
  BY <1>22 DEF LoadClose, SysClose, GoTo, TypeOK, PlaceInv, ReaderInv, Closing, vars,
     kernelVars, moduleVars, readerVars, historyVars, HoldsLocal, InLookup, InOpen, Fds, Closed,
     Slots
<1>23. ASSUME NEW q \in Procs, CloseFd(q) PROVE ReaderInv'
  BY <1>23 DEF CloseFd, SysClose, GoTo, TypeOK, PlaceInv, ReaderInv, Closing, vars, kernelVars,
     moduleVars, readerVars, historyVars, HoldsLocal, InLookup, InOpen, Fds, Closed, Slots
<1>24. ASSUME NEW q \in Procs, MarkClosed(q) PROVE ReaderInv'
  BY <1>24 DEF MarkClosed, End, GoTo, TypeOK, PlaceInv, ReaderInv, Closing, vars, kernelVars,
     moduleVars, readerVars, historyVars, HoldsLocal, InLookup, InOpen, Fds, Closed, Slots
<1>25. ASSUME NEW q \in Procs, ReadFdField(q) PROVE ReaderInv'
  BY <1>25 DEF ReadFdField, TypeOK, PlaceInv, ReaderInv, Closing, vars, kernelVars, moduleVars,
     readerVars, historyVars, HoldsLocal, InLookup, InOpen, Fds, Closed, Slots
<1>26. ASSUME NEW q \in Procs, Recvfrom(q) PROVE ReaderInv'
  BY <1>26 DEF Recvfrom, TypeOK, PlaceInv, ReaderInv, Closing, vars, kernelVars, moduleVars,
     readerVars, historyVars, HoldsLocal, InLookup, InOpen, Fds, Closed, Slots
<1>27. ASSUME NEW q \in Procs, Received(q) PROVE ReaderInv'
  BY <1>27 DEF Received, Fault, TypeOK, PlaceInv, ReaderInv, Closing, vars, kernelVars,
     moduleVars, readerVars, historyVars, HoldsLocal, InLookup, InOpen, Fds, Closed, Slots
<1>28. ASSUME NEW q \in Procs, NEW slot \in Slots, Close(q, slot) PROVE ReaderInv'
  BY <1>28 DEF Close, Begin, GoTo, TypeOK, PlaceInv, ReaderInv, Closing, vars, kernelVars,
     moduleVars, readerVars, historyVars, HoldsLocal, InLookup, InOpen, Fds, Closed, Slots
<1>29. CASE UNCHANGED vars
  BY <1>29 DEF TypeOK, PlaceInv, ReaderInv, Closing, vars, kernelVars, moduleVars, readerVars,
     historyVars, HoldsLocal, InLookup, InOpen, Fds, Closed, Slots
<1> QED
  BY <1>1, <1>2, <1>3, <1>4, <1>5, <1>6, <1>7, <1>8, <1>9, <1>10, <1>11, <1>12, <1>13, <1>14,
     <1>15, <1>16, <1>17, <1>18, <1>19, <1>20, <1>21, <1>22, <1>23, <1>24, <1>25, <1>26, <1>27,
     <1>28, <1>29
  DEF Next, Open, LookupFamily, CloseStep, Consume

\* The number of a Dpif that is not being closed is that of its own socket.
LEMMA ReadsOwnStep ==
    TypeOK /\ PlaceInv /\ Owned /\ ReaderInv /\ ReadsOwn /\ [Next]_vars => ReadsOwn'
<1> SUFFICES ASSUME TypeOK, PlaceInv, Owned, ReaderInv, ReadsOwn, [Next]_vars PROVE ReadsOwn'
  OBVIOUS
<1>1. CASE Register
  BY <1>1 DEF Register, TypeOK, PlaceInv, Owned, HasFd, ReaderInv, ReadsOwn, Closing, vars,
     kernelVars, moduleVars, readerVars, historyVars, HoldsLocal, InLookup, InOpen, Fds, Closed,
     Slots, Kinds, Sockets, Free
<1>2. CASE Modprobe
  BY <1>2 DEF Modprobe, Fault, CanLoad, TypeOK, PlaceInv, Owned, HasFd, ReaderInv, ReadsOwn,
     Closing, vars, kernelVars, moduleVars, readerVars, historyVars, HoldsLocal, InLookup,
     InOpen, Fds, Closed, Slots, Kinds, Sockets, Free
<1>3. CASE Unload
  BY <1>3 DEF Unload, Fault, TypeOK, PlaceInv, Owned, HasFd, ReaderInv, ReadsOwn, Closing, vars,
     kernelVars, moduleVars, readerVars, historyVars, HoldsLocal, InLookup, InOpen, Fds, Closed,
     Slots, Kinds, Sockets, Free
<1>4. ASSUME NEW q \in Procs, NewDpif(q) PROVE ReadsOwn'
  BY <1>4 DEF NewDpif, Begin, GoTo, TypeOK, PlaceInv, Owned, HasFd, ReaderInv, ReadsOwn,
     Closing, vars, kernelVars, moduleVars, readerVars, historyVars, HoldsLocal, InLookup,
     InOpen, Fds, Closed, Slots, Kinds, Sockets, Free
<1>5. ASSUME NEW q \in Procs, ConsumeVportEvents(q) PROVE ReadsOwn'
  BY <1>5 DEF ConsumeVportEvents, Begin, GoTo, TypeOK, PlaceInv, Owned, HasFd, ReaderInv,
     ReadsOwn, Closing, vars, kernelVars, moduleVars, readerVars, historyVars, HoldsLocal,
     InLookup, InOpen, Fds, Closed, Slots, Kinds, Sockets, Free
<1>6. ASSUME NEW q \in Procs, Socket(q) PROVE ReadsOwn'
  BY <1>6 DEF Socket, GiveFd, GoTo, TypeOK, PlaceInv, Owned, HasFd, ReaderInv, ReadsOwn,
     Closing, vars, kernelVars, moduleVars, readerVars, historyVars, HoldsLocal, InLookup,
     InOpen, Fds, Closed, Slots, Kinds, Sockets, Free
<1>7. ASSUME NEW q \in Procs, SocketFails(q) PROVE ReadsOwn'
  BY <1>7 DEF SocketFails, End, GoTo, Fault, NoneFree, TypeOK, PlaceInv, Owned, HasFd,
     ReaderInv, ReadsOwn, Closing, vars, kernelVars, moduleVars, readerVars, historyVars,
     HoldsLocal, InLookup, InOpen, Fds, Closed, Slots, Kinds, Sockets, Free
<1>8. ASSUME NEW q \in Procs, Setup(q) PROVE ReadsOwn'
  BY <1>8 DEF Setup, GoTo, TypeOK, PlaceInv, Owned, HasFd, ReaderInv, ReadsOwn, Closing, vars,
     kernelVars, moduleVars, readerVars, historyVars, HoldsLocal, InLookup, InOpen, Fds, Closed,
     Slots, Kinds, Sockets, Free
<1>9. ASSUME NEW q \in Procs, SetupFails(q) PROVE ReadsOwn'
  BY <1>9 DEF SetupFails, GoTo, Fault, TypeOK, PlaceInv, Owned, HasFd, ReaderInv, ReadsOwn,
     Closing, vars, kernelVars, moduleVars, readerVars, historyVars, HoldsLocal, InLookup,
     InOpen, Fds, Closed, Slots, Kinds, Sockets, Free
<1>10. ASSUME NEW q \in Procs, Undo(q) PROVE ReadsOwn'
  BY <1>10 DEF Undo, SysClose, End, GoTo, TypeOK, PlaceInv, Owned, HasFd, ReaderInv, ReadsOwn,
     Closing, vars, kernelVars, moduleVars, readerVars, historyVars, HoldsLocal, InLookup,
     InOpen, Fds, Closed, Slots, Kinds, Sockets, Free
<1>11. ASSUME NEW q \in Procs, Join(q) PROVE ReadsOwn'
  BY <1>11 DEF Join, End, GoTo, TypeOK, PlaceInv, Owned, HasFd, ReaderInv, ReadsOwn, Closing,
     vars, kernelVars, moduleVars, readerVars, historyVars, HoldsLocal, InLookup, InOpen, Fds,
     Closed, Slots, Kinds, Sockets, Free
<1>12. ASSUME NEW q \in Procs, JoinFails(q) PROVE ReadsOwn'
  BY <1>12 DEF JoinFails, GoTo, Fault, TypeOK, PlaceInv, Owned, HasFd, ReaderInv, ReadsOwn,
     Closing, vars, kernelVars, moduleVars, readerVars, historyVars, HoldsLocal, InLookup,
     InOpen, Fds, Closed, Slots, Kinds, Sockets, Free
<1>13. ASSUME NEW q \in Procs, Found(q) PROVE ReadsOwn'
  BY <1>13 DEF Found, End, GoTo, NextFamily, TypeOK, PlaceInv, Owned, HasFd, ReaderInv,
     ReadsOwn, Closing, vars, kernelVars, moduleVars, readerVars, historyVars, HoldsLocal,
     InLookup, InOpen, Fds, Closed, Slots, Kinds, Sockets, Free
<1>14. ASSUME NEW q \in Procs, NotFound(q) PROVE ReadsOwn'
  BY <1>14 DEF NotFound, GoTo, NextFamily, TypeOK, PlaceInv, Owned, HasFd, ReaderInv, ReadsOwn,
     Closing, vars, kernelVars, moduleVars, readerVars, historyVars, HoldsLocal, InLookup,
     InOpen, Fds, Closed, Slots, Kinds, Sockets, Free
<1>15. ASSUME NEW q \in Procs, LookupFails(q) PROVE ReadsOwn'
  BY <1>15 DEF LookupFails, GoTo, Fault, NextFamily, TypeOK, PlaceInv, Owned, HasFd, ReaderInv,
     ReadsOwn, Closing, vars, kernelVars, moduleVars, readerVars, historyVars, HoldsLocal,
     InLookup, InOpen, Fds, Closed, Slots, Kinds, Sockets, Free
<1>16. ASSUME NEW q \in Procs, Check(q) PROVE ReadsOwn'
  BY <1>16 DEF Check, GoTo, TypeOK, PlaceInv, Owned, HasFd, ReaderInv, ReadsOwn, Closing, vars,
     kernelVars, moduleVars, readerVars, historyVars, HoldsLocal, InLookup, InOpen, Fds, Closed,
     Slots, Kinds, Sockets, Free
<1>17. ASSUME NEW q \in Procs, LoadSocket(q) PROVE ReadsOwn'
  BY <1>17 DEF LoadSocket, GiveFd, GoTo, TypeOK, PlaceInv, Owned, HasFd, ReaderInv, ReadsOwn,
     Closing, vars, kernelVars, moduleVars, readerVars, historyVars, HoldsLocal, InLookup,
     InOpen, Fds, Closed, Slots, Kinds, Sockets, Free
<1>18. ASSUME NEW q \in Procs, LoadSocketFails(q) PROVE ReadsOwn'
  BY <1>18 DEF LoadSocketFails, GoTo, Fault, NoneFree, TypeOK, PlaceInv, Owned, HasFd,
     ReaderInv, ReadsOwn, Closing, vars, kernelVars, moduleVars, readerVars, historyVars,
     HoldsLocal, InLookup, InOpen, Fds, Closed, Slots, Kinds, Sockets, Free
<1>19. ASSUME NEW q \in Procs, Ioctl(q) PROVE ReadsOwn'
  BY <1>19 DEF Ioctl, GoTo, CanLoad, TypeOK, PlaceInv, Owned, HasFd, ReaderInv, ReadsOwn,
     Closing, vars, kernelVars, moduleVars, readerVars, historyVars, HoldsLocal, InLookup,
     InOpen, Fds, Closed, Slots, Kinds, Sockets, Free
<1>20. ASSUME NEW q \in Procs, IoctlReturns(q) PROVE ReadsOwn'
  BY <1>20 DEF IoctlReturns, GoTo, TypeOK, PlaceInv, Owned, HasFd, ReaderInv, ReadsOwn, Closing,
     vars, kernelVars, moduleVars, readerVars, historyVars, HoldsLocal, InLookup, InOpen, Fds,
     Closed, Slots, Kinds, Sockets, Free
<1>21. ASSUME NEW q \in Procs, SetTried(q) PROVE ReadsOwn'
  BY <1>21 DEF SetTried, GoTo, TypeOK, PlaceInv, Owned, HasFd, ReaderInv, ReadsOwn, Closing,
     vars, kernelVars, moduleVars, readerVars, historyVars, HoldsLocal, InLookup, InOpen, Fds,
     Closed, Slots, Kinds, Sockets, Free
<1>22. ASSUME NEW q \in Procs, LoadClose(q) PROVE ReadsOwn'
  BY <1>22 DEF LoadClose, SysClose, GoTo, TypeOK, PlaceInv, Owned, HasFd, ReaderInv, ReadsOwn,
     Closing, vars, kernelVars, moduleVars, readerVars, historyVars, HoldsLocal, InLookup,
     InOpen, Fds, Closed, Slots, Kinds, Sockets, Free
<1>23. ASSUME NEW q \in Procs, CloseFd(q) PROVE ReadsOwn'
  BY <1>23 DEF CloseFd, SysClose, GoTo, TypeOK, PlaceInv, Owned, HasFd, ReaderInv, ReadsOwn,
     Closing, vars, kernelVars, moduleVars, readerVars, historyVars, HoldsLocal, InLookup,
     InOpen, Fds, Closed, Slots, Kinds, Sockets, Free
<1>24. ASSUME NEW q \in Procs, MarkClosed(q) PROVE ReadsOwn'
  BY <1>24 DEF MarkClosed, End, GoTo, TypeOK, PlaceInv, Owned, HasFd, ReaderInv, ReadsOwn,
     Closing, vars, kernelVars, moduleVars, readerVars, historyVars, HoldsLocal, InLookup,
     InOpen, Fds, Closed, Slots, Kinds, Sockets, Free
<1>25. ASSUME NEW q \in Procs, ReadFdField(q) PROVE ReadsOwn'
  BY <1>25 DEF ReadFdField, TypeOK, PlaceInv, Owned, HasFd, ReaderInv, ReadsOwn, Closing, vars,
     kernelVars, moduleVars, readerVars, historyVars, HoldsLocal, InLookup, InOpen, Fds, Closed,
     Slots, Kinds, Sockets, Free
<1>26. ASSUME NEW q \in Procs, Recvfrom(q) PROVE ReadsOwn'
  BY <1>26 DEF Recvfrom, TypeOK, PlaceInv, Owned, HasFd, ReaderInv, ReadsOwn, Closing, vars,
     kernelVars, moduleVars, readerVars, historyVars, HoldsLocal, InLookup, InOpen, Fds, Closed,
     Slots, Kinds, Sockets, Free
<1>27. ASSUME NEW q \in Procs, Received(q) PROVE ReadsOwn'
  BY <1>27 DEF Received, Fault, TypeOK, PlaceInv, Owned, HasFd, ReaderInv, ReadsOwn, Closing,
     vars, kernelVars, moduleVars, readerVars, historyVars, HoldsLocal, InLookup, InOpen, Fds,
     Closed, Slots, Kinds, Sockets, Free
<1>28. ASSUME NEW q \in Procs, NEW slot \in Slots, Close(q, slot) PROVE ReadsOwn'
  BY <1>28 DEF Close, Begin, GoTo, TypeOK, PlaceInv, Owned, HasFd, ReaderInv, ReadsOwn, Closing,
     vars, kernelVars, moduleVars, readerVars, historyVars, HoldsLocal, InLookup, InOpen, Fds,
     Closed, Slots, Kinds, Sockets, Free
<1>29. CASE UNCHANGED vars
  BY <1>29 DEF TypeOK, PlaceInv, Owned, HasFd, ReaderInv, ReadsOwn, Closing, vars, kernelVars,
     moduleVars, readerVars, historyVars, HoldsLocal, InLookup, InOpen, Fds, Closed, Slots,
     Kinds, Sockets, Free
<1> QED
  BY <1>1, <1>2, <1>3, <1>4, <1>5, <1>6, <1>7, <1>8, <1>9, <1>10, <1>11, <1>12, <1>13, <1>14,
     <1>15, <1>16, <1>17, <1>18, <1>19, <1>20, <1>21, <1>22, <1>23, <1>24, <1>25, <1>26, <1>27,
     <1>28, <1>29
  DEF Next, Open, LookupFamily, CloseStep, Consume

\* The initial states satisfy the invariant.
LEMMA InitInv == Init => TypeOK /\ IndInv
<1> SUFFICES ASSUME Init PROVE TypeOK /\ IndInv
  OBVIOUS
<1>1. TypeOK
  <2>1. family \in [Procs -> 0 .. FamilyCount - 1]
    BY Zero DEF Init
  <2>2. registered \in 0 .. FamilyCount /\ faults \in 0 .. MaxFaults
    BY DEF Init
  <2> QED
    BY <2>1, <2>2 DEF Init, TypeOK, Slots, Places
<1>2. PlaceInv
  BY DEF Init, PlaceInv, HoldsLocal, InLookup, InOpen
<1>3. Owned
  BY DEF Init, Owned, HasFd, Fds, Closed, Free, Slots, Kinds
<1>4. LoadInv /\ UnavailableSound /\ ReaderInv /\ ReadsOwn
  BY DEF Init, LoadInv, UnavailableSound, ReaderInv, ReadsOwn, InOpen
<1> QED
  BY <1>1, <1>2, <1>3, <1>4 DEF IndInv

\* Every step keeps the invariant.
LEMMA StepInv == TypeOK /\ IndInv /\ [Next]_vars => TypeOK' /\ IndInv'
  BY TypeStep, PlaceStep, OwnedStep, LoadStep, UnavailableStep, ReaderStep, ReadsOwnStep DEF IndInv

\* In every reachable state the invariant holds.
THEOREM Invariance == Spec => [](TypeOK /\ IndInv)
  BY InitInv, StepInv, PTL DEF Spec

\* netlink.go:26-31, 73-81, dpif.go:99-102, vport.go:379-382: whatever number of goroutines open
\* and close Dpifs and whichever call fails, the open descriptors are exactly those that somebody
\* holds, each under the number of his own socket.
THEOREM DescriptorsOwned == Spec => []Owned
<1>1. TypeOK /\ IndInv => Owned
  BY DEF IndInv
<1> QED
  BY <1>1, Invariance, PTL

\* dpif.go:70-92: no goroutine reports the families as unavailable because another one is still
\* loading the module, although triedLoadOpenvswitchModule is read without synchronisation.
THEOREM UnavailableOnlyInVain == Spec => []UnavailableSound
<1>1. TypeOK /\ IndInv => UnavailableSound
  BY DEF IndInv
<1> QED
  BY <1>1, Invariance, PTL

\* netlink.go:551-552: an event loop reads from its own socket until its Dpif is being closed.
THEOREM LoopReadsOwn == Spec => []ReadsOwn
<1>1. TypeOK /\ IndInv => ReadsOwn
  BY DEF IndInv
<1> QED
  BY <1>1, Invariance, PTL

\* The variables of the model have their types.
THEOREM TypeCorrect == Spec => []TypeOK
<1>1. TypeOK /\ IndInv => TypeOK
  OBVIOUS
<1> QED
  BY <1>1, Invariance, PTL
=============================================================================
