------------------------ MODULE ConsumeMissesProofs ------------------------
(***************************************************************************)
(* Proofs about ConsumeMisses, for any set of vports, any receive buffer   *)
(* and any number of environment steps and failures.                       *)
(*                                                                         *)
(* The invariants are proved bottom up, each from those before it:         *)
(*   TypeOK /\ PhaseInv   what is open and running at each point; TypeOK   *)
(*                        is not inductive alone, because starting the     *)
(*                        event loop relies on its not running yet;        *)
(*   LockInv              requests on dp exclude each other, and what else  *)
(*                        is queued there is left over from failures;      *)
(*   KnownInv             only supported types, when there are no others;  *)
(*   DoneInv              vportsDone is right, or about to be corrected;   *)
(*   PendingInv           somebody will set every vport that needs it.     *)
(***************************************************************************)
EXTENDS ConsumeMisses, SequenceTheorems, TLAPS

USE SetCmdAssumption, UnknownTypesAssumption, BoundsAssumption, NoVportAssumption

\* A notification leaves the queue well formed.
LEMMA NotifyType ==
    ASSUME KernelOK, lost \in BOOLEAN,
           NEW cmd \in EventCmds, NEW id \in VportIDs, NEW known \in BOOLEAN, Notify(cmd, id, known)
    PROVE  events' \in Seq(Event) /\ Len(events') <= RcvBuf /\ lost' \in BOOLEAN
<1> DEFINE e == [cmd |-> cmd, id |-> id, known |-> known]
<1>1. e \in Event
  BY DEF Event
<1>2. CASE Alive("vport") /\ Len(events) < RcvBuf
  <2> HIDE DEF e
  <2>1. events' = Append(events, e) /\ lost' = lost
    BY <1>2 DEF Notify, e
  <2>2. Len(events) \in Nat /\ events' \in Seq(Event) /\ Len(events') = Len(events) + 1
    BY <1>1, <2>1 DEF KernelOK
  <2> QED
    BY <1>2, <2>1, <2>2
<1>3. CASE ~(Alive("vport") /\ Len(events) < RcvBuf)
  BY <1>3 DEF Notify, KernelOK
<1> QED
  BY <1>2, <1>3

\* What a notification does to the queue: nothing, or one event more at its end;
\* and nothing is missing from it unless lost says so.
LEMMA NotifyQueue ==
    ASSUME NEW cmd, NEW id, NEW known, Notify(cmd, id, known)
    PROVE  /\ events' = events \/ events' = Append(events, [cmd |-> cmd, id |-> id, known |-> known])
           /\ ~lost' => ~lost
           /\ "vport" \in open /\ ~lost' =>
                events' = Append(events, [cmd |-> cmd, id |-> id, known |-> known])
  BY DEF Notify, Alive

\* The replies a call leaves behind are the same in number, and nobody waits for them.
LEMMA AbandonedReplies ==
    ASSUME NEW q \in Seq(Reply)
    PROVE  /\ Abandoned(q) \in Seq(Reply) /\ Len(Abandoned(q)) = Len(q)
           /\ \A k \in 1 .. Len(Abandoned(q)) : Abandoned(q)[k].from = Nobody
<1> DEFINE a == Abandoned(q)
<1>1. Len(q) \in Nat /\ DOMAIN q = 1 .. Len(q)
  BY LenProperties
<1>2. \A k \in 1 .. Len(q) : q[k] \in Reply
  BY ElementOfSeq
<1>3. DOMAIN a = 1 .. Len(q)
  BY <1>1 DEF Abandoned
<1>4. \A k \in 1 .. Len(q) : a[k] \in Reply /\ a[k].from = Nobody
  BY <1>1, <1>2 DEF Abandoned, Reply
<1>5. a = [k \in 1 .. Len(q) |-> a[k]]
  BY <1>1 DEF Abandoned
<1> HIDE DEF a
<1>6. a \in Seq(Reply)
  BY <1>1, <1>4, <1>5, SMTT(30)
<1>7. Len(a) = Len(q)
  BY <1>1, <1>3, <1>6, LenProperties
<1> QED
  BY <1>4, <1>6, <1>7 DEF a

\* Those behind the first one are one fewer.
LEMMA RepliesLeft ==
    ASSUME replies \in Seq(Reply), replies # <<>>
    PROVE  /\ Abandoned(Tail(replies)) \in Seq(Reply)
           /\ Len(Abandoned(Tail(replies))) = Len(replies) - 1
           /\ \A k \in 1 .. Len(Abandoned(Tail(replies))) : Abandoned(Tail(replies))[k].from = Nobody
<1>1. Tail(replies) \in Seq(Reply) /\ Len(Tail(replies)) = Len(replies) - 1
  BY HeadTailProperties
<1> QED
  BY <1>1, AbandonedReplies

\* An event of a supported type keeps all of them so.
LEMMA NotifyKnown ==
    ASSUME KernelOK, \A k \in 1 .. Len(events) : events[k].known,
           NEW cmd, NEW id, NEW known, known, Notify(cmd, id, known)
    PROVE  \A k \in 1 .. Len(events') : events'[k].known
<1>1. CASE events' = events
  BY <1>1
<1>2. CASE events' = Append(events, [cmd |-> cmd, id |-> id, known |-> known])
  <2>1. Len(events) \in Nat /\ Len(events') = Len(events) + 1
    BY <1>2 DEF KernelOK
  <2>2. \A k \in 1 .. Len(events) : events'[k] = events[k]
    BY <1>2 DEF KernelOK
  <2>3. events'[Len(events) + 1].known
    BY <1>2 DEF KernelOK
  <2> QED
    BY <2>1, <2>2, <2>3
<1> QED
  BY <1>1, <1>2, NotifyQueue

\* Every step keeps the types of the kernel's state.
LEMMA KernelStep == TypeOK /\ [Next]_vars => KernelOK'
<1> SUFFICES ASSUME TypeOK, [Next]_vars PROVE KernelOK'
  OBVIOUS
<1> USE DEF TypeOK, KernelOK, ControlOK, DataOK, Setters, kernelVars, mainVars, histVars
<1>1. ASSUME NEW g \in Setters, SetSend(g) PROVE KernelOK'
  <2>1. target[g] \in VportIDs
    BY <1>1 DEF SetSend, Handling
  <2>2. events' \in Seq(Event) /\ Len(events') <= RcvBuf
    <3>1. CASE target[g] \in vports
      BY <1>1, <2>1, <3>1, NotifyType DEF SetSend, EventCmds
    <3>2. CASE target[g] \notin vports
      BY <1>1, <3>2 DEF SetSend
    <3> QED
      BY <3>1, <3>2
  <2>3. replies' \in Seq(Reply)
    BY <1>1, <2>1 DEF SetSend, Reply
  <2> QED
    BY <1>1, <2>1, <2>2, <2>3 DEF SetSend
<1>2. ASSUME NEW g \in Setters, SetRecv(g) \/ SetRecvFails(g) PROVE KernelOK'
  <2>1. replies' \in Seq(Reply)
    BY <1>2, RepliesLeft, AbandonedReplies DEF SetRecv, SetRecvFails
  <2> QED
    BY <1>2, <2>1 DEF SetRecv, SetRecvFails
<1>3. CASE VportEvent
  BY <1>3 DEF VportEvent
<1>4. CASE MissEvent
  BY <1>4 DEF MissEvent
<1>5. CASE CreateVport
  <2>1. PICK id \in VportIDs \ vports, known \in BOOLEAN :
          /\ vports' = vports \cup {id}
          /\ unknown' = IF known THEN unknown ELSE unknown \cup {id}
          /\ Notify("new", id, known)
    BY <1>5, ZenonT(30) DEF CreateVport
  <2>2. events' \in Seq(Event) /\ Len(events') <= RcvBuf
    BY <2>1, NotifyType DEF EventCmds
  <2> QED
    BY <1>5, <2>1, <2>2 DEF CreateVport
<1>6. CASE DeleteVport
  <2>1. PICK id \in vports :
          /\ vports' = vports \ {id}
          /\ unknown' = unknown \ {id}
          /\ upcall' = upcall \ {id}
          /\ Notify("del", id, id \notin unknown)
    BY <1>6 DEF DeleteVport
  <2>2. events' \in Seq(Event) /\ Len(events') <= RcvBuf
    BY <2>1, NotifyType DEF EventCmds
  <2> QED
    BY <1>6, <2>1, <2>2 DEF DeleteVport
<1>7. CASE OtherEvent
  <2>1. PICK id \in VportIDs : Notify("other", id, TRUE)
    BY <1>7 DEF OtherEvent
  <2>2. events' \in Seq(Event) /\ Len(events') <= RcvBuf
    BY <2>1, NotifyType DEF EventCmds
  <2> QED
    BY <1>7, <2>1, <2>2 DEF OtherEvent
<1>8. CASE MissUpcall
  BY <1>8 DEF MissUpcall
<1>9. CASE UNCHANGED kernelVars
  BY <1>9
<1> QED
  BY <1>1, <1>2, <1>3, <1>4, <1>5, <1>6, <1>7, <1>8, <1>9
  DEF vars, Next, MainStep, VportStep, MissStep, Environment, setVportUpcallPortId, Loops,
       ReopenDp, Reopen, ReopenMiss, ConsumeVportEvents, EnumerateVports, PickVport, Return,
       UnwindVport, Unwind, UnwindMiss, UnwindDp, SetLock, SetSendFails, LoopRecv,
       LoopFails, VportDeleted, CancelVportEvents, CloseAfterMisses, CloseDp, Cancel

\* Every step keeps the labels and the vports in hand well typed.
LEMMA ControlStep == TypeOK /\ PhaseInv /\ [Next]_vars => ControlOK'
<1> SUFFICES ASSUME TypeOK, PhaseInv, [Next]_vars PROVE ControlOK'
  OBVIOUS
<1> USE DEF TypeOK, KernelOK, ControlOK, DataOK, Setters, Goroutines, MainPCs, VportPCs, MissPCs,
     Handling, kernelVars, mainVars, histVars
<1>1. CASE ReopenDp
  BY <1>1 DEF ReopenDp, Reopen, Goto
<1>2. CASE ReopenMiss
  BY <1>2 DEF ReopenMiss, Reopen, Goto
<1>3. CASE ConsumeVportEvents
  <2>1. CASE pc' = [pc EXCEPT !["main"] = "enumerate", !["vport"] = "top"]
    BY <1>3, <2>1 DEF ConsumeVportEvents, PhaseInv, Starting
  <2>2. CASE Goto("main", "unwindMiss")
    BY <1>3, <2>2 DEF ConsumeVportEvents, Goto
  <2> QED
    BY <1>3, <2>1, <2>2 DEF ConsumeVportEvents
<1>4. CASE EnumerateVports
  BY <1>4 DEF EnumerateVports, Goto
<1>5. CASE PickVport
  BY <1>5 DEF PickVport, Goto
<1>6. CASE Return
  BY <1>6 DEF Return
<1>7. CASE UnwindVport
  BY <1>7 DEF UnwindVport, Unwind, Goto
<1>8. CASE UnwindMiss
  BY <1>8 DEF UnwindMiss, Unwind, Goto
<1>9. CASE UnwindDp
  BY <1>9 DEF UnwindDp, Unwind, Goto
<1>10. ASSUME NEW g \in Setters, SetLock(g) PROVE ControlOK'
  BY <1>10 DEF SetLock, SetReturns, Goto
<1>11. ASSUME NEW g \in Setters, SetSend(g) PROVE ControlOK'
  BY <1>11 DEF SetSend, Goto
<1>12. ASSUME NEW g \in Setters, SetSendFails(g) PROVE ControlOK'
  BY <1>12 DEF SetSendFails, SetReturns, Goto
<1>13. ASSUME NEW g \in Setters, SetRecv(g) PROVE ControlOK'
  BY <1>13 DEF SetRecv, SetReturns, Goto
<1>14. ASSUME NEW g \in Setters, SetRecvFails(g) PROVE ControlOK'
  BY <1>14 DEF SetRecvFails, SetReturns, Goto
<1>15. ASSUME NEW g \in Loops, LoopRecv(g) PROVE ControlOK'
  BY <1>15 DEF LoopRecv, AfterStop, Goto, Loops
<1>16. ASSUME NEW g \in Loops, LoopFails(g) PROVE ControlOK'
  BY <1>16 DEF LoopFails, AfterStop, Goto, Loops
<1>17. CASE VportEvent
  <2>1. Head(events) \in Event
    BY <1>17 DEF VportEvent
  <2>2. Head(events).id \in VportIDs
    BY <2>1 DEF Event
  <2> QED
    BY <1>17, <2>2 DEF VportEvent, Goto
<1>18. CASE VportDeleted
  BY <1>18 DEF VportDeleted, Goto
<1>19. CASE MissEvent
  BY <1>19 DEF MissEvent, Goto
<1>20. CASE CancelVportEvents
  BY <1>20 DEF CancelVportEvents, CloseAfterMisses, Goto
<1>21. CASE CloseDp
  BY <1>21 DEF CloseDp, CloseAfterMisses, Goto
<1>22. CASE CreateVport
  BY <1>22 DEF CreateVport
<1>23. CASE DeleteVport
  BY <1>23 DEF DeleteVport
<1>24. CASE OtherEvent
  BY <1>24 DEF OtherEvent
<1>25. CASE MissUpcall
  BY <1>25 DEF MissUpcall
<1>26. CASE Cancel
  BY <1>26 DEF Cancel
<1>27. CASE UNCHANGED vars
  BY <1>27 DEF vars
<1> QED
  BY <1>1, <1>2, <1>3, <1>4, <1>5, <1>6, <1>7, <1>8, <1>9, <1>10, <1>11, <1>12, <1>13, <1>14,
     <1>15, <1>16, <1>17, <1>18, <1>19, <1>20, <1>21, <1>22, <1>23, <1>24, <1>25, <1>26, <1>27
  DEF Next, MainStep, VportStep, MissStep, Environment, setVportUpcallPortId, Loops

\* Every step keeps the types of the goroutines' shared and local state.
LEMMA DataStep == TypeOK /\ [Next]_vars => DataOK'
<1> SUFFICES ASSUME TypeOK, [Next]_vars PROVE DataOK'
  OBVIOUS
<1> USE DEF TypeOK, KernelOK, ControlOK, DataOK, Setters, Sockets, Free, Handling, kernelVars,
     mainVars, histVars
<1>1. CASE ReopenDp
  <2>1. faults' \in 0 .. MaxFaults
    BY <1>1 DEF ReopenDp, Reopen, NoFault, Fault
  <2>2. open' \in SUBSET Sockets
    BY <1>1 DEF ReopenDp, Reopen
  <2> QED
    BY <1>1, <2>1, <2>2 DEF ReopenDp, Reopen
<1>2. CASE ReopenMiss
  <2>1. faults' \in 0 .. MaxFaults
    BY <1>2 DEF ReopenMiss, Reopen, NoFault, Fault
  <2>2. open' \in SUBSET Sockets
    BY <1>2 DEF ReopenMiss, Reopen
  <2> QED
    BY <1>2, <2>1, <2>2 DEF ReopenMiss, Reopen
<1>3. CASE ConsumeVportEvents
  <2>1. faults' \in 0 .. MaxFaults
    BY <1>3 DEF ConsumeVportEvents, NoFault, Fault
  <2>2. open' \in SUBSET Sockets
    BY <1>3 DEF ConsumeVportEvents
  <2> QED
    BY <1>3, <2>1, <2>2 DEF ConsumeVportEvents
<1>4. CASE EnumerateVports
  BY <1>4 DEF EnumerateVports, NoFault, Fault
<1>5. CASE PickVport
  BY <1>5 DEF PickVport
<1>6. CASE Return
  BY <1>6 DEF Return
<1>7. CASE UnwindVport
  BY <1>7 DEF UnwindVport, Unwind
<1>8. CASE UnwindMiss
  BY <1>8 DEF UnwindMiss, Unwind
<1>9. CASE UnwindDp
  BY <1>9 DEF UnwindDp, Unwind
<1>10. ASSUME NEW g \in Setters, SetLock(g) PROVE DataOK'
  BY <1>10 DEF SetLock
<1>11. ASSUME NEW g \in Setters, SetSend(g) PROVE DataOK'
  BY <1>11 DEF SetSend, Notify
<1>12. ASSUME NEW g \in Setters, SetSendFails(g) PROVE DataOK'
  BY <1>12 DEF SetSendFails, NoFault, Fault
<1>13. ASSUME NEW g \in Setters, SetRecv(g) PROVE DataOK'
  BY <1>13 DEF SetRecv
<1>14. ASSUME NEW g \in Setters, SetRecvFails(g) PROVE DataOK'
  BY <1>14 DEF SetRecvFails, Fault, NoFault
<1>15. ASSUME NEW g \in Loops, LoopRecv(g) PROVE DataOK'
  BY <1>15 DEF LoopRecv, Loops
<1>16. ASSUME NEW g \in Loops, LoopFails(g) PROVE DataOK'
  BY <1>16 DEF LoopFails, Fault, Loops
<1>17. CASE VportEvent
  BY <1>17 DEF VportEvent
<1>18. CASE VportDeleted
  BY <1>18 DEF VportDeleted
<1>19. CASE MissEvent
  BY <1>19 DEF MissEvent
<1>20. CASE CancelVportEvents
  BY <1>20 DEF CancelVportEvents, CloseAfterMisses
<1>21. CASE CloseDp
  BY <1>21 DEF CloseDp, CloseAfterMisses
<1>22. CASE CreateVport
  <2>1. PICK id \in VportIDs \ vports, known \in BOOLEAN : Notify("new", id, known)
    BY <1>22 DEF CreateVport
  <2>2. lost' \in BOOLEAN
    BY <2>1, NotifyType DEF EventCmds
  <2>3. churn' \in 0 .. MaxChurn
    BY <1>22 DEF CreateVport, Churn
  <2> QED
    BY <1>22, <2>2, <2>3 DEF CreateVport
<1>23. CASE DeleteVport
  <2>1. PICK id \in vports : Notify("del", id, id \notin unknown)
    BY <1>23 DEF DeleteVport
  <2>2. lost' \in BOOLEAN
    BY <2>1, NotifyType DEF EventCmds
  <2>3. churn' \in 0 .. MaxChurn
    BY <1>23 DEF DeleteVport, Churn
  <2> QED
    BY <1>23, <2>2, <2>3 DEF DeleteVport
<1>24. CASE OtherEvent
  <2>1. PICK id \in VportIDs : Notify("other", id, TRUE)
    BY <1>24 DEF OtherEvent
  <2>2. lost' \in BOOLEAN
    BY <2>1, NotifyType DEF EventCmds
  <2>3. churn' \in 0 .. MaxChurn
    BY <1>24 DEF OtherEvent, Churn
  <2> QED
    BY <1>24, <2>2, <2>3 DEF OtherEvent
<1>25. CASE MissUpcall
  BY <1>25 DEF MissUpcall
<1>26. CASE Cancel
  BY <1>26 DEF Cancel
<1>27. CASE UNCHANGED vars
  BY <1>27 DEF vars
<1> QED
  BY <1>1, <1>2, <1>3, <1>4, <1>5, <1>6, <1>7, <1>8, <1>9, <1>10, <1>11, <1>12, <1>13, <1>14,
     <1>15, <1>16, <1>17, <1>18, <1>19, <1>20, <1>21, <1>22, <1>23, <1>24, <1>25, <1>26, <1>27
  DEF Next, MainStep, VportStep, MissStep, Environment, setVportUpcallPortId, Loops

\* Every step keeps what is open and running in line with main's label.
LEMMA PhaseStep == TypeOK /\ PhaseInv /\ [Next]_vars => PhaseInv'
<1> SUFFICES ASSUME TypeOK, PhaseInv, [Next]_vars PROVE PhaseInv'
  OBVIOUS
<1> USE DEF TypeOK, DataOK, PhaseInv, Starting, Setting, Sockets, ControlOK, Goroutines, MainPCs,
     VportPCs, MissPCs, Setters, kernelVars, mainVars, histVars
<1>1. CASE ReopenDp
  BY <1>1, ZenonT(30) DEF ReopenDp, Reopen, Goto
<1>2. CASE ReopenMiss
  BY <1>2 DEF ReopenMiss, Reopen, Goto
<1>3. CASE ConsumeVportEvents
  BY <1>3 DEF ConsumeVportEvents, Goto
<1>4. CASE EnumerateVports
  BY <1>4 DEF EnumerateVports, Goto
<1>5. CASE PickVport
  BY <1>5 DEF PickVport, Goto
<1>6. CASE Return
  BY <1>6 DEF Return
<1>7. CASE UnwindVport
  BY <1>7 DEF UnwindVport, Unwind, Goto
<1>8. CASE UnwindMiss
  BY <1>8 DEF UnwindMiss, Unwind, Goto
<1>9. CASE UnwindDp
  BY <1>9 DEF UnwindDp, Unwind, Goto
<1>10. ASSUME NEW g \in Setters, SetLock(g) PROVE PhaseInv'
  BY <1>10 DEF SetLock, SetReturns, Goto
<1>11. ASSUME NEW g \in Setters, SetSend(g) PROVE PhaseInv'
  BY <1>11 DEF SetSend, Goto
<1>12. ASSUME NEW g \in Setters, SetSendFails(g) PROVE PhaseInv'
  BY <1>12 DEF SetSendFails, SetReturns, Goto
<1>13. ASSUME NEW g \in Setters, SetRecv(g) PROVE PhaseInv'
  BY <1>13 DEF SetRecv, SetReturns, Goto
<1>14. ASSUME NEW g \in Setters, SetRecvFails(g) PROVE PhaseInv'
  BY <1>14 DEF SetRecvFails, SetReturns, Goto
<1>15. ASSUME NEW g \in Loops, LoopRecv(g) PROVE PhaseInv'
  BY <1>15 DEF LoopRecv, AfterStop, Goto, Loops
<1>16. ASSUME NEW g \in Loops, LoopFails(g) PROVE PhaseInv'
  BY <1>16 DEF LoopFails, AfterStop, Goto, Loops
<1>17. CASE VportEvent
  BY <1>17 DEF VportEvent, Goto
<1>18. CASE VportDeleted
  BY <1>18 DEF VportDeleted, Goto
<1>19. CASE MissEvent
  BY <1>19 DEF MissEvent, Goto
<1>20. CASE CancelVportEvents
  BY <1>20 DEF CancelVportEvents, CloseAfterMisses, Goto
<1>21. CASE CloseDp
  BY <1>21 DEF CloseDp, CloseAfterMisses, Goto
<1>22. CASE CreateVport
  BY <1>22 DEF CreateVport
<1>23. CASE DeleteVport
  BY <1>23 DEF DeleteVport
<1>24. CASE OtherEvent
  BY <1>24 DEF OtherEvent
<1>25. CASE MissUpcall
  BY <1>25 DEF MissUpcall
<1>26. CASE Cancel
  BY <1>26 DEF Cancel
<1>27. CASE UNCHANGED vars
  BY <1>27 DEF vars
<1> QED
  BY <1>1, <1>2, <1>3, <1>4, <1>5, <1>6, <1>7, <1>8, <1>9, <1>10, <1>11, <1>12, <1>13, <1>14,
     <1>15, <1>16, <1>17, <1>18, <1>19, <1>20, <1>21, <1>22, <1>23, <1>24, <1>25, <1>26, <1>27
  DEF Next, MainStep, VportStep, MissStep, Environment, setVportUpcallPortId, Loops

\* What most steps leave alone: the replies, and who waits for which of them.
Waiting ==
    /\ replies' = replies /\ faults' \in Nat /\ faults <= faults'
    /\ \A g \in Setters : pc'[g] = "recv" <=> pc[g] = "recv"
    /\ \A g \in Setters : pc[g] = "recv" => target'[g] = target[g]
    /\ "dp" \in open' => "dp" \in open

LEMMA WaitingKept ==
    ASSUME replies \in Seq(Reply), faults \in Nat, ReplyIsOwn, LeftInv, Waiting
    PROVE  ReplyIsOwn' /\ LeftInv'
<1>1. Len(replies) \in Nat
  BY LenProperties
<1>2. ReplyIsOwn'
  <2> SUFFICES ASSUME NEW g \in Setters, pc'[g] = "recv"
               PROVE  /\ Len(replies) \in 1 .. 1 + faults'
                      /\ replies[Len(replies)].from = g /\ replies[Len(replies)].id = target[g]
                      /\ \A k \in 1 .. Len(replies) - 1 : replies[k].from = Nobody
    BY DEF Waiting, ReplyIsOwn
  <2>1. pc[g] = "recv"
    BY DEF Waiting
  <2>2. /\ Len(replies) \in 1 .. 1 + faults
        /\ replies[Len(replies)].from = g /\ replies[Len(replies)].id = target[g]
        /\ \A k \in 1 .. Len(replies) - 1 : replies[k].from = Nobody
    BY <2>1 DEF ReplyIsOwn
  <2>3. faults' \in Nat /\ faults <= faults'
    BY DEF Waiting
  <2>4. Len(replies) \in 1 .. 1 + faults'
    BY ONLY <1>1, <2>2, <2>3, faults \in Nat
  <2> QED
    BY <2>2, <2>4
<1>3. LeftInv'
  <2> SUFFICES ASSUME "dp" \in open', \A g \in Setters : pc'[g] # "recv"
               PROVE  Len(replies) <= faults' /\ \A k \in 1 .. Len(replies) : replies[k].from = Nobody
    BY DEF Waiting, LeftInv
  <2>1. Len(replies) <= faults /\ \A k \in 1 .. Len(replies) : replies[k].from = Nobody
    BY DEF Waiting, LeftInv
  <2>2. faults' \in Nat /\ faults <= faults'
    BY DEF Waiting
  <2> QED
    BY <1>1, <2>1, <2>2
<1> QED
  BY <1>2, <1>3

\* A call that has received nothing, or one reply, leaves no more replies behind than
\* receives have failed.
LEMMA CallEnds ==
    ASSUME NEW g \in Setters, pc[g] = "recv", replies \in Seq(Reply), faults \in Nat, ReplyIsOwn,
           \A h \in Setters : pc'[h] # "recv",
           \/ faults' = faults /\ replies' = Abandoned(Tail(replies))
           \/ faults' = faults + 1 /\ replies' = Abandoned(Tail(replies))
           \/ faults' = faults + 1 /\ replies' = Abandoned(replies)
           \/ "dp" \notin open'
    PROVE  ReplyIsOwn' /\ LeftInv'
<1>1. Len(replies) \in Nat /\ Len(replies) \in 1 .. 1 + faults
  BY LenProperties DEF ReplyIsOwn
<1>2. replies # <<>>
  BY <1>1
<1> DEFINE t == Abandoned(Tail(replies))
           a == Abandoned(replies)
<1>3. Len(t) = Len(replies) - 1 /\ \A k \in 1 .. Len(t) : t[k].from = Nobody
  BY <1>2, RepliesLeft
<1>4. Len(a) = Len(replies) /\ \A k \in 1 .. Len(a) : a[k].from = Nobody
  BY AbandonedReplies
<1> HIDE DEF t, a
<1>5. Len(t) <= faults /\ Len(t) <= faults + 1 /\ Len(a) <= faults + 1
  BY ONLY <1>1, <1>3, <1>4, faults \in Nat
<1>6. "dp" \in open' => Len(replies') <= faults' /\ \A k \in 1 .. Len(replies') : replies'[k].from = Nobody
  BY <1>3, <1>4, <1>5 DEF t, a
<1> QED
  BY <1>6 DEF ReplyIsOwn, LeftInv

\* Every step keeps requests on dp exclusive.
LEMMA LockStep == TypeOK /\ PhaseInv /\ LockInv /\ [Next]_vars => LockInv'
<1> SUFFICES ASSUME TypeOK, PhaseInv, LockInv, [Next]_vars PROVE LockInv'
  OBVIOUS
<1> USE DEF TypeOK, DataOK, KernelOK, HoldInv, Free, ControlOK, Goroutines, MainPCs, VportPCs,
     MissPCs, Setters, kernelVars, mainVars, histVars
<1>a. faults \in Nat
  OBVIOUS
<1>b. HoldInv
  BY DEF LockInv
<1>c. ASSUME HoldInv', Waiting PROVE LockInv'
  BY <1>a, <1>c, WaitingKept DEF LockInv
<1>1. CASE ReopenDp
  <2>1. HoldInv' /\ replies' = <<>> /\ (\A g \in Setters : pc'[g] # "recv") /\ faults' \in Nat
    BY <1>1, <1>b DEF ReopenDp, Reopen, Goto, Fault, NoFault, PhaseInv, Starting
  <2> QED
    BY <2>1 DEF LockInv, ReplyIsOwn, LeftInv
<1>2. CASE ReopenMiss
  <2>1. HoldInv' /\ Waiting
    BY <1>2, <1>a, <1>b DEF ReopenMiss, Reopen, Goto, Fault, NoFault, Waiting
  <2> QED
    BY <2>1, <1>c
<1>3. CASE ConsumeVportEvents
  <2>1. HoldInv' /\ Waiting
    BY <1>3, <1>a, <1>b DEF ConsumeVportEvents, Goto, PhaseInv, Starting, Fault, NoFault, Waiting
  <2> QED
    BY <2>1, <1>c
<1>4. CASE EnumerateVports
  <2>1. HoldInv' /\ Waiting
    BY <1>4, <1>a, <1>b DEF EnumerateVports, Goto, Fault, NoFault, Waiting
  <2> QED
    BY <2>1, <1>c
<1>5. CASE PickVport
  <2>1. HoldInv' /\ Waiting
    BY <1>5, <1>a, <1>b DEF PickVport, Goto, Waiting
  <2> QED
    BY <2>1, <1>c
<1>6. CASE Return
  <2>1. HoldInv' /\ Waiting
    BY <1>6, <1>a, <1>b DEF Return, Waiting
  <2> QED
    BY <2>1, <1>c
<1>7. CASE UnwindVport
  <2>1. HoldInv' /\ Waiting
    BY <1>7, <1>a, <1>b DEF UnwindVport, Unwind, Goto, Waiting
  <2> QED
    BY <2>1, <1>c
<1>8. CASE UnwindMiss
  <2>1. HoldInv' /\ Waiting
    BY <1>8, <1>a, <1>b DEF UnwindMiss, Unwind, Goto, Waiting
  <2> QED
    BY <2>1, <1>c
<1>9. CASE UnwindDp
  <2>1. HoldInv' /\ Waiting
    BY <1>9, <1>a, <1>b DEF UnwindDp, Unwind, Goto, Waiting
  <2> QED
    BY <2>1, <1>c
<1>10. ASSUME NEW g \in Setters, SetLock(g) PROVE LockInv'
  <2>1. HoldInv' /\ Waiting
    BY <1>10, <1>a, <1>b DEF SetLock, SetReturns, Goto, Waiting
  <2> QED
    BY <2>1, <1>c
<1>11. ASSUME NEW g \in Setters, SetSend(g) PROVE LockInv'
  <2> DEFINE r == [from |-> g, id |-> target[g], ok |-> target[g] \in vports]
  <2>1. HoldInv' /\ (\A h \in Setters : pc'[h] = "recv" => h = g)
    BY <1>11, <1>b DEF SetSend, Goto
  <2>2. \A h \in Setters : pc[h] # "recv"
    BY <1>11, <1>b DEF SetSend
  <2>3. Len(replies) \in Nat /\ Len(replies) <= faults /\ \A k \in 1 .. Len(replies) : replies[k].from = Nobody
    BY <1>11, <2>2 DEF SetSend, LockInv, LeftInv
  <2>4. replies' = Append(replies, r) /\ target' = target /\ faults' = faults /\ pc'[g] = "recv"
    BY <1>11 DEF SetSend, Goto
  <2>5. target[g] \in VportIDs
    BY <1>11 DEF SetSend, Handling
  <2>6. r \in Reply /\ r.from = g /\ r.id = target[g]
    BY <2>5 DEF Reply
  <2> HIDE DEF r
  <2>7. /\ Len(replies') = Len(replies) + 1 /\ replies'[Len(replies) + 1] = r
        /\ \A k \in 1 .. Len(replies) : replies'[k] = replies[k]
    BY <2>4, <2>6, AppendProperties
  <2>8. Len(replies') \in 1 .. 1 + faults /\ Len(replies') - 1 = Len(replies)
    BY ONLY <1>a, <2>3, <2>7
  <2>9. ReplyIsOwn'
    BY <2>1, <2>3, <2>4, <2>6, <2>7, <2>8 DEF ReplyIsOwn
  <2>10. LeftInv'
    BY <2>4 DEF LeftInv
  <2> QED
    BY <2>1, <2>9, <2>10 DEF LockInv
<1>12. ASSUME NEW g \in Setters, SetSendFails(g) PROVE LockInv'
  <2>1. HoldInv' /\ Waiting
    BY <1>12, <1>a, <1>b DEF SetSendFails, SetReturns, Goto, Fault, NoFault, Waiting
  <2> QED
    BY <2>1, <1>c
<1>13. ASSUME NEW g \in Setters, SetRecv(g) PROVE LockInv'
  <2>1. HoldInv' /\ (\A h \in Setters : pc'[h] # "recv")
    BY <1>13, <1>b DEF SetRecv, SetReturns, Goto
  <2> QED
    BY <1>13, <1>a, <2>1, CallEnds DEF SetRecv, LockInv, Fault
<1>14. ASSUME NEW g \in Setters, SetRecvFails(g) PROVE LockInv'
  <2>1. HoldInv' /\ (\A h \in Setters : pc'[h] # "recv")
    BY <1>14, <1>b DEF SetRecvFails, SetReturns, Goto
  <2> QED
    BY <1>14, <1>a, <2>1, CallEnds DEF SetRecvFails, LockInv, Fault
<1>15. ASSUME NEW g \in Loops, LoopRecv(g) PROVE LockInv'
  <2>1. HoldInv' /\ Waiting
    BY <1>15, <1>a, <1>b DEF LoopRecv, AfterStop, Goto, Loops, Waiting
  <2> QED
    BY <2>1, <1>c
<1>16. ASSUME NEW g \in Loops, LoopFails(g) PROVE LockInv'
  <2>1. HoldInv' /\ Waiting
    BY <1>16, <1>a, <1>b DEF LoopFails, AfterStop, Goto, Loops, Fault, NoFault, Waiting
  <2> QED
    BY <2>1, <1>c
<1>17. CASE VportEvent
  <2>1. HoldInv' /\ Waiting
    BY <1>17, <1>a, <1>b DEF VportEvent, Goto, Waiting
  <2> QED
    BY <2>1, <1>c
<1>18. CASE VportDeleted
  <2>1. HoldInv' /\ Waiting
    BY <1>18, <1>a, <1>b DEF VportDeleted, Goto, Waiting
  <2> QED
    BY <2>1, <1>c
<1>19. CASE MissEvent
  <2>1. HoldInv' /\ Waiting
    BY <1>19, <1>a, <1>b DEF MissEvent, Goto, Waiting
  <2> QED
    BY <2>1, <1>c
<1>20. CASE CancelVportEvents
  <2>1. HoldInv' /\ Waiting
    BY <1>20, <1>a, <1>b DEF CancelVportEvents, CloseAfterMisses, Goto, Waiting
  <2> QED
    BY <2>1, <1>c
<1>21. CASE CloseDp
  <2>1. HoldInv' /\ Waiting
    BY <1>21, <1>a, <1>b DEF CloseDp, CloseAfterMisses, Goto, Waiting
  <2> QED
    BY <2>1, <1>c
<1>22. CASE CreateVport
  <2>1. HoldInv' /\ Waiting
    BY <1>22, <1>a, <1>b DEF CreateVport, Waiting
  <2> QED
    BY <2>1, <1>c
<1>23. CASE DeleteVport
  <2>1. HoldInv' /\ Waiting
    BY <1>23, <1>a, <1>b DEF DeleteVport, Waiting
  <2> QED
    BY <2>1, <1>c
<1>24. CASE OtherEvent
  <2>1. HoldInv' /\ Waiting
    BY <1>24, <1>a, <1>b DEF OtherEvent, Waiting
  <2> QED
    BY <2>1, <1>c
<1>25. CASE MissUpcall
  <2>1. HoldInv' /\ Waiting
    BY <1>25, <1>a, <1>b DEF MissUpcall, Waiting
  <2> QED
    BY <2>1, <1>c
<1>26. CASE Cancel
  <2>1. HoldInv' /\ Waiting
    BY <1>26, <1>a, <1>b DEF Cancel, Waiting
  <2> QED
    BY <2>1, <1>c
<1>27. CASE UNCHANGED vars
  <2>1. HoldInv' /\ Waiting
    BY <1>27, <1>a, <1>b DEF vars, Waiting
  <2> QED
    BY <2>1, <1>c
<1> QED
  BY <1>1, <1>2, <1>3, <1>4, <1>5, <1>6, <1>7, <1>8, <1>9, <1>10, <1>11, <1>12, <1>13, <1>14,
     <1>15, <1>16, <1>17, <1>18, <1>19, <1>20, <1>21, <1>22, <1>23, <1>24, <1>25, <1>26, <1>27
  DEF Next, MainStep, VportStep, MissStep, Environment, setVportUpcallPortId, Loops

\* Without unsupported types, none ever turns up.
LEMMA KnownStep == ~UnknownTypes /\ TypeOK /\ KnownInv /\ [Next]_vars => KnownInv'
<1> SUFFICES ASSUME ~UnknownTypes, TypeOK, KnownInv, [Next]_vars PROVE KnownInv'
  OBVIOUS
<1> USE DEF KnownInv, Setters, kernelVars, mainVars, histVars
<1>1. ASSUME NEW g \in Setters, SetSend(g) PROVE KnownInv'
  <2>1. target[g] \in VportIDs
    BY <1>1 DEF SetSend, Handling, TypeOK, ControlOK
  <2>2. CASE target[g] \in vports
    BY <1>1, <2>1, <2>2, NotifyKnown DEF SetSend, TypeOK
  <2>3. CASE target[g] \notin vports
    BY <1>1, <2>3 DEF SetSend
  <2> QED
    BY <2>2, <2>3
<1>2. CASE VportEvent
  BY <1>2 DEF VportEvent, TypeOK, KernelOK
<1>3. CASE CreateVport
  <2>1. PICK id \in VportIDs : unknown' = unknown /\ Notify("new", id, TRUE)
    BY <1>3 DEF CreateVport
  <2> QED
    BY <2>1, NotifyKnown DEF TypeOK
<1>4. CASE DeleteVport
  <2>1. PICK id \in vports : unknown' = unknown \ {id} /\ Notify("del", id, id \notin unknown)
    BY <1>4 DEF DeleteVport
  <2> QED
    BY <2>1, NotifyKnown DEF TypeOK
<1>5. CASE OtherEvent
  <2>1. PICK id \in VportIDs : Notify("other", id, TRUE)
    BY <1>5 DEF OtherEvent
  <2> QED
    BY <1>5, <2>1, NotifyKnown DEF OtherEvent, TypeOK
<1>6. CASE UNCHANGED <<unknown, events>>
  BY <1>6
<1> QED
  BY <1>1, <1>2, <1>3, <1>4, <1>5, <1>6
  DEF vars, Next, MainStep, VportStep, MissStep, Environment, setVportUpcallPortId, Loops,
       ReopenDp, Reopen, ReopenMiss, ConsumeVportEvents, EnumerateVports, PickVport, Return,
       UnwindVport, Unwind, UnwindMiss, UnwindDp, SetLock, SetSendFails, SetRecv, SetRecvFails,
       LoopRecv, LoopFails, VportDeleted, MissEvent, CancelVportEvents, CloseAfterMisses, CloseDp,
       MissUpcall, Cancel

\* The queue of events after one more, and after the first is taken.
LEMMA AppendEvent ==
    ASSUME KernelOK, NEW e, events' = Append(events, e)
    PROVE  /\ Len(events) \in Nat /\ Len(events') = Len(events) + 1
           /\ \A k \in 1 .. Len(events) : events'[k] = events[k]
           /\ events'[Len(events) + 1] = e
  BY DEF KernelOK

LEMMA TakeEvent ==
    ASSUME KernelOK, events # <<>>, events' = Tail(events)
    PROVE  /\ Len(events) \in Nat \ {0} /\ Len(events') = Len(events) - 1
           /\ \A k \in 1 .. Len(events') : events'[k] = events[k + 1]
           /\ Head(events) = events[1]
  BY DEF KernelOK

\* Notifications do not make a pending deletion disappear.
LEMMA NotifyPending ==
    ASSUME KernelOK, NEW cmd, NEW i, NEW known, Notify(cmd, i, known),
           pc'["vport"] = pc["vport"], target'["vport"] = target["vport"],
           NEW id, DeletionPending(id)
    PROVE  DeletionPending(id)'
<1>1. CASE events' = events
  BY <1>1 DEF DeletionPending
<1>2. CASE events' = Append(events, [cmd |-> cmd, id |-> i, known |-> known])
  <2>1. Len(events) \in Nat /\ Len(events') = Len(events) + 1
        /\ \A k \in 1 .. Len(events) : events'[k] = events[k]
    BY <1>2, AppendEvent
  <2>2. 1 .. Len(events) \subseteq 1 .. Len(events')
    BY <2>1
  <2> QED
    BY <2>1, <2>2 DEF DeletionPending
<1> QED
  BY <1>1, <1>2, NotifyQueue

\* A request is sent by a goroutine that holds the lock, and so nobody waits.
LEMMA SendAlone ==
    ASSUME TypeOK, LockInv, NEW g \in Setters, SetSend(g)
    PROVE  /\ \A h \in Setters : pc[h] # "recv"
           /\ replies'[Len(replies')].ok = (target[g] \in vports)
<1>1. \A h \in Setters : pc[h] # "recv"
  BY DEF SetSend, LockInv, HoldInv, Setters
<1> DEFINE r == [from |-> g, id |-> target[g], ok |-> target[g] \in vports]
<1>2. replies' = Append(replies, r) /\ r.ok = (target[g] \in vports)
  BY DEF SetSend
<1>3. replies \in Seq(Reply) /\ target[g] \in VportIDs
  BY DEF TypeOK, KernelOK, ControlOK, SetSend, Handling
<1>4. r \in Reply
  BY <1>3 DEF Reply
<1> HIDE DEF r
<1>5. Len(replies') = Len(replies) + 1 /\ replies'[Len(replies) + 1] = r
  BY <1>2, <1>3, <1>4, AppendProperties
<1> QED
  BY <1>1, <1>2, <1>5

\* A vport is recorded when its own answer says so, unless a refusal goes unnoticed.
LEMMA RecvRecords ==
    ASSUME TypeOK, LockInv, NEW g \in Setters, SetRecv(g), ~lost'
    PROVE  /\ ~lost
           /\ \A id \in vportsDone' :
                id \in vportsDone \/ (id = target[g] /\ replies[Len(replies)].ok)
<1> DEFINE n == Len(replies)
           ok == Head(replies).from = g => Head(replies).ok
<1>1. pc[g] = "recv" /\ ~lost /\ (ok => \A k \in DOMAIN replies : replies[k].from = g => replies[k].ok)
  BY DEF SetRecv
<1>2. replies[n].from = g /\ n \in 1 .. 1 + faults
  BY <1>1 DEF LockInv, ReplyIsOwn
<1>3. replies \in Seq(Reply)
  BY DEF TypeOK, KernelOK
<1>4. n \in DOMAIN replies
  <2>1. DOMAIN replies = 1 .. n /\ n \in Nat
    BY <1>3, LenProperties
  <2> QED
    BY <1>2, <2>1
<1>5. ok => replies[n].ok
  BY <1>1, <1>2, <1>4
<1>6. vportsDone' = IF ok THEN vportsDone \cup {target[g]} ELSE vportsDone
  BY DEF SetRecv
<1> HIDE DEF ok, n
<1>7. \A id \in vportsDone' : id \in vportsDone \/ (id = target[g] /\ replies[n].ok)
  BY <1>5, <1>6
<1> QED
  BY <1>1, <1>7 DEF n

\* A failed receive records nothing, and nobody waits afterwards.
LEMMA FailedRecords ==
    ASSUME TypeOK, LockInv, NEW g \in Setters, SetRecvFails(g)
    PROVE  /\ pc[g] = "recv" /\ \A h \in Setters : pc'[h] # "recv"
           /\ pc' = [pc EXCEPT ![g] = pc'[g]] /\ pc'[g] \in {"top", "unwindVport"}
           /\ target' = [target EXCEPT ![g] = NoVport]
           /\ \A id : WillBeDone(id)' => WillBeDone(id)
<1>1. pc[g] = "recv" /\ vportsDone' = vportsDone /\ \A h \in Setters : h # g => pc[h] # "recv"
  BY DEF SetRecvFails, LockInv, HoldInv
<1>2. pc' = [pc EXCEPT ![g] = pc'[g]] /\ pc'[g] \in {"top", "unwindVport"}
  BY DEF SetRecvFails, SetReturns, Goto, Setters, TypeOK, ControlOK, Goroutines
<1>3. \A h \in Setters : pc'[h] # "recv"
  BY <1>1, <1>2 DEF Setters, TypeOK, ControlOK, Goroutines
<1>4. \A id : WillBeDone(id)' => WillBeDone(id)
  BY <1>1, <1>3 DEF WillBeDone
<1> QED
  BY <1>1, <1>2, <1>3, <1>4 DEF SetRecvFails, SetReturns

\* Every step keeps vportsDone right, or about to be corrected.
LEMMA DoneStep == TypeOK /\ PhaseInv /\ LockInv /\ KnownInv /\ DoneInv /\ [Next]_vars => DoneInv'
<1> SUFFICES ASSUME TypeOK, PhaseInv, LockInv, KnownInv, DoneInv, [Next]_vars PROVE DoneInv'
  OBVIOUS
<1> USE DEF kernelVars, mainVars, histVars, Setters
<1>1. CASE ReopenDp
  BY <1>1 DEF ReopenDp, Reopen, Goto, TypeOK, DataOK, KernelOK, ControlOK, Goroutines, Setters,
       DoneInv, WillBeDone, DeletionPending
<1>2. CASE ReopenMiss
  BY <1>2 DEF ReopenMiss, Reopen, Goto, TypeOK, DataOK, KernelOK, ControlOK, Goroutines, Setters,
       DoneInv, WillBeDone, DeletionPending
<1>3. CASE ConsumeVportEvents
  <2> SUFFICES ASSUME ~lost', "vport" \in open', NEW id \in VportIDs, WillBeDone(id)'
               PROVE  id \in upcall' \/ DeletionPending(id)'
    BY DEF DoneInv

  <2>1. vportsDone' = {} /\ pc["main"] = "listen" /\ pc["vport"] = "off"
    BY <1>3 DEF ConsumeVportEvents, PhaseInv, Starting
  <2>2. pc'["main"] # "recv" /\ pc'["vport"] # "recv"
    BY <1>3, <2>1 DEF ConsumeVportEvents, Goto, TypeOK, ControlOK, Goroutines
  <2> QED
    BY <2>1, <2>2 DEF WillBeDone, Setters
<1>4. CASE EnumerateVports
  BY <1>4 DEF EnumerateVports, Goto, TypeOK, DataOK, KernelOK, ControlOK, Goroutines, Setters,
       DoneInv, WillBeDone, DeletionPending
<1>5. CASE PickVport
  BY <1>5 DEF PickVport, Goto, TypeOK, DataOK, KernelOK, ControlOK, Goroutines, Setters, DoneInv,
       WillBeDone, DeletionPending
<1>6. CASE Return
  BY <1>6 DEF Return, TypeOK, DataOK, KernelOK, ControlOK, Goroutines, Setters, DoneInv,
       WillBeDone, DeletionPending
<1>7. CASE UnwindVport
  BY <1>7 DEF UnwindVport, Unwind, Goto, TypeOK, DataOK, KernelOK, ControlOK, Goroutines, Setters,
       DoneInv, WillBeDone, DeletionPending
<1>8. CASE UnwindMiss
  BY <1>8 DEF UnwindMiss, Unwind, Goto, TypeOK, DataOK, KernelOK, ControlOK, Goroutines, Setters,
       DoneInv, WillBeDone, DeletionPending
<1>9. CASE UnwindDp
  BY <1>9 DEF UnwindDp, Unwind, Goto, TypeOK, DataOK, KernelOK, ControlOK, Goroutines, Setters,
       DoneInv, WillBeDone, DeletionPending
<1>10. ASSUME NEW g \in Setters, SetLock(g) PROVE DoneInv'
  BY <1>10 DEF SetLock, SetReturns, Goto, TypeOK, DataOK, KernelOK, ControlOK, Goroutines,
       Setters, DoneInv, WillBeDone, DeletionPending
<1>11. ASSUME NEW g \in Setters, SetSend(g) PROVE DoneInv'
  <2> SUFFICES ASSUME ~lost', "vport" \in open', NEW id \in VportIDs, WillBeDone(id)'
               PROVE  id \in upcall' \/ DeletionPending(id)'
    BY DEF DoneInv

  <2>1. \A h \in Setters : pc[h] # "recv"
    BY <1>11, SendAlone
  <2>3. replies'[Len(replies')].ok = (target[g] \in vports)
    BY <1>11, SendAlone
  <2>4. pc' = [pc EXCEPT ![g] = "recv"] /\ vportsDone' = vportsDone /\ target' = target
    BY <1>11 DEF SetSend, Goto
  <2>5. CASE id = target[g] /\ target[g] \in vports
    BY <1>11, <2>5 DEF SetSend
  <2>6. CASE ~(id = target[g] /\ target[g] \in vports)
    <3>1. id \in vportsDone
      BY <2>1, <2>3, <2>4, <2>6 DEF WillBeDone, Setters, TypeOK, ControlOK, Goroutines
    <3>3. ~lost /\ "vport" \in open
      <4>1. CASE target[g] \in vports
        BY <1>11, <4>1, NotifyQueue DEF SetSend
      <4>2. CASE target[g] \notin vports
        BY <1>11, <4>2 DEF SetSend
      <4> QED
        BY <4>1, <4>2
    <3>4. id \in upcall \/ DeletionPending(id)
      BY <3>1, <3>3 DEF DoneInv, WillBeDone
    <3>5. ASSUME DeletionPending(id) PROVE DeletionPending(id)'
      <4>1. CASE pc["vport"] = "del" /\ target["vport"] = id
        BY <1>11, <2>4, <4>1 DEF DeletionPending, SetSend, Setters, TypeOK, ControlOK, Goroutines
      <4>2. CASE \E k \in 1 .. Len(events) : events[k].cmd = "del" /\ events[k].id = id
        <5>1. PICK k \in 1 .. Len(events) : events[k].cmd = "del" /\ events[k].id = id
          BY <4>2
        <5>2. CASE events' = events
          BY <5>1, <5>2 DEF DeletionPending
        <5>3. CASE target[g] \in vports
          <6>1. events' = Append(events, [cmd |-> SetCmd, id |-> target[g], known |-> target[g] \notin unknown])
            BY <1>11, <3>3, <5>3, NotifyQueue DEF SetSend
          <6>2. k \in 1 .. Len(events') /\ events'[k] = events[k]
            BY <5>1, <6>1, AppendEvent DEF TypeOK
          <6> QED
            BY <5>1, <6>2 DEF DeletionPending
        <5> QED
          BY <1>11, <5>2, <5>3 DEF SetSend
      <4> QED
        BY <3>5, <4>1, <4>2 DEF DeletionPending
    <3> QED
      BY <1>11, <3>4, <3>5 DEF SetSend
  <2> QED
    BY <2>5, <2>6
<1>12. ASSUME NEW g \in Setters, SetSendFails(g) PROVE DoneInv'
  BY <1>12 DEF SetSendFails, SetReturns, Goto, TypeOK, DataOK, KernelOK, ControlOK, Goroutines,
       Setters, DoneInv, WillBeDone, DeletionPending
<1>13. ASSUME NEW g \in Setters, SetRecv(g) PROVE DoneInv'
  <2> SUFFICES ASSUME ~lost', "vport" \in open', NEW id \in VportIDs, WillBeDone(id)'
               PROVE  id \in upcall' \/ DeletionPending(id)'
    BY DEF DoneInv

  <2>1. ~lost /\ \A i \in vportsDone' : i \in vportsDone \/ (i = target[g] /\ replies[Len(replies)].ok)
    BY <1>13, RecvRecords
  <2>2. pc[g] = "recv" /\ lock = g /\ \A h \in Setters : h # g => pc[h] # "recv"
    BY <1>13 DEF SetRecv, LockInv, HoldInv
  <2>3. pc' = [pc EXCEPT ![g] = pc'[g]] /\ pc'[g] # "recv" /\ pc'[g] # "del"
        /\ target' = [target EXCEPT ![g] = NoVport]
    BY <1>13 DEF SetRecv, SetReturns, Goto, Setters, TypeOK, ControlOK, Goroutines
  <2>4. WillBeDone(id)
    BY <1>13, <2>1, <2>2, <2>3 DEF WillBeDone, SetRecv, Setters, TypeOK, ControlOK, Goroutines
  <2>5. id \in upcall \/ DeletionPending(id)
    BY <1>13, <2>1, <2>4 DEF DoneInv, SetRecv
  <2>6. DeletionPending(id) => DeletionPending(id)'
    BY <1>13, <2>2, <2>3 DEF DeletionPending, SetRecv, Setters, TypeOK, ControlOK, Goroutines
  <2> QED
    BY <1>13, <2>5, <2>6 DEF SetRecv
<1>14. ASSUME NEW g \in Setters, SetRecvFails(g) PROVE DoneInv'
  <2> SUFFICES ASSUME ~lost', "vport" \in open', NEW id \in VportIDs, WillBeDone(id)'
               PROVE  id \in upcall' \/ DeletionPending(id)'
    BY DEF DoneInv

  <2>1. /\ pc[g] = "recv" /\ WillBeDone(id)
        /\ pc' = [pc EXCEPT ![g] = pc'[g]] /\ target' = [target EXCEPT ![g] = NoVport]
    BY <1>14, FailedRecords
  <2>2. ~lost /\ "vport" \in open /\ upcall' = upcall /\ events' = events
    BY <1>14 DEF SetRecvFails
  <2>3. id \in upcall \/ DeletionPending(id)
    BY <2>1, <2>2 DEF DoneInv
  <2>4. DeletionPending(id) => DeletionPending(id)'
    BY <2>1, <2>2 DEF DeletionPending, Setters, TypeOK, ControlOK, Goroutines
  <2> QED
    BY <2>2, <2>3, <2>4
<1>15. ASSUME NEW g \in Loops, LoopRecv(g) PROVE DoneInv'
  BY <1>15 DEF LoopRecv, AfterStop, Goto, Loops, TypeOK, DataOK, KernelOK, ControlOK, Goroutines,
       Setters, DoneInv, WillBeDone, DeletionPending
<1>16. ASSUME NEW g \in Loops, LoopFails(g) PROVE DoneInv'
  BY <1>16 DEF LoopFails, AfterStop, Goto, Loops, TypeOK, DataOK, KernelOK, ControlOK, Goroutines,
       Setters, DoneInv, WillBeDone, DeletionPending
<1>17. CASE VportEvent
  <2> SUFFICES ASSUME ~lost', "vport" \in open', NEW id \in VportIDs, WillBeDone(id)'
               PROVE  id \in upcall' \/ DeletionPending(id)'
    BY DEF DoneInv

  <2>1. pc["vport"] = "blocked" /\ events # <<>> /\ events' = Tail(events)
        /\ upcall' = upcall /\ vportsDone' = vportsDone /\ replies' = replies
        /\ lost' = lost /\ open' = open
    BY <1>17 DEF VportEvent, histVars
  <2>2. WillBeDone(id)
    BY <1>17, <2>1 DEF VportEvent, Goto, WillBeDone, Setters, TypeOK, ControlOK, Goroutines
  <2>3. id \in upcall \/ DeletionPending(id)
    BY <2>1, <2>2 DEF DoneInv
  <2>4. ASSUME DeletionPending(id) PROVE DeletionPending(id)'
    <3>1. PICK k \in 1 .. Len(events) : events[k].cmd = "del" /\ events[k].id = id
      BY <2>1, <2>4 DEF DeletionPending
    <3>2. CASE k = 1
      <4>1. Head(events).cmd = "del" /\ Head(events).id = id /\ Head(events).known
        BY <2>1, <3>1, <3>2, TakeEvent DEF TypeOK, KnownInv
      <4> QED
        BY <1>17, <4>1 DEF VportEvent, Goto, DeletionPending, TypeOK, ControlOK, Goroutines, Setters
    <3>3. CASE k # 1
      <4>1. k - 1 \in 1 .. Len(events') /\ events'[k - 1] = events[k]
        BY <2>1, <3>1, <3>3, TakeEvent DEF TypeOK
      <4> QED
        BY <3>1, <4>1 DEF DeletionPending
    <3> QED
      BY <3>2, <3>3
  <2> QED
    BY <2>1, <2>3, <2>4
<1>18. CASE VportDeleted
  <2> SUFFICES ASSUME ~lost', "vport" \in open', NEW id \in VportIDs, WillBeDone(id)'
               PROVE  id \in upcall' \/ DeletionPending(id)'
    BY DEF DoneInv

  <2>1. \A h \in Setters : pc[h] # "recv" /\ pc'[h] # "recv"
    BY <1>18 DEF VportDeleted, Goto, LockInv, HoldInv, Free, Setters, TypeOK, ControlOK, Goroutines
  <2>2. id \in vportsDone /\ id # target["vport"]
    BY <1>18, <2>1 DEF VportDeleted, WillBeDone
  <2>3. id \in upcall \/ DeletionPending(id)
    BY <1>18, <2>2 DEF DoneInv, WillBeDone, VportDeleted, histVars
  <2> QED
    BY <1>18, <2>2, <2>3 DEF VportDeleted, DeletionPending, kernelVars
<1>19. CASE MissEvent
  BY <1>19 DEF MissEvent, Goto, TypeOK, DataOK, KernelOK, ControlOK, Goroutines, Setters, DoneInv,
       WillBeDone, DeletionPending
<1>20. CASE CancelVportEvents
  BY <1>20 DEF CancelVportEvents, CloseAfterMisses, Goto, TypeOK, DataOK, KernelOK, ControlOK,
       Goroutines, Setters, DoneInv, WillBeDone, DeletionPending
<1>21. CASE CloseDp
  BY <1>21 DEF CloseDp, CloseAfterMisses, Goto, TypeOK, DataOK, KernelOK, ControlOK, Goroutines,
       Setters, DoneInv, WillBeDone, DeletionPending
<1>22. CASE CreateVport
  <2> SUFFICES ASSUME ~lost', "vport" \in open', NEW id \in VportIDs, WillBeDone(id)'
               PROVE  id \in upcall' \/ DeletionPending(id)'
    BY DEF DoneInv

  <2>1. PICK i \in VportIDs \ vports, known \in BOOLEAN : Notify("new", i, known)
    BY <1>22 DEF CreateVport
  <2>2. WillBeDone(id) /\ ~lost /\ "vport" \in open
    BY <1>22, <2>1, NotifyQueue DEF CreateVport, WillBeDone
  <2>3. id \in upcall \/ DeletionPending(id)
    BY <2>2 DEF DoneInv
  <2>4. DeletionPending(id) => DeletionPending(id)'
    BY <1>22, <2>1, NotifyPending DEF CreateVport, TypeOK
  <2> QED
    BY <1>22, <2>3, <2>4 DEF CreateVport
<1>23. CASE DeleteVport
  <2> SUFFICES ASSUME ~lost', "vport" \in open', NEW id \in VportIDs, WillBeDone(id)'
               PROVE  id \in upcall' \/ DeletionPending(id)'
    BY DEF DoneInv

  <2>1. PICK i \in vports : upcall' = upcall \ {i} /\ Notify("del", i, i \notin unknown)
    BY <1>23 DEF DeleteVport
  <2>2. WillBeDone(id) /\ ~lost /\ "vport" \in open
    BY <1>23, <2>1, NotifyQueue DEF DeleteVport, WillBeDone
  <2>3. id \in upcall \/ DeletionPending(id)
    BY <2>2 DEF DoneInv
  <2>4. DeletionPending(id) => DeletionPending(id)'
    BY <1>23, <2>1, NotifyPending DEF DeleteVport, TypeOK
  <2>5. ASSUME id = i PROVE DeletionPending(id)'
    <3> DEFINE e == [cmd |-> "del", id |-> i, known |-> i \notin unknown]
    <3>1. events' = Append(events, e)
      BY <2>1, <2>2, NotifyQueue
    <3>2. Len(events) + 1 \in 1 .. Len(events') /\ events'[Len(events) + 1] = e
      BY <3>1, AppendEvent DEF TypeOK
    <3> QED
      BY <2>5, <3>2 DEF DeletionPending
  <2> QED
    BY <2>1, <2>3, <2>4, <2>5
<1>24. CASE OtherEvent
  <2> SUFFICES ASSUME ~lost', "vport" \in open', NEW id \in VportIDs, WillBeDone(id)'
               PROVE  id \in upcall' \/ DeletionPending(id)'
    BY DEF DoneInv

  <2>1. PICK i \in VportIDs : Notify("other", i, TRUE)
    BY <1>24 DEF OtherEvent
  <2>2. WillBeDone(id) /\ ~lost /\ "vport" \in open
    BY <1>24, <2>1, NotifyQueue DEF OtherEvent, WillBeDone
  <2>3. id \in upcall \/ DeletionPending(id)
    BY <2>2 DEF DoneInv
  <2>4. DeletionPending(id) => DeletionPending(id)'
    BY <1>24, <2>1, NotifyPending DEF OtherEvent, TypeOK
  <2> QED
    BY <1>24, <2>3, <2>4 DEF OtherEvent
<1>25. CASE MissUpcall
  BY <1>25 DEF MissUpcall, TypeOK, DataOK, KernelOK, ControlOK, Goroutines, Setters, DoneInv,
       WillBeDone, DeletionPending
<1>26. CASE Cancel
  BY <1>26 DEF Cancel, TypeOK, DataOK, KernelOK, ControlOK, Goroutines, Setters, DoneInv,
       WillBeDone, DeletionPending
<1>27. CASE UNCHANGED vars
  BY <1>27 DEF vars, TypeOK, DataOK, KernelOK, ControlOK, Goroutines, Setters, DoneInv,
       WillBeDone, DeletionPending
<1> QED
  BY <1>1, <1>2, <1>3, <1>4, <1>5, <1>6, <1>7, <1>8, <1>9, <1>10, <1>11, <1>12, <1>13, <1>14,
     <1>15, <1>16, <1>17, <1>18, <1>19, <1>20, <1>21, <1>22, <1>23, <1>24, <1>25, <1>26, <1>27
  DEF Next, MainStep, VportStep, MissStep, Environment, setVportUpcallPortId, Loops

\* A NEW that will not be skipped stays one while events are added behind it.
LEMMA NewPendingKept ==
    ASSUME KernelOK, NEW e, events' = events \/ events' = Append(events, e),
           NEW id, WillBeDone(id)' => WillBeDone(id),
           pc["vport"] = "del" /\ target["vport"] = id => pc'["vport"] = "del" /\ target'["vport"] = id,
           NewPending(id)
    PROVE  NewPending(id)'
<1>1. 1 .. Len(events) \subseteq 1 .. Len(events') /\ \A k \in 1 .. Len(events) : events'[k] = events[k]
  BY AppendEvent
<1>2. PICK k \in 1 .. Len(events) :
        /\ events[k].cmd = "new" /\ events[k].id = id
        /\ \/ ~WillBeDone(id)
           \/ \E j \in 1 .. k - 1 : events[j].cmd = "del" /\ events[j].id = id
           \/ pc["vport"] = "del" /\ target["vport"] = id
  BY DEF NewPending
<1>3. \A j \in 1 .. k - 1 : j \in 1 .. Len(events)
  BY DEF KernelOK
<1>4. k \in 1 .. Len(events') /\ events'[k] = events[k] /\ \A j \in 1 .. k - 1 : events'[j] = events[j]
  BY <1>1, <1>3
<1> QED
  BY <1>2, <1>4 DEF NewPending

\* Every step leaves somebody to set each vport that needs it.
LEMMA PendingStep == TypeOK /\ PhaseInv /\ LockInv /\ KnownInv /\ DoneInv /\ PendingInv /\ [Next]_vars => PendingInv'
<1> SUFFICES ASSUME TypeOK, PhaseInv, LockInv, KnownInv, DoneInv, PendingInv, [Next]_vars PROVE PendingInv'
  OBVIOUS
<1> USE DEF kernelVars, mainVars, histVars, Setters
<1>1. CASE ReopenDp
  BY <1>1 DEF ReopenDp, Reopen, Goto, TypeOK, DataOK, KernelOK, ControlOK, Goroutines, PendingInv,
       Setting, NewPending, LoopWillSet, MainWillSet, WillBeDone, MainPCs, VportPCs
<1>2. CASE ReopenMiss
  BY <1>2 DEF ReopenMiss, Reopen, Goto, TypeOK, DataOK, KernelOK, ControlOK, Goroutines,
       PendingInv, Setting, NewPending, LoopWillSet, MainWillSet, WillBeDone, MainPCs, VportPCs
<1>3. CASE ConsumeVportEvents
  <2> SUFFICES ASSUME ~lost', "vport" \in open', pc'["vport"] # "stopped",
                      pc'["main"] \in Setting \cup {"returned"}, NEW id \in vports' \ upcall'
               PROVE  NewPending(id)' \/ LoopWillSet(id)' \/ MainWillSet(id)'
    BY DEF PendingInv

  <2>1. pc["main"] = "listen" /\ pc["vport"] = "off" /\ vportsDone' = {} /\ "vport" \notin open
    BY <1>3 DEF ConsumeVportEvents, PhaseInv, Starting
  <2>2. pc' = [pc EXCEPT !["main"] = "enumerate", !["vport"] = "top"] /\ unvisited' = VportIDs
    BY <1>3, <2>1 DEF ConsumeVportEvents
  <2>3. ~WillBeDone(id)'
    BY <2>1, <2>2 DEF WillBeDone, Setters, TypeOK, ControlOK, Goroutines
  <2>4. id \in VportIDs
    BY <1>3 DEF ConsumeVportEvents, TypeOK, KernelOK
  <2> QED
    BY <2>2, <2>3, <2>4 DEF MainWillSet, Setting, Setters, TypeOK, ControlOK, Goroutines
<1>4. CASE EnumerateVports
  BY <1>4 DEF EnumerateVports, Goto, TypeOK, DataOK, KernelOK, ControlOK, Goroutines, PendingInv,
       Setting, NewPending, LoopWillSet, MainWillSet, WillBeDone, MainPCs, VportPCs
<1>5. CASE PickVport
  BY <1>5 DEF PickVport, Goto, TypeOK, DataOK, KernelOK, ControlOK, Goroutines, PendingInv,
       Setting, NewPending, LoopWillSet, MainWillSet, WillBeDone, MainPCs, VportPCs
<1>6. CASE Return
  BY <1>6 DEF Return, TypeOK, DataOK, KernelOK, ControlOK, Goroutines, PendingInv, Setting,
       NewPending, LoopWillSet, MainWillSet, WillBeDone, MainPCs, VportPCs
<1>7. CASE UnwindVport
  BY <1>7 DEF UnwindVport, Unwind, Goto, TypeOK, DataOK, KernelOK, ControlOK, Goroutines,
       PendingInv, Setting, NewPending, LoopWillSet, MainWillSet, WillBeDone, MainPCs, VportPCs
<1>8. CASE UnwindMiss
  BY <1>8 DEF UnwindMiss, Unwind, Goto, TypeOK, DataOK, KernelOK, ControlOK, Goroutines,
       PendingInv, Setting, NewPending, LoopWillSet, MainWillSet, WillBeDone, MainPCs, VportPCs
<1>9. CASE UnwindDp
  BY <1>9 DEF UnwindDp, Unwind, Goto, TypeOK, DataOK, KernelOK, ControlOK, Goroutines, PendingInv,
       Setting, NewPending, LoopWillSet, MainWillSet, WillBeDone, MainPCs, VportPCs
<1>10. ASSUME NEW g \in Setters, SetLock(g) PROVE PendingInv'
  BY <1>10 DEF SetLock, SetReturns, Goto, TypeOK, DataOK, KernelOK, ControlOK, Goroutines,
       PendingInv, Setting, NewPending, LoopWillSet, MainWillSet, WillBeDone, MainPCs, VportPCs
<1>11. ASSUME NEW g \in Setters, SetSend(g) PROVE PendingInv'
  <2> SUFFICES ASSUME ~lost', "vport" \in open', pc'["vport"] # "stopped",
                      pc'["main"] \in Setting \cup {"returned"}, NEW id \in vports' \ upcall'
               PROVE  NewPending(id)' \/ LoopWillSet(id)' \/ MainWillSet(id)'
    BY DEF PendingInv

  <2>1. \A h \in Setters : pc[h] # "recv"
    BY <1>11, SendAlone
  <2>2. pc' = [pc EXCEPT ![g] = "recv"] /\ pc[g] = "send" /\ vportsDone' = vportsDone /\ target' = target
        /\ todo' = todo /\ unvisited' = unvisited /\ vports' = vports /\ open' = open
    BY <1>11 DEF SetSend, Goto
  <2>3. id # target[g] /\ id \in vports \ upcall
    BY <1>11 DEF SetSend
  <2>4. ~lost /\ \E e : events' = events \/ events' = Append(events, e)
    <3>1. CASE target[g] \in vports
      BY <1>11, <3>1, NotifyQueue DEF SetSend
    <3>2. CASE target[g] \notin vports
      BY <1>11, <3>2 DEF SetSend
    <3> QED
      BY <3>1, <3>2
  <2>5. WillBeDone(id)' => WillBeDone(id)
    BY <2>1, <2>2, <2>3 DEF WillBeDone, Setters, TypeOK, ControlOK, Goroutines
  <2>6. NewPending(id) \/ LoopWillSet(id) \/ MainWillSet(id)
    BY <1>11, <2>2, <2>3, <2>4 DEF PendingInv, Setting, Setters, TypeOK, ControlOK, Goroutines
  <2>7. ASSUME NewPending(id) PROVE NewPending(id)'
    <3>1. pc["vport"] = "del" => pc'["vport"] = "del"
      BY <2>2 DEF Setters, TypeOK, ControlOK, Goroutines
    <3>2. PICK e : events' = events \/ events' = Append(events, e)
      BY <2>4
    <3> QED
      BY <2>2, <2>5, <2>7, <3>1, <3>2, NewPendingKept DEF TypeOK
  <2>8. LoopWillSet(id) => LoopWillSet(id)'
    BY <2>2, <2>3, <2>5 DEF LoopWillSet, Setters, TypeOK, ControlOK, Goroutines
  <2>9. MainWillSet(id) => MainWillSet(id)'
    BY <2>2, <2>3, <2>5 DEF MainWillSet, Setting, Setters, TypeOK, ControlOK, Goroutines
  <2> QED
    BY <2>6, <2>7, <2>8, <2>9
<1>12. ASSUME NEW g \in Setters, SetSendFails(g) PROVE PendingInv'
  BY <1>12 DEF SetSendFails, SetReturns, Goto, TypeOK, DataOK, KernelOK, ControlOK, Goroutines,
       PendingInv, Setting, NewPending, LoopWillSet, MainWillSet, WillBeDone, MainPCs, VportPCs
<1>13. ASSUME NEW g \in Setters, SetRecv(g) PROVE PendingInv'
  <2> SUFFICES ASSUME ~lost', "vport" \in open', pc'["vport"] # "stopped",
                      pc'["main"] \in Setting \cup {"returned"}, NEW id \in vports' \ upcall'
               PROVE  NewPending(id)' \/ LoopWillSet(id)' \/ MainWillSet(id)'
    BY DEF PendingInv

  <2>1. pc[g] = "recv" /\ \A h \in Setters : h # g => pc[h] # "recv"
    BY <1>13 DEF SetRecv, LockInv, HoldInv
  <2>0. ~lost /\ \A i \in vportsDone' : i \in vportsDone \/ (i = target[g] /\ replies[Len(replies)].ok)
    BY <1>13, RecvRecords
  <2>2. pc' = [pc EXCEPT ![g] = pc'[g]] /\ pc'[g] \in {"top", "pick", "unwindVport"}
        /\ target' = [target EXCEPT ![g] = NoVport]
    BY <1>13 DEF SetRecv, SetReturns, Goto, Setters, TypeOK, ControlOK, Goroutines
  <2>3. WillBeDone(id)' => WillBeDone(id)
    BY <1>13, <2>0, <2>1, <2>2 DEF WillBeDone, Setters, TypeOK, ControlOK, Goroutines
  <2>4. NewPending(id) \/ LoopWillSet(id) \/ MainWillSet(id)
    BY <1>13, <2>0, <2>1, <2>2 DEF PendingInv, SetRecv, Setting, Setters, TypeOK, ControlOK, Goroutines
  <2>5. NewPending(id) => NewPending(id)'
    BY <1>13, <2>1, <2>2, <2>3 DEF NewPending, SetRecv, Setters, TypeOK, ControlOK, Goroutines
  <2>6. LoopWillSet(id) => LoopWillSet(id)'
    BY <2>1, <2>2, <2>3 DEF LoopWillSet, Setters, TypeOK, ControlOK, Goroutines
  <2>7. MainWillSet(id) => MainWillSet(id)'
    BY <1>13, <2>1, <2>2, <2>3 DEF MainWillSet, SetRecv, Setting, Setters, TypeOK, ControlOK,
         Goroutines
  <2> QED
    BY <2>4, <2>5, <2>6, <2>7
<1>14. ASSUME NEW g \in Setters, SetRecvFails(g) PROVE PendingInv'
  <2> SUFFICES ASSUME ~lost', "vport" \in open', pc'["vport"] # "stopped",
                      pc'["main"] \in Setting \cup {"returned"}, NEW id \in vports' \ upcall'
               PROVE  NewPending(id)' \/ LoopWillSet(id)' \/ MainWillSet(id)'
    BY DEF PendingInv

  <2>1. /\ pc[g] = "recv" /\ (WillBeDone(id)' => WillBeDone(id))
        /\ pc' = [pc EXCEPT ![g] = pc'[g]] /\ pc'[g] \in {"top", "unwindVport"}
        /\ target' = [target EXCEPT ![g] = NoVport]
    BY <1>14, FailedRecords
  <2>2. /\ ~lost /\ "vport" \in open /\ id \in vports \ upcall /\ events' = events
        /\ todo' = todo /\ unvisited' = unvisited
    BY <1>14 DEF SetRecvFails
  <2>3. pc["vport"] # "stopped" /\ pc["main"] \in Setting \cup {"returned"}
    BY <2>1 DEF Setting, Setters, TypeOK, ControlOK, Goroutines
  <2>4. NewPending(id) \/ LoopWillSet(id) \/ MainWillSet(id)
    BY <2>2, <2>3 DEF PendingInv
  <2>5. NewPending(id) => NewPending(id)'
    BY <2>1, <2>2 DEF NewPending, Setters, TypeOK, ControlOK, Goroutines
  <2>6. LoopWillSet(id) => LoopWillSet(id)'
    BY <2>1 DEF LoopWillSet, Setters, TypeOK, ControlOK, Goroutines
  <2>7. MainWillSet(id) => MainWillSet(id)'
    BY <2>1, <2>2 DEF MainWillSet, Setting, Setters, TypeOK, ControlOK, Goroutines
  <2> QED
    BY <2>4, <2>5, <2>6, <2>7
<1>15. ASSUME NEW g \in Loops, LoopRecv(g) PROVE PendingInv'
  BY <1>15 DEF LoopRecv, AfterStop, Goto, Loops, TypeOK, DataOK, KernelOK, ControlOK, Goroutines,
       PendingInv, Setting, NewPending, LoopWillSet, MainWillSet, WillBeDone, MainPCs, VportPCs
<1>16. ASSUME NEW g \in Loops, LoopFails(g) PROVE PendingInv'
  BY <1>16 DEF LoopFails, AfterStop, Goto, Loops, TypeOK, DataOK, KernelOK, ControlOK, Goroutines,
       PendingInv, Setting, NewPending, LoopWillSet, MainWillSet, WillBeDone, MainPCs, VportPCs
<1>17. CASE VportEvent
  <2> SUFFICES ASSUME ~lost', "vport" \in open', pc'["vport"] # "stopped",
                      pc'["main"] \in Setting \cup {"returned"}, NEW id \in vports' \ upcall'
               PROVE  NewPending(id)' \/ LoopWillSet(id)' \/ MainWillSet(id)'
    BY DEF PendingInv

  <2>1. pc["vport"] = "blocked" /\ events # <<>> /\ events' = Tail(events) /\ upcall' = upcall /\ vports' = vports
        /\ vportsDone' = vportsDone /\ replies' = replies /\ lost' = lost /\ open' = open
        /\ todo' = todo /\ unvisited' = unvisited /\ pc'["main"] = pc["main"] /\ pc'["vport"] # "recv"
        /\ target'["main"] = target["main"]
    BY <1>17 DEF VportEvent, Goto, Setters, TypeOK, ControlOK, Goroutines
  <2>2. WillBeDone(id)' <=> WillBeDone(id)
    BY <2>1 DEF WillBeDone, Setters, TypeOK, ControlOK, Goroutines
  <2>3. NewPending(id) \/ MainWillSet(id)
    BY <2>1 DEF PendingInv, LoopWillSet
  <2>4. MainWillSet(id) => MainWillSet(id)'
    BY <2>1, <2>2 DEF MainWillSet, Setting
  <2>5. ASSUME NewPending(id) PROVE NewPending(id)' \/ LoopWillSet(id)'
    <3>1. PICK k \in 1 .. Len(events) :
            /\ events[k].cmd = "new" /\ events[k].id = id
            /\ ~WillBeDone(id) \/ \E j \in 1 .. k - 1 : events[j].cmd = "del" /\ events[j].id = id
      BY <2>1, <2>5 DEF NewPending
    <3>2. /\ Len(events) \in Nat \ {0} /\ Len(events') = Len(events) - 1
          /\ \A i \in 1 .. Len(events') : events'[i] = events[i + 1]
          /\ Head(events) = events[1] /\ events[1].known
      BY <2>1, TakeEvent DEF TypeOK, KnownInv
    <3>3. CASE k = 1
      <4>1. Head(events).cmd = "new" /\ Head(events).id = id /\ Head(events).known /\ ~WillBeDone(id)
        BY <3>1, <3>2, <3>3
      <4> QED
        BY <1>17, <2>2, <4>1 DEF VportEvent, Goto, LoopWillSet, Setters, TypeOK, ControlOK,
             Goroutines
    <3>4. CASE k # 1
      <4>1. k - 1 \in 1 .. Len(events') /\ events'[k - 1] = events[k]
        BY <3>2, <3>4
      <4>2. CASE ~WillBeDone(id)
        BY <2>2, <3>1, <4>1, <4>2 DEF NewPending
      <4>3. CASE \E j \in 1 .. k - 1 : events[j].cmd = "del" /\ events[j].id = id
        <5>1. PICK j \in 1 .. k - 1 : events[j].cmd = "del" /\ events[j].id = id
          BY <4>3
        <5>2. CASE j = 1
          <6>1. Head(events).cmd = "del" /\ Head(events).id = id /\ Head(events).known
            BY <3>2, <5>1, <5>2
          <6>2. pc'["vport"] = "del" /\ target'["vport"] = id
            BY <1>17, <6>1 DEF VportEvent, Goto, Setters, TypeOK, ControlOK, Goroutines
          <6> QED
            BY <3>1, <4>1, <6>2 DEF NewPending
        <5>3. CASE j # 1
          <6>1. j - 1 \in 1 .. (k - 1) - 1 /\ events'[j - 1] = events[j]
            BY <3>2, <5>1, <5>3
          <6> QED
            BY <3>1, <4>1, <5>1, <6>1 DEF NewPending
        <5> QED
          BY <5>2, <5>3
      <4> QED
        BY <3>1, <4>2, <4>3
    <3> QED
      BY <3>3, <3>4
  <2> QED
    BY <2>3, <2>4, <2>5
<1>18. CASE VportDeleted
  <2> SUFFICES ASSUME ~lost', "vport" \in open', pc'["vport"] # "stopped",
                      pc'["main"] \in Setting \cup {"returned"}, NEW id \in vports' \ upcall'
               PROVE  NewPending(id)' \/ LoopWillSet(id)' \/ MainWillSet(id)'
    BY DEF PendingInv

  <2>1. \A h \in Setters : pc[h] # "recv" /\ pc'[h] # "recv"
    BY <1>18 DEF VportDeleted, Goto, LockInv, HoldInv, Free, Setters, TypeOK, ControlOK, Goroutines
  <2>2. WillBeDone(id)' => WillBeDone(id) /\ id # target["vport"]
    BY <1>18, <2>1 DEF VportDeleted, WillBeDone
  <2>3. NewPending(id) \/ MainWillSet(id)
    BY <1>18 DEF VportDeleted, PendingInv, LoopWillSet, Goto, Setters, TypeOK, ControlOK, Goroutines
  <2>4. NewPending(id) => NewPending(id)'
    BY <1>18, <2>2 DEF VportDeleted, NewPending
  <2>5. MainWillSet(id) => MainWillSet(id)'
    BY <1>18, <2>2 DEF VportDeleted, Goto, MainWillSet, Setters, TypeOK, ControlOK, Goroutines
  <2> QED
    BY <2>3, <2>4, <2>5
<1>19. CASE MissEvent
  BY <1>19 DEF MissEvent, Goto, TypeOK, DataOK, KernelOK, ControlOK, Goroutines, PendingInv,
       Setting, NewPending, LoopWillSet, MainWillSet, WillBeDone, MainPCs, VportPCs
<1>20. CASE CancelVportEvents
  BY <1>20 DEF CancelVportEvents, CloseAfterMisses, Goto, TypeOK, DataOK, KernelOK, ControlOK,
       Goroutines, PendingInv, Setting, NewPending, LoopWillSet, MainWillSet, WillBeDone, MainPCs,
       VportPCs
<1>21. CASE CloseDp
  BY <1>21 DEF CloseDp, CloseAfterMisses, Goto, TypeOK, DataOK, KernelOK, ControlOK, Goroutines,
       PendingInv, Setting, NewPending, LoopWillSet, MainWillSet, WillBeDone, MainPCs, VportPCs
<1>22. CASE CreateVport
  <2> SUFFICES ASSUME ~lost', "vport" \in open', pc'["vport"] # "stopped",
                      pc'["main"] \in Setting \cup {"returned"}, NEW id \in vports' \ upcall'
               PROVE  NewPending(id)' \/ LoopWillSet(id)' \/ MainWillSet(id)'
    BY DEF PendingInv

  <2>1. PICK i \in VportIDs \ vports, known \in BOOLEAN :
          vports' = vports \cup {i} /\ Notify("new", i, known)
    BY <1>22 DEF CreateVport
  <2>2. /\ ~lost /\ "vport" \in open /\ pc' = pc /\ target' = target /\ todo' = todo
        /\ unvisited' = unvisited /\ vportsDone' = vportsDone /\ replies' = replies
    BY <1>22, <2>1, NotifyQueue DEF CreateVport
  <2>3. WillBeDone(id)' <=> WillBeDone(id)
    BY <2>2 DEF WillBeDone
  <2>4. CASE id \in vports \ upcall
    <3>1. NewPending(id) \/ LoopWillSet(id) \/ MainWillSet(id)
      BY <2>1, <2>2, <2>4 DEF PendingInv
    <3>2. NewPending(id) => NewPending(id)'
      BY <2>1, <2>2, <2>3, NotifyQueue, NewPendingKept DEF TypeOK
    <3> QED
      BY <2>2, <2>3, <3>1, <3>2 DEF LoopWillSet, MainWillSet
  <2>5. CASE id = i
    <3> DEFINE e == [cmd |-> "new", id |-> i, known |-> known]
    <3>1. events' = Append(events, e)
      BY <1>22, <2>1, NotifyQueue DEF CreateVport
    <3>2. /\ Len(events) \in Nat /\ Len(events') = Len(events) + 1
          /\ \A k \in 1 .. Len(events) : events'[k] = events[k]
          /\ events'[Len(events) + 1] = e
      BY <3>1, AppendEvent DEF TypeOK
    <3>3. WillBeDone(id) => DeletionPending(id)
      BY <2>1, <2>2, <2>5 DEF DoneInv, TypeOK, KernelOK
    <3>4. Len(events) + 1 \in 1 .. Len(events') /\ 1 .. (Len(events) + 1) - 1 = 1 .. Len(events)
      BY <3>2
    <3>5. DeletionPending(id) =>
            \/ \E j \in 1 .. (Len(events) + 1) - 1 : events'[j].cmd = "del" /\ events'[j].id = id
            \/ pc'["vport"] = "del" /\ target'["vport"] = id
      BY <2>2, <3>2, <3>4 DEF DeletionPending
    <3> QED
      BY <2>3, <2>5, <3>2, <3>3, <3>4, <3>5 DEF NewPending
  <2> QED
    BY <1>22, <2>1, <2>4, <2>5 DEF CreateVport
<1>23. CASE DeleteVport
  <2> SUFFICES ASSUME ~lost', "vport" \in open', pc'["vport"] # "stopped",
                      pc'["main"] \in Setting \cup {"returned"}, NEW id \in vports' \ upcall'
               PROVE  NewPending(id)' \/ LoopWillSet(id)' \/ MainWillSet(id)'
    BY DEF PendingInv

  <2>1. PICK i \in vports :
          vports' = vports \ {i} /\ upcall' = upcall \ {i} /\ Notify("del", i, i \notin unknown)
    BY <1>23 DEF DeleteVport
  <2>2. /\ ~lost /\ "vport" \in open /\ pc' = pc /\ target' = target /\ todo' = todo
        /\ unvisited' = unvisited /\ vportsDone' = vportsDone /\ replies' = replies
    BY <1>23, <2>1, NotifyQueue DEF DeleteVport
  <2>3. WillBeDone(id)' <=> WillBeDone(id)
    BY <2>2 DEF WillBeDone
  <2>4. id \in vports \ upcall
    BY <2>1
  <2> QED
    <3>1. NewPending(id) \/ LoopWillSet(id) \/ MainWillSet(id)
      BY <2>1, <2>2, <2>4 DEF PendingInv
    <3>2. NewPending(id) => NewPending(id)'
      BY <2>1, <2>2, <2>3, NotifyQueue, NewPendingKept DEF TypeOK
    <3> QED
      BY <2>2, <2>3, <3>1, <3>2 DEF LoopWillSet, MainWillSet
<1>24. CASE OtherEvent
  <2> SUFFICES ASSUME ~lost', "vport" \in open', pc'["vport"] # "stopped",
                      pc'["main"] \in Setting \cup {"returned"}, NEW id \in vports' \ upcall'
               PROVE  NewPending(id)' \/ LoopWillSet(id)' \/ MainWillSet(id)'
    BY DEF PendingInv

  <2>1. PICK i \in VportIDs : Notify("other", i, TRUE)
    BY <1>24 DEF OtherEvent
  <2>2. /\ ~lost /\ "vport" \in open /\ pc' = pc /\ target' = target /\ todo' = todo
        /\ unvisited' = unvisited /\ vportsDone' = vportsDone /\ replies' = replies
    BY <1>24, <2>1, NotifyQueue DEF OtherEvent
  <2>3. WillBeDone(id)' <=> WillBeDone(id)
    BY <2>2 DEF WillBeDone
  <2>4. id \in vports \ upcall
    BY <1>24 DEF OtherEvent
  <2> QED
    <3>1. NewPending(id) \/ LoopWillSet(id) \/ MainWillSet(id)
      BY <2>1, <2>2, <2>4 DEF PendingInv
    <3>2. NewPending(id) => NewPending(id)'
      BY <2>1, <2>2, <2>3, NotifyQueue, NewPendingKept DEF TypeOK
    <3> QED
      BY <2>2, <2>3, <3>1, <3>2 DEF LoopWillSet, MainWillSet
<1>25. CASE MissUpcall
  BY <1>25 DEF MissUpcall, TypeOK, DataOK, KernelOK, ControlOK, Goroutines, PendingInv, Setting,
       NewPending, LoopWillSet, MainWillSet, WillBeDone, MainPCs, VportPCs
<1>26. CASE Cancel
  BY <1>26 DEF Cancel, TypeOK, DataOK, KernelOK, ControlOK, Goroutines, PendingInv, Setting,
       NewPending, LoopWillSet, MainWillSet, WillBeDone, MainPCs, VportPCs
<1>27. CASE UNCHANGED vars
  BY <1>27 DEF vars, TypeOK, DataOK, KernelOK, ControlOK, Goroutines, PendingInv, Setting,
       NewPending, LoopWillSet, MainWillSet, WillBeDone, MainPCs, VportPCs
<1> QED
  BY <1>1, <1>2, <1>3, <1>4, <1>5, <1>6, <1>7, <1>8, <1>9, <1>10, <1>11, <1>12, <1>13, <1>14,
     <1>15, <1>16, <1>17, <1>18, <1>19, <1>20, <1>21, <1>22, <1>23, <1>24, <1>25, <1>26, <1>27
  DEF Next, MainStep, VportStep, MissStep, Environment, setVportUpcallPortId, Loops

-----------------------------------------------------------------------------
(* The theorems.                                                           *)

\* The initial states: nothing is open, nothing runs but main.
LEMMA InitTypePhase == Init => TypeOK /\ PhaseInv
<1> SUFFICES ASSUME Init PROVE TypeOK /\ PhaseInv
  OBVIOUS
<1>1. KernelOK
  BY DEF Init, KernelOK
<1>2. ControlOK
  BY DEF Init, ControlOK, Goroutines, Setters, MainPCs, VportPCs, MissPCs, Handling
<1>3. DataOK
  <2>1. churn \in 0 .. MaxChurn /\ faults \in 0 .. MaxFaults /\ stops \in Nat
    BY DEF Init
  <2>2. lost \in BOOLEAN /\ lock \in Setters \cup {Free}
    BY DEF Init
  <2> QED
    BY <2>1, <2>2 DEF Init, DataOK
<1>4. PhaseInv
  BY DEF Init, PhaseInv, Goroutines, Setting
<1> QED
  BY <1>1, <1>2, <1>3, <1>4 DEF TypeOK

\* What is open and running at each point of ConsumeMisses (PhaseInv).
LEMMA TypePhase == Spec => [](TypeOK /\ PhaseInv)
<1>1. Init => TypeOK /\ PhaseInv
  BY InitTypePhase
<1>2. TypeOK /\ PhaseInv /\ [Next]_vars => (TypeOK /\ PhaseInv)'
  BY KernelStep, ControlStep, DataStep, PhaseStep DEF TypeOK
<1> QED
  BY <1>1, <1>2, PTL DEF Spec

\* Requests on dp exclude each other (LockInv).
LEMMA Locking == Spec => []LockInv
<1>1. Init => LockInv
  BY DEF Init, LockInv, HoldInv, ReplyIsOwn, LeftInv, Goroutines, Setters, Free
<1>2. TypeOK /\ PhaseInv /\ LockInv /\ [Next]_vars => LockInv'
  BY LockStep
<1> QED
  BY <1>1, <1>2, TypePhase, PTL DEF Spec

\* Every variable keeps its type: in particular the queues never outgrow the
\* receive buffer, and main and the event loop have a vport in hand exactly while
\* they handle one.
THEOREM TypeCorrectness == Spec => []TypeOK
  BY TypePhase, PTL

\* packet.go:22-58, 147-148: whichever call fails first, and whatever the
\* goroutines do meanwhile, a failed ConsumeMisses leaves no socket open, and a
\* finished miss loop none but the one its caller cancels.
THEOREM SocketsReleased == Spec => []Released
<1>1. TypeOK /\ PhaseInv => Released
  BY DEF TypeOK, DataOK, PhaseInv, Released, Sockets
<1> QED
  BY <1>1, TypePhase, PTL

\* packet.go:93-94: the lock keeps the requests of main and the event loop apart. Who
\* receives has its answer in the queue, last, and only what failed receives have left
\* behind, with dp open or not, is ahead of it.
THEOREM RepliesAreOwn == Spec => []ReplyIsOwn
<1>1. LockInv => ReplyIsOwn
  BY DEF LockInv, ReplyIsOwn
<1> QED
  BY <1>1, Locking, PTL

\* The inductive invariant holds when every vport has a supported type.
THEOREM Inductive ==
    ASSUME ~UnknownTypes
    PROVE  Spec => []IndInv
<1>1. Init => IndInv
  <2>1. Init => TypeOK /\ PhaseInv
    BY InitTypePhase
  <2>2. Init => LockInv /\ KnownInv /\ DoneInv /\ PendingInv
    BY DEF Init, LockInv, HoldInv, ReplyIsOwn, LeftInv, KnownInv, DoneInv, PendingInv, Goroutines,
         Setters, Free
  <2> QED
    BY <2>1, <2>2 DEF IndInv
<1>2. IndInv /\ [Next]_vars => IndInv'
  <2> SUFFICES ASSUME IndInv, [Next]_vars PROVE IndInv'
    OBVIOUS
  <2>1. TypeOK' /\ PhaseInv'
    BY KernelStep, ControlStep, DataStep, PhaseStep DEF TypeOK, IndInv
  <2>2. LockInv' /\ KnownInv'
    BY LockStep, KnownStep DEF IndInv
  <2>3. DoneInv' /\ PendingInv'
    BY DoneStep, PendingStep DEF IndInv
  <2> QED
    BY <2>1, <2>2, <2>3 DEF IndInv
<1> QED
  BY <1>1, <1>2, PTL DEF Spec

\* packet.go:88-117: vportsDone is right, or the deletion that corrects it is on
\* its way, unless something was lost.
THEOREM DoneIsSound ==
    ASSUME ~UnknownTypes
    PROVE  Spec => []DoneSound
<1>1. IndInv => DoneSound
  BY DEF IndInv, DoneInv, DoneSound, WillBeDone, TypeOK, DataOK
<1> QED
  BY <1>1, Inductive, PTL

\* packet.go:39-41: when the event loop has caught up, every vport has our upcall
\* port ID, whenever it was created and however often its number was reused,
\* unless something was lost.
THEOREM VportsCovered ==
    ASSUME ~UnknownTypes
    PROVE  Spec => []Covered
<1>1. IndInv => Covered
  <2> SUFFICES ASSUME IndInv, CaughtUp, ~lost, NEW id \in vports \ upcall
               PROVE  FALSE
    BY DEF Covered
  <2>1. NewPending(id) \/ LoopWillSet(id) \/ MainWillSet(id)
    BY DEF IndInv, PendingInv, CaughtUp
  <2> QED
    BY <2>1 DEF CaughtUp, NewPending, LoopWillSet, MainWillSet, Setting
<1> QED
  BY <1>1, Inductive, PTL
=============================================================================

