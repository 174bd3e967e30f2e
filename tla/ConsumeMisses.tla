--------------------------- MODULE ConsumeMisses ---------------------------
(***************************************************************************)
(* DatapathHandle.ConsumeMisses and the two goroutines it leaves running   *)
(* (odp/packet.go, the event loop of odp/vport.go, consume and Close of    *)
(* odp/netlink.go).                                                        *)
(*                                                                         *)
(* Three goroutines share a missVportConsumer:                             *)
(*   "main"  the caller inside ConsumeMisses;                              *)
(*   "vport" consumeVportEvents, reading vport notifications;              *)
(*   "miss"  consumeMisses, reading packet upcalls.                        *)
(* They use three netlink sockets: "dp" for requests, "vport" for the      *)
(* multicast notifications, "miss" for the upcalls.                        *)
(*                                                                         *)
(* The kernel is external. It executes a request inside Sendto and queues  *)
(* the reply before Sendto returns; a multicast that does not fit in the   *)
(* receive buffer is dropped without a word, because every socket is       *)
(* opened with NETLINK_NO_ENOBUFS. A file closed while a goroutine sits in *)
(* Recvfrom on it stays alive until that Recvfrom returns.                 *)
(***************************************************************************)
EXTENDS Naturals, Sequences, FiniteSets

CONSTANTS
    VportIDs,     \* port numbers of the datapath
    NoVport,      \* no port number: a variable that is not in scope
    SetCmd,       \* command of the notification of a SET: "new" before Linux 4.19, "set" since
    UnknownTypes, \* may vports of a type parseVport does not support appear?
    RcvBuf,       \* receive buffer of the vport socket, in notifications
    MissBuf,      \* receive buffer of the miss socket, in upcalls
    MaxChurn,     \* bound: vports created and deleted, events of other datapaths
    MaxFaults     \* bound: system calls that fail

ASSUME NoVportAssumption == NoVport \notin VportIDs
ASSUME SetCmdAssumption == SetCmd \in {"new", "set"}
ASSUME UnknownTypesAssumption == UnknownTypes \in BOOLEAN
ASSUME BoundsAssumption ==
    RcvBuf \in Nat \ {0} /\ MissBuf \in Nat \ {0} /\ MaxChurn \in Nat /\ MaxFaults \in Nat

VARIABLES
    vports,     \* kernel: vports of the datapath
    unknown,    \* kernel: those of an unsupported type
    upcall,     \* kernel: those whose upcall port ID is the miss socket's
    events,     \* kernel: notifications queued on the vport socket
    replies,    \* kernel: replies queued on the dp socket
    misses,     \* kernel: number of upcalls queued on the miss socket
    open,       \* sockets opened and not closed yet
    pc,         \* where each goroutine is
    target,     \* the VportID main or vport is working on
    unvisited,  \* main: port numbers the dump has still to visit
    todo,       \* main: vports the dump reported, still to be set
    lock,       \* holder of missVportConsumer.lock
    vportsDone, \* missVportConsumer.vportsDone
    stops,      \* number of calls of MissConsumer.Error(_, true)
    lost,       \* history: a notification was dropped, a request was not sent, or a refusal
                \* went unnoticed because a leftover was taken for the answer
    churn,      \* history: environment steps so far
    faults      \* history: failed system calls so far

kernelVars == <<vports, unknown, upcall, events, replies, misses>>
mainVars == <<unvisited, todo>>
histVars == <<stops, lost, churn, faults>>
vars == <<kernelVars, open, pc, target, mainVars, lock, vportsDone, histVars>>

Goroutines == {"main", "vport", "miss"}
Setters == {"main", "vport"}        \* who calls setVportUpcallPortId
Sockets == {"dp", "vport", "miss"}
Free == "free"
Nobody == "nobody"                  \* who waits for a reply whose call has returned

MainPCs == {"reopenDp", "reopenMiss", "listen", "enumerate", "pick", "lock", "send", "recv",
            "unwindVport", "unwindMiss", "unwindDp", "failed", "returned"}
VportPCs == {"off", "top", "blocked", "lock", "send", "recv", "del", "stopped"}
Handling == {"lock", "send", "recv", "del"}   \* main or vport has a vport in hand
MissPCs == {"off", "top", "blocked", "cancelVport", "closeDp", "stopped"}

\* "other": a message of another datapath, or of a command that is not handled.
EventCmds == {"new", "del", "set", "other"}
Event == [cmd : EventCmds, id : VportIDs, known : BOOLEAN]
Reply == [from : Setters \cup {Nobody}, id : VportIDs, ok : BOOLEAN]

KernelOK ==
    /\ vports \in SUBSET VportIDs
    /\ unknown \in SUBSET vports
    /\ upcall \in SUBSET vports
    /\ events \in Seq(Event) /\ Len(events) <= RcvBuf
    /\ replies \in Seq(Reply)
    /\ misses \in 0 .. MissBuf
ControlOK ==
    /\ pc \in [Goroutines -> MainPCs \cup VportPCs \cup MissPCs]
    /\ pc["main"] \in MainPCs /\ pc["vport"] \in VportPCs /\ pc["miss"] \in MissPCs
    /\ target \in [Setters -> VportIDs \cup {NoVport}]
    /\ \A g \in Setters : pc[g] \in Handling <=> target[g] # NoVport
DataOK ==
    /\ open \in SUBSET Sockets
    /\ unvisited \in SUBSET VportIDs /\ todo \in SUBSET VportIDs
    /\ lock \in Setters \cup {Free}
    /\ vportsDone \in SUBSET VportIDs
    /\ stops \in Nat /\ lost \in BOOLEAN
    /\ churn \in 0 .. MaxChurn /\ faults \in 0 .. MaxFaults
TypeOK == KernelOK /\ ControlOK /\ DataOK

Init ==
    /\ vports \in SUBSET VportIDs
    /\ unknown \in SUBSET vports /\ (~UnknownTypes => unknown = {})
    /\ upcall = {} /\ events = <<>> /\ replies = <<>> /\ misses = 0
    /\ open = {}
    /\ pc = [g \in Goroutines |-> IF g = "main" THEN "reopenDp" ELSE "off"]
    /\ target = [g \in Setters |-> NoVport]
    /\ unvisited = {} /\ todo = {}
    /\ lock = Free /\ vportsDone = {}
    /\ stops = 0 /\ lost = FALSE /\ churn = 0 /\ faults = 0

Goto(g, label) == pc' = [pc EXCEPT ![g] = label]
Fault == faults < MaxFaults /\ faults' = faults + 1
NoFault == UNCHANGED faults

-----------------------------------------------------------------------------
(* The kernel.                                                             *)

\* The socket exists while its descriptor is open or its reader is inside Recvfrom.
Alive(s) == s \in open \/ (s \in {"vport", "miss"} /\ pc[s] = "blocked")

\* Multicast a notification to the vport socket, if there is one and it has room.
Notify(cmd, id, known) ==
    IF ~Alive("vport") THEN UNCHANGED <<events, lost>>
    ELSE IF Len(events) < RcvBuf
      THEN events' = Append(events, [cmd |-> cmd, id |-> id, known |-> known]) /\ UNCHANGED lost
      ELSE UNCHANGED events /\ lost' = TRUE

Churn == churn < MaxChurn /\ churn' = churn + 1

\* Somebody adds a vport; its upcall port ID is not ours.
CreateVport ==
    /\ Churn
    /\ \E id \in VportIDs \ vports, known \in BOOLEAN :
         /\ ~known => UnknownTypes
         /\ vports' = vports \cup {id}
         /\ unknown' = IF known THEN unknown ELSE unknown \cup {id}
         /\ Notify("new", id, known)
    /\ UNCHANGED <<upcall, replies, misses, open, pc, target, mainVars, lock, vportsDone, stops, faults>>

\* Somebody deletes a vport; its number may be used again.
DeleteVport ==
    /\ Churn
    /\ \E id \in vports :
         /\ vports' = vports \ {id}
         /\ unknown' = unknown \ {id}
         /\ upcall' = upcall \ {id}
         /\ Notify("del", id, id \notin unknown)
    /\ UNCHANGED <<replies, misses, open, pc, target, mainVars, lock, vportsDone, stops, faults>>

\* A notification about a vport of another datapath.
OtherEvent ==
    /\ Churn /\ Alive("vport")
    /\ \E id \in VportIDs : Notify("other", id, TRUE)
    /\ UNCHANGED <<vports, unknown, upcall, replies, misses, open, pc, target, mainVars, lock,
                   vportsDone, stops, faults>>

\* A packet on a vport with our upcall port ID misses the flow table.
MissUpcall ==
    /\ upcall # {} /\ Alive("miss") /\ misses < MissBuf
    /\ misses' = misses + 1
    /\ UNCHANGED <<vports, unknown, upcall, events, replies, open, pc, target, mainVars, lock,
                   vportsDone, histVars>>

-----------------------------------------------------------------------------
(* missVportConsumer.setVportUpcallPortId, called by main and vport.       *)

\* Where the caller continues: main stops at the first error, the event loop
\* passes it to Error(err, false) and reads on.
SetReturns(g, ok) ==
    /\ Goto(g, IF g = "vport" THEN "top" ELSE IF ok THEN "pick" ELSE "unwindVport")
    /\ target' = [target EXCEPT ![g] = NoVport]

\* Mutant: the lock is not taken.
SetLockMissing(g) ==
    /\ pc[g] = "lock"
    /\ IF target[g] \in vportsDone THEN SetReturns(g, TRUE) ELSE Goto(g, "send") /\ UNCHANGED target
    /\ UNCHANGED <<kernelVars, open, mainVars, lock, vportsDone, histVars>>

\* Mutant: the early return of a vport that is done keeps the lock.
SetLockKept(g) ==
    /\ pc[g] = "lock" /\ lock = Free
    /\ lock' = g
    /\ IF target[g] \in vportsDone THEN SetReturns(g, TRUE) ELSE Goto(g, "send") /\ UNCHANGED target
    /\ UNCHANGED <<kernelVars, open, mainVars, vportsDone, histVars>>

\* Mutant: a caller that finds the lock taken gives up.
SetLockTried(g) ==
    /\ pc[g] = "lock"
    /\ IF lock # Free \/ target[g] \in vportsDone
         THEN SetReturns(g, TRUE) /\ UNCHANGED lock
         ELSE Goto(g, "send") /\ lock' = g /\ UNCHANGED target
    /\ UNCHANGED <<kernelVars, open, mainVars, vportsDone, histVars>>

\* Lock; a vport that is done already is left alone.
SetLock(g) ==
    /\ pc[g] = "lock" /\ lock = Free
    /\ IF target[g] \in vportsDone
         THEN SetReturns(g, TRUE) /\ UNCHANGED lock
         ELSE Goto(g, "send") /\ lock' = g /\ UNCHANGED target
    /\ UNCHANGED <<kernelVars, open, mainVars, vportsDone, histVars>>

\* Request sends: the kernel sets the upcall port ID, notifies the group and
\* replies, or refuses because the vport does not exist.
SetSend(g) ==
    /\ pc[g] = "send" /\ "dp" \in open
    /\ Goto(g, "recv")
    /\ LET id == target[g]
           ok == id \in vports
       IN  /\ upcall' = IF ok THEN upcall \cup {id} ELSE upcall
           /\ replies' = Append(replies, [from |-> g, id |-> id, ok |-> ok])
           /\ IF ok THEN Notify(SetCmd, id, id \notin unknown) ELSE UNCHANGED <<events, lost>>
    /\ UNCHANGED <<vports, unknown, misses, open, target, mainVars, lock, vportsDone,
                   stops, churn, faults>>

\* Sendto fails: the descriptor was closed, or the kernel refuses.
SetSendFails(g) ==
    /\ pc[g] = "send"
    /\ IF "dp" \in open THEN Fault ELSE NoFault
    /\ SetReturns(g, FALSE) /\ lock' = Free /\ lost' = TRUE
    /\ UNCHANGED <<kernelVars, open, mainVars, vportsDone, stops, churn>>

\* When a call returns, no call waits for the replies it leaves behind: a later
\* one has another sequence number.
Abandoned(q) == [k \in DOMAIN q |-> [q[k] EXCEPT !.from = Nobody]]

\* Mutant: the vport is recorded before the reply is looked at.
SetRecvUnchecked(g) ==
    /\ pc[g] = "recv" /\ "dp" \in open /\ replies # <<>>
    /\ SetReturns(g, TRUE)
    /\ vportsDone' = vportsDone \cup {target[g]}
    /\ replies' = Abandoned(Tail(replies))
    /\ lock' = Free
    /\ UNCHANGED <<vports, unknown, upcall, events, misses, open, mainVars, histVars>>

\* Mutant: the vport is not recorded.
SetRecvForgotten(g) ==
    /\ pc[g] = "recv" /\ "dp" \in open /\ replies # <<>>
    /\ SetReturns(g, Head(replies).from = g => Head(replies).ok)
    /\ replies' = Abandoned(Tail(replies))
    /\ lock' = Free
    /\ UNCHANGED <<vports, unknown, upcall, events, misses, open, mainVars, vportsDone, histVars>>

\* Request receives, and ends with the first message. That of another call has the
\* wrong sequence number: Request returns without an answer and without an error.
SetRecv(g) ==
    /\ pc[g] = "recv" /\ "dp" \in open /\ replies # <<>>
    /\ LET own == Head(replies).from = g
           ok == own => Head(replies).ok
           refused == \E k \in DOMAIN replies : replies[k].from = g /\ ~replies[k].ok
       IN  /\ SetReturns(g, ok)
           /\ vportsDone' = IF ok THEN vportsDone \cup {target[g]} ELSE vportsDone
           /\ lost' = (lost \/ (ok /\ refused))
    /\ replies' = Abandoned(Tail(replies))
    /\ lock' = Free
    /\ UNCHANGED <<vports, unknown, upcall, events, misses, open, mainVars, stops, churn, faults>>

\* Receive fails: the descriptor was closed, or Recvfrom fails or yields a datagram
\* of somebody else, and the reply stays queued, or the datagram is the first reply
\* and does not have what recv, nextNlMsg and checkResponseHeader ask for.
SetRecvFails(g) ==
    /\ pc[g] = "recv"
    /\ SetReturns(g, FALSE) /\ lock' = Free
    /\ \/ "dp" \notin open /\ NoFault /\ UNCHANGED replies
       \/ "dp" \in open /\ Fault /\ replies' = Abandoned(replies)
       \/ "dp" \in open /\ Fault /\ replies # <<>> /\ replies' = Abandoned(Tail(replies))
    /\ UNCHANGED <<vports, unknown, upcall, events, misses, open, mainVars, vportsDone,
                   stops, lost, churn>>

setVportUpcallPortId(g) ==
    SetLock(g) \/ SetSend(g) \/ SetSendFails(g) \/ SetRecv(g) \/ SetRecvFails(g)

-----------------------------------------------------------------------------
(* DatapathHandle.ConsumeMisses. Deferred calls run last in, first out: the *)
(* labels unwindVport, unwindMiss, unwindDp are where an error return       *)
(* enters them, by how far the function had come.                          *)

\* Reopen a socket: it opens and main moves to next, or fails and main unwinds.
Reopen(here, s, next, unwind) ==
    /\ pc["main"] = here
    /\ \/ NoFault /\ open' = open \cup {s} /\ Goto("main", next)
       \/ Fault /\ UNCHANGED open /\ Goto("main", unwind)
    /\ UNCHANGED <<kernelVars, target, mainVars, lock, vportsDone, stops, lost, churn>>

\* Mutant: dp is not closed when opening the miss socket fails.
ReopenMissLeaks == Reopen("reopenMiss", "miss", "listen", "failed")

ReopenDp == Reopen("reopenDp", "dp", "reopenMiss", "failed")
ReopenMiss == Reopen("reopenMiss", "miss", "listen", "unwindDp")

\* ConsumeVportEvents: open a socket, join the multicast group, start the event
\* loop. It closes the socket itself when joining fails.
ConsumeVportEvents ==
    /\ pc["main"] = "listen"
    /\ \/ /\ NoFault
          /\ open' = open \cup {"vport"}
          /\ pc' = [pc EXCEPT !["main"] = "enumerate", !["vport"] = "top"]
          /\ unvisited' = VportIDs
       \/ /\ Fault
          /\ Goto("main", "unwindMiss")
          /\ UNCHANGED <<open, unvisited>>
    /\ UNCHANGED <<kernelVars, target, todo, lock, vportsDone, stops, lost, churn>>

\* EnumerateVports: the dump visits the port numbers one by one, in the order of
\* a hash table, and reports the vports that exist at that moment. One that
\* parseVport does not support makes the whole call fail, and so does the kernel.
EnumerateVports ==
    /\ pc["main"] = "enumerate"
    /\ \/ \E id \in unvisited :
            /\ unvisited' = unvisited \ {id}
            /\ todo' = IF id \in vports \ unknown THEN todo \cup {id} ELSE todo
            /\ IF id \in unknown THEN Goto("main", "unwindVport") ELSE UNCHANGED pc
            /\ NoFault
       \/ unvisited = {} /\ Goto("main", "pick") /\ NoFault /\ UNCHANGED mainVars
       \/ Fault /\ Goto("main", "unwindVport") /\ UNCHANGED mainVars
    /\ UNCHANGED <<kernelVars, open, target, lock, vportsDone, stops, lost, churn>>

\* The loop over the vports. Their order is the dump's: any.
PickVport ==
    /\ pc["main"] = "pick"
    /\ \E id \in todo :
         /\ todo' = todo \ {id}
         /\ target' = [target EXCEPT !["main"] = id]
    /\ Goto("main", "lock")
    /\ UNCHANGED <<kernelVars, open, unvisited, lock, vportsDone, histVars>>

\* success = true: start consumeMisses and return.
Return ==
    /\ pc["main"] = "pick" /\ todo = {}
    /\ pc' = [pc EXCEPT !["main"] = "returned", !["miss"] = "top"]
    /\ UNCHANGED <<kernelVars, open, target, mainVars, lock, vportsDone, histVars>>

\* One deferred Close.
Unwind(here, s, next) ==
    /\ pc["main"] = here
    /\ open' = open \ {s}
    /\ Goto("main", next)
    /\ UNCHANGED <<kernelVars, target, mainVars, lock, vportsDone, histVars>>

UnwindVport == Unwind("unwindVport", "vport", "unwindMiss")
UnwindMiss == Unwind("unwindMiss", "miss", "unwindDp")
UnwindDp == Unwind("unwindDp", "dp", "failed")

\* The caller cancels: Close on the miss socket, and nothing else.
Cancel ==
    /\ pc["main"] = "returned" /\ "miss" \in open
    /\ open' = open \ {"miss"}
    /\ UNCHANGED <<kernelVars, pc, target, mainVars, lock, vportsDone, histVars>>

-----------------------------------------------------------------------------
(* NetlinkSocket.consume: the loop both goroutines run.                    *)

Loops == {"vport", "miss"}

\* Where a loop goes when Receive has failed, after consumer.Error(err, true).
AfterStop(g) == IF g = "miss" THEN "cancelVport" ELSE "stopped"

\* Enter Recvfrom; a closed socket has descriptor -1 and gives EBADF.
LoopRecv(g) ==
    /\ pc[g] = "top"
    /\ IF g \in open THEN Goto(g, "blocked") /\ UNCHANGED stops
                     ELSE Goto(g, AfterStop(g)) /\ stops' = stops + 1
    /\ UNCHANGED <<kernelVars, open, target, mainVars, lock, vportsDone, lost, churn, faults>>

\* Recvfrom fails, or yields a datagram that recv or nextNlMsg rejects.
LoopFails(g) ==
    /\ pc[g] = "blocked"
    /\ Fault /\ Goto(g, AfterStop(g)) /\ stops' = stops + 1
    /\ UNCHANGED <<kernelVars, open, target, mainVars, lock, vportsDone, lost, churn>>

\* Mutant: a notification that is not parsed reaches VportDeleted all the same.
VportEventUnparsed ==
    /\ pc["vport"] = "blocked" /\ events # <<>>
    /\ LET e == Head(events)
           handled == e.known /\ e.cmd \in {"new", "del"}
       IN  /\ Goto("vport", IF handled /\ e.cmd = "new" THEN "lock" ELSE "del")
           /\ target' = IF handled THEN [target EXCEPT !["vport"] = e.id] ELSE target
    /\ events' = Tail(events)
    /\ UNCHANGED <<vports, unknown, upcall, replies, misses, open, mainVars, lock, vportsDone, histVars>>

\* A notification arrives: consumeVportEvents filters and parses it, and calls
\* VportCreated or VportDeleted, or drops it.
VportEvent ==
    /\ pc["vport"] = "blocked" /\ events # <<>>
    /\ LET e == Head(events)
           handled == e.known /\ e.cmd \in {"new", "del"}
       IN  /\ Goto("vport", IF ~handled THEN "top" ELSE IF e.cmd = "new" THEN "lock" ELSE "del")
           /\ target' = IF handled THEN [target EXCEPT !["vport"] = e.id] ELSE target
    /\ events' = Tail(events)
    /\ UNCHANGED <<vports, unknown, upcall, replies, misses, open, mainVars, lock, vportsDone, histVars>>

\* Mutant: the vport stays recorded.
VportDeletedKept ==
    /\ pc["vport"] = "del" /\ lock = Free
    /\ Goto("vport", "top")
    /\ target' = [target EXCEPT !["vport"] = NoVport]
    /\ UNCHANGED <<kernelVars, open, mainVars, lock, vportsDone, histVars>>

\* missVportConsumer.VportDeleted: lock, delete, unlock.
VportDeleted ==
    /\ pc["vport"] = "del" /\ lock = Free
    /\ vportsDone' = vportsDone \ {target["vport"]}
    /\ Goto("vport", "top")
    /\ target' = [target EXCEPT !["vport"] = NoVport]
    /\ UNCHANGED <<kernelVars, open, mainVars, lock, histVars>>

\* An upcall arrives and goes to MissConsumer.Miss, whose errors are reported
\* with Error(err, false).
MissEvent ==
    /\ pc["miss"] = "blocked" /\ misses > 0
    /\ misses' = misses - 1
    /\ Goto("miss", "top")
    /\ UNCHANGED <<vports, unknown, upcall, events, replies, open, target, mainVars, lock,
                   vportsDone, histVars>>

\* After its loop, consumeMisses cancels the vport events, then closes dp.
CloseAfterMisses(here, s, next) ==
    /\ pc["miss"] = here
    /\ open' = open \ {s}
    /\ Goto("miss", next)
    /\ UNCHANGED <<kernelVars, target, mainVars, lock, vportsDone, histVars>>

\* Mutant: the vport events are not cancelled.
CancelVportEventsMissing == CloseAfterMisses("cancelVport", "dp", "closeDp")

CancelVportEvents == CloseAfterMisses("cancelVport", "vport", "closeDp")
CloseDp == CloseAfterMisses("closeDp", "dp", "stopped")

-----------------------------------------------------------------------------
MainStep ==
    \/ ReopenDp \/ ReopenMiss \/ ConsumeVportEvents \/ EnumerateVports \/ PickVport \/ Return
    \/ UnwindVport \/ UnwindMiss \/ UnwindDp \/ setVportUpcallPortId("main")
VportStep == LoopRecv("vport") \/ VportEvent \/ VportDeleted \/ setVportUpcallPortId("vport")
MissStep == LoopRecv("miss") \/ MissEvent \/ CancelVportEvents \/ CloseDp
Environment ==
    \/ CreateVport \/ DeleteVport \/ OtherEvent \/ MissUpcall \/ Cancel
    \/ \E g \in Loops : LoopFails(g)

Next == MainStep \/ VportStep \/ MissStep \/ Environment

Spec == Init /\ [][Next]_vars

\* The Go scheduler runs every goroutine that can run. Nothing is assumed of the
\* environment: no packet has to come, no call has to fail.
Fairness == WF_vars(MainStep) /\ WF_vars(VportStep) /\ WF_vars(MissStep)
FairSpec == Spec /\ Fairness

-----------------------------------------------------------------------------
(* Properties.                                                             *)

\* The event loop has caught up, and nothing it depends on has gone.
CaughtUp ==
    /\ pc["main"] = "returned"
    /\ pc["vport"] \in {"top", "blocked"} /\ events = <<>>
    /\ {"dp", "vport"} \subseteq open

\* packet.go:39-41: every vport, also one added while listening, has our upcall
\* port ID once the event loop has caught up, unless a notification was dropped
\* or a request failed. Races: creation before, during and after the dump;
\* deletion and reuse of a number while main or the loop is setting it.
Covered == CaughtUp /\ ~lost => vports \ unknown \subseteq upcall

\* packet.go:88-91: vportsDone never says done of a vport that still needs to be
\* set, except while the deletion that corrects it is on its way; otherwise the
\* NEW of a reused port number would be skipped.
DeletionPending(id) ==
    \/ \E k \in 1 .. Len(events) : events[k].cmd = "del" /\ events[k].id = id
    \/ pc["vport"] = "del" /\ target["vport"] = id
DoneSound ==
    ~lost /\ "vport" \in open => \A id \in vportsDone : id \in upcall \/ DeletionPending(id)

\* netlink.go:617-623: Request takes whatever message comes first, so what the
\* lock of missVportConsumer is for: between sending and receiving nobody else's
\* request comes in between. The caller's answer is queued last, and ahead of it are
\* only the leftovers of receives that failed, at most one for each failure.
ReplyIsOwn ==
    \A g \in Setters :
        pc[g] = "recv" =>
            /\ Len(replies) \in 1 .. 1 + faults
            /\ replies[Len(replies)].from = g /\ replies[Len(replies)].id = target[g]
            /\ \A k \in 1 .. Len(replies) - 1 : replies[k].from = Nobody

\* packet.go:22-58, 147-148: a failed ConsumeMisses leaves no socket open, and a
\* finished miss loop none but the one its caller cancels.
Released ==
    /\ pc["main"] = "failed" => open = {}
    /\ pc["miss"] = "stopped" => open \subseteq {"miss"}

\* ConsumeMisses returns, whatever the event loop does with the lock and the
\* socket both of them use.
Returns == <>(pc["main"] \in {"failed", "returned"})

\* packet.go:88-91, the vicious circle: the notifications caused by setting the
\* upcall port ID die out, and the loop comes to rest.
Settles == <>[](pc["vport"] = "stopped" \/ (pc["vport"] \in {"off", "blocked"} /\ events = <<>>))

\* packet.go:39-41: a vport that stays gets its upcall port ID, unless listening
\* ends or something is lost.
Listening == pc["main"] = "returned" /\ {"dp", "vport"} \subseteq open /\ pc["vport"] # "stopped"
EventuallyCovered ==
    \A id \in VportIDs :
        (Listening /\ id \in vports) ~> (id \in upcall \/ id \notin vports \/ lost \/ ~Listening)

\* A loop whose socket has been closed under it; a loop that no message has woken.
Cancelled(g) == pc[g] # "off" /\ g \notin open
Asleep(g) == pc[g] = "blocked" /\ (IF g = "vport" THEN events = <<>> ELSE misses = 0)

\* packet.go:22-58, 147-148: when ConsumeMisses fails with the event loop running, or
\* the miss loop ends, all the rest is closed; and a loop whose socket is closed while
\* it is at work, on the lock or in a request, ends, as one does that is woken later.
Ending == pc["main"] = "unwindVport" \/ pc["miss"] = "cancelVport"
TearDown ==
    /\ Ending ~> open \subseteq {"miss"}
    /\ \A g \in Loops : Cancelled(g) /\ ~Asleep(g) ~> pc[g] = "stopped"

-----------------------------------------------------------------------------
(* The inductive invariant behind the safety properties.                   *)

\* What main has opened and started by the time it gets to each label, and what
\* the miss loop has closed.
Starting == {"reopenDp", "reopenMiss", "listen"}
Setting == {"enumerate", "pick", "lock", "send", "recv"}
PhaseInv ==
    /\ pc["main"] \in Starting =>
         pc["vport"] = "off" /\ replies = <<>> /\ vportsDone = {} /\ todo = {} /\ "vport" \notin open
    /\ pc["main"] = "reopenDp" => open = {}
    /\ pc["main"] \in {"reopenMiss", "unwindDp"} => open = {"dp"}
    /\ pc["main"] \in {"listen", "unwindMiss"} => open = {"dp", "miss"}
    /\ pc["main"] \in Setting \cup {"unwindVport"} => open = Sockets
    /\ pc["main"] = "failed" => open = {}
    /\ pc["main"] # "returned" => pc["miss"] = "off"
    /\ pc["miss"] \in {"closeDp", "stopped"} => "vport" \notin open
    /\ pc["miss"] = "stopped" => "dp" \notin open

\* A request on dp is made with the lock held, and when none is being made, whatever
\* is queued there is left over from receives that failed.
HoldInv == \A g \in Setters : pc[g] \in {"send", "recv"} <=> lock = g
LeftInv ==
    "dp" \in open /\ (\A g \in Setters : pc[g] # "recv")
      => Len(replies) <= faults /\ \A k \in 1 .. Len(replies) : replies[k].from = Nobody
LockInv == HoldInv /\ ReplyIsOwn /\ LeftInv

\* Recorded as done, or about to be.
WillBeDone(id) ==
    \/ id \in vportsDone
    \/ \E g \in Setters : pc[g] = "recv" /\ target[g] = id /\ replies[Len(replies)].ok
DoneInv ==
    ~lost /\ "vport" \in open =>
        \A id \in VportIDs : WillBeDone(id) => id \in upcall \/ DeletionPending(id)

\* A NEW is queued that will not be skipped: if id is recorded as done, its DEL
\* comes first.
NewPending(id) ==
    \E k \in 1 .. Len(events) :
        /\ events[k].cmd = "new" /\ events[k].id = id
        /\ \/ ~WillBeDone(id)
           \/ \E j \in 1 .. k - 1 : events[j].cmd = "del" /\ events[j].id = id
           \/ pc["vport"] = "del" /\ target["vport"] = id
LoopWillSet(id) ==
    pc["vport"] \in {"lock", "send"} /\ target["vport"] = id /\ ~WillBeDone(id)
MainWillSet(id) ==
    /\ pc["main"] \in Setting /\ ~WillBeDone(id)
    /\ \/ id \in todo
       \/ pc["main"] = "enumerate" /\ id \in unvisited
       \/ pc["main"] \in {"lock", "send"} /\ target["main"] = id

\* Somebody will still set every vport that needs it.
PendingInv ==
    /\ ~lost /\ "vport" \in open /\ pc["vport"] # "stopped" /\ pc["main"] \in Setting \cup {"returned"}
    => \A id \in vports \ upcall : NewPending(id) \/ LoopWillSet(id) \/ MainWillSet(id)

KnownInv == unknown = {} /\ \A k \in 1 .. Len(events) : events[k].known

\* Without unsupported types, this conjunction is inductive.
IndInv == TypeOK /\ PhaseInv /\ LockInv /\ KnownInv /\ DoneInv /\ PendingInv

-----------------------------------------------------------------------------
(* What the comments, the tests and the tool say, and the code does not do. *)

\* tool/odp/main.go:361-366: Error(_, true) closes a channel, so it comes once.
StoppedOnce == stops <= 1

\* odp/dpif_test.go:414-420: Cancel ends a loop, with EBADF. But Close wakes nobody who
\* is inside Recvfrom.
CancelEnds == \A g \in Loops : Cancelled(g) ~> pc[g] = "stopped"
=============================================================================
