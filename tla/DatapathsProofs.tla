-------------------------- MODULE DatapathsProofs --------------------------
(***************************************************************************)
(* Proofs about Datapaths, for any set of processes, any names, any number *)
(* of datapaths, vports and failures, and a queue of any size.             *)
(*                                                                         *)
(* All of them rest on two facts about the kernel: the ifindex of a        *)
(* datapath is not used again, and no two vports of a datapath were        *)
(* created at the same time (KernelInv), so a vport that has gone does not *)
(* come back although its number and its name do (LineGone).               *)
(***************************************************************************)
EXTENDS Datapaths, SequenceTheorems, TLAPS

USE BoundsAssumption, NamesAssumption, SetCmdAssumption

\* A datapath has its local vport, what has gone has none, and the vports of a
\* datapath differ in their birth.
KernelInv ==
    /\ \A i \in Ifs \ dps, n \in Ports : vports[i][n] = NoVport
    /\ \A i \in dps : vports[i][Local] \in Vports /\ vports[i][Local].born = 0
    /\ \A i \in dps, n \in Ports \ {Local} :
          vports[i][n] # NoVport => vports[i][n].born \in 1 .. born
    /\ \A i \in dps, n, m \in Ports :
          (vports[i][n] # NoVport /\ vports[i][m] # NoVport /\ vports[i][n].born = vports[i][m].born)
             => n = m

\* Where a command can be, and what it has then.
Places(command) ==
    CASE command = "none" -> {"idle"}
      [] command = "addDatapath" -> {"create", "done"}
      [] command = "deleteDatapath" -> {"lookup", "lookupByID", "delete", "done"}
      [] command = "listDatapaths" -> {"enumerate", "enumerating", "done"}
      [] command = "addVport" -> {"lookup", "lookupByID", "createVport", "done"}
      [] command = "deleteVport" -> {"lookupVport", "deleteVport", "done"}
      [] command = "listVports" ->
            {"enumerate", "enumerating", "lookup", "lookupByID", "print", "printing", "done"}
      [] OTHER -> {"listen", "wait", "callback", "done"}

PlaceAt(p) ==
    /\ pc[p] \in Places(op[p])
    /\ pc[p] \in {"create", "lookup", "lookupByID", "lookupVport"} => arg[p] \in Names
    /\ op[p] = "addVport" => spec[p] \in Names
    /\ pc[p] \in {"idle", "lookup", "lookupByID", "lookupVport", "enumerate", "enumerating", "create"} =>
          dp[p] = 0 /\ printed[p] = {} /\ named[p] = NoLine /\ deleted[p] = NoLine
    /\ ok[p] => pc[p] = "done"
    /\ (op[p] # "listenForVports" \/ pc[p] = "listen") =>
          events[p] = <<>> /\ ~overrun[p] /\ shown[p] = {}
    /\ pc[p] = "callback" =>
          event[p] \in Events /\ event[p].cmd \in {"new", "del"} /\ event[p].line[2].known

PlaceInv == \A p \in Procs : PlaceAt(p)

\* lookupDatapath on its way from the name to the id.
MeantInv ==
    \A p \in Procs :
        /\ start[p] <= created
        /\ pc[p] = "lookupByID" => \A i \in dps : nameOf[i] = arg[p] => i > start[p]

\* A line that has been printed or announced: of a datapath and a vport that were created.
Old(l) == l \in Lines /\ l[1] <= created /\ l[2].born <= born

\* `vport delete` between the lookup and the request: its vport can be nowhere but at the
\* number it has.
NamedInv ==
    \A p \in Procs :
        /\ (pc[p] = "deleteVport" \/ deleted[p] # NoLine \/ (op[p] = "deleteVport" /\ ok[p])) =>
              Old(named[p])
        /\ pc[p] = "deleteVport" =>
              /\ named[p][1] = dp[p] /\ deleted[p] = NoLine
              /\ \A n \in Ports : vports[dp[p]][n] = named[p][2] => n = port[p]

\* What must be printed is there, and is printed, or its datapath is still to come or the
\* dump of its vports is in progress, unless a dump that had to report it was torn.
Covered(p, l) ==
    \/ l \in printed[p]
    \/ pc[p] \in {"print", "printing"} /\ l[1] \in todo[p]
    \/ pc[p] = "printing" /\ l[1] = at[p]

ListInv ==
    \A p \in Procs :
        /\ must[p] \subseteq Present
        /\ (op[p] = "listVports" /\ (pc[p] \in {"print", "printing"} \/ ok[p])) =>
              \A l \in must[p] :
                  dp[p] \in {0, l[1]} /\ torn[p] \cap {0, l[1]} = {} => Covered(p, l)
        /\ (op[p] = "listDatapaths" /\ printed[p] # {} /\ 0 \notin torn[p]) =>
              {l \in must[p] : l[2].born = 0} \subseteq printed[p]

\* Is e about to be handled by p? Is each e in q followed by an f?
Queued(q, cmd, l) == \E k \in 1 .. Len(q) : q[k].cmd = cmd /\ q[k].line = l
InHand(p, cmd, l) == pc[p] = "callback" /\ event[p].cmd = cmd /\ event[p].line = l
Pending(p, cmd, l) == InHand(p, cmd, l) \/ Queued(events[p], cmd, l)
NewThenDel(q, l) ==
    \A j \in 1 .. Len(q) : (q[j].cmd = "new" /\ q[j].line = l) =>
        \E k \in j + 1 .. Len(q) : q[k].cmd = "del" /\ q[k].line = l

\* What is in the queue, in hand and shown is old; only known types are shown.
QueueInv ==
    \A p \in Procs :
        /\ \A k \in 1 .. Len(events[p]) : Old(events[p][k].line)
        /\ pc[p] = "callback" => Old(event[p].line)
        /\ \A l \in shown[p] : Old(l) /\ l[2].known

\* A vport that is there is not to be taken off the lines shown, and is among them or
\* will be; one that has gone is not among them or will be taken off, after it is shown
\* for the last time.
Followed(p, l) ==
    IF l \in Present
    THEN /\ ~Pending(p, "del", l)
         /\ (l[2].known /\ l[2].born > heardFrom[p]) => l \in shown[p] \/ Pending(p, "new", l)
    ELSE /\ l \in shown[p] => Pending(p, "del", l)
         /\ InHand(p, "new", l) => Queued(events[p], "del", l)
         /\ NewThenDel(events[p], l)

MirrorInv ==
    \A p \in Procs : (pc[p] \in {"wait", "callback"} /\ ~overrun[p]) =>
        \A l \in Lines : (l[1] \in dps /\ l \notin missed[p]) => Followed(p, l)

IndInv ==
    /\ TypeOK /\ KernelInv /\ PlaceInv /\ MeantInv /\ NamedInv /\ ListInv /\ QueueInv /\ MirrorInv
    /\ DatapathMeant /\ DeletesNamed

-----------------------------------------------------------------------------
(* Where a command is tells which it is.                                   *)

LEMMA PlacesInverse ==
    ASSUME NEW c \in Commands
    PROVE  /\ "idle" \in Places(c) => c = "none"
           /\ "create" \in Places(c) => c = "addDatapath"
           /\ "delete" \in Places(c) => c = "deleteDatapath"
           /\ "createVport" \in Places(c) => c = "addVport"
           /\ "lookupVport" \in Places(c) => c = "deleteVport"
           /\ "deleteVport" \in Places(c) => c = "deleteVport"
           /\ "print" \in Places(c) => c = "listVports"
           /\ "printing" \in Places(c) => c = "listVports"
           /\ "enumerate" \in Places(c) => c \in {"listDatapaths", "listVports"}
           /\ "enumerating" \in Places(c) => c \in {"listDatapaths", "listVports"}
           /\ "lookup" \in Places(c) => c \in {"deleteDatapath", "addVport", "listVports"}
           /\ "lookupByID" \in Places(c) => c \in {"deleteDatapath", "addVport", "listVports"}
           /\ "listen" \in Places(c) => c = "listenForVports"
           /\ "wait" \in Places(c) => c = "listenForVports"
           /\ "callback" \in Places(c) => c = "listenForVports"
<1>1. CASE c = "none"
  BY <1>1 DEF Places
<1>2. CASE c = "addDatapath"
  BY <1>2 DEF Places
<1>3. CASE c = "deleteDatapath"
  BY <1>3 DEF Places
<1>4. CASE c = "listDatapaths"
  BY <1>4 DEF Places
<1>5. CASE c = "addVport"
  BY <1>5 DEF Places
<1>6. CASE c = "deleteVport"
  BY <1>6 DEF Places
<1>7. CASE c = "listVports"
  BY <1>7 DEF Places
<1>8. CASE c = "listenForVports"
  BY <1>8 DEF Places
<1> QED
  BY <1>1, <1>2, <1>3, <1>4, <1>5, <1>6, <1>7, <1>8 DEF Commands

-----------------------------------------------------------------------------
(* Vports that are there.                                                  *)

LEMMA PresentIff ==
    ASSUME NEW l
    PROVE  /\ l \in Present <=>
                \E i \in dps, n \in Ports : vports[i][n] # NoVport /\ l = <<i, vports[i][n]>>
           /\ l \in Present' <=>
                \E i \in dps', n \in Ports : vports'[i][n] # NoVport /\ l = <<i, vports'[i][n]>>
  BY DEF Present, VportsOf

LEMMA VportsOfIff ==
    ASSUME NEW i, NEW l
    PROVE  l \in VportsOf(i) <=> \E n \in Ports : vports[i][n] # NoVport /\ l = <<i, vports[i][n]>>
  BY DEF VportsOf

-----------------------------------------------------------------------------
(* The steps, as the kernel and a process see them.                        *)

\* The kernel's part of a step that is about the kernel.
KernelStep ==
    \/ \E name \in Names : KernelNewDp(name) /\ UNCHANGED <<born, must, queueVars>>
    \/ \E i \in dps : KernelDelDp(i) /\ UNCHANGED <<created, nameOf, born, queueVars>>
    \/ \E i \in dps, name \in Names, known \in BOOLEAN :
          KernelNewVport(i, name, known) /\ UNCHANGED <<dpVars, must>>
    \/ \E i \in dps, n \in Ports : KernelDelVport(i, n) /\ UNCHANGED <<dpVars, born>>
    \/ \E l \in Present : Notify(SetCmd, l) /\ UNCHANGED <<kernelVars, must, torn>>

Self(q) == Command(q) \/ Listener(q)

\* A step of a dump.
Dump(p) ==
    \/ Enumerate(p) \/ EnumerateMore(p) \/ EnumerateDone(p)
    \/ PrintVports(p) \/ PrintVportsMore(p) \/ PrintVportsDone(p)

\* Process q does not take this step.
Still(q) ==
    /\ op'[q] = op[q] /\ pc'[q] = pc[q] /\ arg'[q] = arg[q] /\ spec'[q] = spec[q]
    /\ dp'[q] = dp[q] /\ port'[q] = port[q] /\ todo'[q] = todo[q] /\ printed'[q] = printed[q]
    /\ at'[q] = at[q]
    /\ ok'[q] = ok[q] /\ start'[q] = start[q] /\ named'[q] = named[q] /\ deleted'[q] = deleted[q]
    /\ event'[q] = event[q] /\ shown'[q] = shown[q]
    /\ heardFrom'[q] = heardFrom[q] /\ missed'[q] = missed[q]

Quiet(q) ==
    /\ UNCHANGED kernelVars /\ events'[q] = events[q] /\ overrun'[q] = overrun[q]
    /\ must'[q] = must[q] /\ torn'[q] = torn[q]

\* A message of a dump touches the dump, and may end the command.
LEMMA DumpSteps ==
    ASSUME TypeOK, NEW p \in Procs, Dump(p)
    PROVE  /\ UNCHANGED <<kernelVars, op, arg, spec, start, must, torn, dp, port, named, deleted,
                          queueVars, listenerVars, faults>>
           /\ pc[p] \in {"enumerate", "enumerating", "print", "printing"}
           /\ \/ \E good \in BOOLEAN : Return(p, good)
              \/ \E label \in {"enumerating", "print", "printing"} : Goto(p, label) /\ UNCHANGED ok
           /\ \A q \in Procs \ {p} :
                todo'[q] = todo[q] /\ at'[q] = at[q] /\ printed'[q] = printed[q]
<1>1. \A i \in {pc[p]} : pc' = pc => Goto(p, i)
  BY DEF Goto, TypeOK
<1>2. CASE Enumerate(p) \/ EnumerateMore(p)
  BY <1>1, <1>2 DEF Enumerate, EnumerateMore
<1>3. CASE EnumerateDone(p)
  BY <1>3 DEF EnumerateDone, TypeOK
<1>4. ASSUME NEW s, VportsCome(p, s)
      PROVE  /\ \/ \E good \in BOOLEAN : Return(p, good)
                \/ \E label \in {"enumerating", "print", "printing"} : Goto(p, label) /\ UNCHANGED ok
             /\ printed' = printed
  BY <1>4 DEF VportsCome
<1>5. CASE PrintVports(p)
  <2>1. \A q \in Procs \ {p} : todo'[q] = todo[q] /\ at'[q] = at[q] /\ printed'[q] = printed[q]
    BY <1>4, <1>5 DEF PrintVports, TypeOK, dumpVars
  <2>2. \/ \E good \in BOOLEAN : Return(p, good)
        \/ \E label \in {"enumerating", "print", "printing"} : Goto(p, label) /\ UNCHANGED ok
    BY <1>4, <1>5 DEF PrintVports
  <2> QED
    BY <1>5, <2>1, <2>2 DEF PrintVports
<1>6. CASE PrintVportsMore(p)
  BY <1>4, <1>6 DEF PrintVportsMore
<1>7. CASE PrintVportsDone(p)
  BY <1>7 DEF PrintVportsDone, TypeOK
<1> QED
  BY <1>2, <1>3, <1>5, <1>6, <1>7 DEF Dump

LEMMA DumpEnds ==
    ASSUME TypeOK, NEW p \in Procs, Dump(p)
    PROVE  pc'[p] \in {"enumerating", "print", "printing", "done"}
<1>1. ASSUME NEW label, Goto(p, label) PROVE pc'[p] = label
  BY <1>1 DEF Goto, TypeOK
<1>2. ASSUME NEW good, Return(p, good) PROVE pc'[p] = "done"
  BY <1>1, <1>2 DEF Return
<1>3. \/ \E good \in BOOLEAN : Return(p, good)
      \/ \E label \in {"enumerating", "print", "printing"} : Goto(p, label)
  BY DumpSteps
<1> QED
  BY <1>1, <1>2, <1>3

\* A request of p that changes the kernel, or fails.
LEMMA KernelSelf ==
    ASSUME TypeOK, PlaceInv, NEW p \in Procs,
           CreateDatapath(p) \/ Delete(p) \/ CreateVport(p) \/ DeleteVport(p)
    PROVE  KernelStep \/ UNCHANGED <<kernelVars, must, torn, queueVars>>
<1>1. CreateDatapath(p) => KernelStep \/ UNCHANGED <<kernelVars, must, torn, queueVars>>
  <2>1. CreateDatapath(p) => arg[p] \in Names
    BY DEF CreateDatapath, PlaceInv, PlaceAt
  <2> QED
    BY <2>1 DEF CreateDatapath, KernelStep, kernelVars, dpVars
<1>2. Delete(p) => KernelStep \/ UNCHANGED <<kernelVars, must, torn, queueVars>>
  BY DEF Delete, KernelStep, kernelVars, dpVars
<1>3. CreateVport(p) => KernelStep \/ UNCHANGED <<kernelVars, must, torn, queueVars>>
  <2>1. CreateVport(p) => spec[p] \in Names
    BY PlacesInverse DEF CreateVport, PlaceInv, PlaceAt, TypeOK
  <2> QED
    BY <2>1 DEF CreateVport, KernelStep, kernelVars, dpVars
<1>4. DeleteVport(p) => KernelStep \/ UNCHANGED <<kernelVars, must, torn, queueVars>>
  <2>1. port[p] \in Ports
    BY DEF TypeOK
  <2> QED
    BY <2>1 DEF DeleteVport, KernelStep, CanDelete, kernelVars, dpVars
<1> QED
  BY <1>1, <1>2, <1>3, <1>4

LEMMA KernelSteps ==
    ASSUME TypeOK, PlaceInv, [Next]_vars
    PROVE  KernelStep \/ UNCHANGED kernelVars
<1>1. CASE Others
  BY <1>1, Zenon DEF Others, OtherAddsDatapath, OtherDeletesDatapath, OtherAddsVport, OtherDeletesVport,
     OtherSetsVport, KernelStep, commandVars
<1>2. ASSUME NEW p \in Procs, CreateDatapath(p) \/ Delete(p) \/ CreateVport(p) \/ DeleteVport(p)
      PROVE  KernelStep \/ UNCHANGED kernelVars
  BY <1>2, KernelSelf
<1>3. ASSUME NEW p \in Procs, Self(p),
             ~CreateDatapath(p), ~Delete(p), ~CreateVport(p), ~DeleteVport(p)
      PROVE  UNCHANGED kernelVars
  <2>1. Dump(p) => UNCHANGED kernelVars
    BY DumpSteps
  <2> QED
    BY <1>3, <2>1 DEF Self, Command, Listener, Dump, AddDatapath, DeleteDatapath, ListDatapaths, AddVport,
       DeleteVportCmd, ListVports, Exit, RequestFails, LookupDatapath, LookupDatapathByID,
       LookupVportByName, ListenForVports, Listen, ReceiveFails, ReceiveEvent, Callback, Begin
<1>4. CASE UNCHANGED vars
  BY <1>4 DEF vars
<1> QED
  BY <1>1, <1>2, <1>3, <1>4 DEF Next, Self

LEMMA Steps ==
    ASSUME TypeOK, PlaceInv, [Next]_vars, NEW q \in Procs
    PROVE  \/ Self(q)
           \/ Still(q) /\ (KernelStep \/ Quiet(q))
<1>1. CASE Others
  BY <1>1 DEF Others, OtherAddsDatapath, OtherDeletesDatapath, OtherAddsVport, OtherDeletesVport,
     OtherSetsVport, KernelStep, commandVars, foundVars, dumpVars, listenerVars, Still
<1>2. ASSUME NEW p \in Procs, p # q, Self(p) PROVE Still(q) /\ (KernelStep \/ Quiet(q))
  <2>1. Still(q)
    <3>1. ASSUME AddDatapath(p) \/ DeleteDatapath(p) \/ ListDatapaths(p) \/ AddVport(p)
                 \/ DeleteVportCmd(p) \/ ListVports(p) \/ ListenForVports(p)
          PROVE  Still(q)
      BY <1>2, <3>1 DEF AddDatapath, DeleteDatapath, ListDatapaths, AddVport, DeleteVportCmd,
         ListVports, ListenForVports, Begin, Goto, Still, TypeOK, foundVars, dumpVars, listenerVars
    <3>2. ASSUME Exit(p) \/ RequestFails(p) \/ CreateDatapath(p) PROVE Still(q)
      BY <1>2, <3>2 DEF Exit, RequestFails, CreateDatapath, Goto, Return, Still, TypeOK, foundVars, dumpVars,
         listenerVars
    <3>3. ASSUME LookupDatapath(p) \/ LookupDatapathByID(p) PROVE Still(q)
      BY <1>2, <3>3, SMTT(30) DEF LookupDatapath, LookupDatapathByID, Continue, NotFound, Goto, Return, Still,
         TypeOK, dumpVars, listenerVars
    <3>4. ASSUME Delete(p) \/ CreateVport(p) PROVE Still(q)
      BY <1>2, <3>4 DEF Delete, CreateVport, Goto, Return, Still, TypeOK, foundVars, dumpVars, listenerVars
    <3>5. ASSUME LookupVportByName(p) \/ DeleteVport(p) PROVE Still(q)
      BY <1>2, <3>5, SMTT(30) DEF LookupVportByName, DeleteVport, Goto, Return, Still, TypeOK, foundVars, dumpVars,
         listenerVars
    <3>6. ASSUME Dump(p) PROVE Still(q)
      <4>1. pc'[q] = pc[q] /\ ok'[q] = ok[q]
        <5>1. ASSUME NEW label, Goto(p, label) PROVE pc'[q] = pc[q]
          BY <1>2, <5>1 DEF Goto, TypeOK
        <5>2. ASSUME NEW good, Return(p, good) PROVE pc'[q] = pc[q] /\ ok'[q] = ok[q]
          BY <1>2, <5>1, <5>2 DEF Return, TypeOK
        <5>3. \/ \E good \in BOOLEAN : Return(p, good)
              \/ \E label \in {"enumerating", "print", "printing"} : Goto(p, label) /\ UNCHANGED ok
          BY <3>6, DumpSteps
        <5> QED
          BY <5>1, <5>2, <5>3
      <4>2. /\ UNCHANGED <<op, arg, spec, start, dp, port, named, deleted, listenerVars>>
            /\ todo'[q] = todo[q] /\ at'[q] = at[q] /\ printed'[q] = printed[q]
        BY <1>2, <3>6, DumpSteps
      <4> QED
        BY <4>1, <4>2 DEF Still, listenerVars
    <3>7. ASSUME Listen(p) \/ ReceiveFails(p) \/ ReceiveEvent(p) \/ Callback(p) PROVE Still(q)
      BY <1>2, <3>7 DEF Listen, ReceiveFails, ReceiveEvent, Callback, Goto, Return, Still, TypeOK,
         foundVars, dumpVars, listenerVars
    <3> QED
      BY <1>2, <3>1, <3>2, <3>3, <3>4, <3>5, <3>6, <3>7 DEF Self, Command, Listener, Dump
  <2>2. KernelStep \/ Quiet(q)
    <3>1. ASSUME KernelStep \/ UNCHANGED <<kernelVars, must, torn, queueVars>> PROVE KernelStep \/ Quiet(q)
      BY <3>1 DEF Quiet, queueVars
    <3>2. ASSUME AddDatapath(p) \/ DeleteDatapath(p) \/ ListDatapaths(p) \/ AddVport(p)
                 \/ DeleteVportCmd(p) \/ ListVports(p) \/ ListenForVports(p)
          PROVE  Quiet(q)
      BY <1>2, <3>2, SMTT(30) DEF AddDatapath, DeleteDatapath, ListDatapaths, AddVport, DeleteVportCmd,
         ListVports, ListenForVports, Begin, Goto, Quiet, TypeOK, queueVars
    <3>3. ASSUME Exit(p) \/ ReceiveEvent(p) PROVE Quiet(q)
      BY <1>2, <3>3 DEF Exit, ReceiveEvent, Quiet, TypeOK, queueVars
    <3>4. ASSUME RequestFails(p) \/ LookupDatapath(p) \/ LookupDatapathByID(p) \/ LookupVportByName(p)
                 \/ Dump(p) \/ Listen(p) \/ ReceiveFails(p) \/ Callback(p)
          PROVE  UNCHANGED <<kernelVars, must, torn, queueVars>>
      BY <3>4, DumpSteps DEF RequestFails, LookupDatapath, LookupDatapathByID, LookupVportByName,
         Listen, ReceiveFails, Callback
    <3>5. ASSUME CreateDatapath(p) \/ Delete(p) \/ CreateVport(p) \/ DeleteVport(p)
          PROVE  KernelStep \/ UNCHANGED <<kernelVars, must, torn, queueVars>>
      BY <3>5, KernelSelf
    <3> QED
      BY <1>2, <3>1, <3>2, <3>3, <3>4, <3>5 DEF Self, Command, Listener, Dump
  <2> QED
    BY <2>1, <2>2
<1>3. CASE UNCHANGED vars
  BY <1>3 DEF vars, Still, Quiet, kernelVars, commandVars, foundVars, dumpVars, queueVars, listenerVars
<1> QED
  BY <1>1, <1>2, <1>3 DEF Next, Self

-----------------------------------------------------------------------------
(* Types.                                                                  *)

KernelType ==
    /\ created \in 0 .. MaxIf /\ dps \in SUBSET (1 .. created)
    /\ nameOf \in [Ifs -> Names \cup {NoName}]
    /\ vports \in [Ifs -> [Ports -> Vports \cup {NoVport}]]
    /\ born \in 0 .. MaxBorn

CommandType ==
    /\ op \in [Procs -> Commands] /\ pc \in [Procs -> Labels]
    /\ arg \in [Procs -> Names \cup {NoName}] /\ spec \in [Procs -> Names \cup {NoName}]
    /\ dp \in [Procs -> 0 .. created] /\ port \in [Procs -> Ports]
    /\ todo \in [Procs -> SUBSET Ifs] /\ printed \in [Procs -> SUBSET Lines]
    /\ at \in [Procs -> 0 .. created] /\ found \in [Procs -> SUBSET Lines]
    /\ torn \in [Procs -> SUBSET (0 .. MaxIf)]
    /\ ok \in [Procs -> BOOLEAN]
    /\ start \in [Procs -> 0 .. MaxIf] /\ must \in [Procs -> SUBSET Lines]
    /\ named \in [Procs -> Lines \cup {NoLine}] /\ deleted \in [Procs -> Lines \cup {NoLine}]

ListenerType ==
    /\ events \in [Procs -> Seq(Events)] /\ \A p \in Procs : Len(events[p]) <= RcvBuf
    /\ overrun \in [Procs -> BOOLEAN]
    /\ event \in [Procs -> Events \cup {NoEvent}] /\ shown \in [Procs -> SUBSET Lines]
    /\ heardFrom \in [Procs -> 0 .. MaxBorn] /\ missed \in [Procs -> SUBSET Lines]
    /\ faults \in 0 .. MaxFaults

LEMMA TypeParts ==
    /\ TypeOK <=> KernelType /\ CommandType /\ ListenerType
    /\ TypeOK' <=> KernelType' /\ CommandType' /\ ListenerType'
  BY DEF TypeOK, KernelType, CommandType, ListenerType

LEMMA DpsAreIfs ==
    ASSUME KernelType
    PROVE  dps \subseteq Ifs
  BY DEF KernelType, Ifs

\* What is there is a line of the tool.
LEMMA PresentLines ==
    ASSUME KernelType, NEW l \in Present
    PROVE  l \in Lines /\ l[1] \in dps
<1>1. PICK i \in dps, n \in Ports : vports[i][n] # NoVport /\ l = <<i, vports[i][n]>>
  BY PresentIff
<1>2. i \in Ifs /\ vports[i][n] \in Vports
  BY <1>1 DEF KernelType, Ifs
<1> QED
  BY <1>1, <1>2 DEF Lines

\* A new vport, and a new local vport.
LEMMA NewVportType ==
    ASSUME KernelType, NEW name \in Names, NEW known \in BOOLEAN
    PROVE  /\ [name |-> name, known |-> known, born |-> 0] \in Vports
           /\ born < MaxBorn => [name |-> name, known |-> known, born |-> born + 1] \in Vports
  BY DEF KernelType, Vports

LEMMA KernelTypeStep ==
    ASSUME KernelType, KernelStep \/ UNCHANGED kernelVars
    PROVE  KernelType'
<1>1. ASSUME NEW name \in Names, KernelNewDp(name), UNCHANGED <<born, must, queueVars>> PROVE KernelType'
  <2> DEFINE i == created + 1
  <2> DEFINE v == [name |-> name, known |-> TRUE, born |-> 0]
  <2>1. i \in Ifs /\ i \in 1 .. i /\ created \in 0 .. i
    BY <1>1 DEF KernelType, KernelNewDp, Ifs
  <2>2. v \in Vports
    BY NewVportType
  <2>3. vports' \in [Ifs -> [Ports -> Vports \cup {NoVport}]]
    BY <1>1, <2>1, <2>2 DEF KernelNewDp, KernelType
  <2>4. nameOf' \in [Ifs -> Names \cup {NoName}]
    BY <1>1, <2>1 DEF KernelNewDp, KernelType
  <2>5. created' \in 0 .. MaxIf /\ dps' \in SUBSET (1 .. created')
    BY <1>1, <2>1 DEF KernelNewDp, KernelType
  <2> QED
    BY <1>1, <2>3, <2>4, <2>5 DEF KernelType
<1>2. ASSUME NEW i \in dps, KernelDelDp(i), UNCHANGED <<created, nameOf, born, queueVars>>
      PROVE  KernelType'
  <2>1. vports' \in [Ifs -> [Ports -> Vports \cup {NoVport}]]
    BY <1>2 DEF KernelDelDp, KernelType
  <2> QED
    BY <1>2, <2>1 DEF KernelDelDp, KernelType
<1>3. ASSUME NEW i \in dps, NEW name \in Names, NEW known \in BOOLEAN, KernelNewVport(i, name, known),
             UNCHANGED <<dpVars, must>>
      PROVE  KernelType'
  <2> DEFINE v == [name |-> name, known |-> known, born |-> born + 1]
  <2>1. PICK n \in Ports : vports' = [vports EXCEPT ![i][n] = v] /\ born < MaxBorn /\ born' = born + 1
    BY <1>3 DEF KernelNewVport
  <2>2. v \in Vports
    BY <2>1, NewVportType
  <2> HIDE DEF v
  <2>3. vports' \in [Ifs -> [Ports -> Vports \cup {NoVport}]]
    BY <2>1, <2>2 DEF KernelType
  <2> QED
    BY <1>3, <2>1, <2>3 DEF KernelType, dpVars
<1>4. ASSUME NEW i \in dps, NEW n \in Ports, KernelDelVport(i, n), UNCHANGED <<dpVars, born>>
      PROVE  KernelType'
  <2>1. vports' \in [Ifs -> [Ports -> Vports \cup {NoVport}]]
    BY <1>4 DEF KernelDelVport, KernelType
  <2> QED
    BY <1>4, <2>1 DEF KernelType, dpVars
<1>5. CASE UNCHANGED kernelVars
  BY <1>5 DEF kernelVars, dpVars, KernelType
<1> QED
  BY <1>1, <1>2, <1>3, <1>4, <1>5 DEF KernelStep

-----------------------------------------------------------------------------
(* The kernel.                                                             *)

\* What was there before is at its old place or has gone; what is new at a place in an
\* old datapath is of a later birth.
Ageing ==
    /\ created <= created' /\ born <= born'
    /\ \A i \in 1 .. created :
         /\ nameOf'[i] = nameOf[i] /\ (i \in dps' => i \in dps)
         /\ \A n \in Ports :
              \/ vports'[i][n] \in {vports[i][n], NoVport}
              \/ vports'[i][n] \in Vports /\ vports'[i][n].born > born

LEMMA KernelAges ==
    ASSUME KernelType, KernelStep \/ UNCHANGED kernelVars
    PROVE  Ageing
<1>1. ASSUME NEW name \in Names, KernelNewDp(name), UNCHANGED <<born, must, queueVars>> PROVE Ageing
  BY <1>1 DEF KernelNewDp, KernelType, Ageing, Ifs
<1>2. ASSUME NEW i \in dps, KernelDelDp(i), UNCHANGED <<created, nameOf, born, queueVars>>
      PROVE  Ageing
  BY <1>2 DEF KernelDelDp, KernelType, Ageing, Ifs
<1>3. ASSUME NEW i \in dps, NEW name \in Names, NEW known \in BOOLEAN, KernelNewVport(i, name, known),
             UNCHANGED <<dpVars, must>>
      PROVE  Ageing
  <2> DEFINE v == [name |-> name, known |-> known, born |-> born + 1]
  <2>1. PICK n \in Ports : vports' = [vports EXCEPT ![i][n] = v]
    BY <1>3 DEF KernelNewVport
  <2>2. v \in Vports /\ v.born = born + 1 /\ born' = born + 1
    BY <1>3, NewVportType DEF KernelNewVport
  <2> HIDE DEF v
  <2>3. \A j \in 1 .. created, m \in Ports : vports'[j][m] = vports[j][m] \/ vports'[j][m] = v
    BY <2>1 DEF KernelType, Ifs
  <2> QED
    BY <1>3, <2>2, <2>3 DEF KernelType, Ageing, dpVars
<1>4. ASSUME NEW i \in dps, NEW n \in Ports, KernelDelVport(i, n), UNCHANGED <<dpVars, born>>
      PROVE  Ageing
  BY <1>4 DEF KernelDelVport, KernelType, Ageing, Ifs, dpVars
<1>5. CASE UNCHANGED kernelVars
  BY <1>5 DEF kernelVars, dpVars, KernelType, Ageing
<1> QED
  BY <1>1, <1>2, <1>3, <1>4, <1>5 DEF KernelStep

\* What is old stays old, and does not come back once it has gone.
LEMMA LineGone ==
    ASSUME KernelType, Ageing, NEW l, Old(l), l \notin Present
    PROVE  l \notin Present'
<1> SUFFICES ASSUME l \in Present' PROVE FALSE
  OBVIOUS
<1>1. PICK i \in dps', n \in Ports : vports'[i][n] # NoVport /\ l = <<i, vports'[i][n]>>
  BY PresentIff
<1>2. i \in 1 .. created /\ vports'[i][n].born <= born /\ born \in Nat
  BY <1>1 DEF Old, Lines, Ifs, KernelType
<1>3. i \in dps /\ vports'[i][n] = vports[i][n]
  BY <1>1, <1>2, VportsAssumption DEF Ageing, Vports
<1> QED
  BY <1>1, <1>3, PresentIff

LEMMA OldStays ==
    ASSUME KernelType, KernelType', Ageing, NEW l, Old(l)
    PROVE  Old(l)'
<1>1. l[1] \in Nat /\ l[2].born \in Nat /\ created \in Nat /\ created' \in Nat
      /\ born \in Nat /\ born' \in Nat
  BY DEF Old, Lines, Ifs, Vports, KernelType
<1> QED
  BY <1>1 DEF Old, Ageing

LEMMA PresentOld ==
    ASSUME KernelType, KernelInv, NEW l \in Present
    PROVE  Old(l)
<1>1. PICK i \in dps, n \in Ports : vports[i][n] # NoVport /\ l = <<i, vports[i][n]>>
  BY PresentIff
<1>2. l \in Lines
  BY PresentLines
<1>3. vports[i][n].born <= born
  <2>1. CASE n = Local
    BY <2>1 DEF KernelInv, KernelType
  <2>2. CASE n # Local
    BY <1>1, <2>2 DEF KernelInv, KernelType
  <2> QED
    BY <2>1, <2>2
<1> QED
  BY <1>1, <1>2, <1>3 DEF Old, KernelType

LEMMA KernelInvStep ==
    ASSUME KernelType, KernelInv, KernelStep \/ UNCHANGED kernelVars
    PROVE  KernelInv'
<1>1. ASSUME NEW name \in Names, KernelNewDp(name), UNCHANGED <<born, must, queueVars>> PROVE KernelInv'
  <2> DEFINE i == created + 1
  <2> DEFINE v == [name |-> name, known |-> TRUE, born |-> 0]
  <2>1. i \in Ifs \ dps /\ dps' = dps \cup {i} /\ vports' = [vports EXCEPT ![i][Local] = v]
    BY <1>1 DEF KernelNewDp, KernelType, Ifs
  <2>2. v \in Vports /\ v.born = 0 /\ v # NoVport
    BY NewVportType, VportsAssumption
  <2>3. \A j \in Ifs \ {i} : vports'[j] = vports[j]
    BY <2>1 DEF KernelType
  <2>4. \A n \in Ports \ {Local} : vports'[i][n] = NoVport
    BY <2>1 DEF KernelType, KernelInv
  <2>5. Local \in Ports /\ vports'[i][Local] = v
    BY <2>1 DEF KernelType, Local, Ports
  <2>6. dps \subseteq Ifs
    BY DEF KernelType, Ifs
  <2> HIDE DEF v, i
  <2>7. \A j \in Ifs \ dps', n \in Ports : vports'[j][n] = NoVport
    BY <2>1, <2>3 DEF KernelInv
  <2>8. \A j \in dps' : vports'[j][Local] \in Vports /\ vports'[j][Local].born = 0
    BY <2>1, <2>2, <2>3, <2>5, <2>6 DEF KernelInv
  <2>9. \A j \in dps', n \in Ports \ {Local} : vports'[j][n] # NoVport => vports'[j][n].born \in 1 .. born'
    BY <1>1, <2>1, <2>3, <2>4, <2>6 DEF KernelInv
  <2>10. \A j \in dps', n, m \in Ports :
          (vports'[j][n] # NoVport /\ vports'[j][m] # NoVport /\ vports'[j][n].born = vports'[j][m].born)
             => n = m
    BY <2>1, <2>3, <2>4, <2>6 DEF KernelInv
  <2> QED
    BY <2>7, <2>8, <2>9, <2>10 DEF KernelInv
<1>2. ASSUME NEW i \in dps, KernelDelDp(i), UNCHANGED <<created, nameOf, born, queueVars>>
      PROVE  KernelInv'
  <2>1. dps \subseteq Ifs
    BY DEF KernelType, Ifs
  <2>2. dps' = dps \ {i} /\ \A n \in Ports : vports'[i][n] = NoVport
    BY <1>2, <2>1 DEF KernelDelDp, KernelType
  <2>3. \A j \in Ifs \ {i} : vports'[j] = vports[j]
    BY <1>2 DEF KernelDelDp, KernelType
  <2> QED
    BY <1>2, <2>1, <2>2, <2>3 DEF KernelInv
<1>3. ASSUME NEW i \in dps, NEW name \in Names, NEW known \in BOOLEAN, KernelNewVport(i, name, known),
             UNCHANGED <<dpVars, must>>
      PROVE  KernelInv'
  <2> DEFINE v == [name |-> name, known |-> known, born |-> born + 1]
  <2>1. PICK n \in Ports \ {Local} :
          vports' = [vports EXCEPT ![i][n] = v] /\ born < MaxBorn /\ born' = born + 1
    BY <1>3 DEF KernelNewVport
  <2>2. v \in Vports /\ v.born = born + 1
    BY <2>1, NewVportType
  <2>3. dps \subseteq Ifs /\ dps' = dps /\ born \in Nat
    BY <1>3 DEF KernelType, Ifs, dpVars
  <2> HIDE DEF v
  <2>4. \A j \in Ifs, m \in Ports : vports'[j][m] = IF j = i /\ m = n THEN v ELSE vports[j][m]
    BY <2>1, <2>3 DEF KernelType
  <2>5. \A j \in dps, m \in Ports : vports[j][m] # NoVport => vports[j][m].born \in 0 .. born
    BY <2>3 DEF KernelInv
  <2>6. \A j \in Ifs \ dps', m \in Ports : vports'[j][m] = NoVport
    BY <2>3, <2>4 DEF KernelInv
  <2>7. \A j \in dps' : vports'[j][Local] \in Vports /\ vports'[j][Local].born = 0
    BY <2>3, <2>4 DEF KernelInv, Local, Ports
  <2>8. \A j \in dps', m \in Ports \ {Local} : vports'[j][m] # NoVport => vports'[j][m].born \in 1 .. born'
    BY <2>1, <2>2, <2>3, <2>4 DEF KernelInv
  <2>9. \A j \in dps', m, k \in Ports :
          (vports'[j][m] # NoVport /\ vports'[j][k] # NoVport /\ vports'[j][m].born = vports'[j][k].born)
             => m = k
    BY <2>2, <2>3, <2>4, <2>5 DEF KernelInv
  <2> QED
    BY <2>6, <2>7, <2>8, <2>9 DEF KernelInv
<1>4. ASSUME NEW i \in dps, NEW n \in Ports, KernelDelVport(i, n), UNCHANGED <<dpVars, born>>
      PROVE  KernelInv'
  <2>1. dps \subseteq Ifs /\ dps' = dps /\ born' = born /\ n # Local
    BY <1>4 DEF KernelType, Ifs, dpVars, KernelDelVport, CanDelete
  <2>2. \A j \in Ifs, m \in Ports : vports'[j][m] = IF j = i /\ m = n THEN NoVport ELSE vports[j][m]
    BY <1>4, <2>1 DEF KernelType, KernelDelVport
  <2>3. Local \in Ports
    BY DEF Local, Ports
  <2> QED
    BY <2>1, <2>2, <2>3 DEF KernelInv
<1>5. CASE UNCHANGED kernelVars
  BY <1>5 DEF kernelVars, dpVars, KernelInv
<1> QED
  BY <1>1, <1>2, <1>3, <1>4, <1>5 DEF KernelStep

\* What the commands have keeps its type when the kernel grows.
LEMMA KernelGrows ==
    ASSUME TypeOK, PlaceInv, [Next]_vars
    PROVE  KernelType' /\ created <= created' /\ 0 .. created \subseteq 0 .. created'
<1>1. KernelType /\ KernelType' /\ Ageing
  BY TypeParts, KernelSteps, KernelTypeStep, KernelAges
<1> QED
  BY <1>1 DEF KernelType, Ageing

\* A dump is torn once and for all.
LEMMA TornGrows ==
    ASSUME TypeOK, KernelStep
    PROVE  /\ torn' \in [Procs -> SUBSET (0 .. MaxIf)]
           /\ \A q \in Procs : torn[q] \subseteq torn'[q]
<1>1. torn \in [Procs -> SUBSET (0 .. MaxIf)] /\ dps \subseteq 0 .. MaxIf /\ 0 \in 0 .. MaxIf
  BY DEF TypeOK
<1>2. ASSUME NEW i \in 0 .. MaxIf, Tear(i)
      PROVE  /\ torn' \in [Procs -> SUBSET (0 .. MaxIf)]
             /\ \A q \in Procs : torn[q] \subseteq torn'[q]
  BY <1>1, <1>2 DEF Tear
<1>3. torn' = torn \/ \E i \in 0 .. MaxIf : Tear(i)
  BY <1>1 DEF KernelStep, KernelNewDp, KernelDelDp, KernelNewVport, KernelDelVport
<1> QED
  BY <1>1, <1>2, <1>3

LEMMA CommandTypeStep ==
    ASSUME TypeOK, KernelInv, PlaceInv, [Next]_vars
    PROVE  CommandType'
<1>1. KernelType /\ CommandType /\ KernelType' /\ 0 .. created \subseteq 0 .. created'
  BY TypeParts, KernelGrows
<1>2. must' \in [Procs -> SUBSET Lines] /\ start' \in [Procs -> 0 .. MaxIf]
      /\ op' \in [Procs -> Commands] /\ arg' \in [Procs -> Names \cup {NoName}]
      /\ spec' \in [Procs -> Names \cup {NoName}]
  <2>1. Present \subseteq Lines
    BY <1>1, PresentLines
  <2>2. created \in 0 .. MaxIf /\ 0 \in 0 .. MaxIf
    BY <1>1 DEF KernelType
  <2>3. ASSUME NEW p \in Procs, NEW command \in Commands, NEW label,
               NEW a \in Names \cup {NoName}, NEW s \in Names \cup {NoName},
               Begin(p, command, label, a, s)
        PROVE  /\ must' \in [Procs -> SUBSET Lines] /\ start' \in [Procs -> 0 .. MaxIf]
               /\ op' \in [Procs -> Commands] /\ arg' \in [Procs -> Names \cup {NoName}]
               /\ spec' \in [Procs -> Names \cup {NoName}]
    BY <1>1, <2>1, <2>2, <2>3 DEF Begin, CommandType
  <2>4. ASSUME NEW p \in Procs, AddDatapath(p) \/ DeleteDatapath(p) \/ ListDatapaths(p) \/ AddVport(p)
                 \/ DeleteVportCmd(p) \/ ListVports(p) \/ ListenForVports(p)
        PROVE  /\ must' \in [Procs -> SUBSET Lines] /\ start' \in [Procs -> 0 .. MaxIf]
               /\ op' \in [Procs -> Commands] /\ arg' \in [Procs -> Names \cup {NoName}]
               /\ spec' \in [Procs -> Names \cup {NoName}]
    BY <2>3, <2>4 DEF AddDatapath, DeleteDatapath, ListDatapaths, AddVport, DeleteVportCmd,
       ListVports, ListenForVports, Commands
  <2>5. ASSUME NEW p \in Procs, Exit(p)
        PROVE  /\ must' \in [Procs -> SUBSET Lines] /\ start' \in [Procs -> 0 .. MaxIf]
               /\ op' \in [Procs -> Commands] /\ arg' \in [Procs -> Names \cup {NoName}]
               /\ spec' \in [Procs -> Names \cup {NoName}]
    BY <1>1, <2>2, <2>5 DEF Exit, CommandType, Commands
  <2>6. ASSUME NEW i, must' = [q \in Procs |-> must[q] \ i] PROVE must' \in [Procs -> SUBSET Lines]
    BY <1>1, <2>6 DEF CommandType
  <2>7. ASSUME NEW p \in Procs, Self(p), UNCHANGED <<start, op, arg, spec>>
        PROVE  must' \in [Procs -> SUBSET Lines]
    <3>1. CASE Delete(p) \/ DeleteVport(p)
      BY <1>1, <2>6, <3>1 DEF Delete, DeleteVport, KernelDelDp, KernelDelVport, CommandType
    <3>2. CASE ~Delete(p) /\ ~DeleteVport(p)
      BY <1>1, <2>4, <2>5, <2>7, <3>2, DumpSteps DEF Self, Command, Listener, Dump, RequestFails,
         CreateDatapath, LookupDatapath, LookupDatapathByID, CreateVport, LookupVportByName,
         Listen, ReceiveFails, ReceiveEvent, Callback, CommandType
    <3> QED
      BY <3>1, <3>2
  <2>8. ASSUME NEW p \in Procs, Self(p)
        PROVE  \/ AddDatapath(p) \/ DeleteDatapath(p) \/ ListDatapaths(p) \/ AddVport(p)
               \/ DeleteVportCmd(p) \/ ListVports(p) \/ ListenForVports(p) \/ Exit(p)
               \/ UNCHANGED <<start, op, arg, spec>>
    BY <2>8, DumpSteps DEF Self, Command, Listener, Dump, RequestFails, CreateDatapath, LookupDatapath,
       LookupDatapathByID, Delete, CreateVport, LookupVportByName, DeleteVport,
       Listen, ReceiveFails, ReceiveEvent, Callback
  <2>9. CASE Others
    BY <1>1, <2>6, <2>9 DEF Others, OtherAddsDatapath, OtherDeletesDatapath, OtherAddsVport,
       OtherDeletesVport, OtherSetsVport, KernelDelDp, KernelDelVport, CommandType, commandVars
  <2>10. CASE UNCHANGED vars
    BY <1>1, <2>10 DEF vars, commandVars, CommandType
  <2> QED
    BY <1>1, <2>4, <2>5, <2>7, <2>8, <2>9, <2>10 DEF Next, Self, CommandType
<1>3. pc' \in [Procs -> Labels] /\ ok' \in [Procs -> BOOLEAN]
  <2>1. ASSUME NEW p \in Procs, NEW label \in Labels, Goto(p, label) PROVE pc' \in [Procs -> Labels]
    BY <1>1, <2>1 DEF Goto, CommandType
  <2>2. ASSUME NEW p \in Procs, NEW good \in BOOLEAN, Return(p, good)
        PROVE  pc' \in [Procs -> Labels] /\ ok' \in [Procs -> BOOLEAN]
    BY <1>1, <2>2 DEF Return, Goto, CommandType, Labels
  <2>3. ASSUME NEW p \in Procs, Self(p)
        PROVE  pc' \in [Procs -> Labels] /\ ok' \in [Procs -> BOOLEAN]
    <3>1. CASE AddDatapath(p) \/ DeleteDatapath(p) \/ ListDatapaths(p) \/ AddVport(p)
               \/ DeleteVportCmd(p) \/ ListVports(p) \/ ListenForVports(p) \/ Listen(p)
      BY <1>1, <2>1, <3>1 DEF AddDatapath, DeleteDatapath, ListDatapaths, AddVport, DeleteVportCmd,
         ListVports, ListenForVports, Listen, Begin, Labels, CommandType
    <3>2. CASE Exit(p)
      BY <1>1, <2>1, <3>2 DEF Exit, Labels, CommandType
    <3>3. CASE CreateDatapath(p) \/ Delete(p) \/ CreateVport(p) \/ DeleteVport(p) \/ RequestFails(p)
               \/ ReceiveFails(p)
      BY <1>1, <2>2, <3>3 DEF CreateDatapath, Delete, CreateVport, DeleteVport, RequestFails, ReceiveFails
    <3>4. CASE LookupDatapath(p) \/ LookupDatapathByID(p) \/ LookupVportByName(p)
      <4>1. ASSUME NEW i, Continue(p, i) PROVE pc' \in [Procs -> Labels] /\ ok' \in [Procs -> BOOLEAN]
        BY <1>1, <2>1, <4>1 DEF Continue, Labels, CommandType
      <4> QED
        BY <1>1, <2>1, <2>2, <3>4, <4>1 DEF LookupDatapath, LookupDatapathByID, LookupVportByName,
           NotFound, Labels, CommandType
    <3>5. CASE Dump(p)
      <4>1. \/ \E good \in BOOLEAN : Return(p, good)
            \/ \E label \in {"enumerating", "print", "printing"} : Goto(p, label) /\ UNCHANGED ok
        BY <3>5, DumpSteps
      <4> QED
        BY <1>1, <2>1, <2>2, <4>1 DEF Labels, CommandType
    <3>6. CASE ReceiveEvent(p) \/ Callback(p)
      BY <1>1, <2>1, <3>6 DEF ReceiveEvent, Callback, Labels, CommandType
    <3> QED
      BY <2>3, <3>1, <3>2, <3>3, <3>4, <3>5, <3>6 DEF Self, Command, Listener, Dump
  <2>4. CASE Others
    BY <1>1, <2>4 DEF Others, OtherAddsDatapath, OtherDeletesDatapath, OtherAddsVport,
       OtherDeletesVport, OtherSetsVport, CommandType, commandVars
  <2>5. CASE UNCHANGED vars
    BY <1>1, <2>5 DEF vars, commandVars, CommandType
  <2> QED
    BY <2>3, <2>4, <2>5 DEF Next, Self
<1>4. /\ dp' \in [Procs -> 0 .. created'] /\ port' \in [Procs -> Ports]
      /\ todo' \in [Procs -> SUBSET Ifs] /\ printed' \in [Procs -> SUBSET Lines]
      /\ at' \in [Procs -> 0 .. created'] /\ found' \in [Procs -> SUBSET Lines]
      /\ named' \in [Procs -> Lines \cup {NoLine}] /\ deleted' \in [Procs -> Lines \cup {NoLine}]
  <2> DEFINE Found ==
          /\ dp' \in [Procs -> 0 .. created'] /\ port' \in [Procs -> Ports]
          /\ todo' \in [Procs -> SUBSET Ifs] /\ printed' \in [Procs -> SUBSET Lines]
          /\ at' \in [Procs -> 0 .. created'] /\ found' \in [Procs -> SUBSET Lines]
          /\ named' \in [Procs -> Lines \cup {NoLine}] /\ deleted' \in [Procs -> Lines \cup {NoLine}]
  <2>1. dps \subseteq Ifs /\ dps \subseteq 0 .. created'
    <3>1. dps \subseteq 1 .. created /\ created \in 0 .. MaxIf
      BY <1>1 DEF KernelType
    <3>2. 1 .. created \subseteq Ifs /\ 1 .. created \subseteq 0 .. created
      BY <3>1 DEF Ifs
    <3> QED
      BY <1>1, <3>1, <3>2
  <2>2. ASSUME UNCHANGED foundVars PROVE Found
    BY <1>1, <2>2 DEF foundVars, dumpVars, CommandType
  <2>3. ASSUME NEW p \in Procs, Exit(p) PROVE Found
    <3>1. 0 \in 0 .. created' /\ 0 \in Ports
      BY <1>1 DEF KernelType, Ports
    <3> QED
      BY <1>1, <2>3, <3>1 DEF Exit, CommandType
  <2>4. ASSUME NEW p \in Procs, LookupDatapath(p) \/ LookupDatapathByID(p) PROVE Found
    <3>1. UNCHANGED <<port, dumpVars, printed, named, deleted>>
      BY <2>4 DEF LookupDatapath, LookupDatapathByID
    <3>2. ASSUME NEW i \in dps, Continue(p, i) PROVE Found
      BY <1>1, <2>1, <3>1, <3>2 DEF Continue, dumpVars, CommandType
    <3>3. ASSUME UNCHANGED <<dp, todo>> PROVE Found
      BY <1>1, <3>1, <3>3 DEF dumpVars, CommandType
    <3> QED
      BY <2>4, <3>2, <3>3 DEF LookupDatapath, LookupDatapathByID, NotFound
  <2>5. ASSUME NEW p \in Procs, LookupVportByName(p) PROVE Found
    <3>1. UNCHANGED <<todo, dumpVars, printed, deleted>>
      BY <2>5 DEF LookupVportByName
    <3>2. CASE UNCHANGED <<dp, port, named>>
      BY <1>1, <3>1, <3>2 DEF dumpVars, CommandType
    <3>3. CASE \E i \in dps, n \in Ports :
                 /\ vports[i][n] # NoVport
                 /\ dp' = [dp EXCEPT ![p] = i] /\ port' = [port EXCEPT ![p] = n]
                 /\ named' = [named EXCEPT ![p] = <<i, vports[i][n]>>]
      <4>1. PICK i \in dps, n \in Ports :
                 /\ vports[i][n] # NoVport
                 /\ dp' = [dp EXCEPT ![p] = i] /\ port' = [port EXCEPT ![p] = n]
                 /\ named' = [named EXCEPT ![p] = <<i, vports[i][n]>>]
        BY <3>3
      <4>2. <<i, vports[i][n]>> \in Lines
        BY <1>1, <4>1, PresentLines, PresentIff
      <4> QED
        BY <1>1, <2>1, <3>1, <4>1, <4>2 DEF dumpVars, CommandType
    <3> QED
      BY <2>5, <3>2, <3>3 DEF LookupVportByName
  <2>6. ASSUME NEW p \in Procs, DeleteVport(p) PROVE Found
    <3>1. UNCHANGED <<dp, port, todo, dumpVars, printed, named>>
      BY <2>6 DEF DeleteVport
    <3>2. CASE deleted' = deleted
      BY <1>1, <3>1, <3>2 DEF dumpVars, CommandType
    <3>3. CASE CanDelete(dp[p], port[p])
               /\ deleted' = [deleted EXCEPT ![p] = <<dp[p], vports[dp[p]][port[p]]>>]
      <4>1. <<dp[p], vports[dp[p]][port[p]]>> \in Lines
        BY <1>1, <3>3, PresentLines, PresentIff DEF CanDelete, CommandType
      <4> QED
        BY <1>1, <3>1, <3>3, <4>1 DEF dumpVars, CommandType
    <3> QED
      BY <2>6, <3>2, <3>3 DEF DeleteVport
  <2>7. ASSUME NEW p \in Procs, Dump(p) PROVE Found
    <3>1. UNCHANGED <<dp, port, named, deleted>>
      BY <2>7, DumpSteps
    <3>2. DatapathLines \subseteq Lines
      BY <2>1 DEF KernelInv, Lines, DatapathLines
    <3>3. \A i \in dps : VportsOf(i) \subseteq Lines
      BY <1>1, VportsOfIff, PresentIff, PresentLines
    <3>4. 0 \in 0 .. created'
      BY <1>1 DEF KernelType
    <3>5. CASE Enumerate(p) \/ EnumerateMore(p)
      <4>1. UNCHANGED <<at, todo, printed>>
        BY <3>5 DEF Enumerate, EnumerateMore
      <4>2. found' \in [Procs -> SUBSET Lines]
        <5>1. CASE Enumerate(p)
          BY <1>1, <3>2, <5>1 DEF Enumerate, CommandType
        <5>2. CASE EnumerateMore(p)
          <6>1. PICK s \in SUBSET DatapathLines :
                  found' = [found EXCEPT ![p] = s \cup {l \in @ : \A m \in s : m[2].name # l[2].name}]
            BY <5>2 DEF EnumerateMore
          <6>2. PICK r : r = {l \in found[p] : \A m \in s : m[2].name # l[2].name}
            OBVIOUS
          <6>3. found' = [found EXCEPT ![p] = s \cup r] /\ r \subseteq found[p]
            BY <6>1, <6>2
          <6> QED
            BY <1>1, <3>2, <6>3 DEF CommandType
        <5> QED
          BY <3>5, <5>1, <5>2
      <4> QED
        BY <1>1, <3>1, <4>1, <4>2 DEF CommandType
    <3>6. CASE EnumerateDone(p)
      <4>1. at' = at /\ found' = [found EXCEPT ![p] = {}]
            /\ (printed' = printed \/ printed' = [printed EXCEPT ![p] = found[p]])
            /\ (todo' = todo \/ todo' = [todo EXCEPT ![p] = {l[1] : l \in found[p]}])
        BY <3>6 DEF EnumerateDone
      <4>2. PICK t : t = {l[1] : l \in found[p]}
        OBVIOUS
      <4>3. t \subseteq Ifs
        BY <1>1, <4>2 DEF CommandType, Lines
      <4>4. todo' \in [Procs -> SUBSET Ifs]
        BY <1>1, <4>1, <4>2, <4>3 DEF CommandType
      <4>5. printed' \in [Procs -> SUBSET Lines] /\ found' \in [Procs -> SUBSET Lines]
        BY <1>1, <4>1 DEF CommandType
      <4>6. at' = at
        BY <4>1
      <4> QED
        BY <1>1, <3>1, <4>4, <4>5, <4>6 DEF CommandType
    <3>7. ASSUME NEW i \in dps, NEW s \in SUBSET VportsOf(i), VportsCome(p, s)
          PROVE  printed' = printed /\ found' \in [Procs -> SUBSET Lines]
      <4>1. printed' = printed /\ (found' = found \/ found' = [found EXCEPT ![p] = @ \cup s])
        BY <3>7 DEF VportsCome
      <4>2. s \subseteq Lines
        BY <3>3
      <4> QED
        BY <1>1, <4>1, <4>2 DEF CommandType
    <3>8. CASE PrintVports(p)
      <4>1. CASE UNCHANGED <<todo, dumpVars, printed>>
        BY <1>1, <3>1, <4>1 DEF dumpVars, CommandType
      <4>2. ASSUME NEW i \in dps, NEW s \in SUBSET VportsOf(i), VportsCome(p, s),
                   todo' = [todo EXCEPT ![p] = @ \ {i}], at' = [at EXCEPT ![p] = i]
            PROVE  Found
        <5>1. printed' = printed /\ found' \in [Procs -> SUBSET Lines]
          BY <3>7, <4>2
        <5> QED
          BY <1>1, <2>1, <3>1, <4>2, <5>1 DEF CommandType
      <4> QED
        BY <3>8, <4>1, <4>2 DEF PrintVports
    <3>9. CASE PrintVportsMore(p)
      <4>1. UNCHANGED <<todo, at>> /\ printed' = printed /\ found' \in [Procs -> SUBSET Lines]
        BY <1>1, <3>7, <3>9 DEF PrintVportsMore, CommandType
      <4> QED
        BY <1>1, <3>1, <4>1 DEF CommandType
    <3>10. CASE PrintVportsDone(p)
      <4>1. /\ todo' = todo /\ at' = [at EXCEPT ![p] = 0] /\ found' = [found EXCEPT ![p] = {}]
            /\ printed' = [printed EXCEPT ![p] = @ \cup found[p]]
        BY <3>10 DEF PrintVportsDone
      <4> QED
        BY <1>1, <3>1, <3>4, <4>1 DEF CommandType
    <3> QED
      BY <2>7, <3>5, <3>6, <3>8, <3>9, <3>10 DEF Dump
  <2>8. ASSUME NEW p \in Procs, Self(p)
        PROVE  \/ Exit(p) \/ LookupDatapath(p) \/ LookupDatapathByID(p) \/ LookupVportByName(p)
               \/ DeleteVport(p) \/ Dump(p) \/ UNCHANGED foundVars
    BY <2>8 DEF Self, Command, Listener, Dump, AddDatapath, DeleteDatapath, ListDatapaths, AddVport,
       DeleteVportCmd, ListVports, ListenForVports, Begin, RequestFails, CreateDatapath, Delete,
       CreateVport, Listen, ReceiveFails, ReceiveEvent, Callback
  <2>9. CASE Others
    BY <2>2, <2>9 DEF Others, OtherAddsDatapath, OtherDeletesDatapath, OtherAddsVport,
       OtherDeletesVport, OtherSetsVport, commandVars
  <2>10. CASE UNCHANGED vars
    BY <2>2, <2>10 DEF vars, commandVars
  <2> QED
    BY <2>2, <2>3, <2>4, <2>5, <2>6, <2>7, <2>8, <2>9, <2>10 DEF Next, Self
<1>5. torn' \in [Procs -> SUBSET (0 .. MaxIf)]
  <2>1. KernelStep \/ UNCHANGED torn => torn' \in [Procs -> SUBSET (0 .. MaxIf)]
    BY <1>1, TornGrows DEF CommandType
  <2>2. ASSUME NEW p \in Procs, Exit(p) PROVE torn' \in [Procs -> SUBSET (0 .. MaxIf)]
    BY <1>1, <2>2 DEF Exit, CommandType
  <2>3. ASSUME NEW p \in Procs, Self(p), ~Exit(p) PROVE KernelStep \/ UNCHANGED torn
    BY <2>3, KernelSelf, DumpSteps DEF Self, Command, Listener, Dump, AddDatapath, DeleteDatapath,
       ListDatapaths, AddVport, DeleteVportCmd, ListVports, ListenForVports, Begin, RequestFails,
       LookupDatapath, LookupDatapathByID, LookupVportByName, Listen, ReceiveFails, ReceiveEvent, Callback
  <2>4. CASE Others
    BY <2>1, <2>4, Zenon DEF Others, OtherAddsDatapath, OtherDeletesDatapath, OtherAddsVport,
       OtherDeletesVport, OtherSetsVport, KernelStep, commandVars
  <2>5. CASE UNCHANGED vars
    BY <2>1, <2>5 DEF vars, commandVars
  <2> QED
    BY <2>1, <2>2, <2>3, <2>4, <2>5 DEF Next, Self
<1> QED
  BY <1>2, <1>3, <1>4, <1>5 DEF CommandType

QueueType ==
    /\ events \in [Procs -> Seq(Events)] /\ \A p \in Procs : Len(events[p]) <= RcvBuf
    /\ overrun \in [Procs -> BOOLEAN]

LEMMA NotifyType ==
    ASSUME QueueType, NEW cmd \in {"new", "del", "set"}, NEW line \in Lines, Notify(cmd, line)
    PROVE  QueueType'
<1> DEFINE e == [cmd |-> cmd, line |-> line]
<1>1. e \in Events
  BY DEF Events
<1> HIDE DEF e
<1>2. ASSUME NEW p \in Procs
      PROVE  /\ events'[p] \in Seq(Events) /\ Len(events'[p]) <= RcvBuf
             /\ overrun'[p] \in BOOLEAN
  <2>1. events[p] \in Seq(Events) /\ Len(events[p]) <= RcvBuf /\ Len(events[p]) \in Nat
        /\ overrun[p] \in BOOLEAN
    BY DEF QueueType
  <2>2. CASE p \in Members /\ Len(events[p]) < RcvBuf
    <3>1. events'[p] = Append(events[p], e)
      BY <2>2 DEF Notify, e
    <3>2. Append(events[p], e) \in Seq(Events) /\ Len(Append(events[p], e)) = Len(events[p]) + 1
      BY <1>1, <2>1, AppendProperties
    <3> QED
      BY <2>1, <2>2, <3>1, <3>2 DEF Notify
  <2>3. CASE ~(p \in Members /\ Len(events[p]) < RcvBuf)
    BY <2>1, <2>3 DEF Notify
  <2> QED
    BY <2>2, <2>3
<1>3. events' = [p \in Procs |-> events'[p]] /\ overrun' = [p \in Procs |-> overrun'[p]]
  BY DEF Notify
<1> QED
  BY <1>2, <1>3 DEF QueueType

LEMMA ListenerTypeStep ==
    ASSUME TypeOK, KernelInv, PlaceInv, [Next]_vars
    PROVE  ListenerType'
<1>1. KernelType /\ ListenerType /\ QueueType
  BY TypeParts DEF ListenerType, QueueType
<1>2. faults' \in 0 .. MaxFaults
  <2>1. ASSUME Fault PROVE faults' \in 0 .. MaxFaults
    BY <1>1, <2>1 DEF Fault, ListenerType
  <2>2. ASSUME NEW good, Answered(good) PROVE faults' \in 0 .. MaxFaults
    BY <1>1, <2>1, <2>2 DEF Answered, ListenerType
  <2>3. ASSUME NEW p \in Procs, Self(p) PROVE faults' \in 0 .. MaxFaults
    BY <1>1, <2>1, <2>2, <2>3, DumpSteps DEF Self, Command, Listener, Dump, AddDatapath, DeleteDatapath, ListDatapaths,
       AddVport, DeleteVportCmd, ListVports, ListenForVports, Begin, Exit, RequestFails,
       CreateDatapath, LookupDatapath, LookupDatapathByID, Delete, CreateVport, LookupVportByName,
       DeleteVport, Listen, ReceiveFails, ReceiveEvent, Callback, ListenerType
  <2>4. CASE Others
    BY <1>1, <2>4 DEF Others, OtherAddsDatapath, OtherDeletesDatapath, OtherAddsVport,
       OtherDeletesVport, OtherSetsVport, ListenerType
  <2>5. CASE UNCHANGED vars
    BY <1>1, <2>5 DEF vars, ListenerType
  <2> QED
    BY <2>3, <2>4, <2>5 DEF Next, Self
<1>3. QueueType'
  <2>1. ASSUME UNCHANGED queueVars PROVE QueueType'
    BY <1>1, <2>1 DEF QueueType, queueVars
  <2>2. CASE KernelStep
    <3>1. ASSUME NEW i \in dps, NEW name \in Names, NEW known \in BOOLEAN, KernelNewVport(i, name, known)
          PROVE  QueueType'
      <4> DEFINE v == [name |-> name, known |-> known, born |-> born + 1]
      <4>1. Notify("new", <<i, v>>) /\ born < MaxBorn
        BY <3>1 DEF KernelNewVport
      <4>2. v \in Vports /\ i \in Ifs
        <5>1. v \in Vports
          BY <1>1, <4>1, NewVportType
        <5>2. i \in Ifs
          BY <1>1 DEF KernelType, Ifs
        <5> QED
          BY <5>1, <5>2
      <4> HIDE DEF v
      <4>3. <<i, v>> \in Lines
        BY <4>2 DEF Lines
      <4> QED
        BY <1>1, <4>1, <4>3, NotifyType
    <3>2. ASSUME NEW i \in dps, NEW n \in Ports, KernelDelVport(i, n) PROVE QueueType'
      <4>1. Notify("del", <<i, vports[i][n]>>) /\ vports[i][n] # NoVport
        BY <3>2 DEF KernelDelVport, CanDelete
      <4>2. <<i, vports[i][n]>> \in Lines
        BY <1>1, <4>1, PresentIff, PresentLines
      <4> QED
        BY <1>1, <4>1, <4>2, NotifyType
    <3>3. ASSUME NEW l \in Present, Notify(SetCmd, l) PROVE QueueType'
      <4>1. l \in Lines /\ SetCmd \in {"new", "del", "set"}
        BY <1>1, PresentLines
      <4> QED
        BY <1>1, <3>3, <4>1, NotifyType
    <3> QED
      BY <2>1, <2>2, <3>1, <3>2, <3>3 DEF KernelStep
  <2>3. ASSUME NEW p \in Procs, Self(p), ~KernelStep PROVE QueueType'
    <3>1. CASE Exit(p)
      BY <1>1, <3>1 DEF Exit, QueueType
    <3>2. CASE ReceiveEvent(p)
      <4>1. events[p] \in Seq(Events) /\ Len(events[p]) <= RcvBuf /\ events[p] # <<>>
        BY <1>1, <3>2 DEF QueueType, ReceiveEvent
      <4>2. Tail(events[p]) \in Seq(Events) /\ Len(Tail(events[p])) <= RcvBuf
        BY <4>1, HeadTailProperties
      <4> QED
        BY <1>1, <3>2, <4>2 DEF ReceiveEvent, QueueType
    <3>3. CASE ~Exit(p) /\ ~ReceiveEvent(p)
      <4>1. CreateVport(p) \/ DeleteVport(p) => UNCHANGED queueVars
        BY <2>3, KernelSelf
      <4> QED
        BY <2>1, <2>3, <3>3, <4>1, DumpSteps DEF Self, Command, Listener, Dump, AddDatapath, DeleteDatapath,
           ListDatapaths, AddVport, DeleteVportCmd, ListVports, ListenForVports, Begin, RequestFails,
           CreateDatapath, LookupDatapath, LookupDatapathByID, Delete, LookupVportByName,
           Listen, ReceiveFails, Callback
    <3> QED
      BY <3>1, <3>2, <3>3
  <2>4. CASE Others
    BY <2>1, <2>2, <2>4 DEF Others, OtherAddsDatapath, OtherDeletesDatapath, OtherAddsVport,
       OtherDeletesVport, OtherSetsVport, KernelStep, commandVars
  <2>5. CASE UNCHANGED vars
    BY <2>1, <2>5 DEF vars
  <2> QED
    BY <2>2, <2>3, <2>4, <2>5 DEF Next, Self
<1>4. /\ event' \in [Procs -> Events \cup {NoEvent}] /\ shown' \in [Procs -> SUBSET Lines]
      /\ heardFrom' \in [Procs -> 0 .. MaxBorn] /\ missed' \in [Procs -> SUBSET Lines]
  <2> DEFINE Heard ==
          /\ event' \in [Procs -> Events \cup {NoEvent}] /\ shown' \in [Procs -> SUBSET Lines]
          /\ heardFrom' \in [Procs -> 0 .. MaxBorn] /\ missed' \in [Procs -> SUBSET Lines]
  <2>1. ASSUME UNCHANGED listenerVars PROVE Heard
    BY <1>1, <2>1 DEF ListenerType, listenerVars
  <2>2. ASSUME NEW p \in Procs, Exit(p) PROVE Heard
    <3>1. 0 \in 0 .. MaxBorn
      OBVIOUS
    <3> QED
      BY <1>1, <2>2, <3>1 DEF Exit, ListenerType
  <2>3. ASSUME NEW p \in Procs, Listen(p) PROVE Heard
    BY <1>1, <2>3 DEF Listen, ListenerType, KernelType
  <2>4. ASSUME NEW p \in Procs, ReceiveEvent(p) PROVE Heard
    <3>1. Head(events[p]) \in Events
      BY <1>1, <2>4, HeadTailProperties DEF ReceiveEvent, QueueType
    <3> QED
      BY <1>1, <2>4, <3>1 DEF ReceiveEvent, ListenerType
  <2>5. ASSUME NEW p \in Procs, Callback(p) PROVE Heard
    <3> DEFINE l == event[p].line
    <3>1. l \in Lines
      BY <2>5 DEF Callback, PlaceInv, PlaceAt, Events
    <3> HIDE DEF l
    <3>2. shown' = shown \/ shown' = [shown EXCEPT ![p] = @ \cup {l}]
          \/ shown' = [shown EXCEPT ![p] = @ \ {l}] \/ shown' = [shown EXCEPT ![p] = @]
      BY <2>5 DEF Callback, l
    <3>3. missed' = missed \/ missed' = [missed EXCEPT ![p] = @ \cup {l}]
      BY <2>5 DEF Callback, l
    <3>4. shown' \in [Procs -> SUBSET Lines]
      BY <1>1, <3>1, <3>2 DEF ListenerType
    <3>5. missed' \in [Procs -> SUBSET Lines]
      <4>1. missed \in [Procs -> SUBSET Lines]
        BY <1>1 DEF ListenerType
      <4> QED
        BY <3>1, <3>3, <4>1
    <3> QED
      BY <1>1, <2>5, <3>4, <3>5 DEF Callback, ListenerType
  <2>6. ASSUME NEW p \in Procs, Self(p)
        PROVE  Exit(p) \/ Listen(p) \/ ReceiveEvent(p) \/ Callback(p) \/ UNCHANGED listenerVars
    BY <2>6, DumpSteps DEF Self, Command, Listener, Dump, AddDatapath, DeleteDatapath, ListDatapaths,
       AddVport, DeleteVportCmd, ListVports, ListenForVports, Begin, RequestFails, CreateDatapath,
       LookupDatapath, LookupDatapathByID, Delete, CreateVport, LookupVportByName, DeleteVport, ReceiveFails
  <2>7. CASE Others
    BY <2>1, <2>7 DEF Others, OtherAddsDatapath, OtherDeletesDatapath, OtherAddsVport,
       OtherDeletesVport, OtherSetsVport
  <2>8. CASE UNCHANGED vars
    BY <2>1, <2>8 DEF vars
  <2> QED
    BY <2>1, <2>2, <2>3, <2>4, <2>5, <2>6, <2>7, <2>8 DEF Next, Self
<1> QED
  BY <1>2, <1>3, <1>4 DEF ListenerType, QueueType

LEMMA TypeStep ==
    ASSUME TypeOK, KernelInv, PlaceInv, [Next]_vars
    PROVE  TypeOK' /\ KernelInv' /\ Ageing
  BY TypeParts, KernelSteps, KernelTypeStep, KernelInvStep, KernelAges, CommandTypeStep, ListenerTypeStep

-----------------------------------------------------------------------------
(* Where the commands are.                                                 *)

LEMMA PlacesOf ==
    /\ "idle" \in Places("none")
    /\ {"create", "done"} \subseteq Places("addDatapath")
    /\ {"lookup", "lookupByID", "delete", "done"} \subseteq Places("deleteDatapath")
    /\ {"enumerate", "enumerating", "done"} \subseteq Places("listDatapaths")
    /\ {"lookup", "lookupByID", "createVport", "done"} \subseteq Places("addVport")
    /\ {"lookupVport", "deleteVport", "done"} \subseteq Places("deleteVport")
    /\ {"enumerate", "enumerating", "lookup", "lookupByID", "print", "printing", "done"}
          \subseteq Places("listVports")
    /\ {"listen", "wait", "callback", "done"} \subseteq Places("listenForVports")
  BY DEF Places

LEMMA PlacesDone ==
    ASSUME NEW c \in Commands \ {"none"}
    PROVE  "done" \in Places(c)
  BY PlacesOf DEF Commands

\* A step of the kernel leaves the queue of a process that does not listen alone.
LEMMA NotifyMembers ==
    ASSUME TypeOK, KernelStep, NEW q \in Procs, pc[q] \notin {"wait", "callback"}
    PROVE  events'[q] = events[q] /\ overrun'[q] = overrun[q]
<1>1. q \notin Members
  BY DEF Members
<1>2. ASSUME NEW cmd, NEW line, Notify(cmd, line)
      PROVE  events'[q] = events[q] /\ overrun'[q] = overrun[q]
  BY <1>1, <1>2 DEF Notify, TypeOK
<1> QED
  BY <1>2 DEF KernelStep, KernelNewVport, KernelDelVport, queueVars

LEMMA PlaceStep ==
    ASSUME TypeOK, KernelInv, PlaceInv, [Next]_vars
    PROVE  PlaceInv'
<1> SUFFICES ASSUME NEW q \in Procs PROVE PlaceAt(q)'
  BY DEF PlaceInv
<1>1. PlaceAt(q) /\ op[q] \in Commands /\ pc[q] \in Labels
  BY DEF PlaceInv, TypeOK
<1>2. TypeOK'
  BY TypeStep
<1>3. CASE Still(q) /\ (KernelStep \/ Quiet(q))
  <2>1. ASSUME op[q] # "listenForVports" \/ pc[q] = "listen"
        PROVE  events'[q] = events[q] /\ overrun'[q] = overrun[q]
    <3>1. pc[q] \notin {"wait", "callback"}
      BY <1>1, <2>1, PlacesInverse DEF PlaceAt
    <3> QED
      BY <1>3, <3>1, NotifyMembers DEF Quiet
  <2> QED
    BY <1>1, <1>3, <2>1 DEF PlaceAt, Still
<1>4. CASE Self(q)
  <2>1. ASSUME NEW command \in Commands, NEW label \in Places(command), NEW a, NEW s,
               label \in {"create", "lookup", "lookupVport"} => a \in Names,
               command = "addVport" => s \in Names,
               label \notin {"lookupByID", "callback", "idle"},
               Begin(q, command, label, a, s)
        PROVE  PlaceAt(q)'
    <3>1. pc[q] = "idle" /\ op[q] = "none"
      BY <1>1, <2>1, PlacesInverse DEF Begin, PlaceAt
    <3>2. op'[q] = command /\ pc'[q] = label /\ arg'[q] = a /\ spec'[q] = s /\ UNCHANGED <<ok, foundVars, queueVars, listenerVars>>
      BY <2>1 DEF Begin, Goto, TypeOK
    <3> QED
      BY <1>1, <2>1, <3>1, <3>2 DEF PlaceAt, foundVars, queueVars, listenerVars
  <2>2. CASE AddDatapath(q) \/ DeleteDatapath(q) \/ ListDatapaths(q) \/ AddVport(q)
             \/ DeleteVportCmd(q) \/ ListVports(q) \/ ListenForVports(q)
    BY <2>1, <2>2, PlacesOf DEF AddDatapath, DeleteDatapath, ListDatapaths, AddVport, DeleteVportCmd,
       ListVports, ListenForVports, Commands
  <2>3. CASE Exit(q)
    BY <2>3, PlacesOf DEF Exit, Goto, PlaceAt, TypeOK
  <2>4. ASSUME NEW good \in BOOLEAN, Return(q, good), UNCHANGED <<op, arg, spec>>,
               pc[q] # "idle",
               (op[q] # "listenForVports" \/ pc[q] = "listen") => UNCHANGED <<events, overrun, shown>>
        PROVE  PlaceAt(q)'
    <3>1. op[q] # "none"
      BY <1>1, <2>4 DEF PlaceAt, Places
    <3>2. pc'[q] = "done" /\ "done" \in Places(op'[q])
      BY <1>1, <2>4, <3>1, PlacesDone DEF Return, Goto, TypeOK
    <3> QED
      BY <1>1, <2>4, <3>2 DEF PlaceAt
  <2>5. CASE RequestFails(q)
    BY <1>1, <2>4, <2>5 DEF RequestFails, listenerVars, queueVars
  <2>6. CASE CreateDatapath(q)
    BY <1>1, <2>4, <2>6 DEF CreateDatapath, listenerVars, queueVars
  <2>7. CASE LookupDatapath(q) \/ LookupDatapathByID(q)
    <3>1. /\ UNCHANGED <<op, arg, spec, printed, named, deleted, events, overrun, shown>>
          /\ pc[q] \in {"lookup", "lookupByID"}
      BY <2>7 DEF LookupDatapath, LookupDatapathByID, queueVars, listenerVars
    <3>2. op[q] \in {"deleteDatapath", "addVport", "listVports"}
      BY <1>1, <3>1, PlacesInverse DEF PlaceAt
    <3>3. ASSUME NotFound(q) PROVE PlaceAt(q)'
      BY <2>4, <3>1, <3>3 DEF NotFound
    <3>4. ASSUME NEW i, Continue(q, i) PROVE PlaceAt(q)'
      <4>1. /\ op[q] = "deleteDatapath" => pc'[q] = "delete"
            /\ op[q] = "addVport" => pc'[q] = "createVport"
            /\ op[q] = "listVports" => pc'[q] = "print"
            /\ ok' = ok
        BY <3>4 DEF Continue, Goto, TypeOK
      <4> QED
        BY <1>1, <3>1, <3>2, <4>1, PlacesOf DEF PlaceAt
    <3>5. ASSUME Goto(q, "lookupByID"), UNCHANGED <<ok, dp, todo>> PROVE PlaceAt(q)'
      <4>1. pc'[q] = "lookupByID"
        BY <3>5 DEF Goto, TypeOK
      <4> QED
        BY <1>1, <3>1, <3>2, <3>5, <4>1, PlacesOf DEF PlaceAt
    <3> QED
      BY <2>7, <3>3, <3>4, <3>5 DEF LookupDatapath, LookupDatapathByID
  <2>8. CASE Delete(q)
    BY <1>1, <2>4, <2>8 DEF Delete, listenerVars, queueVars
  <2>9. CASE CreateVport(q) \/ DeleteVport(q)
    <3>1. /\ UNCHANGED <<op, arg, spec>> /\ \E good \in BOOLEAN : Return(q, good)
          /\ pc[q] \in {"createVport", "deleteVport"} /\ shown' = shown
      BY <2>9 DEF CreateVport, DeleteVport, listenerVars
    <3>2. op[q] # "listenForVports" /\ op[q] # "none" /\ events[q] = <<>> /\ ~overrun[q] /\ shown[q] = {}
      BY <1>1, <3>1, PlacesInverse DEF PlaceAt
    <3>3. events'[q] = events[q] /\ overrun'[q] = overrun[q]
      <4>1. q \notin Members
        BY <3>1 DEF Members
      <4>2. ASSUME NEW cmd, NEW line, Notify(cmd, line)
            PROVE  events'[q] = events[q] /\ overrun'[q] = overrun[q]
        BY <4>1, <4>2 DEF Notify, TypeOK
      <4> QED
        BY <2>9, <4>2 DEF CreateVport, DeleteVport, KernelNewVport, KernelDelVport, queueVars
    <3>4. pc'[q] = "done" /\ "done" \in Places(op'[q])
      BY <1>1, <3>1, <3>2, PlacesDone DEF Return, Goto, TypeOK
    <3> QED
      BY <1>1, <3>1, <3>2, <3>3, <3>4 DEF PlaceAt
  <2>10. CASE LookupVportByName(q)
    <3>1. /\ UNCHANGED <<op, arg, spec, events, overrun, shown>> /\ pc[q] = "lookupVport"
          /\ op[q] = "deleteVport"
      BY <1>1, <2>10, PlacesInverse DEF LookupVportByName, queueVars, listenerVars, PlaceAt
    <3>2. CASE Return(q, FALSE)
      BY <2>4, <3>1, <3>2
    <3>3. CASE Goto(q, "deleteVport") /\ UNCHANGED ok
      <4>1. pc'[q] = "deleteVport"
        BY <3>3 DEF Goto, TypeOK
      <4> QED
        BY <1>1, <3>1, <3>3, <4>1, PlacesOf DEF PlaceAt
    <3> QED
      BY <2>10, <3>2, <3>3 DEF LookupVportByName
  <2>11. CASE Dump(q)
    <3>1. /\ UNCHANGED <<op, arg, spec, dp, named, deleted, events, overrun, shown>>
          /\ pc[q] \in {"enumerate", "enumerating", "print", "printing"}
          /\ op[q] \in {"listDatapaths", "listVports"}
      BY <1>1, <2>11, DumpSteps, PlacesInverse DEF queueVars, listenerVars, PlaceAt
    <3>2. CASE \E good \in BOOLEAN : Return(q, good)
      BY <2>4, <3>1, <3>2
    <3>3. CASE Enumerate(q) \/ EnumerateMore(q)
      <4>1. pc'[q] = "enumerating" /\ UNCHANGED <<ok, printed>> /\ pc[q] \in {"enumerate", "enumerating"}
        BY <3>3 DEF Enumerate, EnumerateMore, Goto, TypeOK
      <4> QED
        BY <1>1, <3>1, <4>1, PlacesOf DEF PlaceAt
    <3>4. ASSUME NEW label \in {"print", "printing"}, Goto(q, label), ok' = ok, op[q] = "listVports"
          PROVE  PlaceAt(q)'
      <4>1. pc'[q] = label
        BY <3>4 DEF Goto, TypeOK
      <4> QED
        BY <1>1, <3>1, <3>4, <4>1, PlacesOf DEF PlaceAt
    <3>5. CASE EnumerateDone(q)
      BY <3>1, <3>2, <3>4, <3>5 DEF EnumerateDone
    <3>6. CASE PrintVports(q) \/ PrintVportsMore(q) \/ PrintVportsDone(q)
      <4>1. op[q] = "listVports"
        <5>1. pc[q] \in {"print", "printing"}
          BY <3>6 DEF PrintVports, PrintVportsMore, PrintVportsDone
        <5> QED
          BY <1>1, <5>1, PlacesInverse DEF PlaceAt
      <4>2. ASSUME NEW s, VportsCome(q, s) PROVE PlaceAt(q)'
        BY <3>2, <3>4, <4>1, <4>2 DEF VportsCome
      <4> QED
        BY <3>2, <3>4, <3>6, <4>1, <4>2 DEF PrintVports, PrintVportsMore, PrintVportsDone
    <3> QED
      BY <2>11, <3>3, <3>5, <3>6 DEF Dump
  <2>12. CASE Listen(q) \/ ReceiveFails(q) \/ ReceiveEvent(q) \/ Callback(q)
    <3>1. UNCHANGED <<op, arg, spec>> /\ op[q] = "listenForVports" /\ pc[q] \in {"listen", "wait", "callback"}
      BY <1>1, <2>12, PlacesInverse DEF Listen, ReceiveFails, ReceiveEvent, Callback, PlaceAt
    <3>2. CASE ReceiveFails(q)
      BY <2>4, <3>1, <3>2 DEF ReceiveFails
    <3>3. CASE Listen(q) \/ Callback(q)
      <4>1. pc'[q] = "wait" /\ ok' = ok
        BY <3>3 DEF Listen, Callback, Goto, TypeOK
      <4> QED
        BY <1>1, <3>1, <4>1, PlacesOf DEF PlaceAt
    <3>4. CASE ReceiveEvent(q)
      <4>1. Head(events[q]) \in Events
        BY <3>4, HeadTailProperties DEF ReceiveEvent, TypeOK
      <4>2. \/ pc'[q] = pc[q] /\ pc[q] = "wait"
            \/ /\ pc'[q] = "callback" /\ event'[q] = Head(events[q])
               /\ Head(events[q]).cmd \in {"new", "del"} /\ Head(events[q]).line[2].known
        BY <3>4 DEF ReceiveEvent, Goto, TypeOK
      <4>3. ok' = ok
        BY <3>4 DEF ReceiveEvent
      <4> QED
        BY <1>1, <3>1, <4>1, <4>2, <4>3, PlacesOf DEF PlaceAt
    <3> QED
      BY <2>12, <3>2, <3>3, <3>4
  <2> QED
    BY <1>4, <2>2, <2>3, <2>5, <2>6, <2>7, <2>8, <2>9, <2>10, <2>11, <2>12 DEF Self, Command, Listener, Dump
<1> QED
  BY <1>3, <1>4, Steps

-----------------------------------------------------------------------------
(* lookupDatapath.                                                         *)

LEMMA MeantStep ==
    ASSUME TypeOK, KernelInv, PlaceInv, MeantInv, DatapathMeant, [Next]_vars
    PROVE  MeantInv' /\ DatapathMeant'
<1> DEFINE Later(q) == \A i \in dps : nameOf[i] = arg[q] => i > start[q]
<1> DEFINE Meant(q) == nameOf[dp[q]] = arg[q] \/ (dp[q] = IdOf[arg[q]] /\ Later(q))
<1> DEFINE MeantAt(q) ==
        /\ start[q] <= created
        /\ pc[q] = "lookupByID" => Later(q)
        /\ (dp[q] # 0 /\ op[q] # "deleteVport") => Meant(q)
<1> SUFFICES ASSUME NEW q \in Procs PROVE MeantAt(q)'
  BY DEF MeantInv, DatapathMeant
<1>1. MeantAt(q) /\ PlaceAt(q) /\ op[q] \in Commands
  BY DEF MeantInv, DatapathMeant, PlaceInv, TypeOK
<1>2. Ageing /\ TypeOK'
  BY TypeStep
<1>3. /\ created \in Nat /\ created' \in Nat /\ created <= created'
      /\ start[q] \in Nat /\ dp[q] \in 0 .. created
      /\ dps \subseteq 1 .. created /\ dps' \subseteq 1 .. created'
  BY <1>2, SMTT(30) DEF TypeOK, Ageing
<1>4. ASSUME start'[q] = start[q], arg'[q] = arg[q], Later(q) PROVE Later(q)'
  <2> SUFFICES ASSUME NEW i \in dps', nameOf'[i] = arg'[q] PROVE i > start'[q]
    OBVIOUS
  <2>1. CASE i \in 1 .. created
    BY <1>2, <1>4, <2>1 DEF Ageing
  <2>2. CASE i \notin 1 .. created
    BY <1>1, <1>3, <1>4, <2>2
  <2> QED
    BY <2>1, <2>2
<1>5. ASSUME start'[q] = start[q], arg'[q] = arg[q], dp'[q] = dp[q], op'[q] = op[q],
             pc'[q] = pc[q] \/ pc'[q] # "lookupByID"
      PROVE  MeantAt(q)'
  <2>1. start'[q] <= created'
    BY <1>1, <1>3, <1>5
  <2>2. pc'[q] = "lookupByID" => Later(q)'
    BY <1>1, <1>4, <1>5
  <2>3. ASSUME dp'[q] # 0, op'[q] # "deleteVport" PROVE Meant(q)'
    <3>1. nameOf'[dp[q]] = nameOf[dp[q]]
      BY <1>2, <1>3, <1>5, <2>3 DEF Ageing
    <3> QED
      BY <1>1, <1>4, <1>5, <2>3, <3>1
  <2> QED
    BY <2>1, <2>2, <2>3
<1>6. CASE Still(q)
  BY <1>5, <1>6 DEF Still
<1>7. CASE Self(q)
  <2>1. ASSUME NEW command, NEW label, NEW a, NEW s, label # "lookupByID", Begin(q, command, label, a, s)
        PROVE  MeantAt(q)'
    <3>1. dp[q] = 0
      BY <1>1, <2>1 DEF Begin, PlaceAt
    <3>2. pc'[q] = label /\ start'[q] \in {created, 0} /\ dp' = dp
      BY <2>1 DEF Begin, Goto, TypeOK, foundVars
    <3> QED
      BY <1>3, <2>1, <3>1, <3>2
  <2>2. CASE AddDatapath(q) \/ DeleteDatapath(q) \/ ListDatapaths(q) \/ AddVport(q)
             \/ DeleteVportCmd(q) \/ ListVports(q) \/ ListenForVports(q)
    BY <2>1, <2>2 DEF AddDatapath, DeleteDatapath, ListDatapaths, AddVport, DeleteVportCmd,
       ListVports, ListenForVports
  <2>3. CASE Exit(q)
    BY <1>3, <2>3 DEF Exit, Goto, TypeOK
  <2>4. CASE LookupDatapath(q)
    <3>1. UNCHANGED <<kernelVars, op, arg, start>> /\ pc[q] = "lookup"
      BY <2>4 DEF LookupDatapath
    <3>2. start'[q] <= created'
      BY <1>1, <1>3, <3>1
    <3>3. ASSUME NEW i \in dps, nameOf[i] = arg[q], Continue(q, i) PROVE MeantAt(q)'
      <4>1. dp'[q] = i /\ pc'[q] # "lookupByID"
        BY <3>3 DEF Continue, Goto, TypeOK
      <4> QED
        BY <3>1, <3>2, <3>3, <4>1 DEF kernelVars, dpVars
    <3>4. ASSUME \A i \in dps : nameOf[i] # arg[q], dp' = dp PROVE MeantAt(q)'
      <4>1. Later(q)
        BY <3>4
      <4>2. dp[q] = 0
        BY <1>1, <3>1 DEF PlaceAt
      <4> QED
        BY <1>4, <3>1, <3>2, <3>4, <4>1, <4>2
    <3> QED
      BY <2>4, <3>3, <3>4 DEF LookupDatapath, NotFound
  <2>5. CASE LookupDatapathByID(q)
    <3>1. UNCHANGED <<kernelVars, op, arg, start>> /\ pc[q] = "lookupByID"
      BY <2>5 DEF LookupDatapathByID
    <3>2. CASE NotFound(q)
      <4>1. dp' = dp /\ pc'[q] = "done"
        BY <3>2 DEF NotFound, Return, Goto, TypeOK
      <4> QED
        BY <1>5, <3>1, <4>1
    <3>3. CASE Continue(q, IdOf[arg[q]])
      <4>1. dp'[q] = IdOf[arg[q]] /\ pc'[q] # "lookupByID"
        BY <3>3 DEF Continue, Goto, TypeOK
      <4>2. Later(q)'
        BY <1>1, <1>4, <3>1
      <4> QED
        BY <1>1, <1>3, <3>1, <4>1, <4>2
    <3> QED
      BY <2>5, <3>2, <3>3 DEF LookupDatapathByID
  <2>6. CASE LookupVportByName(q)
    <3>1. op[q] = "deleteVport" /\ UNCHANGED <<op, start>> /\ pc'[q] # "lookupByID"
      BY <1>1, <2>6, PlacesInverse DEF LookupVportByName, PlaceAt, Goto, Return, TypeOK
    <3> QED
      BY <1>1, <1>3, <3>1
  <2>7. CASE RequestFails(q) \/ CreateDatapath(q) \/ Delete(q) \/ CreateVport(q) \/ DeleteVport(q)
             \/ Dump(q) \/ Listen(q) \/ ReceiveFails(q) \/ ReceiveEvent(q) \/ Callback(q)
    <3>1. UNCHANGED <<start, arg, dp, op>>
      BY <2>7, DumpSteps DEF RequestFails, CreateDatapath, Delete, CreateVport, DeleteVport,
         Listen, ReceiveFails, ReceiveEvent, Callback, foundVars
    <3>2. pc'[q] = pc[q] \/ pc'[q] # "lookupByID"
      BY <2>7, DumpEnds DEF RequestFails, CreateDatapath, Delete, CreateVport, DeleteVport,
         Listen, ReceiveFails, ReceiveEvent, Callback, Return, Goto, TypeOK
    <3> QED
      BY <1>5, <3>1, <3>2
  <2> QED
    BY <1>7, <2>2, <2>3, <2>4, <2>5, <2>6, <2>7 DEF Self, Command, Listener, Dump
<1> QED
  BY <1>6, <1>7, Steps

-----------------------------------------------------------------------------
(* vport delete.                                                           *)

LEMMA NamedStep ==
    ASSUME TypeOK, KernelInv, PlaceInv, NamedInv, DeletesNamed, [Next]_vars
    PROVE  NamedInv' /\ DeletesNamed'
<1> DEFINE Busy(q) == pc[q] = "deleteVport" \/ deleted[q] # NoLine \/ (op[q] = "deleteVport" /\ ok[q])
<1> DEFINE AtNumber(q) == \A n \in Ports : vports[dp[q]][n] = named[q][2] => n = port[q]
<1> DEFINE NamedAt(q) ==
        /\ Busy(q) => Old(named[q])
        /\ pc[q] = "deleteVport" => named[q][1] = dp[q] /\ deleted[q] = NoLine /\ AtNumber(q)
        /\ (op[q] = "deleteVport" /\ ok[q]) => named[q] \notin Present
        /\ (deleted[q] # NoLine /\ deleted[q] # named[q]) => named[q] \notin Present
<1> SUFFICES ASSUME NEW q \in Procs PROVE NamedAt(q)'
  BY DEF NamedInv, DeletesNamed
<1>1. NamedAt(q) /\ PlaceAt(q) /\ op[q] \in Commands
  BY DEF NamedInv, DeletesNamed, PlaceInv, TypeOK
<1>2. Ageing /\ KernelType /\ KernelType'
  BY TypeStep, TypeParts
<1>3. ASSUME named'[q] = named[q], deleted'[q] = deleted[q], op'[q] = op[q],
             dp'[q] = dp[q], port'[q] = port[q],
             pc'[q] = "deleteVport" => pc[q] = "deleteVport",
             op[q] = "deleteVport" /\ ok'[q] => ok[q]
      PROVE  NamedAt(q)'
  <2>1. ASSUME Busy(q)' PROVE Old(named[q]) /\ Old(named[q])'
    BY <1>1, <1>2, <1>3, <2>1, OldStays
  <2>2. ASSUME Busy(q)', named[q] \notin Present PROVE named'[q] \notin Present'
    BY <1>2, <1>3, <2>1, <2>2, LineGone
  <2>3. ASSUME pc'[q] = "deleteVport" PROVE AtNumber(q)'
    <3> SUFFICES ASSUME NEW n \in Ports, vports'[dp[q]][n] = named[q][2] PROVE n = port[q]
      BY <1>3
    <3>1. dp[q] \in 1 .. created /\ named[q][2] \in Vports /\ named[q][2].born <= born
      BY <1>1, <1>2, <1>3, <2>1, <2>3 DEF Old, Lines, Ifs, KernelType
    <3>2. named[q][2] # NoVport /\ named[q][2].born \in Nat /\ born \in Nat
      BY <1>2, <3>1, VportsAssumption DEF Vports, KernelType
    <3>3. vports[dp[q]][n] = named[q][2]
      BY <1>2, <3>1, <3>2 DEF Ageing
    <3> QED
      BY <1>1, <1>3, <2>3, <3>3
  <2> QED
    BY <1>1, <1>3, <2>1, <2>2, <2>3
<1>4. CASE Still(q)
  BY <1>3, <1>4 DEF Still
<1>5. CASE Self(q)
  <2>1. ASSUME NEW command, NEW label, NEW a, NEW s, label # "deleteVport", Begin(q, command, label, a, s)
        PROVE  NamedAt(q)'
    <3>1. deleted[q] = NoLine /\ ~ok[q]
      BY <1>1, <2>1 DEF Begin, PlaceAt
    <3>2. pc'[q] = label /\ ok' = ok /\ deleted' = deleted
      BY <2>1 DEF Begin, Goto, TypeOK, foundVars
    <3> QED
      BY <2>1, <3>1, <3>2
  <2>2. CASE AddDatapath(q) \/ DeleteDatapath(q) \/ ListDatapaths(q) \/ AddVport(q)
             \/ DeleteVportCmd(q) \/ ListVports(q) \/ ListenForVports(q)
    BY <2>1, <2>2 DEF AddDatapath, DeleteDatapath, ListDatapaths, AddVport, DeleteVportCmd,
       ListVports, ListenForVports
  <2>3. CASE Exit(q)
    BY <2>3 DEF Exit, Goto, TypeOK
  <2>4. CASE LookupDatapath(q) \/ LookupDatapathByID(q)
    <3>1. UNCHANGED <<op, named, deleted>> /\ op[q] # "deleteVport" /\ deleted[q] = NoLine
      BY <1>1, <2>4, PlacesInverse DEF LookupDatapath, LookupDatapathByID, PlaceAt
    <3>2. pc'[q] # "deleteVport"
      BY <2>4 DEF LookupDatapath, LookupDatapathByID, Continue, NotFound, Return, Goto, TypeOK
    <3> QED
      BY <3>1, <3>2
  <2>5. CASE LookupVportByName(q)
    <3>1. UNCHANGED <<kernelVars, op, deleted>> /\ deleted[q] = NoLine /\ ~ok[q]
      BY <1>1, <2>5 DEF LookupVportByName, PlaceAt
    <3>2. CASE Return(q, FALSE)
      <4>1. pc'[q] = "done" /\ ~ok'[q]
        BY <3>2 DEF Return, Goto, TypeOK
      <4> QED
        BY <3>1, <4>1
    <3>3. CASE ~Return(q, FALSE)
      <4>1. PICK i \in dps, n \in Ports :
              /\ vports[i][n] # NoVport
              /\ dp' = [dp EXCEPT ![q] = i] /\ port' = [port EXCEPT ![q] = n]
              /\ named' = [named EXCEPT ![q] = <<i, vports[i][n]>>] /\ UNCHANGED ok
        BY <2>5, <3>3 DEF LookupVportByName
      <4>2. dp'[q] = i /\ port'[q] = n /\ named'[q] = <<i, vports[i][n]>> /\ ~ok'[q]
        BY <3>1, <4>1 DEF TypeOK
      <4>3. Old(named'[q])
        BY <1>2, <4>1, <4>2, PresentIff, PresentOld
      <4>4. (Old(named[q]))'
        BY <1>2, <4>3, OldStays
      <4>5. \A m \in Ports : vports[i][m] = vports[i][n] => m = n
        BY <4>1 DEF KernelInv
      <4>6. AtNumber(q)'
        BY <3>1, <4>2, <4>5 DEF kernelVars
      <4> QED
        BY <3>1, <4>2, <4>4, <4>6
    <3> QED
      BY <3>2, <3>3
  <2>6. CASE DeleteVport(q)
    <3>1. UNCHANGED <<dpVars, born, op, dp, port, named>> /\ pc[q] = "deleteVport" /\ deleted[q] = NoLine
          /\ Old(named[q]) /\ named[q][1] = dp[q] /\ AtNumber(q) /\ port[q] \in Ports
      BY <1>1, <2>6 DEF DeleteVport, TypeOK
    <3>2. pc'[q] = "done"
      BY <2>6 DEF DeleteVport, Return, Goto, TypeOK
    <3>3. CASE ~CanDelete(dp[q], port[q])
      <4>1. deleted' = deleted /\ ~ok'[q]
        BY <2>6, <3>3 DEF DeleteVport, Return, TypeOK
      <4> QED
        BY <3>1, <3>2, <4>1
    <3>4. CASE CanDelete(dp[q], port[q])
      <4>1. KernelDelVport(dp[q], port[q])
        BY <2>6, <3>4 DEF DeleteVport
      <4>2. dp[q] \in Ifs
        BY <1>2, <3>4, DpsAreIfs DEF CanDelete
      <4>3. named'[q] \notin Present'
        <5> SUFFICES ASSUME named[q] \in Present' PROVE FALSE
          BY <3>1
        <5>1. PICK i \in dps', n \in Ports : vports'[i][n] # NoVport /\ named[q] = <<i, vports'[i][n]>>
          BY PresentIff
        <5>2. i = dp[q] /\ named[q][2] = vports'[i][n]
          BY <3>1, <5>1
        <5>3. vports' = [vports EXCEPT ![dp[q]][port[q]] = NoVport]
          BY <4>1 DEF KernelDelVport
        <5>4. vports'[dp[q]][port[q]] = NoVport
          BY <1>2, <3>1, <4>2, <5>3 DEF KernelType
        <5>5. n # port[q]
          BY <5>1, <5>2, <5>4
        <5>6. vports'[dp[q]][n] = vports[dp[q]][n]
          BY <1>2, <3>1, <4>2, <5>3, <5>5 DEF KernelType
        <5> QED
          BY <3>1, <5>2, <5>5, <5>6
      <4>4. Old(named[q])'
        BY <1>2, <3>1, OldStays
      <4> QED
        BY <3>1, <3>2, <4>3, <4>4
    <3> QED
      BY <3>3, <3>4
  <2>7. CASE RequestFails(q) \/ CreateDatapath(q) \/ Delete(q) \/ CreateVport(q)
             \/ Dump(q) \/ Listen(q) \/ ReceiveFails(q) \/ ReceiveEvent(q) \/ Callback(q)
    <3>1. UNCHANGED <<named, deleted, dp, port, op>>
      BY <2>7, DumpSteps DEF RequestFails, CreateDatapath, Delete, CreateVport,
         Listen, ReceiveFails, ReceiveEvent, Callback, foundVars
    <3>2. pc'[q] # "deleteVport" \/ pc'[q] = pc[q]
      BY <2>7, DumpEnds DEF RequestFails, CreateDatapath, Delete, CreateVport,
         Listen, ReceiveFails, ReceiveEvent, Callback, Return, Goto, TypeOK
    <3>3. op[q] = "deleteVport" => ~ok'[q]
      <4>1. op[q] = "deleteVport" => RequestFails(q)
        <5>1. Dump(q) => op[q] # "deleteVport"
          BY <1>1, DumpSteps, PlacesInverse DEF PlaceAt
        <5> QED
          BY <1>1, <2>7, <5>1, PlacesInverse, ZenonT(30) DEF CreateDatapath, Delete, CreateVport,
             Listen, ReceiveFails, ReceiveEvent, Callback, PlaceAt
      <4> QED
        BY <4>1 DEF RequestFails, Return, TypeOK
    <3> QED
      BY <1>3, <3>1, <3>2, <3>3
  <2> QED
    BY <1>5, <2>2, <2>3, <2>4, <2>5, <2>6, <2>7 DEF Self, Command, Listener, Dump
<1> QED
  BY <1>4, <1>5, Steps

-----------------------------------------------------------------------------
(* vport list and datapath list.                                           *)

\* What the kernel takes away is no longer required.
LEMMA MustShrinks ==
    ASSUME TypeOK, KernelInv, KernelStep, NEW q \in Procs, must[q] \subseteq Present
    PROVE  must'[q] \subseteq must[q] /\ must'[q] \subseteq Present'
<1>1. KernelType /\ dps \subseteq Ifs
  BY TypeParts, DpsAreIfs
<1> SUFFICES ASSUME NEW l \in must'[q] PROVE l \in must[q] /\ l \in Present'
  OBVIOUS
<1>2. ASSUME l \in must[q]
      PROVE  \E i \in dps, n \in Ports : vports[i][n] # NoVport /\ l = <<i, vports[i][n]>>
  BY <1>2, PresentIff
<1>3. ASSUME NEW name \in Names, KernelNewDp(name), must' = must PROVE l \in must[q] /\ l \in Present'
  <2>1. PICK i \in dps, n \in Ports : vports[i][n] # NoVport /\ l = <<i, vports[i][n]>>
    BY <1>2, <1>3
  <2>2. i \in dps' /\ i # created + 1 /\ i \in Ifs
    BY <1>1, <1>3 DEF KernelNewDp, KernelType
  <2>3. vports'[i] = vports[i]
    BY <1>1, <1>3, <2>2 DEF KernelNewDp, KernelType
  <2> QED
    BY <1>3, <2>1, <2>2, <2>3, PresentIff
<1>4. ASSUME NEW j \in dps, KernelDelDp(j) PROVE l \in must[q] /\ l \in Present'
  <2>1. l \in must[q] /\ l \notin VportsOf(j)
    BY <1>4 DEF KernelDelDp
  <2>2. PICK i \in dps, n \in Ports : vports[i][n] # NoVport /\ l = <<i, vports[i][n]>>
    BY <1>2, <2>1
  <2>3. i # j
    BY <2>1, <2>2, VportsOfIff
  <2>4. i \in dps' /\ vports'[i] = vports[i]
    BY <1>1, <1>4, <2>3 DEF KernelDelDp, KernelType
  <2> QED
    BY <2>1, <2>2, <2>4, PresentIff
<1>5. ASSUME NEW j \in dps, NEW name \in Names, NEW known \in BOOLEAN, KernelNewVport(j, name, known),
             UNCHANGED <<dpVars, must>>
      PROVE  l \in must[q] /\ l \in Present'
  <2> DEFINE v == [name |-> name, known |-> known, born |-> born + 1]
  <2>1. PICK m \in Ports : vports[j][m] = NoVport /\ vports' = [vports EXCEPT ![j][m] = v]
    BY <1>5 DEF KernelNewVport
  <2> HIDE DEF v
  <2>2. PICK i \in dps, n \in Ports : vports[i][n] # NoVport /\ l = <<i, vports[i][n]>>
    BY <1>2, <1>5
  <2>3. vports'[i][n] = vports[i][n]
    BY <1>1, <2>1, <2>2 DEF KernelType
  <2> QED
    BY <1>5, <2>2, <2>3, PresentIff DEF dpVars
<1>6. ASSUME NEW j \in dps, NEW m \in Ports, KernelDelVport(j, m), UNCHANGED <<dpVars, born>>
      PROVE  l \in must[q] /\ l \in Present'
  <2>1. l \in must[q] /\ l # <<j, vports[j][m]>>
    BY <1>6 DEF KernelDelVport
  <2>2. PICK i \in dps, n \in Ports : vports[i][n] # NoVport /\ l = <<i, vports[i][n]>>
    BY <1>2, <2>1
  <2>3. vports'[i][n] = vports[i][n]
    BY <1>1, <1>6, <2>1, <2>2 DEF KernelDelVport, KernelType
  <2> QED
    BY <1>6, <2>1, <2>2, <2>3, PresentIff DEF dpVars
<1>7. ASSUME UNCHANGED <<kernelVars, must>> PROVE l \in must[q] /\ l \in Present'
  BY <1>7, PresentIff DEF kernelVars, dpVars
<1> QED
  BY <1>3, <1>4, <1>5, <1>6, <1>7 DEF KernelStep

LEMMA SamePresent ==
    ASSUME UNCHANGED kernelVars
    PROVE  Present' = Present
  BY PresentIff DEF kernelVars, dpVars

LEMMA ListStep ==
    ASSUME TypeOK, KernelInv, PlaceInv, ListInv, [Next]_vars
    PROVE  ListInv'
<1> DEFINE Whole(q, l) == dp[q] \in {0, l[1]} /\ torn[q] \cap {0, l[1]} = {}
<1> DEFINE ListAt(q) ==
        /\ must[q] \subseteq Present
        /\ (op[q] = "listVports" /\ (pc[q] \in {"print", "printing"} \/ ok[q])) =>
              \A l \in must[q] : Whole(q, l) => Covered(q, l)
        /\ (op[q] = "listDatapaths" /\ printed[q] # {} /\ 0 \notin torn[q]) =>
              {l \in must[q] : l[2].born = 0} \subseteq printed[q]
<1> SUFFICES ASSUME NEW q \in Procs PROVE ListAt(q)'
  BY DEF ListInv
<1>1. ListAt(q) /\ PlaceAt(q) /\ op[q] \in Commands /\ KernelType
  BY TypeParts DEF ListInv, PlaceInv, TypeOK
<1>2. ASSUME must'[q] \subseteq must[q], must'[q] \subseteq Present', op'[q] = op[q],
             op[q] \in {"listVports", "listDatapaths"} => torn[q] \subseteq torn'[q],
             op[q] = "listVports" => UNCHANGED <<dp[q], printed[q], todo[q], at[q]>> /\ (ok'[q] => ok[q])
                                     /\ (pc'[q] = pc[q] \/ (pc'[q] \notin {"print", "printing"} /\ ~ok'[q])),
             op[q] = "listDatapaths" => printed'[q] = printed[q]
      PROVE  ListAt(q)'
  <2>1. ASSUME op[q] = "listVports", pc'[q] \in {"print", "printing"} \/ ok'[q],
               NEW l \in must'[q], Whole(q, l)'
        PROVE  Covered(q, l)'
    <3>1. Whole(q, l)
      BY <1>2, <2>1
    <3>2. Covered(q, l)
      BY <1>1, <1>2, <2>1, <3>1
    <3>3. UNCHANGED <<printed[q], todo[q], at[q]>> /\ (pc'[q] = pc[q] \/ ok'[q])
      BY <1>2, <2>1
    <3>4. ok'[q] => pc'[q] = pc[q]
      BY <1>2, <2>1
    <3> QED
      BY <3>2, <3>3, <3>4 DEF Covered
  <2>2. op[q] = "listDatapaths" /\ 0 \notin torn'[q] => 0 \notin torn[q]
    BY <1>2
  <2> QED
    BY <1>1, <1>2, <2>1, <2>2
<1>3. CASE Still(q) /\ (KernelStep \/ Quiet(q))
  <2>1. must'[q] \subseteq must[q] /\ must'[q] \subseteq Present' /\ torn[q] \subseteq torn'[q]
    BY <1>1, <1>3, MustShrinks, TornGrows, SamePresent DEF Quiet
  <2> QED
    BY <1>2, <1>3, <2>1 DEF Still
<1>4. CASE Self(q)
  <2>1. ASSUME NEW command, NEW label, NEW a, NEW s, label \notin {"print", "printing"}, Begin(q, command, label, a, s)
        PROVE  ListAt(q)'
    <3>1. printed[q] = {} /\ ~ok[q]
      BY <1>1, <2>1 DEF Begin, PlaceAt
    <3>2. pc'[q] = label /\ ok' = ok /\ printed' = printed /\ must'[q] \subseteq Present /\ Present' = Present
      BY <2>1, SamePresent DEF Begin, Goto, TypeOK, foundVars
    <3> QED
      BY <2>1, <3>1, <3>2
  <2>2. CASE AddDatapath(q) \/ DeleteDatapath(q) \/ ListDatapaths(q) \/ AddVport(q)
             \/ DeleteVportCmd(q) \/ ListVports(q) \/ ListenForVports(q)
    BY <2>1, <2>2 DEF AddDatapath, DeleteDatapath, ListDatapaths, AddVport, DeleteVportCmd,
       ListVports, ListenForVports
  <2>3. CASE Exit(q)
    BY <2>3 DEF Exit, Goto, TypeOK
  <2>4. CASE CreateDatapath(q) \/ Delete(q) \/ CreateVport(q) \/ DeleteVport(q)
    <3>1. must'[q] \subseteq must[q] /\ must'[q] \subseteq Present'
      BY <1>1, <2>4, KernelSelf, MustShrinks, SamePresent
    <3>2. op' = op /\ op[q] \notin {"listVports", "listDatapaths"}
      BY <1>1, <2>4, PlacesInverse DEF CreateDatapath, Delete, CreateVport, DeleteVport, PlaceAt
    <3> QED
      BY <1>2, <3>1, <3>2
  <2>5. CASE LookupDatapath(q) \/ LookupDatapathByID(q)
    <3>1. /\ UNCHANGED <<op, must, printed>> /\ Present' = Present /\ ~ok[q]
          /\ op[q] \in {"deleteDatapath", "addVport", "listVports"}
      BY <1>1, <2>5, SamePresent, PlacesInverse DEF LookupDatapath, LookupDatapathByID, PlaceAt
    <3>2. ASSUME pc'[q] \notin {"print", "printing"}, ~ok'[q] PROVE ListAt(q)'
      BY <1>1, <3>1, <3>2
    <3>3. ASSUME NEW i \in dps, Continue(q, i) PROVE ListAt(q)'
      <4>1. ok' = ok /\ i # 0
        BY <1>1, <3>3 DEF Continue, KernelType
      <4>2. CASE op[q] = "listVports"
        <5>1. dp'[q] = i /\ todo'[q] = {i} /\ pc'[q] = "print"
          BY <3>3, <4>2 DEF Continue, Goto, TypeOK
        <5>2. \A l \in must'[q] : dp'[q] \in {0, l[1]} => Covered(q, l)'
          BY <4>1, <5>1 DEF Covered
        <5> QED
          BY <1>1, <3>1, <4>2, <5>1, <5>2
      <4>3. CASE op[q] # "listVports"
        BY <1>1, <3>1, <4>3
      <4> QED
        BY <4>2, <4>3
    <3> QED
      BY <1>1, <2>5, <3>1, <3>2, <3>3, ZenonT(30) DEF LookupDatapath, LookupDatapathByID, NotFound, Return, Goto, TypeOK
  <2>6. CASE Dump(q)
    <3>1. UNCHANGED <<op, must, torn, dp>> /\ Present' = Present /\ ~ok[q]
      BY <1>1, <2>6, SamePresent, DumpSteps DEF PlaceAt
    <3>2. \A l \in must[q] : l[1] \in dps
      BY <1>1, PresentLines
    \* A dump that ends whole has reported what had to be there.
    <3>3. CASE Enumerate(q) \/ EnumerateMore(q)
      <4>1. pc'[q] = "enumerating" /\ UNCHANGED <<ok, printed>>
        BY <3>3 DEF Enumerate, EnumerateMore, Goto, TypeOK
      <4> QED
        BY <1>1, <3>1, <4>1
    <3>4. CASE EnumerateDone(q)
      <4>1. (0 \in torn[q] \/ found[q] = DatapathLines) /\ pc[q] = "enumerating"
        BY <3>4 DEF EnumerateDone
      <4>2. CASE op[q] = "listDatapaths"
        <5>1. printed'[q] = found[q]
          BY <3>4, <4>2 DEF EnumerateDone, TypeOK
        <5>2. ASSUME NEW l \in must[q], l[2].born = 0, 0 \notin torn[q] PROVE l \in printed'[q]
          <6>1. PICK i \in dps, n \in Ports : vports[i][n] # NoVport /\ l = <<i, vports[i][n]>>
            BY <1>1, PresentIff
          <6>2. n = Local
            BY <1>1, <5>2, <6>1 DEF KernelInv, KernelType
          <6> QED
            BY <4>1, <5>1, <5>2, <6>1, <6>2 DEF DatapathLines
        <5> QED
          BY <1>1, <3>1, <4>2, <5>2
      <4>3. CASE op[q] = "listVports"
        <5>1. todo'[q] = {l[1] : l \in found[q]} /\ pc'[q] = "print"
          BY <3>4, <4>3 DEF EnumerateDone, Goto, TypeOK
        <5>2. ASSUME NEW l \in must'[q], Whole(q, l)' PROVE Covered(q, l)'
          <6>1. l[1] \in dps /\ found[q] = DatapathLines
            <7>1. l \in must[q] /\ 0 \notin torn[q]
              BY <3>1, <5>2
            <7> QED
              BY <3>2, <4>1, <7>1
          <6>2. PICK m \in DatapathLines : m[1] = l[1]
            <7>1. PICK i : i = l[1]
              OBVIOUS
            <7>2. <<i, vports[i][Local]>> \in DatapathLines /\ <<i, vports[i][Local]>>[1] = i
              BY <6>1, <7>1 DEF DatapathLines
            <7> QED
              BY <7>1, <7>2
          <6>3. l[1] \in todo'[q]
            BY <5>1, <6>1, <6>2
          <6> QED
            BY <5>1, <6>3 DEF Covered
        <5> QED
          BY <1>1, <3>1, <4>3, <5>2
      <4>4. op[q] \in {"listDatapaths", "listVports"}
        BY <1>1, <4>1, PlacesInverse DEF PlaceAt
      <4> QED
        BY <4>2, <4>3, <4>4
    <3>5. CASE PrintVports(q) \/ PrintVportsMore(q) \/ PrintVportsDone(q)
      <4>1. pc[q] \in {"print", "printing"} /\ op[q] = "listVports"
        <5>1. pc[q] \in {"print", "printing"}
          BY <3>5 DEF PrintVports, PrintVportsMore, PrintVportsDone
        <5> QED
          BY <1>1, <5>1, PlacesInverse DEF PlaceAt
      <4>2. ASSUME Return(q, FALSE) PROVE ListAt(q)'
        <5>1. pc'[q] = "done" /\ ~ok'[q]
          BY <4>2 DEF Return, Goto, TypeOK
        <5> QED
          BY <1>1, <3>1, <4>1, <5>1
      <4>3. ASSUME \A l \in must[q] : Whole(q, l) => (Covered(q, l) => Covered(q, l)')
            PROVE  ListAt(q)'
        BY <1>1, <3>1, <4>1, <4>3
      <4>4. CASE PrintVports(q)
        <5>1. CASE todo[q] = {} /\ UNCHANGED printed
          <6>1. pc[q] = "print"
            BY <4>4 DEF PrintVports
          <6> QED
            BY <4>3, <5>1, <6>1 DEF Covered
        <5>2. ASSUME NEW i \in dps, NEW s, VportsCome(q, s), todo' = [todo EXCEPT ![q] = @ \ {i}],
                     at' = [at EXCEPT ![q] = i]
              PROVE  ListAt(q)'
          <6>1. CASE Return(q, FALSE)
            BY <4>2, <6>1
          <6>2. CASE Goto(q, "printing") /\ printed' = printed
            <7>1. pc'[q] = "printing" /\ todo'[q] = todo[q] \ {i} /\ at'[q] = i
              BY <5>2, <6>2 DEF Goto, TypeOK
            <7>2. pc[q] = "print"
              BY <4>4 DEF PrintVports
            <7>3. \A l : Covered(q, l) => Covered(q, l)'
              BY <6>2, <7>1, <7>2 DEF Covered
            <7> QED
              BY <4>3, <7>3
          <6> QED
            BY <5>2, <6>1, <6>2 DEF VportsCome
        <5> QED
          BY <4>2, <4>4, <5>1, <5>2 DEF PrintVports
      <4>5. CASE PrintVportsMore(q)
        <5>1. CASE Return(q, FALSE)
          BY <4>2, <5>1
        <5>2. CASE Goto(q, "printing") /\ printed' = printed
          <6>1. pc'[q] = "printing" /\ UNCHANGED <<todo, at>>
            BY <4>5, <5>2 DEF PrintVportsMore, Goto, TypeOK
          <6>2. \A l : Covered(q, l) => Covered(q, l)'
            BY <4>1, <5>2, <6>1 DEF Covered
          <6> QED
            BY <4>3, <6>2
        <5> QED
          BY <4>5, <5>1, <5>2 DEF PrintVportsMore, VportsCome
      <4>6. CASE PrintVportsDone(q)
        <5>1. /\ pc[q] = "printing" /\ pc'[q] = "print" /\ todo' = todo /\ at[q] \in dps
              /\ at[q] \in torn[q] \/ found[q] = VportsOf(at[q])
              /\ printed'[q] = printed[q] \cup found[q]
          BY <4>6 DEF PrintVportsDone, Goto, TypeOK
        <5>2. ASSUME NEW l \in must[q], Whole(q, l), Covered(q, l) PROVE Covered(q, l)'
          <6>1. CASE l[1] = at[q]
            <7>1. PICK i \in dps, n \in Ports : vports[i][n] # NoVport /\ l = <<i, vports[i][n]>>
              BY <1>1, PresentIff
            <7>2. l \in VportsOf(at[q])
              BY <6>1, <7>1, VportsOfIff
            <7>3. found[q] = VportsOf(at[q])
              BY <5>1, <5>2, <6>1
            <7> QED
              BY <5>1, <7>2, <7>3 DEF Covered
          <6>2. CASE l[1] # at[q]
            BY <5>1, <5>2, <6>2 DEF Covered
          <6> QED
            BY <6>1, <6>2
        <5> QED
          BY <4>3, <5>2
      <4> QED
        BY <3>5, <4>4, <4>5, <4>6
    <3> QED
      BY <2>6, <3>3, <3>4, <3>5 DEF Dump
  <2>7. CASE RequestFails(q)
    <3>1. UNCHANGED <<op, must, torn, dp, printed, todo, at>> /\ Present' = Present /\ pc'[q] = "done"
          /\ (ok'[q] => op[q] = "listDatapaths")
      BY <1>1, <2>7, SamePresent DEF RequestFails, Return, Goto, TypeOK, foundVars, dumpVars
    <3> QED
      BY <1>1, <1>2, <3>1
  <2>8. CASE LookupVportByName(q) \/ Listen(q) \/ ReceiveFails(q) \/ ReceiveEvent(q) \/ Callback(q)
    <3>1. UNCHANGED <<op, must>> /\ Present' = Present /\ op[q] \notin {"listVports", "listDatapaths"}
      BY <1>1, <2>8, SamePresent, PlacesInverse, ZenonT(30) DEF LookupVportByName, Listen, ReceiveFails, ReceiveEvent,
         Callback, PlaceAt
    <3> QED
      BY <1>1, <1>2, <3>1
  <2> QED
    BY <1>4, <2>2, <2>3, <2>4, <2>5, <2>6, <2>7, <2>8 DEF Self, Command, Listener, Dump
<1> QED
  BY <1>3, <1>4, Steps

-----------------------------------------------------------------------------
(* vport listen.                                                           *)

LEMMA AppendQueued ==
    ASSUME NEW q \in Seq(Events), NEW e \in Events, NEW cmd, NEW l
    PROVE  /\ Queued(Append(q, e), cmd, l) <=> Queued(q, cmd, l) \/ (e.cmd = cmd /\ e.line = l)
           /\ (e.cmd = "del" /\ e.line = l) => NewThenDel(Append(q, e), l)
           /\ ((e.line # l \/ e.cmd = "set") /\ NewThenDel(q, l)) => NewThenDel(Append(q, e), l)
<1> DEFINE s == Append(q, e)
<1>1. /\ Len(q) \in Nat /\ Len(s) = Len(q) + 1 /\ s[Len(q) + 1] = e
      /\ \A k \in 1 .. Len(q) : s[k] = q[k]
  BY AppendProperties
<1>2. \A k \in 1 .. Len(s) : k \in 1 .. Len(q) \/ k = Len(q) + 1
  BY <1>1
<1>3. 1 .. Len(q) \subseteq 1 .. Len(s) /\ Len(q) + 1 \in 1 .. Len(s)
  BY <1>1
<1> HIDE DEF s
<1>4. Queued(s, cmd, l) <=> Queued(q, cmd, l) \/ (e.cmd = cmd /\ e.line = l)
  BY <1>1, <1>2, <1>3 DEF Queued
<1>5. ASSUME e.cmd = "del", e.line = l PROVE NewThenDel(s, l)
  <2> SUFFICES ASSUME NEW j \in 1 .. Len(s), s[j].cmd = "new", s[j].line = l
               PROVE  \E k \in j + 1 .. Len(s) : s[k].cmd = "del" /\ s[k].line = l
    BY DEF NewThenDel
  <2>1. j # Len(q) + 1
    BY <1>1, <1>5
  <2>2. Len(q) + 1 \in j + 1 .. Len(s)
    BY <1>1, <1>2, <2>1
  <2> QED
    BY <1>1, <1>5, <2>2
<1>6. ASSUME e.line # l \/ e.cmd = "set", NewThenDel(q, l) PROVE NewThenDel(s, l)
  <2> SUFFICES ASSUME NEW j \in 1 .. Len(s), s[j].cmd = "new", s[j].line = l
               PROVE  \E k \in j + 1 .. Len(s) : s[k].cmd = "del" /\ s[k].line = l
    BY DEF NewThenDel
  <2>1. j \in 1 .. Len(q)
    BY <1>1, <1>2, <1>6
  <2>2. PICK k \in j + 1 .. Len(q) : q[k].cmd = "del" /\ q[k].line = l
    BY <1>1, <1>6, <2>1 DEF NewThenDel
  <2>3. k \in j + 1 .. Len(s) /\ k \in 1 .. Len(q)
    BY <1>1, <2>1
  <2> QED
    BY <1>1, <2>2, <2>3
<1> QED
  BY <1>4, <1>5, <1>6 DEF s

LEMMA TailQueued ==
    ASSUME NEW q \in Seq(Events), q # <<>>, NEW l
    PROVE  /\ \A cmd : Queued(q, cmd, l) <=>
                Queued(Tail(q), cmd, l) \/ (Head(q).cmd = cmd /\ Head(q).line = l)
           /\ NewThenDel(q, l) => NewThenDel(Tail(q), l)
           /\ (NewThenDel(q, l) /\ Head(q).cmd = "new" /\ Head(q).line = l) => Queued(Tail(q), "del", l)
<1> DEFINE s == Tail(q)
<1>1. /\ Len(q) \in Nat \ {0} /\ Len(s) = Len(q) - 1 /\ Head(q) = q[1]
      /\ \A k \in 1 .. Len(s) : s[k] = q[k + 1]
  BY HeadTailProperties, EmptySeq
<1>2. \A k \in 1 .. Len(q) : k = 1 \/ (k - 1 \in 1 .. Len(s) /\ q[k] = s[k - 1])
  BY <1>1
<1>3. 1 \in 1 .. Len(q) /\ \A k \in 1 .. Len(s) : k + 1 \in 1 .. Len(q)
  BY <1>1
<1> HIDE DEF s
<1>4. ASSUME NEW cmd PROVE Queued(q, cmd, l) <=> Queued(s, cmd, l) \/ (Head(q).cmd = cmd /\ Head(q).line = l)
  BY <1>1, <1>2, <1>3 DEF Queued
<1>5. ASSUME NewThenDel(q, l) PROVE NewThenDel(s, l)
  <2> SUFFICES ASSUME NEW j \in 1 .. Len(s), s[j].cmd = "new", s[j].line = l
               PROVE  \E k \in j + 1 .. Len(s) : s[k].cmd = "del" /\ s[k].line = l
    BY DEF NewThenDel
  <2>1. PICK k \in j + 1 + 1 .. Len(q) : q[k].cmd = "del" /\ q[k].line = l
    BY <1>1, <1>3, <1>5 DEF NewThenDel
  <2>2. k - 1 \in j + 1 .. Len(s) /\ k \in 1 .. Len(q) /\ k # 1
    BY <1>1, <2>1
  <2> QED
    BY <1>2, <2>1, <2>2
<1>6. ASSUME NewThenDel(q, l), Head(q).cmd = "new", Head(q).line = l PROVE Queued(s, "del", l)
  <2>1. PICK k \in 1 + 1 .. Len(q) : q[k].cmd = "del" /\ q[k].line = l
    BY <1>1, <1>3, <1>6 DEF NewThenDel
  <2>2. k - 1 \in 1 .. Len(s) /\ k \in 1 .. Len(q) /\ k # 1
    BY <1>1, <2>1
  <2> QED
    BY <1>2, <2>1, <2>2 DEF Queued
<1> QED
  BY <1>4, <1>5, <1>6 DEF s

\* What an announcement does to the queue of a process.
LEMMA Notified ==
    ASSUME TypeOK, NEW q \in Procs, NEW cmd, NEW line, Notify(cmd, line)
    PROVE  /\ events'[q] \in {events[q], Append(events[q], [cmd |-> cmd, line |-> line])}
           /\ overrun[q] => overrun'[q]
           /\ (pc[q] \in {"wait", "callback"} /\ ~overrun'[q]) =>
                 events'[q] = Append(events[q], [cmd |-> cmd, line |-> line])
<1> DEFINE e == [cmd |-> cmd, line |-> line]
<1> DEFINE room == Len(events[q]) < RcvBuf
<1>1. ~room <=> Len(events[q]) >= RcvBuf
  BY DEF TypeOK
<1>2. q \in Members <=> pc[q] \in {"wait", "callback"}
  BY DEF Members
<1>3. events'[q] = IF q \in Members /\ room THEN Append(events[q], e) ELSE events[q]
  BY DEF Notify
<1>4. overrun'[q] = (overrun[q] \/ (q \in Members /\ Len(events[q]) >= RcvBuf))
  BY DEF Notify
<1> HIDE DEF e, room
<1>5. events'[q] \in {events[q], Append(events[q], e)}
  BY <1>3
<1>6. overrun[q] => overrun'[q]
  BY <1>4
<1>7. (q \in Members /\ ~overrun'[q]) => events'[q] = Append(events[q], e)
  BY <1>1, <1>3, <1>4
<1> QED
  BY <1>2, <1>5, <1>6, <1>7 DEF e

\* What a step of the kernel announces, and what it does to the vports that are there.
LEMMA Announced ==
    ASSUME TypeOK, KernelInv, KernelStep, NEW q \in Procs
    PROVE  \/ events'[q] = events[q]
           \/ \E e \in Events : events'[q] = Append(events[q], e) /\ Old(e.line)'
<1>1. KernelType /\ KernelType' /\ Ageing
  BY TypeParts, KernelTypeStep, KernelAges
<1>2. ASSUME NEW cmd \in {"new", "del", "set"}, NEW l, Old(l)', Notify(cmd, l)
      PROVE  \/ events'[q] = events[q]
             \/ \E e \in Events : events'[q] = Append(events[q], e) /\ Old(e.line)'
  <2> DEFINE e == [cmd |-> cmd, line |-> l]
  <2>1. e \in Events /\ e.line = l
    BY <1>2 DEF Events, Old
  <2>2. events'[q] \in {events[q], Append(events[q], e)}
    BY <1>2, Notified
  <2> HIDE DEF e
  <2> QED
    BY <1>2, <2>1, <2>2
<1>3. ASSUME NEW i \in dps, NEW name \in Names, NEW known \in BOOLEAN, KernelNewVport(i, name, known),
             UNCHANGED <<dpVars, must>>
      PROVE  \E l : Old(l)' /\ Notify("new", l)
  <2> DEFINE v == [name |-> name, known |-> known, born |-> born + 1]
  <2>1. Notify("new", <<i, v>>) /\ born < MaxBorn /\ born' = born + 1
    BY <1>3 DEF KernelNewVport
  <2>2. v \in Vports /\ v.born = born + 1
    BY <1>1, <2>1, NewVportType
  <2> HIDE DEF v
  <2>3. i \in Ifs /\ i <= created /\ created' = created
    BY <1>1, <1>3, DpsAreIfs DEF KernelType, dpVars
  <2>4. PICK x : x = <<i, v>>
    OBVIOUS
  <2>5. x \in Lines /\ x[1] = i /\ x[2] = v
    BY <2>2, <2>3, <2>4 DEF Lines
  <2>6. x[1] <= created' /\ x[2].born <= born'
    BY <1>1, <2>1, <2>2, <2>3, <2>5 DEF KernelType
  <2>7. Old(x)'
    BY <2>5, <2>6 DEF Old
  <2> QED
    BY <2>1, <2>4, <2>7
<1>4. ASSUME NEW i \in dps, NEW n \in Ports, KernelDelVport(i, n)
      PROVE  \E l : Old(l)' /\ Notify("del", l)
  <2> DEFINE l == <<i, vports[i][n]>>
  <2>1. Notify("del", l) /\ l \in Present
    BY <1>4, PresentIff DEF KernelDelVport, CanDelete
  <2> HIDE DEF l
  <2>2. Old(l)
    BY <1>1, <2>1, PresentOld
  <2>3. \A x : Old(x) => x \in Lines /\ x[1] <= created' /\ x[2].born <= born'
    <3> SUFFICES ASSUME NEW x, Old(x) PROVE x \in Lines /\ x[1] <= created' /\ x[2].born <= born'
      OBVIOUS
    <3> QED
      BY <1>1, OldStays DEF Old
  <2>4. PICK x : x = l
    OBVIOUS
  <2>5. Old(x)'
    BY <2>2, <2>3, <2>4 DEF Old
  <2> QED
    BY <2>1, <2>4, <2>5
<1>5. ASSUME NEW l \in Present PROVE Old(l)'
  BY <1>1, PresentOld, OldStays
<1>6. CASE UNCHANGED queueVars
  BY <1>6 DEF queueVars
<1> QED
  BY <1>2, <1>3, <1>4, <1>5, <1>6 DEF KernelStep

LEMMA QueueStep ==
    ASSUME TypeOK, KernelInv, PlaceInv, QueueInv, [Next]_vars
    PROVE  QueueInv'
<1> DEFINE QueueAt(q) ==
        /\ \A k \in 1 .. Len(events[q]) : Old(events[q][k].line)
        /\ pc[q] = "callback" => Old(event[q].line)
        /\ \A l \in shown[q] : Old(l) /\ l[2].known
<1> SUFFICES ASSUME NEW q \in Procs PROVE QueueAt(q)'
  BY DEF QueueInv
<1>1. QueueAt(q) /\ PlaceAt(q) /\ op[q] \in Commands /\ events[q] \in Seq(Events)
  BY DEF QueueInv, PlaceInv, TypeOK
<1>2. Ageing /\ KernelType /\ KernelType'
  BY TypeStep, TypeParts
<1>3. ASSUME NEW l, Old(l) PROVE Old(l)'
  BY <1>2, <1>3, OldStays
<1>5. ASSUME \/ events'[q] = events[q]
             \/ \E e \in Events : events'[q] = Append(events[q], e) /\ Old(e.line)'
      PROVE  (\A k \in 1 .. Len(events[q]) : Old(events[q][k].line))'
  <2>1. CASE events'[q] = events[q]
    BY <1>1, <1>3, <2>1
  <2>2. ASSUME NEW e \in Events, events'[q] = Append(events[q], e), Old(e.line)'
        PROVE  (\A k \in 1 .. Len(events[q]) : Old(events[q][k].line))'
    <3>1. /\ Len(events[q]) \in Nat /\ Len(events'[q]) = Len(events[q]) + 1
          /\ events'[q][Len(events[q]) + 1] = e
          /\ \A k \in 1 .. Len(events[q]) : events'[q][k] = events[q][k]
      BY <1>1, <2>2, AppendProperties
    <3>2. \A k \in 1 .. Len(events'[q]) : k \in 1 .. Len(events[q]) \/ k = Len(events[q]) + 1
      BY <3>1
    <3> QED
      BY <1>1, <1>3, <2>2, <3>1, <3>2
  <2> QED
    BY <1>5, <2>1, <2>2
<1>6. ASSUME (\A k \in 1 .. Len(events[q]) : Old(events[q][k].line))', shown'[q] = shown[q],
             event'[q] = event[q], pc'[q] = "callback" => pc[q] = "callback"
      PROVE  QueueAt(q)'
  BY <1>1, <1>3, <1>6
<1>7. CASE Still(q) /\ (KernelStep \/ Quiet(q))
  BY <1>5, <1>6, <1>7, Announced DEF Still, Quiet
<1>8. CASE Self(q)
  <2>1. CASE Exit(q)
    BY <2>1 DEF Exit, Goto, TypeOK
  <2>2. CASE ReceiveEvent(q)
    <3>1. events[q] # <<>> /\ events'[q] = Tail(events[q]) /\ shown' = shown
      BY <2>2 DEF ReceiveEvent, TypeOK
    <3>2. /\ Len(events[q]) \in Nat /\ 1 \in 1 .. Len(events[q])
          /\ Head(events[q]) = events[q][1] /\ Len(events'[q]) = Len(events[q]) - 1
          /\ \A k \in 1 .. Len(events'[q]) : events'[q][k] = events[q][k + 1]
      BY <1>1, <3>1, HeadTailProperties, EmptySeq
    <3>3. \A k \in 1 .. Len(events'[q]) : k + 1 \in 1 .. Len(events[q])
      BY <3>2
    <3>4. (\A k \in 1 .. Len(events[q]) : Old(events[q][k].line))'
      BY <1>1, <1>3, <3>2, <3>3
    <3>5. pc'[q] = "callback" => event'[q] = events[q][1]
      BY <2>2, <3>2 DEF ReceiveEvent, Goto, TypeOK
    <3>6. pc'[q] = "callback" => (Old(event[q].line))'
      BY <1>1, <1>3, <3>2, <3>5
    <3> QED
      BY <1>1, <1>3, <3>1, <3>4, <3>6
  <2>3. CASE Callback(q)
    <3>1. Old(event[q].line) /\ event[q].line[2].known /\ events' = events /\ pc'[q] = "wait"
      BY <1>1, <2>3 DEF Callback, PlaceAt, Goto, TypeOK, queueVars
    <3>2. \A l \in shown'[q] : l \in shown[q] \/ l = event[q].line
      BY <2>3 DEF Callback, TypeOK
    <3> QED
      BY <1>1, <1>3, <1>5, <3>1, <3>2
  <2>4. ASSUME NEW command, NEW label, NEW a, NEW s, label # "callback", Begin(q, command, label, a, s)
        PROVE  QueueAt(q)'
    BY <1>5, <1>6, <2>4 DEF Begin, Goto, TypeOK, queueVars, listenerVars
  <2>5. CASE AddDatapath(q) \/ DeleteDatapath(q) \/ ListDatapaths(q) \/ AddVport(q)
             \/ DeleteVportCmd(q) \/ ListVports(q) \/ ListenForVports(q)
    BY <2>4, <2>5 DEF AddDatapath, DeleteDatapath, ListDatapaths, AddVport, DeleteVportCmd,
       ListVports, ListenForVports
  <2>6. CASE CreateDatapath(q) \/ Delete(q) \/ CreateVport(q) \/ DeleteVport(q)
    <3>1. UNCHANGED listenerVars /\ pc'[q] = "done"
      BY <2>6 DEF CreateDatapath, Delete, CreateVport, DeleteVport, Return, Goto, TypeOK
    <3>2. (\A k \in 1 .. Len(events[q]) : Old(events[q][k].line))'
      BY <1>5, <2>6, KernelSelf, Announced DEF queueVars
    <3> QED
      BY <1>6, <3>1, <3>2 DEF listenerVars
  <2>7. CASE RequestFails(q) \/ LookupDatapath(q) \/ LookupDatapathByID(q) \/ LookupVportByName(q)
             \/ Dump(q) \/ Listen(q) \/ ReceiveFails(q)
    <3>1. UNCHANGED <<events, event, shown>>
      BY <2>7, DumpSteps DEF RequestFails, LookupDatapath, LookupDatapathByID, LookupVportByName,
         Listen, ReceiveFails, queueVars, listenerVars
    <3>2. pc'[q] # "callback"
      BY <2>7, DumpEnds DEF RequestFails, LookupDatapath, LookupDatapathByID, LookupVportByName,
         Listen, ReceiveFails, Continue, NotFound, Return, Goto, TypeOK
    <3> QED
      BY <1>5, <1>6, <3>1, <3>2
  <2> QED
    BY <1>8, <2>1, <2>2, <2>3, <2>5, <2>6, <2>7 DEF Self, Command, Listener, Dump
<1> QED
  BY <1>7, <1>8, Steps

\* What a step of the kernel is to a member of the group and a line of a datapath there is.
Report(q, l) ==
    \/ events'[q] = events[q] /\ l[1] \in dps /\ (l \in Present' <=> l \in Present)
    \/ events'[q] = events[q] /\ ~Old(l) /\ (l \in Present' => l[2].born = 0)
    \/ \E e \in Events :
         /\ events'[q] = Append(events[q], e) /\ l[1] \in dps
         /\ \/ e.line # l /\ (l \in Present' <=> l \in Present)
            \/ e.line = l /\ e.cmd = "new" /\ ~Old(l) /\ l \in Present'
            \/ e.line = l /\ e.cmd = "del" /\ l \notin Present'
            \/ e.line = l /\ e.cmd # "del" /\ l \in Present /\ l \in Present'

LEMMA Reported ==
    ASSUME TypeOK, KernelInv, KernelStep, NEW q \in Procs, pc[q] \in {"wait", "callback"}, ~overrun'[q],
           NEW l \in Lines, l[1] \in dps'
    PROVE  ~overrun[q] /\ Report(q, l)
<1>1. KernelType /\ dps \subseteq Ifs
  BY TypeParts, DpsAreIfs
<1>2. ASSUME NEW cmd \in {"new", "del", "set"}, NEW x \in Lines, Notify(cmd, x)
      PROVE  ~overrun[q] /\ \E e \in Events : events'[q] = Append(events[q], e) /\ e.cmd = cmd /\ e.line = x
  <2> DEFINE e == [cmd |-> cmd, line |-> x]
  <2>1. e \in Events /\ e.cmd = cmd /\ e.line = x
    BY DEF Events
  <2>2. ~overrun[q] /\ events'[q] = Append(events[q], e)
    BY <1>2, Notified
  <2> HIDE DEF e
  <2> QED
    BY <2>1, <2>2
<1>3. ASSUME NEW name \in Names, KernelNewDp(name), UNCHANGED queueVars PROVE ~overrun[q] /\ Report(q, l)
  <2> DEFINE v == [name |-> name, known |-> TRUE, born |-> 0]
  <2> DEFINE i == created + 1
  <2>1. i \in Ifs \ dps /\ dps' = dps \cup {i} /\ vports' = [vports EXCEPT ![i][Local] = v]
    BY <1>1, <1>3 DEF KernelNewDp, KernelType, Ifs
  <2>2. v.born = 0 /\ created < i
    BY <1>1 DEF KernelType
  <2>3. events'[q] = events[q] /\ ~overrun[q]
    BY <1>3 DEF queueVars
  <2> HIDE DEF v, i
  <2>4. CASE l[1] = i
    <3>1. ~Old(l)
      BY <1>1, <2>1, <2>2, <2>4 DEF Old, KernelType, Ifs
    <3>2. \A n \in Ports : vports'[i][n] # NoVport => vports'[i][n].born = 0
      BY <1>1, <2>1, <2>2 DEF KernelType, KernelInv
    <3>3. l \in Present' => l[2].born = 0
      BY <2>4, <3>2, PresentIff
    <3> QED
      BY <2>3, <3>1, <3>3 DEF Report
  <2>5. CASE l[1] # i
    <3>1. \A j \in dps : j # i /\ vports'[j] = vports[j]
      BY <1>1, <2>1 DEF KernelType
    <3>2. l \in Present' <=> l \in Present
      BY <2>1, <2>5, <3>1, PresentIff
    <3> QED
      BY <2>1, <2>3, <2>5, <3>2 DEF Report
  <2> QED
    BY <2>4, <2>5
<1>4. ASSUME NEW i \in dps, KernelDelDp(i), UNCHANGED queueVars PROVE ~overrun[q] /\ Report(q, l)
  <2>1. dps' = dps \ {i} /\ \A j \in dps' : vports'[j] = vports[j]
    BY <1>1, <1>4 DEF KernelDelDp, KernelType
  <2>2. l \in Present' <=> l \in Present
    BY <2>1, PresentIff
  <2> QED
    BY <1>4, <2>1, <2>2 DEF Report, queueVars
<1>5. ASSUME NEW i \in dps, NEW name \in Names, NEW known \in BOOLEAN, KernelNewVport(i, name, known),
             UNCHANGED <<dpVars, must>>
      PROVE  ~overrun[q] /\ Report(q, l)
  <2> DEFINE v == [name |-> name, known |-> known, born |-> born + 1]
  <2>1. PICK n \in Ports :
          /\ vports[i][n] = NoVport /\ vports' = [vports EXCEPT ![i][n] = v] /\ born < MaxBorn
          /\ Notify("new", <<i, v>>)
    BY <1>5 DEF KernelNewVport
  <2>2. v \in Vports /\ v.born = born + 1 /\ v # NoVport
    BY <1>1, <2>1, NewVportType, VportsAssumption
  <2> HIDE DEF v
  <2>3. i \in Ifs /\ dps' = dps
    BY <1>1, <1>5 DEF dpVars
  <2>4. \A j \in Ifs, m \in Ports : vports'[j][m] = IF j = i /\ m = n THEN v ELSE vports[j][m]
    BY <1>1, <2>1, <2>3 DEF KernelType
  <2>5. <<i, v>> \in Lines
    BY <2>2, <2>3 DEF Lines
  <2>6. PICK e \in Events : ~overrun[q] /\ events'[q] = Append(events[q], e) /\ e.cmd = "new" /\ e.line = <<i, v>>
    BY <1>2, <2>1, <2>5
  <2>7. CASE l = <<i, v>>
    <3>1. l \in Present'
      BY <2>2, <2>3, <2>4, <2>7, PresentIff
    <3>2. ~Old(l)
      BY <1>1, <2>2, <2>7 DEF Old, KernelType
    <3> QED
      BY <2>3, <2>6, <2>7, <3>1, <3>2 DEF Report
  <2>8. CASE l # <<i, v>>
    <3>1. l \in Present' <=> l \in Present
      BY <1>1, <2>1, <2>2, <2>3, <2>4, <2>8, PresentIff
    <3> QED
      BY <2>3, <2>6, <2>8, <3>1 DEF Report
  <2> QED
    BY <2>7, <2>8
<1>6. ASSUME NEW i \in dps, NEW n \in Ports, KernelDelVport(i, n), UNCHANGED <<dpVars, born>>
      PROVE  ~overrun[q] /\ Report(q, l)
  <2> DEFINE v == vports[i][n]
  <2>1. v # NoVport /\ Notify("del", <<i, v>>) /\ dps' = dps
    BY <1>6 DEF KernelDelVport, CanDelete, dpVars
  <2>2. \A j \in Ifs, m \in Ports : vports'[j][m] = IF j = i /\ m = n THEN NoVport ELSE vports[j][m]
    BY <1>1, <1>6 DEF KernelType, KernelDelVport
  <2>3. i \in Ifs /\ v \in Vports
    BY <1>1, <2>1 DEF KernelType
  <2>4. <<i, v>> \in Lines
    BY <2>3 DEF Lines
  <2>5. \A m \in Ports : vports[i][m] = v => m = n
    BY <2>1 DEF KernelInv
  <2>6. PICK e \in Events : ~overrun[q] /\ events'[q] = Append(events[q], e) /\ e.cmd = "del" /\ e.line = <<i, v>>
    BY <1>2, <2>1, <2>4
  <2> HIDE DEF v
  <2>7. CASE l = <<i, v>>
    <3>1. l \notin Present'
      BY <1>1, <2>1, <2>2, <2>5, <2>7, PresentIff
    <3> QED
      BY <2>1, <2>6, <2>7, <3>1 DEF Report
  <2>8. CASE l # <<i, v>>
    <3>1. \A j \in dps, m \in Ports :
            (vports'[j][m] # NoVport /\ l = <<j, vports'[j][m]>>) <=> (vports[j][m] # NoVport /\ l = <<j, vports[j][m]>>)
      BY <1>1, <2>2, <2>8 DEF v
    <3>2. l \in Present' <=> l \in Present
      BY <2>1, <3>1, PresentIff
    <3> QED
      BY <2>1, <2>6, <2>8, <3>2 DEF Report
  <2> QED
    BY <2>7, <2>8
<1>7. ASSUME NEW x \in Present, Notify(SetCmd, x), UNCHANGED <<kernelVars, must>>
      PROVE  ~overrun[q] /\ Report(q, l)
  <2>1. Present' = Present /\ dps' = dps /\ x \in Lines
    BY <1>1, <1>7, SamePresent, PresentLines DEF kernelVars, dpVars
  <2>2. PICK e \in Events : ~overrun[q] /\ events'[q] = Append(events[q], e) /\ e.cmd = SetCmd /\ e.line = x
    BY <1>2, <1>7, <2>1
  <2> QED
    BY <2>1, <2>2 DEF Report
<1> QED
  BY <1>3, <1>4, <1>5, <1>6, <1>7 DEF KernelStep

LEMMA MirrorStep ==
    ASSUME TypeOK, KernelInv, PlaceInv, QueueInv, MirrorInv, [Next]_vars
    PROVE  MirrorInv'
<1> SUFFICES ASSUME NEW q \in Procs, pc'[q] \in {"wait", "callback"}, ~overrun'[q],
                    NEW l \in Lines, l[1] \in dps', l \notin missed'[q]
             PROVE  Followed(q, l)'
  BY DEF MirrorInv
<1>1. /\ PlaceAt(q) /\ op[q] \in Commands /\ events[q] \in Seq(Events)
      /\ KernelType /\ l[2].born \in Nat /\ heardFrom[q] \in Nat
  <2>1. PlaceAt(q) /\ KernelType
    BY TypeParts DEF PlaceInv
  <2>2. op[q] \in Commands /\ events[q] \in Seq(Events) /\ heardFrom[q] \in Nat
    BY DEF TypeOK
  <2>3. l[2].born \in Nat
    BY DEF Lines, Vports
  <2> QED
    BY <2>1, <2>2, <2>3
<1>2. ASSUME pc[q] \in {"wait", "callback"}, ~overrun[q], l[1] \in dps, l \notin missed[q]
      PROVE  Followed(q, l)
  BY <1>2 DEF MirrorInv
\* A line that is not old has not been heard of.
<1>3. ASSUME ~Old(l)
      PROVE  /\ l \notin shown[q] /\ \A cmd : ~Queued(events[q], cmd, l) /\ ~InHand(q, cmd, l)
             /\ NewThenDel(events[q], l)
  BY <1>3 DEF QueueInv, Queued, InHand, NewThenDel
<1>4. CASE Still(q) /\ Quiet(q)
  <2>1. Present' = Present /\ dps' = dps
    BY <1>4, SamePresent DEF Quiet, kernelVars, dpVars
  <2>2. Followed(q, l)
    BY <1>2, <1>4, <2>1 DEF Still, Quiet
  <2> QED
    BY <1>4, <2>1, <2>2 DEF Still, Quiet, Followed, Pending, InHand
<1>5. CASE Still(q) /\ KernelStep
  <2>1. /\ pc'[q] = pc[q] /\ event'[q] = event[q] /\ shown'[q] = shown[q] /\ heardFrom'[q] = heardFrom[q]
        /\ l \notin missed[q] /\ \A cmd : InHand(q, cmd, l)' <=> InHand(q, cmd, l)
    BY <1>5 DEF Still, InHand
  <2>2. ~overrun[q] /\ Report(q, l)
    BY <1>5, <2>1, Reported
  <2>3. l[1] \in dps => Followed(q, l)
    BY <1>2, <2>1, <2>2
  <2>4. CASE events'[q] = events[q] /\ l[1] \in dps /\ (l \in Present' <=> l \in Present)
    BY <2>1, <2>3, <2>4 DEF Followed, Pending
  <2>5. CASE events'[q] = events[q] /\ ~Old(l) /\ (l \in Present' => l[2].born = 0)
    BY <1>1, <1>3, <2>1, <2>5 DEF Followed, Pending
  <2>6. ASSUME NEW e \in Events, events'[q] = Append(events[q], e), l[1] \in dps,
               \/ e.line # l /\ (l \in Present' <=> l \in Present)
               \/ e.line = l /\ e.cmd = "new" /\ ~Old(l) /\ l \in Present'
               \/ e.line = l /\ e.cmd = "del" /\ l \notin Present'
               \/ e.line = l /\ e.cmd # "del" /\ l \in Present /\ l \in Present'
        PROVE  Followed(q, l)'
    <3>1. \A cmd : Queued(events'[q], cmd, l) <=> Queued(events[q], cmd, l) \/ (e.cmd = cmd /\ e.line = l)
      BY <1>1, <2>6, AppendQueued
    <3>2. /\ (e.cmd = "del" /\ e.line = l) => NewThenDel(events'[q], l)
          /\ (e.line # l /\ NewThenDel(events[q], l)) => NewThenDel(events'[q], l)
      <4>1. /\ (e.cmd = "del" /\ e.line = l) => NewThenDel(Append(events[q], e), l)
            /\ (e.line # l /\ NewThenDel(events[q], l)) => NewThenDel(Append(events[q], e), l)
        BY <1>1, AppendQueued, Zenon
      <4> QED
        BY <2>6, <4>1
    <3>3. CASE e.line # l /\ (l \in Present' <=> l \in Present)
      BY <2>1, <2>3, <2>6, <3>1, <3>2, <3>3 DEF Followed, Pending
    <3>4. CASE e.line = l /\ e.cmd = "new" /\ ~Old(l) /\ l \in Present'
      BY <1>3, <2>1, <3>1, <3>4 DEF Followed, Pending
    <3>5. CASE e.line = l /\ e.cmd = "del" /\ l \notin Present'
      BY <2>1, <3>1, <3>2, <3>5 DEF Followed, Pending
    <3>6. CASE e.line = l /\ e.cmd # "del" /\ l \in Present /\ l \in Present'
      BY <2>1, <2>3, <2>6, <3>1, <3>6 DEF Followed, Pending
    <3> QED
      BY <2>6, <3>3, <3>4, <3>5, <3>6
  <2> QED
    BY <2>2, <2>4, <2>5, <2>6 DEF Report
<1>6. CASE Self(q)
  <2>1. CASE Listen(q)
    <3>1. /\ pc'[q] = "wait" /\ heardFrom'[q] = born /\ shown'[q] = {} /\ events'[q] = <<>>
          /\ Present' = Present
      BY <1>1, <2>1, SamePresent DEF Listen, Goto, PlaceAt, TypeOK, queueVars
    <3>2. l \in Present => ~(l[2].born > born)
      BY <1>1, PresentOld DEF Old, KernelType
    <3>3. (\A cmd : ~Queued(events'[q], cmd, l)) /\ NewThenDel(events'[q], l)
      BY <3>1, EmptySeq DEF Queued, NewThenDel
    <3> QED
      BY <3>1, <3>2, <3>3 DEF Followed, Pending, InHand
  <2>2. CASE ReceiveEvent(q)
    <3> DEFINE e == Head(events[q])
    <3>1. /\ events[q] # <<>> /\ events'[q] = Tail(events[q]) /\ pc[q] = "wait" /\ shown' = shown
          /\ heardFrom' = heardFrom /\ missed' = missed /\ overrun' = overrun
          /\ IF e.line[2].known /\ e.cmd \in {"new", "del"}
               THEN pc'[q] = "callback" /\ event'[q] = e ELSE pc' = pc
      BY <2>2 DEF ReceiveEvent, Goto, TypeOK
    <3>2. Present' = Present /\ dps' = dps
      BY <2>2, SamePresent DEF ReceiveEvent, kernelVars, dpVars
    <3>3. Followed(q, l)
      BY <1>2, <3>1, <3>2
    <3>4. /\ \A cmd : Queued(events[q], cmd, l) <=> Queued(events'[q], cmd, l) \/ (e.cmd = cmd /\ e.line = l)
          /\ NewThenDel(events[q], l) => NewThenDel(events'[q], l)
          /\ (NewThenDel(events[q], l) /\ e.cmd = "new" /\ e.line = l) => Queued(events'[q], "del", l)
      <4> DEFINE s == Tail(events[q])
      <4>1. /\ \A cmd : Queued(events[q], cmd, l) <=> Queued(s, cmd, l) \/ (e.cmd = cmd /\ e.line = l)
            /\ NewThenDel(events[q], l) => NewThenDel(s, l)
            /\ (NewThenDel(events[q], l) /\ e.cmd = "new" /\ e.line = l) => Queued(s, "del", l)
        BY <1>1, <3>1, TailQueued, Zenon
      <4>2. events'[q] = s
        BY <3>1
      <4> HIDE DEF s, e
      <4> QED
        BY <4>1, <4>2
    <3>5. l \in shown[q] => l[2].known
      BY DEF QueueInv
    <3> HIDE DEF e
    <3>6. \A cmd : ~InHand(q, cmd, l)
      BY <3>1 DEF InHand
    <3>7. \A cmd \in {"new", "del"} :
            (e.line[2].known => (InHand(q, cmd, l)' <=> e.cmd = cmd /\ e.line = l))
            /\ (InHand(q, cmd, l)' => e.cmd = cmd /\ e.line = l)
      BY <3>1 DEF InHand
    <3>8. CASE l \in Present
      BY <3>1, <3>2, <3>3, <3>4, <3>6, <3>7, <3>8 DEF Followed, Pending
    <3>9. CASE l \notin Present
      BY <3>1, <3>2, <3>3, <3>4, <3>5, <3>6, <3>7, <3>9 DEF Followed, Pending
    <3> QED
      BY <3>8, <3>9
  <2>3. CASE Callback(q)
    <3> DEFINE e == event[q]
    <3>1. /\ pc[q] = "callback" /\ pc'[q] = "wait" /\ events' = events /\ overrun' = overrun
          /\ heardFrom' = heardFrom /\ e.cmd \in {"new", "del"}
      BY <1>1, <2>3 DEF Callback, Goto, TypeOK, queueVars, PlaceAt
    <3>2. Present' = Present /\ dps' = dps
      BY <2>3, SamePresent DEF Callback, kernelVars, dpVars
    <3>3. /\ l # e.line => (l \in shown'[q] <=> l \in shown[q])
          /\ l = e.line => (l \in shown'[q] <=> e.cmd = "new")
          /\ l \notin missed[q]
      <4>1. \/ shown' = [shown EXCEPT ![q] = IF e.line[1] \notin dps THEN @
                           ELSE IF e.cmd = "new" THEN @ \cup {e.line} ELSE @ \ {e.line}]
               /\ missed' = missed
            \/ missed' = [missed EXCEPT ![q] = @ \cup {e.line}] /\ shown' = shown
        BY <2>3 DEF Callback
      <4> HIDE DEF e
      <4> QED
        BY <3>2, <4>1 DEF TypeOK
    <3>4. Followed(q, l)
      BY <1>2, <3>1, <3>2, <3>3
    <3> HIDE DEF e
    <3>5. \A cmd : (InHand(q, cmd, l) <=> e.cmd = cmd /\ e.line = l) /\ ~InHand(q, cmd, l)'
      BY <3>1 DEF InHand, e
    <3> QED
      BY <3>1, <3>2, <3>3, <3>4, <3>5 DEF Followed, Pending
  <2>4. ASSUME NEW command, NEW label, NEW a, NEW s, label \notin {"wait", "callback"},
               Begin(q, command, label, a, s)
        PROVE  FALSE
    BY <2>4 DEF Begin, Goto, TypeOK
  <2>5. ~(AddDatapath(q) \/ DeleteDatapath(q) \/ ListDatapaths(q) \/ AddVport(q)
          \/ DeleteVportCmd(q) \/ ListVports(q) \/ ListenForVports(q))
    BY <2>4 DEF AddDatapath, DeleteDatapath, ListDatapaths, AddVport, DeleteVportCmd,
       ListVports, ListenForVports
  <2>6. ~(Exit(q) \/ CreateDatapath(q) \/ Delete(q) \/ CreateVport(q) \/ DeleteVport(q)
          \/ RequestFails(q) \/ ReceiveFails(q))
    BY ZenonT(30) DEF Exit, CreateDatapath, Delete, CreateVport, DeleteVport, RequestFails, ReceiveFails,
       Return, Goto, TypeOK
  <2>7. ~(LookupDatapath(q) \/ LookupDatapathByID(q) \/ LookupVportByName(q) \/ Dump(q))
    <3>1. ~Dump(q)
      BY DumpEnds
    <3> QED
      BY <3>1, SMTT(30) DEF LookupDatapath, LookupDatapathByID, LookupVportByName, Continue,
         NotFound, Return, Goto, TypeOK
  <2> QED
    BY <1>6, <2>1, <2>2, <2>3, <2>5, <2>6, <2>7 DEF Self, Command, Listener, Dump
<1> QED
  BY <1>4, <1>5, <1>6, Steps

-----------------------------------------------------------------------------
(* The theorems.                                                           *)

LEMMA InitInv == Init => IndInv
<1> SUFFICES ASSUME Init PROVE IndInv
  OBVIOUS
<1>1. TypeOK
  <2>1. KernelType
    BY DEF Init, KernelType
  <2>2. CommandType
    BY DEF Init, CommandType, Commands, Labels, Ports
  <2>3. events = [p \in Procs |-> <<>>] /\ <<>> \in Seq(Events) /\ Len(<<>>) = 0
    BY EmptySeq DEF Init
  <2>4. ListenerType
    BY <2>3 DEF Init, ListenerType
  <2> QED
    BY <2>1, <2>2, <2>4, TypeParts
<1>2. KernelInv /\ Present = {}
  BY DEF Init, KernelInv, Present
<1>3. PlaceInv
  BY PlacesOf DEF Init, PlaceInv, PlaceAt
<1>4. MeantInv /\ DatapathMeant /\ NamedInv /\ DeletesNamed /\ ListInv
  BY DEF Init, MeantInv, DatapathMeant, NamedInv, DeletesNamed, ListInv
<1>5. QueueInv /\ MirrorInv
  BY EmptySeq DEF Init, QueueInv, MirrorInv
<1> QED
  BY <1>1, <1>2, <1>3, <1>4, <1>5 DEF IndInv

\* IndInv is an inductive invariant: it holds at first and every step of a command, of the
\* listener and of another program keeps it.
THEOREM Invariance == Spec => []IndInv
<1>1. IndInv /\ [Next]_vars => IndInv'
  BY TypeStep, PlaceStep, MeantStep, NamedStep, ListStep, QueueStep, MirrorStep DEF IndInv
<1> QED
  BY InitInv, <1>1, PTL DEF Spec

\* Type correctness: among others, that no command holds an ifindex the kernel has not
\* given out, and that a listener's queue stays within its socket's buffer.
THEOREM TypeCorrectness == Spec => []TypeOK
<1>1. IndInv => TypeOK
  BY DEF IndInv
<1> QED
  BY Invariance, <1>1, PTL

\* lookupDatapath: a name is taken for an id only if no datapath of that name has been
\* there since the command began.
THEOREM ArgumentMeansDatapath == Spec => []DatapathMeant
<1>1. IndInv => DatapathMeant
  BY DEF IndInv
<1> QED
  BY Invariance, <1>1, PTL

\* deleteVport: between LookupVportByName and DeleteVport the number can be given to
\* another vport, but success still means that the vport of that name has gone.
THEOREM DeletesWhatWasNamed == Spec => []DeletesNamed
<1>1. IndInv => DeletesNamed
  BY DEF IndInv
<1> QED
  BY Invariance, <1>1, PTL

\* listVports and listDatapaths: what was there all the time is printed, whatever other
\* programs add and delete between the requests for one datapath and the next and between
\* the messages of a dump, unless what a dump reports changes while it is in progress.
THEOREM ListsAreComplete == Spec => []ListComplete
<1>1. IndInv => ListComplete
  <2> SUFFICES ASSUME IndInv, NEW p \in Procs, ok[p]
               PROVE  /\ op[p] = "listVports" =>
                            \A l \in must[p] :
                              dp[p] \in {0, l[1]} /\ torn[p] \cap {0, l[1]} = {} => l \in printed[p]
                      /\ op[p] = "listDatapaths" /\ printed[p] # {} /\ 0 \notin torn[p] =>
                            {l \in must[p] : l[2].born = 0} \subseteq printed[p]
    BY DEF ListComplete
  <2>1. pc[p] \notin {"print", "printing"}
    BY DEF IndInv, PlaceInv, PlaceAt
  <2> QED
    BY <2>1 DEF IndInv, ListInv, Covered
<1> QED
  BY Invariance, <1>1, PTL

\* listenForVports: when every event has been handled the lines printed are the vports
\* there are, for a queue of any size and any interleaving with the changes announced.
THEOREM ListenerMirrors == Spec => []Mirror
<1>1. IndInv => Mirror
  <2> SUFFICES ASSUME IndInv, NEW p \in Procs, pc[p] = "wait", events[p] = <<>>, ~overrun[p],
                      NEW l \in shown[p] \cup Present, l[1] \in dps, l \notin missed[p]
               PROVE  /\ l \in shown[p] => l \in Present
                      /\ (l \in Present /\ l[2].known /\ l[2].born > heardFrom[p]) => l \in shown[p]
    BY DEF Mirror
  <2>1. l \in Lines
    BY TypeParts, PresentLines DEF IndInv, TypeOK
  <2>2. Followed(p, l)
    BY <2>1 DEF IndInv, MirrorInv
  <2>3. \A cmd : ~Pending(p, cmd, l)
    BY EmptySeq DEF Pending, InHand, Queued
  <2> QED
    BY <2>2, <2>3 DEF Followed
<1> QED
  BY Invariance, <1>1, PTL
=============================================================================
