------------------------------ MODULE Datapaths ------------------------------
(***************************************************************************)
(* The datapath and vport commands of the odp tool (tool/odp/main.go) and  *)
(* the library operations they consist of (odp/datapath.go, odp/vport.go), *)
(* run by several tool processes at once. Every command is a sequence of   *)
(* netlink requests: it looks a datapath or a vport up, and acts on the    *)
(* number it was given in a later request; `vport listen` reads a socket   *)
(* that is subscribed to vport events, and makes a request for each.       *)
(*                                                                         *)
(* The kernel is external: a datapath has an ifindex, which is not used    *)
(* again, and a local vport, number 0, of its own name; vport numbers are  *)
(* given out lowest first and used again; names are unique among vports;   *)
(* adding and deleting a vport is announced to the ovs_vport group,        *)
(* deleting a datapath with its vports is not. It answers a dump message by *)
(* message, as the receiver asks for them, and what changes meanwhile may  *)
(* make it pass over entries or give them twice; it says so with the flag  *)
(* NLM_F_DUMP_INTR, which the library does not look at.                    *)
(***************************************************************************)
EXTENDS Integers, Sequences, FiniteSets

CONSTANTS
    Procs,     \* processes that run a command of the tool
    Names,     \* names of datapaths and vports
    IdOf,      \* strconv.ParseUint of a name, 0 where it is not a number
    MaxIf,     \* bound: datapaths created
    MaxPort,   \* bound: vport numbers 0 .. MaxPort
    MaxBorn,   \* bound: vports created
    RcvBuf,    \* bound: notifications a listener's socket has room for
    SetCmd,    \* command of the notification of a SET: "new" before Linux 4.19, "set" since
    MaxFaults, \* bound: requests that fail for a reason of their own
    NoVport,   \* no vport
    NoName     \* an argument that a command does not have

ASSUME BoundsAssumption ==
    MaxIf \in Nat /\ MaxPort \in Nat /\ MaxBorn \in Nat /\ RcvBuf \in Nat /\ MaxFaults \in Nat
ASSUME NamesAssumption == IdOf \in [Names -> Nat] /\ NoName \notin Names
ASSUME SetCmdAssumption == SetCmd \in {"new", "set"}

VARIABLES
    \* kernel
    created,   \* how many datapaths were created: ifindexes 1 .. created were given out
    dps,       \* ifindexes of the datapaths there are
    nameOf,    \* the name a datapath was created with
    vports,    \* the vports of a datapath by number
    born,      \* how many vports were created
    \* commands
    op,        \* the command a process runs
    pc,        \* the request it makes next
    arg,       \* its datapath argument (the vport's name for `vport delete`)
    spec,      \* the name in its VportSpec
    dp,        \* the ifindex it found, 0 when it has none
    port,      \* the vport number it found
    todo,      \* the datapaths listVports has not printed yet
    at,        \* the datapath whose vports it is dumping, 0 for the dump of datapaths
    found,     \* what the dump in progress has reported
    printed,   \* the lines it printed: a datapath with one of its vports
    ok,        \* what the command returned
    \* `vport listen`
    events,    \* its socket's queue
    overrun,   \* history: a notification was dropped for want of room
    event,     \* the event its callback is handling
    shown,     \* what the lines printed so far add up to
    \* history
    start,     \* created, when a command that looks a datapath up began
    must,      \* the vports there have been since a command that lists them began
    torn,      \* the dumps of the command during which the kernel changed what they report
    named,     \* the vport LookupVportByName found
    deleted,   \* the vport DeleteVport made the kernel delete
    heardFrom, \* born, when it subscribed
    missed,    \* the vports whose event met a failing request
    faults     \* see MaxFaults

dpVars == <<created, dps, nameOf>>
kernelVars == <<dpVars, vports, born>>
dumpVars == <<at, found>>
foundVars == <<dp, port, todo, dumpVars, printed, named, deleted>>
commandVars == <<op, pc, arg, spec, ok, start, must, torn, foundVars>>
queueVars == <<events, overrun>>
listenerVars == <<event, shown, heardFrom, missed>>
vars == <<kernelVars, commandVars, queueVars, listenerVars, faults>>

Ifs == 1 .. MaxIf
Ports == 0 .. MaxPort
Local == 0      \* OVSP_LOCAL
Vports == [name : Names, known : BOOLEAN, born : 0 .. MaxBorn]
ASSUME VportsAssumption == NoVport \notin Vports
Lines == Ifs \X Vports
NoLine == <<>>
NoEvent == <<>>
Events == [cmd : {"new", "del", "set"}, line : Lines]
Commands == {"none", "addDatapath", "deleteDatapath", "listDatapaths",
             "addVport", "deleteVport", "listVports", "listenForVports"}
Labels == {"idle", "create", "lookup", "lookupByID", "delete", "createVport",
           "lookupVport", "deleteVport", "enumerate", "enumerating", "print", "printing", "listen", "wait", "callback", "done"}

TypeOK ==
    /\ created \in 0 .. MaxIf /\ dps \in SUBSET (1 .. created)
    /\ nameOf \in [Ifs -> Names \cup {NoName}]
    /\ vports \in [Ifs -> [Ports -> Vports \cup {NoVport}]]
    /\ born \in 0 .. MaxBorn
    /\ op \in [Procs -> Commands] /\ pc \in [Procs -> Labels]
    /\ arg \in [Procs -> Names \cup {NoName}] /\ spec \in [Procs -> Names \cup {NoName}]
    /\ dp \in [Procs -> 0 .. created] /\ port \in [Procs -> Ports]
    /\ todo \in [Procs -> SUBSET Ifs] /\ printed \in [Procs -> SUBSET Lines]
    /\ at \in [Procs -> 0 .. created] /\ found \in [Procs -> SUBSET Lines]
    /\ torn \in [Procs -> SUBSET (0 .. MaxIf)]
    /\ ok \in [Procs -> BOOLEAN]
    /\ events \in [Procs -> Seq(Events)] /\ \A p \in Procs : Len(events[p]) <= RcvBuf
    /\ overrun \in [Procs -> BOOLEAN]
    /\ event \in [Procs -> Events \cup {NoEvent}] /\ shown \in [Procs -> SUBSET Lines]
    /\ start \in [Procs -> 0 .. MaxIf] /\ must \in [Procs -> SUBSET Lines]
    /\ named \in [Procs -> Lines \cup {NoLine}] /\ deleted \in [Procs -> Lines \cup {NoLine}]
    /\ heardFrom \in [Procs -> 0 .. MaxBorn] /\ missed \in [Procs -> SUBSET Lines]
    /\ faults \in 0 .. MaxFaults

Init ==
    /\ created = 0 /\ dps = {} /\ nameOf = [i \in Ifs |-> NoName]
    /\ vports = [i \in Ifs |-> [n \in Ports |-> NoVport]] /\ born = 0
    /\ op = [p \in Procs |-> "none"] /\ pc = [p \in Procs |-> "idle"]
    /\ arg = [p \in Procs |-> NoName] /\ spec = [p \in Procs |-> NoName]
    /\ dp = [p \in Procs |-> 0] /\ port = [p \in Procs |-> 0]
    /\ todo = [p \in Procs |-> {}] /\ printed = [p \in Procs |-> {}]
    /\ at = [p \in Procs |-> 0] /\ found = [p \in Procs |-> {}] /\ torn = [p \in Procs |-> {}]
    /\ ok = [p \in Procs |-> FALSE]
    /\ events = [p \in Procs |-> <<>>] /\ overrun = [p \in Procs |-> FALSE]
    /\ event = [p \in Procs |-> NoEvent] /\ shown = [p \in Procs |-> {}]
    /\ start = [p \in Procs |-> 0] /\ must = [p \in Procs |-> {}]
    /\ named = [p \in Procs |-> NoLine] /\ deleted = [p \in Procs |-> NoLine]
    /\ heardFrom = [p \in Procs |-> 0] /\ missed = [p \in Procs |-> {}] /\ faults = 0

-----------------------------------------------------------------------------
(* The kernel.                                                             *)

\* The vports of datapath i, and all there are.
VportsOf(i) == {<<i, vports[i][n]>> : n \in {m \in Ports : vports[i][m] # NoVport}}
Present == UNION {VportsOf(i) : i \in dps}
Taken(name) == \E l \in Present : l[2].name = name

\* Announce a vport to the members of the ovs_vport group. With NETLINK_NO_ENOBUFS
\* a notification that finds no room is dropped without an error.
Members == {p \in Procs : pc[p] \in {"wait", "callback"}}
Notify(cmd, line) ==
    /\ events' = [p \in Procs |->
         IF p \in Members /\ Len(events[p]) < RcvBuf
           THEN Append(events[p], [cmd |-> cmd, line |-> line]) ELSE events[p]]
    /\ overrun' = [p \in Procs |->
         overrun[p] \/ (p \in Members /\ Len(events[p]) >= RcvBuf)]

\* What a dump of the datapaths reports; a datapath is shown as its local vport.
DatapathLines == {<<i, vports[i][Local]>> : i \in dps}

\* A change of the vports of datapath i, or of the datapaths (0), while they are dumped.
Dumping(q, i) == at[q] = i /\ pc[q] = IF i = 0 THEN "enumerating" ELSE "printing"
Tear(i) == torn' = [q \in Procs |-> IF Dumping(q, i) THEN torn[q] \cup {i} ELSE torn[q]]

\* OVS_DP_CMD_NEW, with the local vport.
KernelNewDp(name) ==
    LET i == created + 1 IN
    /\ ~Taken(name) /\ created < MaxIf
    /\ created' = i /\ dps' = dps \cup {i} /\ nameOf' = [nameOf EXCEPT ![i] = name]
    /\ vports' = [vports EXCEPT ![i][Local] = [name |-> name, known |-> TRUE, born |-> 0]]
    /\ Tear(0)

\* OVS_DP_CMD_DEL, with its vports.
KernelDelDp(i) ==
    /\ dps' = dps \ {i}
    /\ vports' = [vports EXCEPT ![i] = [n \in Ports |-> NoVport]]
    /\ must' = [q \in Procs |-> must[q] \ VportsOf(i)]
    /\ Tear(0)

\* OVS_VPORT_CMD_NEW takes the lowest free number.
KernelNewVport(i, name, known) ==
    \E n \in Ports \ {Local} :
        LET v == [name |-> name, known |-> known, born |-> born + 1] IN
        /\ i \in dps /\ ~Taken(name) /\ born < MaxBorn
        /\ vports[i][n] = NoVport /\ \A m \in 1 .. n - 1 : vports[i][m] # NoVport
        /\ vports' = [vports EXCEPT ![i][n] = v] /\ born' = born + 1
        /\ Notify("new", <<i, v>>) /\ Tear(i)

\* OVS_VPORT_CMD_DEL; the local vport goes only with its datapath.
CanDelete(i, n) == i \in dps /\ n # Local /\ vports[i][n] # NoVport
KernelDelVport(i, n) ==
    /\ CanDelete(i, n)
    /\ vports' = [vports EXCEPT ![i][n] = NoVport]
    /\ must' = [q \in Procs |-> must[q] \ {<<i, vports[i][n]>>}]
    /\ Notify("del", <<i, vports[i][n]>>) /\ Tear(i)

\* Other programs do the same at any time, and may add vports of a type the library
\* does not know, or change a vport.
OtherAddsDatapath ==
    /\ \E name \in Names : KernelNewDp(name)
    /\ UNCHANGED <<born, op, pc, arg, spec, ok, start, must, foundVars, queueVars, listenerVars, faults>>

OtherDeletesDatapath ==
    /\ \E i \in dps : KernelDelDp(i)
    /\ UNCHANGED <<created, nameOf, born, op, pc, arg, spec, ok, start, foundVars,
                   queueVars, listenerVars, faults>>

OtherAddsVport ==
    /\ \E i \in dps, name \in Names, known \in BOOLEAN : KernelNewVport(i, name, known)
    /\ UNCHANGED <<dpVars, op, pc, arg, spec, ok, start, must, foundVars, listenerVars, faults>>

OtherDeletesVport ==
    /\ \E i \in dps, n \in Ports : KernelDelVport(i, n)
    /\ UNCHANGED <<dpVars, born, op, pc, arg, spec, ok, start, foundVars, listenerVars, faults>>

OtherSetsVport ==
    /\ \E l \in Present : Notify(SetCmd, l)
    /\ UNCHANGED <<kernelVars, commandVars, listenerVars, faults>>

Fault == faults < MaxFaults /\ faults' = faults + 1

\* The outcome of a request the kernel carried out: TRUE, or FALSE when the
\* answer is lost (a socket error, a bad message).
Answered(good) == IF good THEN UNCHANGED faults ELSE Fault

-----------------------------------------------------------------------------
(* The commands. NewDpif and Close are the subject of Dpif.                *)

Goto(p, label) == pc' = [pc EXCEPT ![p] = label]
Return(p, good) == Goto(p, "done") /\ ok' = [ok EXCEPT ![p] = good]

\* A process starts: main, the command's arguments.
Begin(p, command, label, a, s) ==
    /\ pc[p] = "idle"
    /\ op' = [op EXCEPT ![p] = command] /\ Goto(p, label)
    /\ arg' = [arg EXCEPT ![p] = a] /\ spec' = [spec EXCEPT ![p] = s]
    /\ start' = [start EXCEPT ![p] = IF label = "lookup" THEN created ELSE 0]
    /\ must' = [must EXCEPT ![p] = IF command \in {"listDatapaths", "listVports"} THEN Present ELSE {}]
    /\ UNCHANGED <<kernelVars, ok, torn, foundVars, queueVars, listenerVars, faults>>

AddDatapath(p) == \E a \in Names : Begin(p, "addDatapath", "create", a, NoName)
DeleteDatapath(p) == \E a \in Names : Begin(p, "deleteDatapath", "lookup", a, NoName)
ListDatapaths(p) == Begin(p, "listDatapaths", "enumerate", NoName, NoName)
\* addUdpVport returns before any request when the --port is too large.
AddVport(p) ==
    \E a, s \in Names, label \in {"lookup", "done"} : Begin(p, "addVport", label, a, s)
DeleteVportCmd(p) == \E a \in Names : Begin(p, "deleteVport", "lookupVport", a, NoName)
ListenForVports(p) == Begin(p, "listenForVports", "listen", NoName, NoName)
ListVports(p) ==
    \/ Begin(p, "listVports", "enumerate", NoName, NoName)
    \/ \E a \in Names : Begin(p, "listVports", "lookup", a, NoName)

\* os.Exit
Exit(p) ==
    /\ pc[p] = "done"
    /\ op' = [op EXCEPT ![p] = "none"] /\ Goto(p, "idle")
    /\ arg' = [arg EXCEPT ![p] = NoName] /\ spec' = [spec EXCEPT ![p] = NoName]
    /\ ok' = [ok EXCEPT ![p] = FALSE]
    /\ dp' = [dp EXCEPT ![p] = 0] /\ port' = [port EXCEPT ![p] = 0]
    /\ todo' = [todo EXCEPT ![p] = {}] /\ printed' = [printed EXCEPT ![p] = {}]
    /\ at' = [at EXCEPT ![p] = 0] /\ found' = [found EXCEPT ![p] = {}]
    /\ torn' = [torn EXCEPT ![p] = {}]
    /\ named' = [named EXCEPT ![p] = NoLine] /\ deleted' = [deleted EXCEPT ![p] = NoLine]
    /\ start' = [start EXCEPT ![p] = 0] /\ must' = [must EXCEPT ![p] = {}]
    /\ events' = [events EXCEPT ![p] = <<>>] /\ overrun' = [overrun EXCEPT ![p] = FALSE]
    /\ shown' = [shown EXCEPT ![p] = {}] /\ missed' = [missed EXCEPT ![p] = {}]
    /\ heardFrom' = [heardFrom EXCEPT ![p] = 0]
    /\ UNCHANGED <<kernelVars, event, faults>>

\* A request that changes nothing fails: the command prints the error and returns
\* false, except that listDatapaths does not look at the error.
RequestFails(p) ==
    /\ pc[p] \notin {"idle", "wait", "callback", "done"}
    /\ Fault
    /\ Return(p, op[p] = "listDatapaths")
    /\ UNCHANGED <<kernelVars, op, arg, spec, start, must, torn, foundVars, queueVars, listenerVars>>

\* CreateDatapath
CreateDatapath(p) ==
    /\ pc[p] = "create"
    /\ IF Taken(arg[p])
         THEN Return(p, FALSE) /\ UNCHANGED <<dpVars, vports, torn, faults>>
         ELSE \E good \in BOOLEAN : KernelNewDp(arg[p]) /\ Answered(good) /\ Return(p, good)
    /\ UNCHANGED <<born, op, arg, spec, start, must, foundVars, queueVars, listenerVars>>

\* What follows a successful lookupDatapath.
Continue(p, i) ==
    /\ dp' = [dp EXCEPT ![p] = i]
    /\ todo' = [todo EXCEPT ![p] = IF op[p] = "listVports" THEN {i} ELSE {}]
    /\ Goto(p, CASE op[p] = "deleteDatapath" -> "delete"
                 [] op[p] = "addVport" -> "createVport"
                 [] OTHER -> "print")
    /\ UNCHANGED ok

NotFound(p) == Return(p, FALSE) /\ UNCHANGED <<dp, todo>>

\* Mutant: a number is taken for an id before it is tried as a name.
LookupDatapathIdFirst(p) ==
    /\ pc[p] = "lookup"
    /\ \/ IdOf[arg[p]] \in dps /\ Continue(p, IdOf[arg[p]])
       \/ IdOf[arg[p]] \notin dps /\ \E i \in dps : nameOf[i] = arg[p] /\ Continue(p, i)
       \/ IdOf[arg[p]] \notin dps /\ (\A i \in dps : nameOf[i] # arg[p]) /\ NotFound(p)
    /\ UNCHANGED <<kernelVars, op, arg, spec, start, must, torn, port, dumpVars, printed, named, deleted,
                   queueVars, listenerVars, faults>>

\* lookupDatapath: LookupDatapath by name; when there is none of this name and it
\* is a number, LookupDatapathByID.
LookupDatapath(p) ==
    /\ pc[p] = "lookup"
    /\ \/ \E i \in dps : nameOf[i] = arg[p] /\ Continue(p, i)
       \/ /\ \A i \in dps : nameOf[i] # arg[p]
          /\ IF IdOf[arg[p]] # 0 THEN Goto(p, "lookupByID") /\ UNCHANGED <<ok, dp, todo>>
                                 ELSE NotFound(p)
    /\ UNCHANGED <<kernelVars, op, arg, spec, start, must, torn, port, dumpVars, printed, named, deleted,
                   queueVars, listenerVars, faults>>

\* Mutant: the id is used without asking the kernel.
LookupDatapathByIDUnchecked(p) ==
    /\ pc[p] = "lookupByID"
    /\ Continue(p, IdOf[arg[p]])
    /\ UNCHANGED <<kernelVars, op, arg, spec, start, must, torn, port, dumpVars, printed, named, deleted,
                   queueVars, listenerVars, faults>>

LookupDatapathByID(p) ==
    /\ pc[p] = "lookupByID"
    /\ IF IdOf[arg[p]] \in dps THEN Continue(p, IdOf[arg[p]]) ELSE NotFound(p)
    /\ UNCHANGED <<kernelVars, op, arg, spec, start, must, torn, port, dumpVars, printed, named, deleted,
                   queueVars, listenerVars, faults>>

\* DatapathHandle.Delete
Delete(p) ==
    /\ pc[p] = "delete"
    /\ IF dp[p] \notin dps
         THEN Return(p, FALSE) /\ UNCHANGED <<dps, vports, must, torn, faults>>
         ELSE \E good \in BOOLEAN : KernelDelDp(dp[p]) /\ Answered(good) /\ Return(p, good)
    /\ UNCHANGED <<created, nameOf, born, op, arg, spec, start, foundVars, queueVars, listenerVars>>

\* DatapathHandle.CreateVport
CreateVport(p) ==
    /\ pc[p] = "createVport"
    /\ IF dp[p] \notin dps \/ Taken(spec[p])
         THEN Return(p, FALSE) /\ UNCHANGED <<vports, born, torn, queueVars, faults>>
         ELSE \E good \in BOOLEAN :
                KernelNewVport(dp[p], spec[p], TRUE) /\ Answered(good) /\ Return(p, good)
    /\ UNCHANGED <<dpVars, op, arg, spec, start, must, foundVars, listenerVars>>

\* Dpif.LookupVportByName: in any datapath. parseVport fails on a type it does not know.
LookupVportByName(p) ==
    /\ pc[p] = "lookupVport"
    /\ \/ \E i \in dps, n \in Ports :
            LET v == vports[i][n] IN
            /\ v # NoVport /\ v.name = arg[p] /\ v.known
            /\ dp' = [dp EXCEPT ![p] = i] /\ port' = [port EXCEPT ![p] = n]
            /\ named' = [named EXCEPT ![p] = <<i, v>>]
            /\ Goto(p, "deleteVport") /\ UNCHANGED ok
       \/ /\ \A l \in Present : l[2].name = arg[p] => ~l[2].known
          /\ Return(p, FALSE) /\ UNCHANGED <<dp, port, named>>
    /\ UNCHANGED <<kernelVars, op, arg, spec, start, must, torn, todo, dumpVars, printed, deleted,
                   queueVars, listenerVars, faults>>

\* Mutant: the error of the request is not looked at.
DeleteVportErrIgnored(p) ==
    /\ pc[p] = "deleteVport"
    /\ IF ~CanDelete(dp[p], port[p])
         THEN UNCHANGED <<vports, must, torn, deleted, queueVars>>
         ELSE /\ KernelDelVport(dp[p], port[p])
              /\ deleted' = [deleted EXCEPT ![p] = <<dp[p], vports[dp[p]][port[p]]>>]
    /\ Return(p, TRUE)
    /\ UNCHANGED <<dpVars, born, op, arg, spec, start, dp, port, todo, dumpVars, printed, named, listenerVars, faults>>

\* DatapathHandle.DeleteVport
DeleteVport(p) ==
    /\ pc[p] = "deleteVport"
    /\ IF ~CanDelete(dp[p], port[p])
         THEN Return(p, FALSE) /\ UNCHANGED <<vports, must, torn, deleted, queueVars, faults>>
         ELSE \E good \in BOOLEAN :
                /\ KernelDelVport(dp[p], port[p])
                /\ deleted' = [deleted EXCEPT ![p] = <<dp[p], vports[dp[p]][port[p]]>>]
                /\ Answered(good) /\ Return(p, good)
    /\ UNCHANGED <<dpVars, born, op, arg, spec, start, dp, port, todo, dumpVars, printed, named, listenerVars>>

\* EnumerateDatapaths sends the request, and the kernel fills the first message.
Enumerate(p) ==
    /\ pc[p] = "enumerate" /\ Goto(p, "enumerating")
    /\ \E s \in SUBSET DatapathLines :
         /\ s = {} => DatapathLines = {}
         /\ found' = [found EXCEPT ![p] = s]
    /\ UNCHANGED <<kernelVars, op, arg, spec, ok, start, must, torn, dp, port, todo, at, printed,
                   named, deleted, queueVars, listenerVars, faults>>

\* One more message of the dump. The result is a map from names: a datapath takes the
\* place of one of the same name.
EnumerateMore(p) ==
    /\ pc[p] = "enumerating"
    /\ \E s \in SUBSET DatapathLines \ {{}} :
         found' = [found EXCEPT ![p] =
             s \cup {l \in @ : \A m \in s : m[2].name # l[2].name}]
    /\ UNCHANGED <<kernelVars, op, pc, arg, spec, ok, start, must, torn, dp, port, todo, at, printed,
                   named, deleted, queueVars, listenerVars, faults>>

\* The dump has come to its end. listDatapaths prints the datapaths; listVports goes
\* through them.
EnumerateDone(p) ==
    /\ pc[p] = "enumerating" /\ (0 \in torn[p] \/ found[p] = DatapathLines)
    /\ found' = [found EXCEPT ![p] = {}]
    /\ IF op[p] = "listDatapaths"
         THEN printed' = [printed EXCEPT ![p] = found[p]] /\ Return(p, TRUE) /\ UNCHANGED todo
         ELSE /\ todo' = [todo EXCEPT ![p] = {l[1] : l \in found[p]}]
              /\ Goto(p, "print") /\ UNCHANGED <<ok, printed>>
    /\ UNCHANGED <<kernelVars, op, arg, spec, start, must, torn, dp, port, at, named, deleted,
                   queueVars, listenerVars, faults>>

\* Mutant: a vport that cannot be parsed ends the dump without an error.
VportsComeStopped(p, s) ==
    IF \E l \in s : ~l[2].known
      THEN /\ printed' = [printed EXCEPT ![p] = @ \cup found[p]]
           /\ found' = [found EXCEPT ![p] = {}] /\ Goto(p, "print") /\ UNCHANGED ok
      ELSE /\ found' = [found EXCEPT ![p] = @ \cup s]
           /\ Goto(p, "printing") /\ UNCHANGED <<printed, ok>>

\* A message of the dump of vports: EnumerateVports fails when one of them is of a type
\* parseVport does not know, and printVports prints none.
VportsCome(p, s) ==
    IF \E l \in s : ~l[2].known
      THEN Return(p, FALSE) /\ UNCHANGED <<found, printed>>
      ELSE /\ found' = [found EXCEPT ![p] = @ \cup s]
           /\ Goto(p, "printing") /\ UNCHANGED <<printed, ok>>

\* listVports over its map, and printVports: EnumerateVports sends the request, and the
\* kernel fills the first message, or refuses because the datapath has gone; then the
\* command ends.
PrintVports(p) ==
    /\ pc[p] = "print"
    /\ \/ todo[p] = {} /\ Return(p, TRUE) /\ UNCHANGED <<todo, dumpVars, printed>>
       \/ /\ \E i \in todo[p] : i \notin dps
          /\ Return(p, FALSE) /\ UNCHANGED <<todo, dumpVars, printed>>
       \/ \E i \in todo[p] \cap dps : \E s \in SUBSET VportsOf(i) \ {{}} :
            /\ todo' = [todo EXCEPT ![p] = @ \ {i}] /\ at' = [at EXCEPT ![p] = i]
            /\ VportsCome(p, s)
    /\ UNCHANGED <<kernelVars, op, arg, spec, start, must, torn, dp, port, named, deleted,
                   queueVars, listenerVars, faults>>

\* One more message, or an error when the datapath has gone meanwhile.
PrintVportsMore(p) ==
    /\ pc[p] = "printing"
    /\ IF at[p] \notin dps
         THEN Return(p, FALSE) /\ UNCHANGED <<found, printed>>
         ELSE \E s \in SUBSET VportsOf(at[p]) \ {{}} : VportsCome(p, s)
    /\ UNCHANGED <<kernelVars, op, arg, spec, start, must, torn, dp, port, todo, at, named, deleted,
                   queueVars, listenerVars, faults>>

\* The dump has come to its end, and the vports are printed.
PrintVportsDone(p) ==
    /\ pc[p] = "printing" /\ at[p] \in dps
    /\ at[p] \in torn[p] \/ found[p] = VportsOf(at[p])
    /\ printed' = [printed EXCEPT ![p] = @ \cup found[p]]
    /\ found' = [found EXCEPT ![p] = {}] /\ at' = [at EXCEPT ![p] = 0]
    /\ Goto(p, "print")
    /\ UNCHANGED <<kernelVars, op, arg, spec, ok, start, must, torn, dp, port, todo, named, deleted,
                   queueVars, listenerVars, faults>>

-----------------------------------------------------------------------------
(* `vport listen`: listenForVports, consumeVportEvents, vportEventsConsumer *)

\* ConsumeVportEvents joins the group.
Listen(p) ==
    /\ pc[p] = "listen"
    /\ Goto(p, "wait") /\ heardFrom' = [heardFrom EXCEPT ![p] = born]
    /\ UNCHANGED <<kernelVars, op, arg, spec, ok, start, must, torn, foundVars, queueVars,
                   event, shown, missed, faults>>

\* Receive fails: Error(err, true), the loop ends and the command returns true.
ReceiveFails(p) ==
    /\ pc[p] = "wait" /\ Fault
    /\ Return(p, TRUE)
    /\ UNCHANGED <<kernelVars, op, arg, spec, start, must, torn, foundVars, queueVars, listenerVars>>

\* Mutant: only NEW is dispatched.
ReceiveEventNewOnly(p) ==
    LET e == Head(events[p]) IN
    /\ pc[p] = "wait" /\ events[p] # <<>>
    /\ events' = [events EXCEPT ![p] = Tail(@)]
    /\ IF e.line[2].known /\ e.cmd = "new"
         THEN Goto(p, "callback") /\ event' = [event EXCEPT ![p] = e]
         ELSE UNCHANGED <<pc, event>>
    /\ UNCHANGED <<kernelVars, op, arg, spec, ok, start, must, torn, foundVars, overrun,
                   shown, heardFrom, missed, faults>>

\* Receive, and the handler up to the callback. A vport of unknown type is an error
\* (Error(err, false)), another command is ignored: the loop goes on.
ReceiveEvent(p) ==
    LET e == Head(events[p]) IN
    /\ pc[p] = "wait" /\ events[p] # <<>>
    /\ events' = [events EXCEPT ![p] = Tail(@)]
    /\ IF e.line[2].known /\ e.cmd \in {"new", "del"}
         THEN Goto(p, "callback") /\ event' = [event EXCEPT ![p] = e]
         ELSE UNCHANGED <<pc, event>>
    /\ UNCHANGED <<kernelVars, op, arg, spec, ok, start, must, torn, foundVars, overrun,
                   shown, heardFrom, missed, faults>>

\* VportCreated and VportDeleted: LookupDatapathByID; print unless it fails.
Callback(p) ==
    LET l == event[p].line IN
    /\ pc[p] = "callback"
    /\ Goto(p, "wait") /\ event' = [event EXCEPT ![p] = NoEvent]
    /\ \/ /\ shown' = [shown EXCEPT ![p] =
                 IF l[1] \notin dps THEN @
                 ELSE IF event[p].cmd = "new" THEN @ \cup {l} ELSE @ \ {l}]
          /\ UNCHANGED <<missed, faults>>
       \/ Fault /\ missed' = [missed EXCEPT ![p] = @ \cup {l}] /\ UNCHANGED shown
    /\ UNCHANGED <<kernelVars, op, arg, spec, ok, start, must, torn, foundVars, queueVars, heardFrom>>

-----------------------------------------------------------------------------
Command(p) ==
    \/ AddDatapath(p) \/ DeleteDatapath(p) \/ ListDatapaths(p)
    \/ AddVport(p) \/ DeleteVportCmd(p) \/ ListVports(p) \/ Exit(p) \/ RequestFails(p)
    \/ CreateDatapath(p) \/ LookupDatapath(p) \/ LookupDatapathByID(p) \/ Delete(p)
    \/ CreateVport(p) \/ LookupVportByName(p) \/ DeleteVport(p)
    \/ Enumerate(p) \/ EnumerateMore(p) \/ EnumerateDone(p)
    \/ PrintVports(p) \/ PrintVportsMore(p) \/ PrintVportsDone(p)

Listener(p) ==
    ListenForVports(p) \/ Listen(p) \/ ReceiveFails(p) \/ ReceiveEvent(p) \/ Callback(p)

Others ==
    \/ OtherAddsDatapath \/ OtherDeletesDatapath
    \/ OtherAddsVport \/ OtherDeletesVport \/ OtherSetsVport

Next == Others \/ \E p \in Procs : Command(p) \/ Listener(p)

Spec == Init /\ [][Next]_vars

-----------------------------------------------------------------------------
(* Properties.                                                             *)

\* `vport list` that returns true printed every vport of the datapath it was asked
\* for (or of all) that was there from the beginning of the command to its end,
\* although datapaths and vports come and go between its requests (printVports), unless
\* they did so in the middle of a dump that should have reported it. `datapath list`
\* prints all or nothing: it ignores the error of EnumerateDatapaths (listDatapaths),
\* and on an error there is nothing to print.
ListComplete ==
    \A p \in Procs : ok[p] =>
        /\ op[p] = "listVports" =>
              \A l \in must[p] : dp[p] \in {0, l[1]} /\ torn[p] \cap {0, l[1]} = {} => l \in printed[p]
        /\ op[p] = "listDatapaths" /\ printed[p] # {} /\ 0 \notin torn[p] =>
              {l \in must[p] : l[2].born = 0} \subseteq printed[p]

\* A datapath argument means the datapath of that name; it is taken for an id only if
\* no datapath of that name has been there since the command began: lookupDatapath.
DatapathMeant ==
    \A p \in Procs : (dp[p] # 0 /\ op[p] # "deleteVport") =>
        \/ nameOf[dp[p]] = arg[p]
        \/ /\ dp[p] = IdOf[arg[p]]
           /\ \A i \in dps : nameOf[i] = arg[p] => i > start[p]

\* `vport delete` that reports success has removed the vport it looked up by name,
\* even if the number was given to another vport in between; while that vport is
\* there no other is deleted in its place: deleteVport.
DeletesNamed ==
    \A p \in Procs :
        /\ (op[p] = "deleteVport" /\ ok[p]) => named[p] \notin Present
        /\ (deleted[p] # NoLine /\ deleted[p] # named[p]) => named[p] \notin Present

\* When `vport listen` has handled every event, the lines it printed add up to the
\* vports of the datapaths there are: none that has gone, none missing of those
\* created since it subscribed, except for events that met a failing request or, all
\* bets being off then, were dropped for want of room.
Mirror ==
    \A p \in Procs : (pc[p] = "wait" /\ events[p] = <<>> /\ ~overrun[p]) =>
        \A l \in shown[p] \cup Present :
            (l[1] \in dps /\ l \notin missed[p]) =>
                /\ l \in shown[p] => l \in Present
                /\ (l \in Present /\ l[2].known /\ l[2].born > heardFrom[p]) => l \in shown[p]
=============================================================================
