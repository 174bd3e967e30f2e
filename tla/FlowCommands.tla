----------------------------- MODULE FlowCommands -----------------------------
(***************************************************************************)
(* The flow commands of the odp tool (tool/odp/main.go) on top of Flows:   *)
(* `flow add`, `flow delete` and `flow clear` turn options into a FlowSpec *)
(* and send it, `flow list` prints the flows as options again. The vports  *)
(* that options name are looked up one request after the other, while      *)
(* other programs may delete and add vports. How the datapath is looked up *)
(* is the subject of Datapaths.                                            *)
(*                                                                         *)
(* The text of an option is what its parser can make of it. An ethernet    *)
(* option is plain (an address), masked (address&mask), colon (the         *)
(* address:mask of README.md) or bad. A tunnel option is a set of bits, of *)
(* which Over is one that does not fit the field, or BadText. A vport's    *)
(* number is a set of bits too, as in Flows.                               *)
(***************************************************************************)
EXTENDS Flows

CONSTANTS
    VportNames,  \* names of vports
    Numbers,     \* vport numbers, sets of positions
    Unnamed,     \* the text LookupVportName makes of a number: no vport has this name
    BadText,     \* an option that cannot be parsed
    Over,        \* a bit beyond the width of a number
    Options,     \* the command lines that are run
    MaxFaults    \* bound: vports that come or go, and requests that fail, together

ASSUME NumbersAssumption == \A x \in Numbers : x \subseteq Pos
ASSUME FaultsAssumption == MaxFaults \in Nat
ASSUME TextAssumption ==
    /\ Pos # {} /\ Over \notin Pos /\ Unnamed \notin VportNames /\ None \notin VportNames \cup Numbers
    /\ Unnamed # None /\ \A v \in SUBSET Pos : v # BadText
    /\ \A o \in Options :
          /\ o.inPort \in VportNames \cup {None} /\ o.output \in Seq(VportNames)
          /\ \A e \in {o.ethSrc, o.ethDst} : e.addr \subseteq Pos /\ e.mask \subseteq Pos
          /\ \A tf \in {o.tunnel, o.setTunnel} :
                /\ tf = [f \in DOMAIN tf |-> tf[f]] /\ DOMAIN tf \subseteq TunnelFields
                /\ \A f \in DOMAIN tf : tf[f] # BadText =>
                      tf[f] \subseteq Pos \cup {Over} /\ (f \in FlagFields => tf[f] \in {{}, Pos})

VARIABLES
    number,  \* kernel: the number of a vport, None when there is no such vport
    cmd,     \* the command that runs
    pc,      \* its next step
    opts,    \* its options
    next,    \* the next vport in --output, the next action to print
    rest,    \* listFlows: the flows not printed yet
    cur,     \* the flow it is printing
    line,    \* the options printed for it
    lines,   \* the lines printed
    ok,      \* what the command returned
    had,     \* history: the numbers a vport has had since the command began
    moved,   \* history: a vport came or went while the command ran
    failed,  \* history: a request failed for a reason of its own
    faults   \* see MaxFaults

flowVars == <<spec, flows, foreign, listed, result>>
printVars == <<rest, cur, line, lines>>
commandVars == <<number, cmd, pc, opts, next, printVars, ok, had, moved, failed, faults>>
allVars == <<flowVars, commandVars>>

NoTunnel == EmptyFn
Absent == [form |-> "absent", addr |-> {}, mask |-> {}]
NoOptions == [inPort |-> None, ethSrc |-> Absent, ethDst |-> Absent, tunnel |-> NoTunnel,
              setTunnel |-> NoTunnel, output |-> <<>>, junk |-> FALSE]

NoneHad == [n \in VportNames |-> {}]

CommandInit ==
    /\ Init
    /\ number \in [VportNames -> Numbers \cup {None}]
    /\ \A m, n \in VportNames : m # n => number[m] = None \/ number[m] # number[n]
    /\ cmd = "none" /\ pc = "idle" /\ opts = NoOptions /\ next = 1
    /\ rest = {} /\ cur = None /\ line = NoOptions /\ lines = {}
    /\ ok = FALSE /\ had = NoneHad /\ moved = FALSE /\ failed = FALSE /\ faults = 0

-----------------------------------------------------------------------------
(* Options to flow keys and actions.                                       *)

\* handleEthernetAddrOption: an address and mask, or an error, which leaves the mask zero.
HandleEthernetAddrOption(o) ==
    CASE o.form = "absent" -> [addr |-> {}, mask |-> {}, err |-> FALSE]
      [] o.form = "plain"  -> [addr |-> o.addr, mask |-> Pos, err |-> FALSE]
      [] o.form = "masked" -> [addr |-> o.addr, mask |-> o.mask, err |-> FALSE]
      [] OTHER             -> [addr |-> {}, mask |-> {}, err |-> TRUE]

EthernetKey(src, dst) ==
    SetMaskedEth(SetMaskedEth(NewEthernetFlowKey, "EthSrc", src), "EthDst", dst)

\* handleEthernetFlowKeyOptions: the second takeErr overwrites the error of the first.
HandleEthernet(o) ==
    LET src == HandleEthernetAddrOption(o.ethSrc)
        dst == HandleEthernetAddrOption(o.ethDst)
    IN  IF dst.err THEN Error ELSE EthernetKey(src, dst)

\* Mutant: a number is not cut to its width.
ParseTunnelFlagsUncut(tf) ==
    IF \E f \in DOMAIN tf : tf[f] = BadText THEN Error ELSE SetTunnelFields(tf)

\* parseTunnelFlags: uint8() and uint16() cut a number that is too large.
ParseTunnelFlags(tf) ==
    IF \E f \in DOMAIN tf : tf[f] = BadText THEN Error
    ELSE SetTunnelFields([f \in DOMAIN tf |-> tf[f] \cap Pos])

\* Mutant: a field is set if its value is not zero.
ParseSetTunnelFlagsByKey(tf) ==
    LET fk == ParseTunnelFlags(tf)
        present == {f \in TunnelFields : Field(fk.key, f) # {}}
    IN  IF present = {} THEN <<>>
        ELSE <<[kind |-> "SetTunnel", attrs |-> fk.key, present |-> present]>>

\* parseSetTunnelFlags, if parseTunnelFlags makes no error: the action that is added, if
\* any. The masks that SetTunnelFields makes are exact, so there is no error of its own.
ParseSetTunnelFlags(tf) ==
    LET fk == ParseTunnelFlags(tf)
        present == {f \in TunnelFields : Field(fk.mask, f) = {f} \X Pos}
    IN  IF present = {} THEN <<>>
        ELSE <<[kind |-> "SetTunnel", attrs |-> fk.key, present |-> present]>>

\* The ethernet key, the tunnel key unless it is ignored, and the SET action.
KeysOf(o) ==
    LET tun == ParseTunnelFlags(o.tunnel)
    IN  [t \in {"ETHERNET"} \cup (IF Ignored("TUNNEL", tun) THEN {} ELSE {"TUNNEL"}) |->
            IF t = "ETHERNET" THEN HandleEthernet(o) ELSE tun]
Sets(o) == ParseSetTunnelFlags(o.setTunnel)
Invalid(o) ==
    \/ HandleEthernet(o) = Error \/ ParseTunnelFlags(o.tunnel) = Error
    \/ ParseTunnelFlags(o.setTunnel) = Error

-----------------------------------------------------------------------------
(* Flow keys and actions to options.                                       *)

\* LookupVportName
LookupVportName(x) ==
    IF \E n \in VportNames : number[n] = x THEN CHOOSE n \in VportNames : number[n] = x
                                           ELSE Unnamed

\* printEthAddrOption, printBytesOption
PrintEthAddrOption(k, field) ==
    LET addr == {b[2] : b \in Field(k.key, field)}
        mask == {b[2] : b \in Field(k.mask, field)}
    IN  CASE mask = {}  -> Absent
          [] mask = Pos -> [form |-> "plain", addr |-> addr, mask |-> {}]
          [] OTHER      -> [form |-> "masked", addr |-> addr, mask |-> mask]

\* Mutant: the mask is not looked at.
PrintTunnelOptionsAlways(key, mask) ==
    [f \in TunnelFields |-> {b[2] : b \in Field(key, f)}]

\* printTunnelOptions, printBytesOption and printIntOption: a value with a mask cannot be given back.
PrintTunnelOptions(key, mask) ==
    [f \in {g \in TunnelFields : Field(mask, g) # {}} |->
        IF Field(mask, f) = {f} \X Pos THEN {b[2] : b \in Field(key, f)} ELSE BadText]

\* printFlowKeys. The types it does not know are printed as Go values: junk.
Shown(ks, t) == t \in DOMAIN ks /\ ~Ignored(t, ks[t])
PrintFlowKeys(ks) ==
    LET eth == IF Shown(ks, "ETHERNET") THEN ks["ETHERNET"] ELSE [key |-> {}, mask |-> {}]
    IN  [NoOptions EXCEPT
           !.inPort = IF Shown(ks, "IN_PORT")
                      THEN LookupVportName({b[2] : b \in Field(ks["IN_PORT"].key, "lower16")})
                      ELSE None,
           !.ethSrc = PrintEthAddrOption(eth, "EthSrc"),
           !.ethDst = PrintEthAddrOption(eth, "EthDst"),
           !.tunnel = IF Shown(ks, "TUNNEL") THEN PrintTunnelOptions(ks["TUNNEL"].key, ks["TUNNEL"].mask)
                                         ELSE NoTunnel,
           !.junk = \E t \in BlobTypes \cup OtherTypes : Shown(ks, t)]

\* One action of printFlowActions; printSetTunnelOptions. An option given twice is the last.
PrintFlowAction(l, a) ==
    CASE a.kind = "Output" -> [l EXCEPT !.output = Append(@, LookupVportName(a.vport))]
      [] a.kind = "SetTunnel" ->
            LET new == PrintTunnelOptions(a.attrs, a.present \X Pos)
            IN  [l EXCEPT !.setTunnel = [f \in DOMAIN @ \cup DOMAIN new |->
                                            IF f \in DOMAIN new THEN new[f] ELSE @[f]]]
      [] OTHER -> [l EXCEPT !.junk = TRUE]

-----------------------------------------------------------------------------
(* The kernel.                                                             *)

Fault == faults < MaxFaults /\ faults' = faults + 1

\* Another program deletes a vport, adds one, or does both: the number may change.
VportsChange ==
    /\ Fault
    /\ \E n \in VportNames, x \in Numbers \cup {None} :
         /\ x # number[n] /\ (x # None => \A m \in VportNames : number[m] # x)
         /\ number' = [number EXCEPT ![n] = x]
         /\ had' = IF pc = "idle" THEN had ELSE [had EXCEPT ![n] = @ \cup ({x} \ {None})]
    /\ moved' = (pc # "idle")
    /\ UNCHANGED <<flowVars, cmd, pc, opts, next, printVars, ok, failed>>

-----------------------------------------------------------------------------
(* The commands.                                                           *)

Return(good) == pc' = "done" /\ ok' = good

Begin(c, o, label) ==
    /\ pc = "idle"
    /\ cmd' = c /\ opts' = o /\ pc' = label
    /\ had' = [n \in VportNames |-> {number[n]} \ {None}]
    /\ UNCHANGED <<number, next, printVars, ok, moved, failed, faults>>

\* addFlow, deleteFlow, clearFlow: flagsToFlowSpec
BeginFlow ==
    /\ \E c \in {"add", "delete", "clear"}, o \in Options :
         Begin(c, o, IF o.inPort = None THEN "parse" ELSE "inPort")
    /\ spec' = NewFlowSpec /\ result' = "none"
    /\ UNCHANGED <<flows, foreign, listed>>

BeginList ==
    /\ Begin("list", NoOptions, "enumerate")
    /\ UNCHANGED flowVars

Exit ==
    /\ pc = "done"
    /\ cmd' = "none" /\ opts' = NoOptions /\ pc' = "idle" /\ next' = 1
    /\ rest' = {} /\ cur' = None /\ line' = NoOptions /\ lines' = {}
    /\ ok' = FALSE /\ had' = NoneHad /\ moved' = FALSE /\ failed' = FALSE
    /\ spec' = NewFlowSpec /\ listed' = {} /\ result' = "none"
    /\ UNCHANGED <<flows, foreign, number, faults>>

\* A vport request fails for another reason than that there is no such vport.
LookupFails ==
    /\ \/ pc = "inPort" \/ (pc = "output" /\ next <= Len(opts.output))
       \/ (pc = "keys" /\ \E e \in rest : Shown(e.spec.keys, "IN_PORT"))
       \/ (pc = "actions" /\ next <= Len(cur.spec.actions) /\ cur.spec.actions[next].kind = "Output")
    /\ Fault /\ failed' = TRUE
    /\ Return(FALSE)
    /\ UNCHANGED <<flowVars, number, cmd, opts, next, printVars, had, moved>>

LookupInPort ==
    /\ pc = "inPort"
    /\ IF number[opts.inPort] = None
         THEN Return(FALSE) /\ UNCHANGED <<flowVars>>
         ELSE /\ AddKey("IN_PORT", NewInPortFlowKey(number[opts.inPort]))
              /\ pc' = "parse" /\ UNCHANGED ok
    /\ UNCHANGED <<number, cmd, opts, next, printVars, had, moved, failed, faults>>

ParseOptions ==
    /\ pc = "parse"
    /\ IF Invalid(opts)
         THEN Return(FALSE) /\ UNCHANGED spec
         ELSE /\ spec' = [keys |-> [t \in DOMAIN spec.keys \cup DOMAIN KeysOf(opts) |->
                                       IF t \in DOMAIN KeysOf(opts) THEN KeysOf(opts)[t]
                                                                   ELSE spec.keys[t]],
                          actions |-> Sets(opts)]
              /\ pc' = "output" /\ UNCHANGED ok
    /\ UNCHANGED <<flows, foreign, listed, result, number, cmd, opts, next, printVars, had, moved, failed, faults>>

LookupOutput ==
    /\ pc = "output" /\ next <= Len(opts.output)
    /\ LET x == number[opts.output[next]] IN
       IF x = None THEN Return(FALSE) /\ UNCHANGED <<spec, next>>
       ELSE /\ spec' = [spec EXCEPT !.actions = Append(@, NewOutputAction(x))]
            /\ next' = next + 1 /\ UNCHANGED <<pc, ok>>
    /\ UNCHANGED <<flows, foreign, listed, result, number, cmd, opts, printVars, had, moved, failed, faults>>

\* The library's CreateFlow, DeleteFlow or ClearFlow.
Send ==
    \/ cmd = "add" /\ CreateFlow
    \/ cmd = "delete" /\ DeleteFlow
    \/ cmd = "clear" /\ ClearFlow

Request ==
    /\ pc = "output" /\ next > Len(opts.output)
    /\ Send
    /\ Return(result' = "ok")
    /\ UNCHANGED <<number, cmd, opts, next, printVars, had, moved, failed, faults>>

\* The flow request, or the list, fails for another reason than that the kernel refuses it:
\* it is not sent, or it is carried out and the answer does not arrive.
RequestFails ==
    /\ \/ pc = "enumerate" /\ UNCHANGED flowVars
       \/ pc = "output" /\ next > Len(opts.output) /\ (Send \/ UNCHANGED flowVars)
    /\ Fault /\ failed' = TRUE
    /\ Return(FALSE)
    /\ UNCHANGED <<number, cmd, opts, next, printVars, had, moved>>

\* listFlows
Enumerate ==
    /\ pc = "enumerate"
    /\ EnumerateFlows
    /\ IF result' = "unparsable" THEN Return(FALSE) /\ UNCHANGED rest
                                 ELSE pc' = "keys" /\ rest' = listed' /\ UNCHANGED ok
    /\ UNCHANGED <<number, cmd, opts, next, cur, line, lines, had, moved, failed, faults>>

PrintKeys ==
    /\ pc = "keys"
    /\ \/ rest = {} /\ Return(TRUE) /\ UNCHANGED <<cur, line>>
       \/ \E e \in rest : /\ cur' = e /\ line' = PrintFlowKeys(e.spec.keys)
                          /\ pc' = "actions" /\ UNCHANGED ok
    /\ UNCHANGED <<flowVars, number, cmd, opts, next, rest, lines, had, moved, failed, faults>>

\* Mutant: a vport that has gone is an error.
PrintActionStrict ==
    /\ pc = "actions" /\ next <= Len(cur.spec.actions)
    /\ IF cur.spec.actions[next].kind = "Output" /\ LookupVportName(cur.spec.actions[next].vport) = Unnamed
         THEN Return(FALSE) /\ UNCHANGED <<line, next>>
         ELSE /\ line' = PrintFlowAction(line, cur.spec.actions[next])
              /\ next' = next + 1 /\ UNCHANGED <<pc, ok>>
    /\ UNCHANGED <<flowVars, number, cmd, opts, rest, cur, lines, had, moved, failed, faults>>

PrintAction ==
    /\ pc = "actions" /\ next <= Len(cur.spec.actions)
    /\ line' = PrintFlowAction(line, cur.spec.actions[next])
    /\ next' = next + 1
    /\ UNCHANGED <<flowVars, number, cmd, opts, pc, ok, rest, cur, lines, had, moved, failed, faults>>

EndOfLine ==
    /\ pc = "actions" /\ next > Len(cur.spec.actions)
    /\ lines' = lines \cup {[opts |-> line, entry |-> cur]} /\ rest' = rest \ {cur}
    /\ line' = NoOptions /\ cur' = None /\ next' = 1 /\ pc' = "keys"
    /\ UNCHANGED <<flowVars, number, cmd, opts, ok, had, moved, failed, faults>>

OtherInstalls == pc = "idle" /\ InstallForeign /\ UNCHANGED commandVars

CommandNext ==
    \/ VportsChange \/ OtherInstalls
    \/ BeginFlow \/ BeginList \/ Exit \/ LookupFails
    \/ LookupInPort \/ ParseOptions \/ LookupOutput \/ Request \/ RequestFails
    \/ Enumerate \/ PrintKeys \/ PrintAction \/ EndOfLine

CommandSpec == CommandInit /\ [][CommandNext]_allVars

-----------------------------------------------------------------------------
(* Properties.                                                             *)

\* Every FlowSpec the tool sends or prints is one.
CommandTypeOK ==
    /\ TypeOK
    /\ number \in [VportNames -> Numbers \cup {None}] /\ had \in [VportNames -> SUBSET Numbers]
    /\ cmd \in {"none", "add", "delete", "clear", "list"}
    /\ pc \in {"idle", "inPort", "parse", "output", "enumerate", "keys", "actions", "done"}
    /\ opts \in Options \cup {NoOptions}
    /\ next \in Nat \ {0}
    /\ pc = "output" => next <= 1 + Len(opts.output)
    /\ pc = "actions" => next <= 1 + Len(cur.spec.actions)
    /\ ok \in BOOLEAN /\ moved \in BOOLEAN /\ failed \in BOOLEAN /\ faults \in 0 .. MaxFaults

\* What the options say a flow matches, inPort being the number of the in-port.
Wanted(o, inPort) ==
    LET eth == {o.ethSrc, o.ethDst}
        EthBits(mask) == (({"EthSrc"} \X mask[o.ethSrc]) \cup ({"EthDst"} \X mask[o.ethDst]))
        Mask == [e \in eth |-> CASE e.form = "absent" -> {} [] e.form = "plain" -> Pos [] OTHER -> e.mask]
        Addr == [e \in eth |-> e.addr \cap Mask[e]]
    IN  [t \in Types |->
          CASE t = "ETHERNET" -> [mask |-> EthBits(Mask), key |-> EthBits(Addr)]
            [] t = "IN_PORT" /\ o.inPort # None ->
                  [mask |-> Bits(t), key |-> {"lower16"} \X inPort]
            [] t = "TUNNEL" -> [mask |-> (DOMAIN o.tunnel) \X Pos,
                                key |-> UNION {{f} \X o.tunnel[f] : f \in DOMAIN o.tunnel}]
            [] OTHER -> [mask |-> {}, key |-> {}]]

\* What they say it does with a packet before the outputs: it sets the tunnel fields given,
\* of the flags those that are to be on.
WantedSets(o) ==
    LET tf == o.setTunnel
        sent == {f \in DOMAIN tf : f \in FlagFields => tf[f] # {}}
    IN  IF tf = NoTunnel THEN <<>>
        ELSE <<[typ |-> "SET", val |-> [n \in {"TUNNEL"} |-> [f \in sent |-> {f} \X tf[f]]]]>>

\* Flow f is what the options describe, with numbers that the named vports have had.
InPorts(o) == IF o.inPort = None THEN {None} ELSE had[o.inPort]
Described(o, f) ==
    /\ \E x \in InPorts(o) : f.match = Wanted(o, x)
    /\ LET sets == WantedSets(o) IN
       /\ Len(f.actions) = Len(sets) + Len(o.output)
       /\ \A i \in 1 .. Len(sets) : f.actions[i] = sets[i]
       /\ \A i \in 1 .. Len(o.output) :
             \E x \in had[o.output[i]] : f.actions[Len(sets) + i] = [typ |-> "OUTPUT", val |-> x]

\* Options that can be parsed, and options whose meaning is not in doubt. Of the first,
\* --eth-src is left out: see EthSrcMatched.
Parsable(o) ==
    /\ o.ethDst.form \in {"absent", "plain", "masked"}
    /\ \A tf \in {o.tunnel, o.setTunnel} : \A f \in DOMAIN tf : tf[f] # BadText
Fits(tf) == \A f \in DOMAIN tf : tf[f] # BadText => tf[f] \subseteq Pos
Plain(o) ==
    /\ o.ethSrc.form \in {"absent", "plain", "masked"}
    /\ Fits(o.tunnel) /\ Fits(o.setTunnel)
    /\ DOMAIN o.tunnel # {"Df"}

\* `flow add` returns true only for options that can be parsed, and then it has installed
\* the flow that they describe: it matches the addresses, the in-port and the tunnel fields
\* given and nothing else, sets the tunnel fields given to the values given, and outputs to
\* the vports named in their order. Vports may come and go, and change their numbers, while
\* they are looked up one after the other: every number is one that the vport of that name
\* has had since the command began, so a vport that was never there is refused; by the time
\* the flow is installed the number may be stale (flagsToFlowSpec, parseSetTunnelFlags,
\* addFlow).
Installed ==
    (cmd = "add" /\ ok) =>
        /\ Parsable(opts)
        /\ Plain(opts) => \E f \in flows : Described(opts, f)

\* The FlowSpec that options give while the vports are as they are now.
FlagsToFlowSpec(o) ==
    LET named == {o.output[i] : i \in DOMAIN o.output} \cup ({o.inPort} \ {None})
    IN  IF Invalid(o) \/ \E n \in named : n = Unnamed \/ number[n] = None THEN Error
        ELSE [keys |-> [t \in DOMAIN KeysOf(o) \cup (IF o.inPort = None THEN {} ELSE {"IN_PORT"}) |->
                           IF t = "IN_PORT" THEN NewInPortFlowKey(number[o.inPort]) ELSE KeysOf(o)[t]],
              actions |-> Sets(o) \o [i \in DOMAIN o.output |-> NewOutputAction(number[o.output[i]])]]

\* A line of `flow list` for a flow that `flow add` made can be given back to `flow add`
\* (README.md): it describes the FlowSpec that was listed and the one the flow was made
\* from, unless one of its vports has gone; then the line is refused, it never names
\* another vport.
PrintedBack ==
    \A l \in lines :
        (l.entry.by # None /\ ~moved) =>
            LET s == FlagsToFlowSpec(l.opts)
            IN  IF Unnamed \in {l.opts.inPort} \cup {l.opts.output[i] : i \in DOMAIN l.opts.output}
                THEN s = Error
                ELSE ~l.opts.junk /\ s # Error /\ SpecEquals(s, l.entry.spec) /\ SpecEquals(s, l.entry.by)

\* `flow list` that returns true has printed a line for every flow, also for those of
\* other programs; and a vport that comes or goes while it runs does not make it fail:
\* only a request that fails, or a flow that cannot be parsed, does.
ListsAll ==
    (cmd = "list" /\ pc = "done") =>
        /\ ok => {l.entry.match : l \in lines} =
                   {f.match : f \in flows} \cup {ForeignMatch(f) : f \in foreign}
        /\ ~ok => failed \/ \E f \in foreign : ParseFlowSpec(f) = Error

\* --eth-src=<MAC address>[:<MAC mask>] matches the source address under the mask
\* (README.md). Not so: the mask is expected after "&", the option is invalid, and
\* handleEthernetFlowKeyOptions loses the error.
EthSrcMatched ==
    (cmd = "add" /\ ok /\ opts.ethSrc.form = "colon") =>
        \E f \in flows : Field(f.match["ETHERNET"].mask, "EthSrc") = {"EthSrc"} \X opts.ethSrc.mask
=============================================================================
