--------------------------- MODULE FlowListProofs ---------------------------
(***************************************************************************)
(* What `flow list` prints of a flow that `flow add` made can be given     *)
(* back to `flow add`: the proof of PrintedBack of FlowCommands, for any   *)
(* options, vports, flows and faults.                                      *)
(***************************************************************************)
EXTENDS FlowCommandsProofs

-----------------------------------------------------------------------------
(* The FlowSpecs that the tool makes, and the flows made of them.          *)

\* The keys of flagsToFlowSpec: the masks of tunnel fields are exact, a tunnel key that is
\* ignored is left out.
ToolKeys(ks) ==
    /\ "ETHERNET" \in DOMAIN ks /\ DOMAIN ks \subseteq {"ETHERNET", "TUNNEL", "IN_PORT"}
    /\ "IN_PORT" \in DOMAIN ks => \E x \in Numbers : ks["IN_PORT"] = NewInPortFlowKey(x)
    /\ "TUNNEL" \in DOMAIN ks =>
          /\ \E F \in SUBSET TunnelFields : ks["TUNNEL"].mask = F \X Pos
          /\ ks["TUNNEL"].key \subseteq ks["TUNNEL"].mask
          /\ ~Ignored("TUNNEL", ks["TUNNEL"])

\* Its actions: outputs, after at most one SET.
ToolActions(as) ==
    \A i \in DOMAIN as : \/ as[i].kind = "Output" /\ as[i].vport \in Numbers
                         \/ i = 1 /\ as[i].kind = "SetTunnel"

ToolSpec(s) == ToolKeys(s.keys) /\ ToolActions(s.actions)

\* What flagsToFlowSpec has made before it looks at the other options.
OnlyInPort(s) ==
    /\ s.actions = <<>> /\ DOMAIN s.keys \subseteq {"IN_PORT"}
    /\ "IN_PORT" \in DOMAIN s.keys => \E x \in Numbers : s.keys["IN_PORT"] = NewInPortFlowKey(x)

\* The FlowSpec at each step, and those that the flows were made of.
ToolInv ==
    /\ pc = "inPort" => spec = NewFlowSpec
    /\ pc = "parse" => OnlyInPort(spec)
    /\ pc = "output" => DOMAIN spec = {"keys", "actions"} /\ ToolSpec(spec)
    /\ \A f \in flows : ToolSpec(f.by)

\* The keys made of options.
LEMMA ToolKeysMade ==
    ASSUME NEW o \in Options, ~Invalid(o), NEW s, OnlyInPort(s)
    PROVE  ToolKeys([t \in DOMAIN s.keys \cup DOMAIN KeysOf(o) |->
                        IF t \in DOMAIN KeysOf(o) THEN KeysOf(o)[t] ELSE s.keys[t]])
<1> DEFINE ks == [t \in DOMAIN s.keys \cup DOMAIN KeysOf(o) |->
                     IF t \in DOMAIN KeysOf(o) THEN KeysOf(o)[t] ELSE s.keys[t]]
           tun == ParseTunnelFlags(o.tunnel)
           v == [f \in DOMAIN o.tunnel |-> o.tunnel[f] \cap Pos]
<1>1. tun # Error
  BY DEF Invalid
<1>2. tun = SetTunnelFields(v) /\ TunnelSettings(v)
  BY <1>1, TunnelTyped
<1> HIDE DEF v
<1>3. tun.mask = (DOMAIN v) \X Pos /\ tun.key = UNION {{f} \X v[f] : f \in DOMAIN v}
  BY <1>2 DEF SetTunnelFields
<1>4. DOMAIN v \subseteq TunnelFields /\ tun.key \subseteq tun.mask
  <2>1. \A f \in DOMAIN v : {f} \X v[f] \subseteq (DOMAIN v) \X Pos
    BY <1>2 DEF TunnelSettings
  <2> QED
    BY <1>2, <1>3, <2>1 DEF TunnelSettings
<1> HIDE DEF tun
<1>5. /\ "ETHERNET" \in DOMAIN KeysOf(o) /\ DOMAIN KeysOf(o) \subseteq {"ETHERNET", "TUNNEL"}
      /\ "TUNNEL" \in DOMAIN KeysOf(o) => ~Ignored("TUNNEL", tun) /\ KeysOf(o)["TUNNEL"] = tun
  BY DEF KeysOf, tun
<1>6. DOMAIN ks = DOMAIN s.keys \cup DOMAIN KeysOf(o) /\ DOMAIN s.keys \subseteq {"IN_PORT"}
  BY DEF OnlyInPort
<1>7. "TUNNEL" \in DOMAIN ks => ks["TUNNEL"] = tun /\ ~Ignored("TUNNEL", tun)
  BY <1>5, <1>6
<1>8. "IN_PORT" \in DOMAIN ks => \E x \in Numbers : ks["IN_PORT"] = NewInPortFlowKey(x)
  BY <1>5, <1>6 DEF OnlyInPort
<1>9. "ETHERNET" \in DOMAIN ks /\ DOMAIN ks \subseteq {"ETHERNET", "TUNNEL", "IN_PORT"}
  BY <1>5, <1>6
<1> HIDE DEF ks
<1>10. ToolKeys(ks)
  BY <1>3, <1>4, <1>7, <1>8, <1>9 DEF ToolKeys
<1> QED
  BY <1>10 DEF ks

\* The SET action made of options.
LEMMA ToolSets ==
    ASSUME NEW o
    PROVE  ToolActions(Sets(o))
<1> DEFINE fk == ParseTunnelFlags(o.setTunnel)
           present == {f \in TunnelFields : Field(fk.mask, f) = {f} \X Pos}
           a == [kind |-> "SetTunnel", attrs |-> fk.key, present |-> present]
<1>1. Sets(o) = <<>> \/ Sets(o) = <<a>>
  BY DEF Sets, ParseSetTunnelFlags
<1>2. a.kind = "SetTunnel"
  OBVIOUS
<1> HIDE DEF a
<1>3. ToolActions(<<a>>)
  BY <1>2 DEF ToolActions
<1>4. ToolActions(<<>>)
  BY DEF ToolActions
<1> QED
  BY <1>1, <1>3, <1>4

\* One more output.
LEMMA ToolOutput ==
    ASSUME NEW as, IsActions(as), ToolActions(as), NEW x \in Numbers
    PROVE  ToolActions(Append(as, NewOutputAction(x)))
<1> DEFINE a == NewOutputAction(x)
           S == {as[i] : i \in DOMAIN as} \cup {a}
           n == Append(as, a)
<1>1. as \in Seq({as[i] : i \in DOMAIN as})
  BY DEF IsActions, IsList
<1>2. as \in Seq(S) /\ a \in S
  BY <1>1, SeqMonotonic
<1>3. a.kind = "Output" /\ a.vport \in Numbers
  BY DEF NewOutputAction
<1> HIDE DEF S, a
<1>4. n \in Seq(S) /\ Len(n) = Len(as) + 1 /\ n[Len(as) + 1] = a
  BY <1>2, AppendProperties
<1>5. \A i \in 1 .. Len(as) : n[i] = as[i]
  BY <1>2, AppendProperties
<1> HIDE DEF n
<1>6. DOMAIN n = 1 .. (Len(as) + 1) /\ Len(as) \in Nat /\ DOMAIN as = 1 .. Len(as)
  BY <1>2, <1>4, LenProperties
<1>7. \A i \in DOMAIN n : i \in 1 .. Len(as) \/ i = Len(as) + 1
  <2>1. \A m \in Nat : \A i \in 1 .. (m + 1) : i \in 1 .. m \/ i = m + 1
    OBVIOUS
  <2> QED
    BY <1>6, <2>1, Zenon
<1>8. ToolActions(n)
  BY <1>3, <1>4, <1>5, <1>6, <1>7 DEF ToolActions
<1> QED
  BY <1>8 DEF n, a

\* The flows are made of FlowSpecs that the tool made.
LEMMA ToolRequest ==
    ASSUME ToolInv, pc = "output", Send
    PROVE  \A g \in flows' : ToolSpec(g.by)
<1>1. ToolSpec(spec) /\ \A f \in flows : ToolSpec(f.by)
  BY DEF ToolInv
<1>2. ASSUME NEW g \in flows'
      PROVE  \/ g.by = spec \/ \E f \in flows : g.by = f.by
             \/ g.by.actions = spec.actions /\ \E f \in flows : g.by.keys = f.by.keys
  <2>1. CASE CreateFlow
    BY <2>1 DEF CreateFlow, Fails
  <2>2. CASE DeleteFlow
    BY <2>2 DEF DeleteFlow, Fails
  <2>3. CASE ClearFlow
    BY <2>3 DEF ClearFlow, Fails
  <2> QED
    BY <2>1, <2>2, <2>3 DEF Send
<1> QED
  BY <1>1, <1>2 DEF ToolSpec

\* Every step of the tool keeps to such FlowSpecs.
LEMMA ToolStep ==
    ASSUME CommandInv, ToolInv, [CommandNext]_allVars
    PROVE  ToolInv'
<1>1. CASE UNCHANGED <<spec, flows, pc>>
  BY <1>1 DEF ToolInv
<1>2. CASE flows' = flows /\ pc' \notin {"inPort", "parse", "output"}
  BY <1>2 DEF ToolInv
<1>3. CASE BeginFlow
  <2>1. spec' = NewFlowSpec /\ OnlyInPort(NewFlowSpec)
    BY <1>3 DEF BeginFlow, OnlyInPort, NewFlowSpec, EmptyFn
  <2> QED
    BY <1>3, <2>1 DEF BeginFlow, Begin, ToolInv
<1>4. CASE LookupInPort
  <2>1. CASE number[opts.inPort] = None
    BY <1>2, <1>4, <2>1 DEF LookupInPort, Return, flowVars
  <2>2. CASE number[opts.inPort] # None
    <3> DEFINE x == number[opts.inPort]
               k == NewInPortFlowKey(x)
    <3>1. opts.inPort \in VportNames
      BY <1>4, TextAssumption DEF LookupInPort, CommandInv, PlaceOK
    <3>2. x \in Numbers
      BY <2>2, <3>1, NumberOK DEF CommandInv
    <3>3. /\ spec' = [keys    |-> [u \in DOMAIN spec.keys \cup {"IN_PORT"} |->
                                      IF u = "IN_PORT" THEN k ELSE spec.keys[u]],
                      actions |-> spec.actions]
          /\ pc' = "parse" /\ flows' = flows /\ pc = "inPort"
      BY <1>4, <2>2 DEF LookupInPort, AddKey
    <3>4. spec.actions = <<>> /\ DOMAIN spec.keys = {}
      BY <3>3 DEF ToolInv, NewFlowSpec, EmptyFn
    <3> HIDE DEF k
    <3>5. spec'.actions = <<>> /\ DOMAIN spec'.keys = {"IN_PORT"} /\ spec'.keys["IN_PORT"] = k
      BY <3>3, <3>4
    <3>6. OnlyInPort(spec')
      BY <3>2, <3>5 DEF OnlyInPort, k
    <3> QED
      BY <3>3, <3>6 DEF ToolInv
  <2> QED
    BY <2>1, <2>2
<1>5. CASE ParseOptions
  <2>1. CASE Invalid(opts)
    BY <1>2, <1>5, <2>1 DEF ParseOptions, Return
  <2>2. CASE ~Invalid(opts)
    <3> DEFINE ks == [t \in DOMAIN spec.keys \cup DOMAIN KeysOf(opts) |->
                         IF t \in DOMAIN KeysOf(opts) THEN KeysOf(opts)[t] ELSE spec.keys[t]]
    <3>1. /\ spec'.keys = ks /\ spec'.actions = Sets(opts) /\ DOMAIN spec' = {"keys", "actions"}
          /\ pc' = "output" /\ pc = "parse" /\ flows' = flows
      BY <1>5, <2>2 DEF ParseOptions
    <3>2. opts \in Options /\ OnlyInPort(spec)
      BY <3>1 DEF CommandInv, PlaceOK, ToolInv
    <3>3. ToolKeys(ks)
      BY <2>2, <3>2, ToolKeysMade
    <3> HIDE DEF ks
    <3>4. ToolSpec(spec')
      BY <3>1, <3>3, ToolSets DEF ToolSpec
    <3> QED
      BY <3>1, <3>4 DEF ToolInv
  <2> QED
    BY <2>1, <2>2
<1>6. CASE LookupOutput
  <2> DEFINE x == number[opts.output[next]]
  <2>1. CASE x = None
    BY <1>2, <1>6, <2>1 DEF LookupOutput, Return
  <2>2. CASE x # None
    <3> DEFINE ns == Append(spec.actions, NewOutputAction(x))
    <3>1. /\ spec' = [spec EXCEPT !.actions = ns]
          /\ pc' = "output" /\ pc = "output" /\ flows' = flows /\ next <= Len(opts.output)
      BY <1>6, <2>2 DEF LookupOutput
    <3>2. opts \in Options /\ IsActions(spec.actions) /\ next \in Nat \ {0}
      BY <3>1 DEF CommandInv, PlaceOK, CommandTypeOK, TypeOK, IsFlowSpec
    <3>3. opts.output \in Seq(VportNames)
      BY <3>2, TextAssumption
    <3>4. next \in 1 .. Len(opts.output)
      BY <3>1, <3>2, <3>3, LenProperties
    <3>5. x \in Numbers
      BY <2>2, <3>3, <3>4, ElementOfSeq, NumberOK DEF CommandInv
    <3>6. DOMAIN spec = {"keys", "actions"} /\ ToolKeys(spec.keys) /\ ToolActions(spec.actions)
      BY <3>1 DEF ToolInv, ToolSpec
    <3>7. ToolActions(ns)
      BY <3>2, <3>5, <3>6, ToolOutput
    <3> HIDE DEF ns
    <3>8. spec'.actions = ns /\ spec'.keys = spec.keys /\ DOMAIN spec' = {"keys", "actions"}
      BY <3>1, <3>6
    <3> QED
      BY <3>1, <3>6, <3>7, <3>8 DEF ToolInv, ToolSpec
  <2> QED
    BY <2>1, <2>2
<1>7. CASE Request \/ (RequestFails /\ pc = "output" /\ Send)
  <2>1. pc = "output" /\ Send /\ pc' = "done"
    BY <1>7 DEF Request, RequestFails, Return
  <2>2. \A g \in flows' : ToolSpec(g.by)
    BY <2>1, ToolRequest
  <2> QED
    BY <2>1, <2>2 DEF ToolInv
<1>8. CASE VportsChange \/ OtherInstalls
  BY <1>1, <1>8 DEF VportsChange, OtherInstalls, InstallForeign, flowVars, commandVars
<1>9. CASE BeginList \/ Exit \/ LookupFails \/ (RequestFails /\ UNCHANGED flowVars) \/ PrintKeys
             \/ PrintAction \/ EndOfLine \/ Enumerate
  BY <1>2, <1>9 DEF BeginList, Begin, Exit, LookupFails, RequestFails, Return, PrintKeys, PrintAction,
                   EndOfLine, Enumerate, EnumerateFlows, flowVars
<1> QED
  <2>1. RequestFails => UNCHANGED flowVars \/ (pc = "output" /\ Send)
    BY DEF RequestFails
  <2> QED
    BY <1>1, <1>3, <1>4, <1>5, <1>6, <1>7, <1>8, <1>9, <2>1
       DEF CommandNext, allVars, flowVars, commandVars

-----------------------------------------------------------------------------
(* Entries of a list, and the lines printed.                               *)

\* The FlowSpec listed is Equal to the one that the flow was made of.
EntryOK(e) ==
    /\ IsFlowSpec(e.spec) /\ IsFlowSpec(e.by) /\ ToolSpec(e.by)
    /\ SpecEquals(e.spec, e.by)
    /\ \A i \in DOMAIN e.spec.actions :
          e.spec.actions[i].kind = "SetTunnel" => e.spec.actions[i].present # {}
EntriesInv == \A e \in listed : e.by # None => EntryOK(e)

\* The tool's keys are ones that a list gives back.
LEMMA ToolOrdinary ==
    ASSUME NEW ks, ToolKeys(ks)
    PROVE  Ordinary(ks) /\ UnderMask(ks)
<1>1. Ordinary(ks)
  BY TypesAssumption DEF ToolKeys, Ordinary, HasEthernet, DfAlone, Ignored
<1>2. UnderMask(ks)
  BY TypesAssumption DEF ToolKeys, UnderMask
<1> QED
  BY <1>1, <1>2

\* The kernel takes no SET action without fields.
LEMMA SetPresent ==
    ASSUME NEW a, a.kind = "SetTunnel", ActionAccepted(ActionNlAttr(a))
    PROVE  a.present # {}
<1> DEFINE P == (a.present \ FlagFields) \cup {f \in FlagFields : Field(a.attrs, f) # {}}
           m == TunnelNlAttrs(a.attrs, P)
           w == [n \in {"TUNNEL"} |-> m]
<1>1. ActionNlAttr(a) = [typ |-> "SET", val |-> w]
  BY DEF ActionNlAttr
<1>2. DOMAIN w = {"TUNNEL"} /\ w["TUNNEL"] = m /\ DOMAIN m \subseteq P
  BY DEF TunnelNlAttrs
<1> HIDE DEF w, m
<1>3. "Ipv4Dst" \in P
  BY <1>1, <1>2 DEF ActionAccepted, TunnelComplete
<1> QED
  BY <1>3 DEF FlagFields

\* A flow that the tool made is listed as such.
LEMMA EntryListed ==
    ASSUME IndInv, ToolInv, ShownTypes \cap OtherTypes = {},
           NEW extra \in SUBSET ShownTypes, NEW withKey \in SUBSET extra,
           NEW masked \in BOOLEAN, NEW linux43 \in BOOLEAN,
           NEW e \in OwnListed(extra, withKey, masked, linux43)
    PROVE  EntryOK(e)
<1>1. PICK f \in flows :
         /\ e.spec = ParseFlowSpec(ListFlow(f, extra, withKey, masked, linux43))
         /\ e.by = f.by
  BY DEF OwnListed
<1>2. FlowTyped(f) /\ FlowBy(f) /\ IsFlowSpec(f.by) /\ ToolSpec(f.by)
  BY DEF IndInv, TypeOK, FlowsInv, FlowTyped, ToolInv
<1>3. /\ IsFlowSpec(e.spec)
      /\ e.spec.keys = ListedKeys(f, extra, withKey, masked)
      /\ ActionAttrs(e.spec) = f.actions
      /\ Len(e.spec.actions) = Len(f.by.actions)
      /\ \A i \in DOMAIN e.spec.actions : ActionEquals(e.spec.actions[i], f.by.actions[i])
  BY <1>1, <1>2, ListedSpec
<1>4. Equals(e.spec.keys, f.by.keys)
  BY <1>2, <1>3, ToolOrdinary, ListedEquals DEF ToolSpec
<1>5. ASSUME NEW i \in DOMAIN e.spec.actions, e.spec.actions[i].kind = "SetTunnel"
      PROVE  e.spec.actions[i].present # {}
  <2>1. DOMAIN f.actions = DOMAIN e.spec.actions /\ f.actions[i] = ActionNlAttr(e.spec.actions[i])
    BY <1>3 DEF ActionAttrs
  <2>2. ActionAccepted(f.actions[i])
    BY <1>2, <2>1 DEF FlowBy
  <2> QED
    BY <1>5, <2>1, <2>2, SetPresent
<1> QED
  BY <1>1, <1>2, <1>3, <1>4, <1>5 DEF EntryOK, SpecEquals

\* So every list is.
LEMMA EntriesStep ==
    ASSUME CommandInv, ToolInv, EntriesInv, ShownTypes \cap OtherTypes = {}, [CommandNext]_allVars
    PROVE  EntriesInv'
<1>1. CASE listed' \in {{}, listed}
  BY <1>1 DEF EntriesInv
<1>2. CASE Enumerate
  <2>1. PICK extra \in SUBSET ShownTypes, masked \in BOOLEAN, linux43 \in BOOLEAN :
           \E withKey \in SUBSET extra :
              \A e \in listed' : e \in OwnListed(extra, withKey, masked, linux43) \cup ForeignListed
    BY <1>2 DEF Enumerate, EnumerateFlows
  <2>2. PICK withKey \in SUBSET extra :
           \A e \in listed' : e \in OwnListed(extra, withKey, masked, linux43) \cup ForeignListed
    BY <2>1
  <2>3. \A e \in ForeignListed : e.by = None
    BY DEF ForeignListed
  <2>4. \A e \in OwnListed(extra, withKey, masked, linux43) : EntryOK(e)
    BY EntryListed DEF CommandInv
  <2> QED
    BY <2>2, <2>3, <2>4 DEF EntriesInv
<1>3. CASE Send
  BY <1>1, <1>3 DEF Send, CreateFlow, DeleteFlow, ClearFlow, Fails
<1> QED
  BY <1>1, <1>2, <1>3 DEF CommandNext, VportsChange, OtherInstalls, InstallForeign, BeginFlow, BeginList,
       Exit, LookupFails, LookupInPort, AddKey, ParseOptions, LookupOutput, Request, RequestFails,
       PrintKeys, PrintAction, EndOfLine, allVars, flowVars

\* The options o are what is printed of the keys of p and of its first n actions.
SetFirst(as) == IF 1 \in DOMAIN as /\ as[1].kind = "SetTunnel" THEN 1 ELSE 0
KeysPrinted(o, ks) ==
    /\ DOMAIN o = {"inPort", "ethSrc", "ethDst", "tunnel", "setTunnel", "output", "junk"}
    /\ o.inPort = PrintFlowKeys(ks).inPort
    /\ o.ethSrc = PrintFlowKeys(ks).ethSrc /\ o.ethDst = PrintFlowKeys(ks).ethDst
    /\ o.tunnel = PrintFlowKeys(ks).tunnel /\ o.junk = PrintFlowKeys(ks).junk
SetPrinted(o, as, n) ==
    o.setTunnel = IF n > 0 /\ SetFirst(as) = 1
                  THEN PrintTunnelOptions(as[1].attrs, as[1].present \X Pos) ELSE NoTunnel
OutputsPrinted(o, as, n) ==
    /\ o.output \in Seq(VportNames \cup {Unnamed})
    /\ Len(o.output) = IF n = 0 THEN 0 ELSE n - SetFirst(as)
    /\ \A i \in 1 .. Len(o.output) : o.output[i] = LookupVportName(as[SetFirst(as) + i].vport)
Printed(o, p, n) ==
    KeysPrinted(o, p.keys) /\ SetPrinted(o, p.actions, n) /\ OutputsPrinted(o, p.actions, n)

LinesInv ==
    ~moved =>
        /\ (pc = "actions" /\ cur.by # None) => Printed(line, cur.spec, next - 1)
        /\ \A l \in lines : l.entry.by # None =>
              EntryOK(l.entry) /\ Printed(l.opts, l.entry.spec, Len(l.entry.spec.actions))

\* The vports are what they were.
LEMMA SameVports ==
    ASSUME number' = number, NEW o, NEW p, NEW n
    PROVE  Printed(o, p, n)' <=> Printed(o, p, n)
<1>1. ASSUME NEW x PROVE LookupVportName(x)' = LookupVportName(x)
  BY DEF LookupVportName
<1>2. ASSUME NEW ks PROVE PrintFlowKeys(ks)' = PrintFlowKeys(ks)
  BY <1>1 DEF PrintFlowKeys, LookupVportName
<1> QED
  BY <1>1, <1>2 DEF Printed, KeysPrinted, SetPrinted, OutputsPrinted

\* The fields of a line that printFlowKeys begins.
LEMMA KeysFields ==
    ASSUME NEW ks
    PROVE  /\ KeysPrinted(PrintFlowKeys(ks), ks)
           /\ PrintFlowKeys(ks).setTunnel = NoTunnel /\ PrintFlowKeys(ks).output = <<>>
BY DEF KeysPrinted, PrintFlowKeys, NoOptions

\* printFlowKeys prints no actions.
LEMMA PrintedFirst ==
    ASSUME NEW p
    PROVE  Printed(PrintFlowKeys(p.keys), p, 0)
<1> DEFINE o == PrintFlowKeys(p.keys)
<1>1. KeysPrinted(o, p.keys) /\ o.setTunnel = NoTunnel /\ o.output = <<>>
  BY KeysFields
<1> HIDE DEF o
<1>2. SetPrinted(o, p.actions, 0)
  BY <1>1 DEF SetPrinted
<1>3. OutputsPrinted(o, p.actions, 0)
  BY <1>1, EmptySeq DEF OutputsPrinted
<1> QED
  BY <1>1, <1>2, <1>3 DEF Printed, o

\* LookupVportName returns a name, or the text for a number without one.
LEMMA LookupNames ==
    ASSUME NEW x
    PROVE  /\ LookupVportName(x) \in VportNames \cup {Unnamed}
           /\ LookupVportName(x) # Unnamed =>
                 LookupVportName(x) \in VportNames /\ number[LookupVportName(x)] = x
<1>1. CASE \E n \in VportNames : number[n] = x
  BY <1>1 DEF LookupVportName
<1>2. CASE ~\E n \in VportNames : number[n] = x
  BY <1>2 DEF LookupVportName
<1> QED
  BY <1>1, <1>2

\* One more action is printed.
LEMMA PrintedNext ==
    ASSUME NEW p, IsActions(p.actions), ToolActions(p.actions), NEW n \in Nat,
           n + 1 \in DOMAIN p.actions, NEW o, Printed(o, p, n)
    PROVE  Printed(PrintFlowAction(o, p.actions[n + 1]), p, n + 1)
<1> DEFINE as == p.actions
           a == as[n + 1]
           new == PrintFlowAction(o, a)
           name == LookupVportName(a.vport)
           s == SetFirst(as)
           D == {"inPort", "ethSrc", "ethDst", "tunnel", "setTunnel", "output", "junk"}
<1>1. DOMAIN o = D /\ o.output \in Seq(VportNames \cup {Unnamed})
  BY DEF Printed, KeysPrinted, OutputsPrinted
<1>2. 1 \in DOMAIN as
  <2>1. DOMAIN as = 1 .. Len(as) /\ Len(as) \in Nat
    BY ListDomain DEF IsActions
  <2> QED
    BY <2>1
<1>3. s \in {0, 1} /\ (s = 1 <=> as[1].kind = "SetTunnel")
  BY <1>2 DEF SetFirst
<1>4. CASE a.kind = "Output"
  <2> DEFINE out == Append(o.output, name)
  <2>1. new = [o EXCEPT !.output = out]
    BY <1>4 DEF PrintFlowAction
  <2>2. name \in VportNames \cup {Unnamed}
    BY LookupNames
  <2> HIDE DEF name
  <2>3. out \in Seq(VportNames \cup {Unnamed}) /\ Len(out) = Len(o.output) + 1 /\ out[Len(o.output) + 1] = name
    BY <1>1, <2>2, AppendProperties
  <2>4. \A i \in 1 .. Len(o.output) : out[i] = o.output[i]
    BY <1>1, <2>2, AppendProperties
  <2> HIDE DEF out
  <2>5. /\ DOMAIN new = D /\ new.output = out /\ new.setTunnel = o.setTunnel
        /\ new.inPort = o.inPort /\ new.ethSrc = o.ethSrc /\ new.ethDst = o.ethDst
        /\ new.tunnel = o.tunnel /\ new.junk = o.junk
    BY <1>1, <2>1
  <2> HIDE DEF new
  <2>6. KeysPrinted(new, p.keys)
    BY <2>5 DEF Printed, KeysPrinted
  <2>7. n = 0 => s = 0
    BY <1>3, <1>4
  <2> HIDE DEF s
  <2>8. SetPrinted(new, as, n + 1)
    BY <1>3, <2>5, <2>7 DEF Printed, SetPrinted, s
  <2>9. Len(o.output) = n - s /\ n - s \in Nat
    BY <1>1, <1>3, <2>7, LenProperties DEF Printed, OutputsPrinted, s
  <2>10. Len(out) = (n + 1) - s
    BY <1>3, <2>3, <2>9
  <2>11. ASSUME NEW i \in 1 .. Len(out) PROVE out[i] = LookupVportName(as[s + i].vport)
    <3>1. CASE i = Len(o.output) + 1
      <4>1. s + i = n + 1
        BY <1>3, <2>9, <3>1
      <4> QED
        BY <2>3, <3>1, <4>1 DEF name
    <3>2. CASE i # Len(o.output) + 1
      <4>1. i \in 1 .. Len(o.output)
        BY <1>3, <2>9, <2>10, <3>2
      <4> QED
        BY <2>4, <4>1 DEF Printed, OutputsPrinted, s
    <3> QED
      BY <3>1, <3>2
  <2>12. OutputsPrinted(new, as, n + 1)
    BY <2>3, <2>5, <2>10, <2>11 DEF OutputsPrinted, s
  <2> QED
    BY <2>6, <2>8, <2>12 DEF Printed, new
<1>5. CASE n = 0 /\ a.kind = "SetTunnel"
  <2> DEFINE set == PrintTunnelOptions(as[1].attrs, as[1].present \X Pos)
             both == [f \in DOMAIN o.setTunnel \cup DOMAIN set |->
                         IF f \in DOMAIN set THEN set[f] ELSE o.setTunnel[f]]
  <2>1. new = [o EXCEPT !.setTunnel = both]
    BY <1>5 DEF PrintFlowAction
  <2>2. o.setTunnel = NoTunnel /\ DOMAIN NoTunnel = {}
    BY <1>5 DEF Printed, SetPrinted, NoTunnel, EmptyFn
  <2>3. set = [f \in DOMAIN set |-> set[f]]
    BY DEF PrintTunnelOptions
  <2> HIDE DEF set
  <2>4. both = set
    BY <2>2, <2>3
  <2> HIDE DEF both
  <2>5. /\ DOMAIN new = D /\ new.output = o.output /\ new.setTunnel = set
        /\ new.inPort = o.inPort /\ new.ethSrc = o.ethSrc /\ new.ethDst = o.ethDst
        /\ new.tunnel = o.tunnel /\ new.junk = o.junk
    BY <1>1, <2>1, <2>4
  <2> HIDE DEF new
  <2>6. KeysPrinted(new, p.keys)
    BY <2>5 DEF Printed, KeysPrinted
  <2>7. s = 1
    BY <1>3, <1>5
  <2>8. SetPrinted(new, as, n + 1)
    BY <1>5, <2>5, <2>7 DEF SetPrinted, set
  <2>9. Len(o.output) = 0
    BY <1>5 DEF Printed, OutputsPrinted
  <2> HIDE DEF s
  <2>10. OutputsPrinted(new, as, n + 1)
    BY <1>1, <1>5, <2>5, <2>7, <2>9 DEF OutputsPrinted, s
  <2> QED
    BY <2>6, <2>8, <2>10 DEF Printed, new
<1> QED
  BY <1>4, <1>5 DEF ToolActions

\* The actions of an entry, and those of the FlowSpec its flow was made of.
LEMMA EntryActions ==
    ASSUME NEW e, EntryOK(e)
    PROVE  /\ IsActions(e.spec.actions) /\ ToolActions(e.spec.actions)
           /\ Len(e.spec.actions) \in Nat /\ DOMAIN e.spec.actions = 1 .. Len(e.spec.actions)
           /\ DOMAIN e.by.actions = DOMAIN e.spec.actions
           /\ \A i \in DOMAIN e.spec.actions : e.spec.actions[i].kind = e.by.actions[i].kind
<1> DEFINE as == e.spec.actions
           bs == e.by.actions
<1>1. IsActions(as) /\ IsActions(bs) /\ ToolActions(bs) /\ Len(as) = Len(bs)
  BY DEF EntryOK, IsFlowSpec, ToolSpec, SpecEquals
<1>2. \A i \in DOMAIN as : ActionEquals(as[i], bs[i])
  BY DEF EntryOK, SpecEquals
<1> HIDE DEF as, bs
<1>3. Len(as) \in Nat /\ DOMAIN as = 1 .. Len(as) /\ DOMAIN bs = DOMAIN as
  BY <1>1, ListDomain DEF IsActions
<1>4. ToolActions(as) /\ \A i \in DOMAIN as : as[i].kind = bs[i].kind
  BY <1>1, <1>2, <1>3 DEF ToolActions, ActionEquals
<1> QED
  BY <1>1, <1>3, <1>4 DEF as, bs

\* The lines printed keep to it, until a vport comes or goes.
LEMMA LinesStep ==
    ASSUME CommandInv, Printing, EntriesInv, LinesInv, [CommandNext]_allVars
    PROVE  LinesInv'
<1>1. CASE UNCHANGED <<number, moved, pc, cur, line, next, lines>>
  BY <1>1, SameVports DEF LinesInv
<1>2. CASE lines' = {} /\ pc' # "actions"
  BY <1>2 DEF LinesInv
<1>3. CASE UNCHANGED <<number, moved, lines>> /\ pc' # "actions"
  BY <1>3, SameVports DEF LinesInv
<1>4. CASE VportsChange
  <2>1. CASE pc = "idle"
    BY <1>2, <1>4, <2>1 DEF VportsChange, Printing, printVars
  <2>2. CASE pc # "idle"
    BY <1>4, <2>2 DEF VportsChange, LinesInv
  <2> QED
    BY <2>1, <2>2
<1>5. CASE PrintKeys /\ pc' = "actions"
  <2>1. /\ line' = PrintFlowKeys(cur'.spec.keys) /\ next' = 1
        /\ UNCHANGED <<number, moved, lines>>
    BY <1>5 DEF PrintKeys, Return, CommandInv, PlaceOK
  <2>2. Printed(line', cur'.spec, next' - 1)
    BY <2>1, PrintedFirst
  <2> QED
    BY <2>1, <2>2, SameVports DEF LinesInv
<1>6. CASE PrintAction
  <2>1. /\ pc = "actions" /\ next <= Len(cur.spec.actions)
        /\ line' = PrintFlowAction(line, cur.spec.actions[next]) /\ next' = next + 1
        /\ UNCHANGED <<number, moved, lines, cur, pc>>
    BY <1>6 DEF PrintAction
  <2>2. ASSUME ~moved, cur.by # None PROVE Printed(line', cur.spec, next' - 1)
    <3>1. cur \in listed /\ next \in Nat \ {0}
      BY <2>1 DEF CommandInv, PlaceOK, CommandTypeOK
    <3>2. EntryOK(cur)
      BY <2>2, <3>1 DEF EntriesInv
    <3>3. Printed(line, cur.spec, next - 1)
      BY <2>1, <2>2 DEF LinesInv
    <3> DEFINE n == next - 1
               p == cur.spec
    <3>4. /\ IsActions(p.actions) /\ ToolActions(p.actions)
          /\ DOMAIN p.actions = 1 .. Len(p.actions) /\ Len(p.actions) \in Nat
      BY <3>2, EntryActions
    <3>5. n \in Nat /\ n + 1 = next /\ next' - 1 = n + 1 /\ n + 1 \in DOMAIN p.actions
      BY <2>1, <3>1, <3>4
    <3> HIDE DEF n, p
    <3>6. Printed(PrintFlowAction(line, p.actions[n + 1]), p, n + 1)
      BY <3>3, <3>4, <3>5, PrintedNext DEF n, p
    <3> QED
      BY <2>1, <3>5, <3>6 DEF p
  <2> QED
    BY <2>1, <2>2, SameVports DEF LinesInv
<1>7. CASE EndOfLine
  <2> DEFINE l0 == [opts |-> line, entry |-> cur]
  <2>1. /\ pc = "actions" /\ next > Len(cur.spec.actions)
        /\ lines' = lines \cup {l0} /\ l0.opts = line /\ l0.entry = cur /\ pc' = "keys"
        /\ UNCHANGED <<number, moved>>
    BY <1>7 DEF EndOfLine
  <2> HIDE DEF l0
  <2>2. ASSUME ~moved, cur.by # None
        PROVE  EntryOK(cur) /\ Printed(line, cur.spec, Len(cur.spec.actions))
    <3>1. cur \in listed /\ next \in Nat \ {0} /\ next <= 1 + Len(cur.spec.actions)
      BY <2>1 DEF CommandInv, PlaceOK, CommandTypeOK
    <3>2. EntryOK(cur)
      BY <2>2, <3>1 DEF EntriesInv
    <3>3. Len(cur.spec.actions) \in Nat
      BY <3>2, EntryActions
    <3>4. next - 1 = Len(cur.spec.actions)
      BY <2>1, <3>1, <3>3
    <3> QED
      BY <2>1, <2>2, <3>2, <3>4 DEF LinesInv
  <2>3. ASSUME ~moved, NEW l \in lines', l.entry.by # None
        PROVE  EntryOK(l.entry) /\ Printed(l.opts, l.entry.spec, Len(l.entry.spec.actions))
    BY <2>1, <2>2, <2>3 DEF LinesInv
  <2> QED
    BY <2>1, <2>3, SameVports DEF LinesInv
<1>8. CASE Exit \/ BeginFlow \/ BeginList
  BY <1>2, <1>8 DEF Exit, BeginFlow, BeginList, Begin, printVars, Printing
<1>9. CASE LookupFails \/ RequestFails \/ LookupInPort \/ ParseOptions \/ LookupOutput \/ Request
             \/ Enumerate \/ (PrintKeys /\ pc' # "actions")
  BY <1>3, <1>9 DEF LookupFails, RequestFails, LookupInPort, ParseOptions, LookupOutput, Request,
                   Enumerate, PrintKeys, Return, printVars
<1>10. CASE OtherInstalls
  BY <1>1, <1>10 DEF OtherInstalls, commandVars, printVars
<1> QED
  BY <1>1, <1>4, <1>5, <1>6, <1>7, <1>8, <1>9, <1>10 DEF CommandNext, allVars, commandVars, printVars

-----------------------------------------------------------------------------
(* A line read back.                                                       *)

\* An address that was printed is read as it was under its mask.
LEMMA AddrBack ==
    ASSUME NEW k, NEW field, Field(k.key, field) \subseteq {field} \X Pos,
           Field(k.mask, field) \subseteq {field} \X Pos,
           NEW h, h = HandleEthernetAddrOption(PrintEthAddrOption(k, field))
    PROVE  /\ ~h.err /\ h.addr \subseteq Pos /\ h.mask \subseteq Pos
           /\ {field} \X h.mask = Field(k.mask, field)
           /\ h.mask # {} => {field} \X h.addr = Field(k.key, field)
<1> DEFINE A == Field(k.key, field)
           M == Field(k.mask, field)
           addr == {b[2] : b \in A}
           mask == {b[2] : b \in M}
           o == PrintEthAddrOption(k, field)
<1>1. o = CASE mask = {}  -> Absent
            [] mask = Pos -> [form |-> "plain", addr |-> addr, mask |-> {}]
            [] OTHER      -> [form |-> "masked", addr |-> addr, mask |-> mask]
  BY DEF PrintEthAddrOption
<1> HIDE DEF A, M
<1>2. \A b \in {field} \X Pos : b = <<field, b[2]>> /\ b[2] \in Pos
  OBVIOUS
<1>3. addr \subseteq Pos /\ {field} \X addr = A
  BY <1>2 DEF A
<1>4. mask \subseteq Pos /\ {field} \X mask = M
  BY <1>2 DEF M
<1> HIDE DEF addr, mask, o
<1>5. h = HandleEthernetAddrOption(o)
  BY DEF o
<1>6. CASE mask = {}
  <2>1. o = Absent
    BY <1>1, <1>6, TextAssumption
  <2> QED
    BY <1>4, <1>5, <1>6, <2>1 DEF HandleEthernetAddrOption, Absent, M
<1>7. CASE mask = Pos
  <2>1. o = [form |-> "plain", addr |-> addr, mask |-> {}]
    BY <1>1, <1>7, TextAssumption
  <2>2. h = [addr |-> addr, mask |-> Pos, err |-> FALSE]
    BY <1>5, <2>1 DEF HandleEthernetAddrOption
  <2> QED
    BY <1>3, <1>4, <1>7, <2>2 DEF A, M
<1>8. CASE mask # {} /\ mask # Pos
  <2>1. o = [form |-> "masked", addr |-> addr, mask |-> mask]
    BY <1>1, <1>8
  <2>2. h = [addr |-> addr, mask |-> mask, err |-> FALSE]
    BY <1>5, <2>1 DEF HandleEthernetAddrOption
  <2> QED
    BY <1>3, <1>4, <2>2 DEF A, M
<1> QED
  BY <1>6, <1>7, <1>8

\* So is an ethernet key.
LEMMA EthernetBack ==
    ASSUME NEW k, k.key \subseteq Bits("ETHERNET"), k.mask \subseteq Bits("ETHERNET"),
           NEW o, o.ethSrc = PrintEthAddrOption(k, "EthSrc"), o.ethDst = PrintEthAddrOption(k, "EthDst")
    PROVE  HandleEthernet(o) # Error /\ BlobEquals(HandleEthernet(o), k)
<1> DEFINE src == HandleEthernetAddrOption(o.ethSrc)
           dst == HandleEthernetAddrOption(o.ethDst)
           e == HandleEthernet(o)
<1>1. Bits("ETHERNET") = {"EthSrc", "EthDst"} \X Pos
  BY TypesAssumption DEF Bits, Fields
<1>2. \A f : Field(k.key, f) \subseteq {f} \X Pos /\ Field(k.mask, f) \subseteq {f} \X Pos
  BY <1>1 DEF Field
<1>3. /\ ~src.err /\ src.addr \subseteq Pos /\ src.mask \subseteq Pos
      /\ {"EthSrc"} \X src.mask = Field(k.mask, "EthSrc")
      /\ src.mask # {} => {"EthSrc"} \X src.addr = Field(k.key, "EthSrc")
  BY <1>2, AddrBack
<1>4. /\ ~dst.err /\ dst.addr \subseteq Pos /\ dst.mask \subseteq Pos
      /\ {"EthDst"} \X dst.mask = Field(k.mask, "EthDst")
      /\ dst.mask # {} => {"EthDst"} \X dst.addr = Field(k.key, "EthDst")
  BY <1>2, AddrBack
<1>5. e = EthernetKey(src, dst)
  BY <1>4 DEF HandleEthernet
<1> HIDE DEF src, dst, e
<1>6. e # Error
  <2>1. KnownKey("ETHERNET", NewEthernetFlowKey)
    BY BlobKnown, TypesAssumption DEF NewEthernetFlowKey, Types
  <2>2. KnownKey("ETHERNET", SetMaskedEth(NewEthernetFlowKey, "EthSrc", src))
    BY <1>3, <2>1, EthKnown
  <2>3. KnownKey("ETHERNET", EthernetKey(src, dst))
    BY <1>4, <2>2, EthKnown DEF EthernetKey
  <2>4. \E kk, mm, xx : EthernetKey(src, dst) = [key |-> kk, mask |-> mm, exact |-> xx]
    BY <2>3, TypesAssumption DEF KnownKey, FlowKey
  <2> QED
    BY <1>5, <2>4, NotError
<1>7. /\ e.key = ({"EthSrc"} \X src.addr) \cup ({"EthDst"} \X dst.addr)
      /\ e.mask = ({"EthSrc"} \X src.mask) \cup ({"EthDst"} \X dst.mask)
  BY <1>5, EthernetBits
<1>8. \A v : v \subseteq {"EthSrc", "EthDst"} \X Pos => v = Field(v, "EthSrc") \cup Field(v, "EthDst")
  BY DEF Field
<1>9. e.mask = k.mask
  BY <1>1, <1>3, <1>4, <1>7, <1>8
<1>10. ASSUME NEW b \in k.mask PROVE b \in e.key <=> b \in k.key
  <2>1. CASE b \in {"EthSrc"} \X src.mask
    <3>1. b[1] = "EthSrc" /\ src.mask # {}
      BY <2>1
    <3>2. b \in e.key <=> b \in {"EthSrc"} \X src.addr
      BY <1>7, <3>1
    <3> QED
      BY <1>3, <3>1, <3>2 DEF Field
  <2>2. CASE b \in {"EthDst"} \X dst.mask
    <3>1. b[1] = "EthDst" /\ dst.mask # {}
      BY <2>2
    <3>2. b \in e.key <=> b \in {"EthDst"} \X dst.addr
      BY <1>7, <3>1
    <3> QED
      BY <1>4, <3>1, <3>2 DEF Field
  <2> QED
    BY <1>7, <1>9, <2>1, <2>2
<1>11. BlobEquals(e, k)
  BY <1>9, <1>10 DEF BlobEquals, Xor
<1> QED
  BY <1>6, <1>11 DEF e

\* Tunnel options that were printed are read as they were.
LEMMA TunnelBack ==
    ASSUME NEW F \in SUBSET TunnelFields, NEW v, v \subseteq F \X Pos,
           NEW tf, DOMAIN tf = F, \A f \in F : tf[f] = {b[2] : b \in Field(v, f)}
    PROVE  ParseTunnelFlags(tf) = [key |-> v, mask |-> F \X Pos, exact |-> FALSE]
<1> DEFINE s == [f \in DOMAIN tf |-> tf[f] \cap Pos]
<1>1. \A f \in F : tf[f] \subseteq Pos /\ {f} \X tf[f] = Field(v, f)
  <2> SUFFICES ASSUME NEW f \in F PROVE tf[f] \subseteq Pos /\ {f} \X tf[f] = Field(v, f)
    OBVIOUS
  <2>1. \A b \in Field(v, f) : b = <<f, b[2]>> /\ b[2] \in Pos
    BY DEF Field
  <2>2. tf[f] = {b[2] : b \in Field(v, f)}
    OBVIOUS
  <2> QED
    BY <2>1, <2>2
<1>2. \A f \in DOMAIN tf : tf[f] # BadText
  <2>1. \A w \in SUBSET Pos : w # BadText
    BY TextAssumption
  <2> QED
    BY <1>1, <2>1
<1>3. ParseTunnelFlags(tf) = SetTunnelFields(s)
  BY <1>2 DEF ParseTunnelFlags
<1>4. DOMAIN s = F /\ \A f \in F : s[f] = tf[f]
  BY <1>1
<1> HIDE DEF s
<1>5. UNION {{f} \X s[f] : f \in DOMAIN s} = UNION {Field(v, f) : f \in F}
  BY <1>1, <1>4
<1>6. UNION {Field(v, f) : f \in F} = v
  <2>1. ASSUME NEW b \in v PROVE \E f \in F : b \in Field(v, f)
    BY DEF Field
  <2> QED
    BY <2>1 DEF Field
<1> QED
  BY <1>3, <1>4, <1>5, <1>6 DEF SetTunnelFields

\* What printTunnelOptions prints of fields with exact masks.
LEMMA TunnelPrinted ==
    ASSUME NEW F \in SUBSET TunnelFields, NEW v
    PROVE  /\ DOMAIN PrintTunnelOptions(v, F \X Pos) = F
           /\ \A f \in F : PrintTunnelOptions(v, F \X Pos)[f] = {b[2] : b \in Field(v, f)}
<1>1. \A f \in TunnelFields : Field(F \X Pos, f) = IF f \in F THEN {f} \X Pos ELSE {}
  BY ProductField
<1>2. PICK x : x \in Pos
  BY TextAssumption
<1>3. \A f : <<f, x>> \in {f} \X Pos
  BY <1>2
<1>4. {g \in TunnelFields : Field(F \X Pos, g) # {}} = F
  BY <1>1, <1>3
<1> QED
  BY <1>1, <1>4 DEF PrintTunnelOptions

\* Without options there are no fields.
LEMMA NothingBack == ParseTunnelFlags(NoTunnel) = [key |-> {}, mask |-> {}, exact |-> FALSE]
<1>1. DOMAIN NoTunnel = {} /\ {} \X Pos = {}
  BY DEF NoTunnel, EmptyFn
<1>2. ParseTunnelFlags(NoTunnel) = [key |-> {}, mask |-> {} \X Pos, exact |-> FALSE]
  BY <1>1, TunnelBack
<1> QED
  BY <1>1, <1>2

\* The SET action is read as it was printed.
LEMMA SetBack ==
    ASSUME NEW a, IsAction(a), a.kind = "SetTunnel", a.present # {},
           NEW o, o.setTunnel = PrintTunnelOptions(a.attrs, a.present \X Pos)
    PROVE  /\ ParseTunnelFlags(o.setTunnel) # Error
           /\ Sets(o) = <<[kind |-> "SetTunnel", attrs |-> a.attrs, present |-> a.present]>>
<1> DEFINE F == a.present
           v == a.attrs
           fk == ParseTunnelFlags(o.setTunnel)
           present == {f \in TunnelFields : Field(fk.mask, f) = {f} \X Pos}
<1>1. F \subseteq TunnelFields /\ v \subseteq F \X Pos
  BY DEF IsAction
<1>2. /\ DOMAIN o.setTunnel = F
      /\ \A f \in F : o.setTunnel[f] = {b[2] : b \in Field(v, f)}
  <2>1. F \in SUBSET TunnelFields /\ o.setTunnel = PrintTunnelOptions(v, F \X Pos)
    BY <1>1
  <2> DEFINE tf == PrintTunnelOptions(v, F \X Pos)
  <2>2. DOMAIN tf = F /\ \A f \in F : tf[f] = {b[2] : b \in Field(v, f)}
    BY <2>1, TunnelPrinted
  <2> HIDE DEF F, v, tf
  <2> QED
    BY <2>1, <2>2 DEF tf
<1>3. fk = [key |-> v, mask |-> F \X Pos, exact |-> FALSE]
  BY <1>1, <1>2, TunnelBack
<1>4. present = F
  <2>1. \A f \in TunnelFields : Field(F \X Pos, f) = IF f \in F THEN {f} \X Pos ELSE {}
    BY ProductField
  <2>2. PICK x : x \in Pos
    BY TextAssumption
  <2>3. \A f : <<f, x>> \in {f} \X Pos
    BY <2>2
  <2> HIDE DEF fk
  <2>4. fk.mask = F \X Pos
    BY <1>3
  <2> QED
    BY <1>1, <2>1, <2>3, <2>4
<1>5. fk # Error
  BY <1>3, NotError
<1>6. Sets(o) = IF present = {} THEN <<>>
                ELSE <<[kind |-> "SetTunnel", attrs |-> fk.key, present |-> present]>>
  BY DEF Sets, ParseSetTunnelFlags
<1> HIDE DEF fk, present
<1>7. fk.key = v
  BY <1>3
<1> QED
  BY <1>4, <1>5, <1>6, <1>7 DEF fk

\* Nor is a SET action made of nothing.
LEMMA NoSetBack ==
    ASSUME NEW o, o.setTunnel = NoTunnel
    PROVE  ParseTunnelFlags(o.setTunnel) # Error /\ Sets(o) = <<>>
<1> DEFINE fk == ParseTunnelFlags(o.setTunnel)
           present == {f \in TunnelFields : Field(fk.mask, f) = {f} \X Pos}
<1>1. fk = [key |-> {}, mask |-> {}, exact |-> FALSE]
  BY NothingBack
<1>2. present = {}
  <2>1. PICK x : x \in Pos
    BY TextAssumption
  <2>2. \A f : <<f, x>> \in {f} \X Pos
    BY <2>1
  <2>3. fk.mask = {}
    BY <1>1
  <2> HIDE DEF fk
  <2> QED
    BY <2>2, <2>3 DEF Field
<1>3. Sets(o) = IF present = {} THEN <<>>
                ELSE <<[kind |-> "SetTunnel", attrs |-> fk.key, present |-> present]>>
  BY DEF Sets, ParseSetTunnelFlags
<1>4. fk # Error
  BY <1>1, NotError
<1> HIDE DEF present, fk
<1>5. Sets(o) = <<>>
  BY <1>2, <1>3
<1> QED
  BY <1>4, <1>5 DEF fk

\* The keys listed that are not ignored are those of the flow's own FlowSpec.
LEMMA KeysShown ==
    ASSUME NEW p, NEW q, ToolKeys(q), Equals(p, q)
    PROVE  /\ \A t : Shown(p, t) <=> t \in DOMAIN q
           /\ \A t \in DOMAIN q : t \in DOMAIN p /\ KeyEquals(t, p[t], q[t])
           /\ \A t \in DOMAIN p \ DOMAIN q : Ignored(t, p[t])
<1>1. \A t \in DOMAIN q : t \in {"ETHERNET", "TUNNEL", "IN_PORT"} /\ t \notin OtherTypes
  BY TypesAssumption DEF ToolKeys
<1>2. "IN_PORT" \in DOMAIN q => q["IN_PORT"].mask # {}
  <2>1. PICK x : x \in Pos
    BY TextAssumption
  <2>2. <<"lower16", x>> \in Bits("IN_PORT")
    BY <2>1, TypesAssumption DEF Bits, Fields
  <2> QED
    BY <2>2 DEF ToolKeys, NewInPortFlowKey, NewBlobFlowKey
<1>3. \A t \in DOMAIN q : ~Ignored(t, q[t])
  BY <1>1, <1>2 DEF ToolKeys, Ignored
<1>4. \A t \in DOMAIN q : t \in DOMAIN p /\ KeyEquals(t, p[t], q[t])
  BY <1>3 DEF Equals
<1>5. \A t \in DOMAIN q : ~Ignored(t, p[t])
  <2> SUFFICES ASSUME NEW t \in DOMAIN q PROVE ~Ignored(t, p[t])
    OBVIOUS
  <2>1. t \in {"ETHERNET", "TUNNEL", "IN_PORT"} /\ t \notin OtherTypes /\ KeyEquals(t, p[t], q[t])
    BY <1>1, <1>4
  <2>2. CASE t = "TUNNEL"
    BY <1>3, <2>1, <2>2 DEF KeyEquals
  <2>3. CASE t = "IN_PORT"
    BY <1>2, <2>1, <2>3 DEF KeyEquals, BlobEquals, Ignored
  <2>4. CASE t = "ETHERNET"
    BY <2>1, <2>4 DEF Ignored
  <2> QED
    BY <2>1, <2>2, <2>3, <2>4
<1>6. \A t \in DOMAIN p \ DOMAIN q : Ignored(t, p[t])
  BY DEF Equals
<1> QED
  BY <1>4, <1>5, <1>6 DEF Shown

\* The fields that printFlowKeys sets.
LEMMA FieldsPrinted ==
    ASSUME NEW o, NEW ks, KeysPrinted(o, ks)
    PROVE  /\ o.inPort = IF Shown(ks, "IN_PORT")
                         THEN LookupVportName({b[2] : b \in Field(ks["IN_PORT"].key, "lower16")})
                         ELSE None
           /\ Shown(ks, "ETHERNET") =>
                 /\ o.ethSrc = PrintEthAddrOption(ks["ETHERNET"], "EthSrc")
                 /\ o.ethDst = PrintEthAddrOption(ks["ETHERNET"], "EthDst")
           /\ o.tunnel = IF Shown(ks, "TUNNEL")
                         THEN PrintTunnelOptions(ks["TUNNEL"].key, ks["TUNNEL"].mask) ELSE NoTunnel
           /\ o.junk <=> \E t \in BlobTypes \cup OtherTypes : Shown(ks, t)
BY DEF KeysPrinted, PrintFlowKeys, NoOptions

\* The in-port is read as it was, unless its vport has gone.
LEMMA InPortBack ==
    ASSUME CommandInv, NEW p, NEW q, IsFlowKeys(p), ToolKeys(q), Equals(p, q),
           NEW o, KeysPrinted(o, p)
    PROVE  /\ o.inPort = None <=> "IN_PORT" \notin DOMAIN q
           /\ (o.inPort \notin {None, Unnamed}) =>
                 /\ o.inPort \in VportNames /\ number[o.inPort] # None
                 /\ NewInPortFlowKey(number[o.inPort]) = q["IN_PORT"]
<1> DEFINE k == p["IN_PORT"]
           y == {b[2] : b \in Field(k.key, "lower16")}
<1>1. o.inPort = IF "IN_PORT" \in DOMAIN q THEN LookupVportName(y) ELSE None
  BY KeysShown, FieldsPrinted
<1>2. LookupVportName(y) # None
  BY LookupNames, TextAssumption
<1>3. ASSUME "IN_PORT" \in DOMAIN q PROVE \E x \in Numbers : y = x /\ q["IN_PORT"] = NewInPortFlowKey(x)
  <2>1. PICK x \in Numbers : q["IN_PORT"] = NewInPortFlowKey(x)
    BY <1>3 DEF ToolKeys
  <2>2. "IN_PORT" \in DOMAIN p /\ BlobEquals(k, q["IN_PORT"])
    BY <1>3, KeysShown, TypesAssumption DEF KeyEquals
  <2>3. k.key \subseteq Bits("IN_PORT")
    BY <2>2, TypesAssumption DEF IsFlowKeys, FlowKey
  <2>4. /\ q["IN_PORT"].key = {"lower16"} \X x /\ q["IN_PORT"].mask = Bits("IN_PORT")
        /\ {"lower16"} \X x \subseteq Bits("IN_PORT")
    <3>1. x \subseteq Pos
      BY NumbersAssumption
    <3> QED
      BY <2>1, <3>1, TypesAssumption DEF NewInPortFlowKey, NewBlobFlowKey, Bits, Fields
  <2> HIDE DEF k
  <2>5. k.key = {"lower16"} \X x
    BY <2>2, <2>3, <2>4 DEF BlobEquals, Xor
  <2>6. Field({"lower16"} \X x, "lower16") = {"lower16"} \X x
    BY DEF Field
  <2>7. {b[2] : b \in {"lower16"} \X x} = x
    <3>1. \A z \in x : <<"lower16", z>> \in {"lower16"} \X x /\ <<"lower16", z>>[2] = z
      OBVIOUS
    <3> QED
      BY <3>1
  <2>8. y = x
    BY <2>5, <2>6, <2>7
  <2> QED
    BY <2>1, <2>8
<1> HIDE DEF y
<1>4. ASSUME o.inPort \notin {None, Unnamed}
      PROVE  /\ o.inPort \in VportNames /\ number[o.inPort] # None
             /\ NewInPortFlowKey(number[o.inPort]) = q["IN_PORT"]
  <2>1. "IN_PORT" \in DOMAIN q /\ o.inPort = LookupVportName(y)
    BY <1>1, <1>4
  <2>2. o.inPort \in VportNames /\ number[o.inPort] = y
    BY <1>4, <2>1, LookupNames
  <2>3. y \in Numbers /\ q["IN_PORT"] = NewInPortFlowKey(y)
    BY <1>3, <2>1
  <2>4. None \notin Numbers
    BY TextAssumption
  <2> QED
    BY <2>2, <2>3, <2>4
<1> QED
  BY <1>1, <1>2, <1>4

\* The tunnel key is read as it was, or left out again.
LEMMA TunnelKeyBack ==
    ASSUME NEW p, NEW q, IsFlowKeys(q), ToolKeys(q), Equals(p, q), NEW o, KeysPrinted(o, p)
    PROVE  /\ ParseTunnelFlags(o.tunnel) # Error
           /\ Ignored("TUNNEL", ParseTunnelFlags(o.tunnel)) <=> "TUNNEL" \notin DOMAIN q
           /\ "TUNNEL" \in DOMAIN q => ParseTunnelFlags(o.tunnel) = q["TUNNEL"]
<1>1. CASE "TUNNEL" \in DOMAIN q
  <2> DEFINE k == q["TUNNEL"]
  <2>1. p["TUNNEL"] = k /\ o.tunnel = PrintTunnelOptions(k.key, k.mask)
    <3>1. Shown(p, "TUNNEL") /\ KeyEquals("TUNNEL", p["TUNNEL"], k)
      BY <1>1, KeysShown
    <3>2. p["TUNNEL"] = k
      BY <3>1, TypesAssumption DEF KeyEquals
    <3> QED
      BY <3>1, <3>2, FieldsPrinted
  <2>2. PICK F \in SUBSET TunnelFields : k.mask = F \X Pos
    BY <1>1 DEF ToolKeys
  <2>3. k.key \subseteq F \X Pos /\ ~Ignored("TUNNEL", k)
    BY <1>1, <2>2 DEF ToolKeys
  <2>4. k = [key |-> k.key, mask |-> k.mask, exact |-> FALSE]
    BY <1>1, TypesAssumption DEF IsFlowKeys, FlowKey
  <2> DEFINE tf == PrintTunnelOptions(k.key, F \X Pos)
  <2>5. DOMAIN tf = F /\ \A f \in F : tf[f] = {b[2] : b \in Field(k.key, f)}
    BY TunnelPrinted
  <2>6. o.tunnel = tf
    BY <2>1, <2>2
  <2> HIDE DEF tf, k
  <2>7. ParseTunnelFlags(tf) = [key |-> k.key, mask |-> F \X Pos, exact |-> FALSE]
    BY <2>3, <2>5, TunnelBack
  <2>8. ParseTunnelFlags(o.tunnel) = k /\ k # Error
    BY <2>2, <2>4, <2>6, <2>7, NotError
  <2> QED
    BY <1>1, <2>3, <2>8 DEF k
<1>2. CASE "TUNNEL" \notin DOMAIN q
  <2>1. o.tunnel = NoTunnel
    BY <1>2, KeysShown, FieldsPrinted
  <2> DEFINE n == [key |-> {}, mask |-> {}, exact |-> FALSE]
  <2>2. ParseTunnelFlags(o.tunnel) = n
    BY <2>1, NothingBack
  <2>3. n # Error
    BY NotError
  <2>4. Ignored("TUNNEL", n)
    BY TypesAssumption DEF Ignored
  <2> HIDE DEF n
  <2> QED
    BY <1>2, <2>2, <2>3, <2>4
<1> QED
  BY <1>1, <1>2

\* Blob keys that Equal the same key are Equal.
LEMMA BlobTransitive ==
    ASSUME NEW a, NEW b, NEW c, BlobEquals(a, b), BlobEquals(b, c)
    PROVE  BlobEquals(a, c)
BY DEF BlobEquals, Xor

\* The keys that options give, with that of the in-port.
AllKeys(o) ==
    [t \in DOMAIN KeysOf(o) \cup (IF o.inPort = None THEN {} ELSE {"IN_PORT"}) |->
        IF t = "IN_PORT" THEN NewInPortFlowKey(number[o.inPort]) ELSE KeysOf(o)[t]]

\* The keys are read as they were.
LEMMA KeysBack ==
    ASSUME CommandInv, NEW p, NEW q, IsFlowKeys(p), IsFlowKeys(q), ToolKeys(q), Equals(p, q),
           NEW o, KeysPrinted(o, p), o.inPort # Unnamed
    PROVE  /\ HandleEthernet(o) # Error /\ ParseTunnelFlags(o.tunnel) # Error /\ ~o.junk
           /\ o.inPort # None => o.inPort \in VportNames /\ number[o.inPort] # None
           /\ Equals(AllKeys(o), p) /\ Equals(AllKeys(o), q)
<1> DEFINE e == HandleEthernet(o)
           tun == ParseTunnelFlags(o.tunnel)
           ks == AllKeys(o)
<1>1. /\ "ETHERNET" \in DOMAIN q /\ DOMAIN q \subseteq {"ETHERNET", "TUNNEL", "IN_PORT"}
      /\ {"ETHERNET", "TUNNEL", "IN_PORT"} \cap (OtherTypes \cup BlobTypes) = {}
  BY TypesAssumption DEF ToolKeys
<1>2. /\ \A t : Shown(p, t) <=> t \in DOMAIN q
      /\ \A t \in DOMAIN q : t \in DOMAIN p /\ KeyEquals(t, p[t], q[t])
      /\ \A t \in DOMAIN p \ DOMAIN q : Ignored(t, p[t])
  BY KeysShown
<1>3. ~o.junk
  BY <1>1, <1>2, FieldsPrinted
<1>4. /\ tun # Error /\ (Ignored("TUNNEL", tun) <=> "TUNNEL" \notin DOMAIN q)
      /\ "TUNNEL" \in DOMAIN q => tun = q["TUNNEL"]
  BY TunnelKeyBack
<1>5. /\ o.inPort = None <=> "IN_PORT" \notin DOMAIN q
      /\ o.inPort # None => /\ o.inPort \in VportNames /\ number[o.inPort] # None
                            /\ NewInPortFlowKey(number[o.inPort]) = q["IN_PORT"]
  BY InPortBack
<1>6. e # Error /\ BlobEquals(e, p["ETHERNET"])
  <2>1. /\ o.ethSrc = PrintEthAddrOption(p["ETHERNET"], "EthSrc")
        /\ o.ethDst = PrintEthAddrOption(p["ETHERNET"], "EthDst")
    BY <1>1, <1>2, FieldsPrinted
  <2>2. p["ETHERNET"].key \subseteq Bits("ETHERNET") /\ p["ETHERNET"].mask \subseteq Bits("ETHERNET")
    BY <1>1, <1>2 DEF IsFlowKeys, FlowKey
  <2> QED
    BY <2>1, <2>2, EthernetBack
<1>7. /\ DOMAIN KeysOf(o) = {"ETHERNET"} \cup (IF Ignored("TUNNEL", tun) THEN {} ELSE {"TUNNEL"})
      /\ KeysOf(o)["ETHERNET"] = e
      /\ ~Ignored("TUNNEL", tun) => KeysOf(o)["TUNNEL"] = tun
  BY DEF KeysOf
<1> HIDE DEF e, tun
<1>8. DOMAIN ks = DOMAIN q
  <2>1. DOMAIN ks = DOMAIN KeysOf(o) \cup (IF o.inPort = None THEN {} ELSE {"IN_PORT"})
    BY DEF AllKeys
  <2> QED
    BY <1>1, <1>4, <1>5, <1>7, <2>1
<1>9. ASSUME NEW t \in DOMAIN q
      PROVE  KeyEquals(t, ks[t], p[t]) /\ KeyEquals(t, ks[t], q[t])
  <2>1. KeyEquals(t, p[t], q[t])
    BY <1>2
  <2>2. CASE t = "ETHERNET"
    <3>1. ks[t] = e
      BY <1>7, <2>2 DEF AllKeys
    <3>2. BlobEquals(p[t], q[t])
      BY <1>1, <2>1, <2>2 DEF KeyEquals
    <3>3. BlobEquals(e, p[t]) /\ BlobEquals(e, q[t])
      BY <1>6, <2>2, <3>2, BlobTransitive
    <3> QED
      BY <1>1, <2>2, <3>1, <3>3 DEF KeyEquals
  <2>3. CASE t = "TUNNEL"
    <3>1. ks[t] = tun
      BY <1>4, <1>7, <2>3 DEF AllKeys
    <3>2. ks[t] = q[t] /\ p[t] = q[t]
      BY <1>1, <1>4, <2>1, <2>3, <3>1 DEF KeyEquals
    <3> QED
      BY <1>1, <2>3, <3>2 DEF KeyEquals
  <2>4. CASE t = "IN_PORT"
    <3>1. ks[t] = q[t]
      BY <1>5, <1>8, <2>4 DEF AllKeys
    <3>2. BlobEquals(p[t], q[t])
      BY <1>1, <2>1, <2>4 DEF KeyEquals
    <3>3. BlobEquals(q[t], p[t]) /\ BlobEquals(q[t], q[t])
      BY <3>2 DEF BlobEquals, Xor
    <3> QED
      BY <1>1, <2>4, <3>1, <3>3 DEF KeyEquals
  <2> QED
    BY <1>1, <2>2, <2>3, <2>4
<1> HIDE DEF ks
<1>10. Equals(ks, p) /\ Equals(ks, q)
  BY <1>2, <1>8, <1>9 DEF Equals
<1> QED
  BY <1>3, <1>4, <1>5, <1>6, <1>10 DEF e, tun, ks

\* A function on 1 .. n is a sequence.
LEMMA FunctionIsSeq ==
    ASSUME NEW n \in Nat, NEW T, NEW f \in [1 .. n -> T]
    PROVE  f \in Seq(T) /\ Len(f) = n
<1>1. f \in Seq(T)
  <2>1. [1 .. n -> T] \in {[1 .. m -> T] : m \in Nat}
    BY Zenon
  <2> QED
    BY <2>1, SeqDef, Zenon
<1>2. Len(f) \in Nat /\ DOMAIN f = 1 .. Len(f) /\ DOMAIN f = 1 .. n
  BY <1>1, LenProperties
<1> QED
  BY <1>1, <1>2, SameRange

\* The actions that options give.
AllActions(o) == Sets(o) \o [i \in DOMAIN o.output |-> NewOutputAction(number[o.output[i]])]

\* The SET action and the outputs are read as they were, unless a vport has gone.
LEMMA ActionsBack ==
    ASSUME CommandInv, NEW e, EntryOK(e), NEW o,
           SetPrinted(o, e.spec.actions, Len(e.spec.actions)),
           OutputsPrinted(o, e.spec.actions, Len(e.spec.actions)),
           \A i \in DOMAIN o.output : o.output[i] # Unnamed
    PROVE  /\ ParseTunnelFlags(o.setTunnel) # Error
           /\ \A i \in DOMAIN o.output : o.output[i] \in VportNames /\ number[o.output[i]] # None
           /\ Len(AllActions(o)) = Len(e.spec.actions)
           /\ DOMAIN AllActions(o) = DOMAIN e.spec.actions
           /\ \A i \in DOMAIN AllActions(o) : /\ ActionEquals(AllActions(o)[i], e.spec.actions[i])
                                              /\ ActionEquals(AllActions(o)[i], e.by.actions[i])
<1> DEFINE as == e.spec.actions
           bs == e.by.actions
           N == Len(as)
           s == SetFirst(as)
           set1 == as[1].kind = "SetTunnel"
           L == Len(o.output)
           r == AllActions(o)
           out == [i \in DOMAIN o.output |-> NewOutputAction(number[o.output[i]])]
<1>1. /\ IsActions(as) /\ ToolActions(as) /\ N \in Nat /\ DOMAIN as = 1 .. N
      /\ DOMAIN bs = DOMAIN as
  BY EntryActions
<1>2. /\ \A i \in DOMAIN as : ActionEquals(as[i], bs[i])
      /\ \A i \in DOMAIN as : as[i].kind = "SetTunnel" => as[i].present # {}
  BY DEF EntryOK, SpecEquals
<1> HIDE DEF as, bs, N
<1>3. \/ s = 1 /\ 1 \in 1 .. N /\ set1
      \/ s = 0 /\ (1 \in 1 .. N => ~set1)
  BY <1>1, Zenon DEF SetFirst
<1> HIDE DEF s, set1
<1>4. s \in {0, 1} /\ s <= N
  BY <1>1, <1>3
<1>5. /\ o.output \in Seq(VportNames \cup {Unnamed}) /\ L = N - s
      /\ \A i \in 1 .. L : o.output[i] = LookupVportName(as[s + i].vport)
  BY <1>1, <1>3, <1>4 DEF OutputsPrinted, as, N, s
<1>6. L \in Nat /\ DOMAIN o.output = 1 .. L
  BY <1>5, LenProperties
<1>7. s = 0 => o.setTunnel = NoTunnel
  BY <1>4 DEF SetPrinted, as, s
<1>8. s = 1 => o.setTunnel = PrintTunnelOptions(as[1].attrs, as[1].present \X Pos)
  BY <1>1, <1>4 DEF SetPrinted, as, N, s
<1> HIDE DEF L
<1>9. ASSUME NEW i \in 1 .. L
      PROVE  /\ o.output[i] \in VportNames /\ number[o.output[i]] # None
             /\ out[i] = as[s + i] /\ s + i \in DOMAIN as
  <2>1. s + i \in DOMAIN as /\ s + i \in 1 .. N
    BY <1>1, <1>4, <1>5, <1>6
  <2>2. as[s + i].kind = "Output" /\ as[s + i].vport \in Numbers
    <3>1. CASE s + i = 1
      <4>1. s = 0 /\ 1 \in 1 .. N
        BY <1>4, <2>1, <3>1
      <4> QED
        <5>1. ~set1 /\ 1 \in DOMAIN as
          BY <1>1, <1>3, <4>1
        <5> QED
          BY <1>1, <3>1, <5>1 DEF ToolActions, set1
    <3>2. CASE s + i # 1
      BY <1>1, <2>1, <3>2 DEF ToolActions
    <3> QED
      BY <3>1, <3>2
  <2> DEFINE x == as[s + i].vport
  <2>3. o.output[i] = LookupVportName(x) /\ o.output[i] # Unnamed
    BY <1>5, <1>6
  <2>4. o.output[i] \in VportNames /\ number[o.output[i]] = x
    BY <2>3, LookupNames
  <2>5. as[s + i] = NewOutputAction(x)
    BY <1>1, <2>1, <2>2 DEF IsActions, IsAction
  <2>6. out[i] = NewOutputAction(x)
    BY <1>6, <2>4
  <2>7. None \notin Numbers
    BY TextAssumption
  <2> QED
    BY <2>1, <2>2, <2>4, <2>5, <2>6, <2>7
<1>10. /\ ParseTunnelFlags(o.setTunnel) # Error
       /\ s = 0 => Sets(o) = <<>>
       /\ s = 1 => Sets(o) = <<[kind |-> "SetTunnel", attrs |-> as[1].attrs, present |-> as[1].present]>>
  <2>1. CASE s = 0
    BY <1>7, <2>1, NoSetBack
  <2>2. CASE s = 1
    <3>1. IsAction(as[1]) /\ as[1].kind = "SetTunnel" /\ as[1].present # {}
      <4>1. set1 /\ 1 \in DOMAIN as
        BY <1>1, <1>3, <2>2
      <4> QED
        BY <1>1, <1>2, <4>1 DEF IsActions, set1
    <3> DEFINE a == as[1]
    <3>2. o.setTunnel = PrintTunnelOptions(a.attrs, a.present \X Pos)
      BY <1>8, <2>2
    <3>3. IsAction(a) /\ a.kind = "SetTunnel" /\ a.present # {}
      BY <3>1
    <3> HIDE DEF a
    <3>4. /\ ParseTunnelFlags(o.setTunnel) # Error
          /\ Sets(o) = <<[kind |-> "SetTunnel", attrs |-> a.attrs, present |-> a.present]>>
      BY <3>2, <3>3, SetBack
    <3> QED
      BY <2>2, <3>4 DEF a
  <2> QED
    BY <1>3, <2>1, <2>2
<1> DEFINE set == [kind |-> "SetTunnel", attrs |-> as[1].attrs, present |-> as[1].present]
           T == {out[i] : i \in 1 .. L} \cup {set}
<1>11. out \in Seq(T) /\ Len(out) = L
  <2>1. out = [i \in 1 .. L |-> out[i]]
    BY <1>6
  <2> HIDE DEF out
  <2>2. \A i \in 1 .. L : out[i] \in T
    OBVIOUS
  <2> HIDE DEF T
  <2>3. out \in [1 .. L -> T]
    BY <2>1, <2>2
  <2> QED
    BY <1>6, <2>3, FunctionIsSeq
<1>12. set \in T
  OBVIOUS
<1>13. r = Sets(o) \o out
  BY DEF AllActions
<1> HIDE DEF out, T, set, r
<1>14. Sets(o) \in Seq(T) /\ Len(Sets(o)) = s /\ (s = 1 => Sets(o)[1] = set)
  <2>1. CASE s = 0
    BY <1>10, <2>1, EmptySeq
  <2>2. CASE s = 1
    <3>1. Sets(o) = <<set>>
      BY <1>10, <2>2 DEF set
    <3> QED
      BY <1>12, <2>2, <3>1
  <2> QED
    BY <1>3, <2>1, <2>2
<1> DEFINE f == Sets(o)
<1>15. /\ r \in Seq(T) /\ Len(r) = s + L
       /\ \A i \in 1 .. s + L : r[i] = IF i <= s THEN f[i] ELSE out[i - s]
  <2> HIDE DEF f
  <2>1. f \in Seq(T) /\ Len(f) = s /\ r = f \o out
    BY <1>13, <1>14 DEF f
  <2> QED
    BY <1>11, <2>1, ConcatProperties
<1>16. Len(r) = N /\ DOMAIN r = 1 .. N /\ s + L = N
  <2>1. s + L = N
    BY <1>1, <1>4, <1>5
  <2> QED
    BY <1>15, <2>1, LenProperties
<1>17. ASSUME NEW i \in DOMAIN r PROVE ActionEquals(r[i], as[i]) /\ ActionEquals(r[i], bs[i])
  <2>1. i \in DOMAIN as /\ i \in 1 .. s + L /\ ActionEquals(as[i], bs[i])
    BY <1>1, <1>2, <1>16
  <2>2. CASE i <= s
    <3>1. i = 1 /\ s = 1
      BY <1>4, <1>6, <2>1, <2>2
    <3>2. r[i] = set
      BY <1>14, <1>15, <2>1, <3>1
    <3>3. as[i].kind = "SetTunnel" /\ set.kind = "SetTunnel" /\ set.attrs = as[i].attrs
      <4>1. set1
        BY <1>3, <3>1
      <4> QED
        BY <3>1, <4>1 DEF set, set1
    <3> QED
      BY <2>1, <3>2, <3>3 DEF ActionEquals
  <2>3. CASE i > s
    <3>1. i - s \in 1 .. L /\ s + (i - s) = i
      BY <1>4, <1>6, <2>1, <2>3
    <3>2. r[i] = out[i - s]
      BY <1>4, <1>15, <2>1, <2>3
    <3>3. out[i - s] = as[i]
      <4> DEFINE j == i - s
      <4>1. j \in 1 .. L /\ s + j = i
        BY <3>1
      <4> HIDE DEF j
      <4>2. out[j] = as[s + j]
        BY <1>9, <4>1
      <4> QED
        BY <4>1, <4>2 DEF j
    <3>4. ActionEquals(as[i], as[i])
      BY DEF ActionEquals
    <3> QED
      BY <2>1, <3>2, <3>3, <3>4
  <2>4. i <= s \/ i > s
    BY <1>4, <1>6, <2>1
  <2> QED
    BY <2>2, <2>3, <2>4
<1> QED
  BY <1>1, <1>6, <1>9, <1>10, <1>16, <1>17 DEF as, bs, L, N, r

\* A line that names a vport that has gone is refused; otherwise it is read as the
\* FlowSpec that was printed.
LEMMA LineBack ==
    ASSUME CommandInv, NEW e, EntryOK(e), NEW o, Printed(o, e.spec, Len(e.spec.actions))
    PROVE  IF Unnamed \in {o.inPort} \cup {o.output[i] : i \in DOMAIN o.output}
           THEN FlagsToFlowSpec(o) = Error
           ELSE /\ ~o.junk /\ FlagsToFlowSpec(o) # Error
                /\ SpecEquals(FlagsToFlowSpec(o), e.spec) /\ SpecEquals(FlagsToFlowSpec(o), e.by)
<1> DEFINE outputs == {o.output[i] : i \in DOMAIN o.output}
           named == outputs \cup ({o.inPort} \ {None})
<1>1. Unnamed # None
  BY TextAssumption
<1>2. CASE Unnamed \in {o.inPort} \cup outputs
  <2>1. Unnamed \in named
    BY <1>1, <1>2
  <2>2. FlagsToFlowSpec(o) = Error
    BY <2>1 DEF FlagsToFlowSpec
  <2> QED
    BY <1>2, <2>2
<1>3. CASE Unnamed \notin {o.inPort} \cup outputs
  <2> DEFINE r == AllActions(o)
  <2>1. /\ IsFlowKeys(e.spec.keys) /\ IsFlowKeys(e.by.keys) /\ ToolKeys(e.by.keys)
        /\ Equals(e.spec.keys, e.by.keys) /\ Len(e.spec.actions) = Len(e.by.actions)
    BY DEF EntryOK, IsFlowSpec, ToolSpec, SpecEquals
  <2>2. /\ KeysPrinted(o, e.spec.keys)
        /\ SetPrinted(o, e.spec.actions, Len(e.spec.actions))
        /\ OutputsPrinted(o, e.spec.actions, Len(e.spec.actions))
    BY DEF Printed
  <2>3. o.inPort # Unnamed /\ \A i \in DOMAIN o.output : o.output[i] # Unnamed
    BY <1>3
  <2>4. /\ HandleEthernet(o) # Error /\ ParseTunnelFlags(o.tunnel) # Error /\ ~o.junk
        /\ o.inPort # None => o.inPort \in VportNames /\ number[o.inPort] # None
        /\ Equals(AllKeys(o), e.spec.keys) /\ Equals(AllKeys(o), e.by.keys)
    BY <2>1, <2>2, <2>3, KeysBack
  <2>5. /\ ParseTunnelFlags(o.setTunnel) # Error
        /\ \A i \in DOMAIN o.output : o.output[i] \in VportNames /\ number[o.output[i]] # None
        /\ Len(r) = Len(e.spec.actions) /\ DOMAIN r = DOMAIN e.spec.actions
        /\ \A i \in DOMAIN r : /\ ActionEquals(r[i], e.spec.actions[i])
                               /\ ActionEquals(r[i], e.by.actions[i])
    BY <2>2, <2>3, ActionsBack
  <2>6. ~Invalid(o)
    BY <2>4, <2>5 DEF Invalid
  <2>7. \A n \in named : n # Unnamed /\ number[n] # None
    BY <2>3, <2>4, <2>5
  <2> DEFINE ks == AllKeys(o)
  <2>8. FlagsToFlowSpec(o) = [keys |-> ks, actions |-> r]
    BY <2>6, <2>7 DEF FlagsToFlowSpec, AllKeys, AllActions
  <2> HIDE DEF r, ks
  <2>9. FlagsToFlowSpec(o) # Error
    BY <2>8, NotError
  <2>10. /\ SpecEquals([keys |-> ks, actions |-> r], e.spec)
         /\ SpecEquals([keys |-> ks, actions |-> r], e.by)
    BY <2>1, <2>4, <2>5 DEF SpecEquals, ks
  <2> QED
    BY <1>3, <2>4, <2>8, <2>9, <2>10
<1> QED
  BY <1>2, <1>3

\* A line of `flow list` for a flow that `flow add` made, given back to `flow add`, makes the
\* FlowSpec that was listed and the one that the flow was made from; or it is refused, if one
\* of the vports has gone (printFlowKeys, printFlowActions, flagsToFlowSpec). This is for any
\* options, flows of other programs and faults, whatever else the kernel mentions of the types
\* that the library has a parser for, and as long as no vport comes or goes after the line
\* was printed.
THEOREM PrintedIsReadBack ==
    ASSUME ShownTypes \cap OtherTypes = {}
    PROVE  CommandSpec => []PrintedBack
<1>1. CommandInit => ToolInv /\ EntriesInv /\ LinesInv
  BY DEF CommandInit, Init, ToolInv, EntriesInv, LinesInv
<1>2. CommandInv /\ ToolInv /\ [CommandNext]_allVars => ToolInv'
  BY ToolStep
<1>3. CommandInv /\ ToolInv /\ EntriesInv /\ [CommandNext]_allVars => EntriesInv'
  BY EntriesStep
<1>4. CommandInv /\ Printing /\ EntriesInv /\ LinesInv /\ [CommandNext]_allVars => LinesInv'
  BY LinesStep
<1>5. CommandInv /\ LinesInv => PrintedBack
  <2> SUFFICES ASSUME CommandInv, LinesInv, NEW l \in lines, l.entry.by # None, ~moved
               PROVE  IF Unnamed \in {l.opts.inPort} \cup {l.opts.output[i] : i \in DOMAIN l.opts.output}
                      THEN FlagsToFlowSpec(l.opts) = Error
                      ELSE /\ ~l.opts.junk /\ FlagsToFlowSpec(l.opts) # Error
                           /\ SpecEquals(FlagsToFlowSpec(l.opts), l.entry.spec)
                           /\ SpecEquals(FlagsToFlowSpec(l.opts), l.entry.by)
    BY DEF PrintedBack
  <2>1. EntryOK(l.entry) /\ Printed(l.opts, l.entry.spec, Len(l.entry.spec.actions))
    BY DEF LinesInv
  <2> QED
    BY <2>1, LineBack
<1> QED
  BY <1>1, <1>2, <1>3, <1>4, <1>5, CommandInvariance, PrintingInvariance, PTL DEF CommandSpec

=============================================================================
