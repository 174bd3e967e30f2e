-------------------------- MODULE FlowCommandsProofs --------------------------
(***************************************************************************)
(* Theorems about FlowCommands, for any options, vports, flows of other    *)
(* programs and faults, on top of those about Flows.                       *)
(***************************************************************************)
EXTENDS FlowCommands, FlowsProofs

-----------------------------------------------------------------------------
(* FlowSpecs made of options.                                              *)

\* The ethernet key of options that can be parsed is one.
LEMMA EthernetTyped ==
    ASSUME NEW o \in Options, HandleEthernet(o) # Error
    PROVE  KnownKey("ETHERNET", HandleEthernet(o))
<1> DEFINE src == HandleEthernetAddrOption(o.ethSrc)
           dst == HandleEthernetAddrOption(o.ethDst)
<1>1. HandleEthernet(o) =
        SetMaskedEth(SetMaskedEth(NewEthernetFlowKey, "EthSrc", src), "EthDst", dst)
  BY DEF HandleEthernet, EthernetKey
<1>2. \A e \in {o.ethSrc, o.ethDst} : e.addr \subseteq Pos /\ e.mask \subseteq Pos
  BY TextAssumption
<1>3. \A e : e.addr \subseteq Pos /\ e.mask \subseteq Pos =>
               /\ HandleEthernetAddrOption(e).addr \subseteq Pos
               /\ HandleEthernetAddrOption(e).mask \subseteq Pos
  BY DEF HandleEthernetAddrOption
<1>4. /\ src.addr \subseteq Pos /\ src.mask \subseteq Pos
      /\ dst.addr \subseteq Pos /\ dst.mask \subseteq Pos
  BY <1>2, <1>3
<1> HIDE DEF src, dst
<1>5. KnownKey("ETHERNET", NewEthernetFlowKey)
  BY BlobKnown, TypesAssumption DEF NewEthernetFlowKey, Types
<1>6. KnownKey("ETHERNET", SetMaskedEth(NewEthernetFlowKey, "EthSrc", src))
  BY <1>4, <1>5, EthKnown
<1>7. KnownKey("ETHERNET", SetMaskedEth(SetMaskedEth(NewEthernetFlowKey, "EthSrc", src), "EthDst", dst))
  BY <1>4, <1>6, EthKnown
<1> QED
  BY <1>1, <1>7

\* So is the tunnel key: uint8() and uint16() cut the numbers (main.go:792).
LEMMA TunnelTyped ==
    ASSUME NEW o \in Options, NEW tf \in {o.tunnel, o.setTunnel}, ParseTunnelFlags(tf) # Error
    PROVE  /\ \A f \in DOMAIN tf : tf[f] # BadText
           /\ TunnelSettings([f \in DOMAIN tf |-> tf[f] \cap Pos])
           /\ ParseTunnelFlags(tf) = SetTunnelFields([f \in DOMAIN tf |-> tf[f] \cap Pos])
           /\ KnownKey("TUNNEL", ParseTunnelFlags(tf))
<1> DEFINE s == [f \in DOMAIN tf |-> tf[f] \cap Pos]
<1>1. (\A f \in DOMAIN tf : tf[f] # BadText) /\ ParseTunnelFlags(tf) = SetTunnelFields(s)
  BY DEF ParseTunnelFlags
<1>2. /\ DOMAIN tf \subseteq TunnelFields
      /\ \A f \in DOMAIN tf : f \in FlagFields => tf[f] \in {{}, Pos}
  <2>1. /\ DOMAIN tf \subseteq TunnelFields
        /\ \A f \in DOMAIN tf : tf[f] # BadText => (f \in FlagFields => tf[f] \in {{}, Pos})
    BY TextAssumption, ZenonT(40)
  <2> QED
    BY <1>1, <2>1
<1>3. TunnelSettings(s)
  BY <1>2 DEF TunnelSettings
<1> HIDE DEF s
<1>4. KnownKey("TUNNEL", SetTunnelFields(s))
  BY <1>3, TunnelKnown
<1> QED
  BY <1>1, <1>3, <1>4 DEF s

\* The SET action that parseSetTunnelFlags makes: there is one if a field is given, it has
\* the fields given, with the numbers cut to their widths.
Cut(tf) == [f \in DOMAIN tf |-> tf[f] \cap Pos]

LEMMA SetsMade ==
    ASSUME NEW o \in Options, ~Invalid(o)
    PROVE  /\ TunnelSettings(Cut(o.setTunnel))
           /\ Sets(o) = IF o.setTunnel = NoTunnel THEN <<>>
                        ELSE <<SetTunnelAction(Cut(o.setTunnel))>>
<1> DEFINE tf == o.setTunnel
           fk == ParseTunnelFlags(tf)
           present == {f \in TunnelFields : Field(fk.mask, f) = {f} \X Pos}
           a == [kind |-> "SetTunnel", attrs |-> fk.key, present |-> present]
           s == Cut(tf)
<1>1. fk # Error
  BY DEF Invalid
<1>2. Sets(o) = IF present = {} THEN <<>> ELSE <<a>>
  BY DEF Sets, ParseSetTunnelFlags
<1>3. TunnelSettings(s) /\ fk = SetTunnelFields(s)
  BY <1>1, TunnelTyped DEF Cut
<1>4. DOMAIN s = DOMAIN tf
  BY DEF Cut
<1> HIDE DEF s
<1>5. fk.key = UNION {{f} \X s[f] : f \in DOMAIN s} /\ fk.mask = (DOMAIN s) \X Pos
  BY <1>3 DEF SetTunnelFields
<1> HIDE DEF fk
<1>6. present = DOMAIN s
  <2>1. \A f \in TunnelFields : Field(fk.mask, f) = IF f \in DOMAIN s THEN {f} \X Pos ELSE {}
    BY <1>5, ProductField
  <2>2. PICK p : p \in Pos
    BY TextAssumption
  <2>3. \A f : <<f, p>> \in {f} \X Pos
    BY <2>2
  <2> QED
    BY <1>3, <2>1, <2>3 DEF TunnelSettings
<1> HIDE DEF present
<1>7. a = SetTunnelAction(s)
  BY <1>5, <1>6 DEF SetTunnelAction
<1> HIDE DEF a
<1>8. tf = NoTunnel <=> DOMAIN tf = {}
  BY TextAssumption DEF NoTunnel, EmptyFn
<1> QED
  BY <1>2, <1>3, <1>4, <1>6, <1>7, <1>8 DEF s

LEMMA SetsTyped ==
    ASSUME NEW o \in Options, ~Invalid(o)
    PROVE  IsActions(Sets(o)) /\ Len(Sets(o)) = IF o.setTunnel = NoTunnel THEN 0 ELSE 1
<1> DEFINE s == Cut(o.setTunnel)
           a == SetTunnelAction(s)
<1>1. TunnelSettings(s) /\ Sets(o) = IF o.setTunnel = NoTunnel THEN <<>> ELSE <<a>>
  BY SetsMade
<1> HIDE DEF s
<1>2. IsAction(a)
  <2>1. \A f \in DOMAIN s : {f} \X s[f] \subseteq (DOMAIN s) \X Pos
    BY <1>1 DEF TunnelSettings
  <2>2. a.attrs \subseteq a.present \X Pos
    BY <2>1 DEF SetTunnelAction
  <2>3. KnownKey("TUNNEL", SetTunnelFields(s))
    BY <1>1, TunnelKnown
  <2>4. Whole(SetTunnelFields(s).key)
    BY <2>3 DEF KnownKey
  <2>5. Whole(a.attrs)
    BY <2>4 DEF SetTunnelFields, SetTunnelAction
  <2>6. a.present \subseteq TunnelFields
    BY <1>1 DEF SetTunnelAction, TunnelSettings
  <2>7. a.kind = "SetTunnel"
    BY DEF SetTunnelAction
  <2> HIDE DEF a
  <2> QED
    BY <2>2, <2>5, <2>6, <2>7 DEF IsAction
<1> HIDE DEF a
<1>3. IsActions(<<a>>)
  BY <1>2 DEF IsActions, IsList
<1> QED
  BY <1>1, <1>3, EmptyList

\* FlowKeys with those of the options added.
LEMMA KeysTyped ==
    ASSUME NEW o \in Options, ~Invalid(o), NEW ks, IsFlowKeys(ks)
    PROVE  IsFlowKeys([t \in DOMAIN ks \cup DOMAIN KeysOf(o) |->
                          IF t \in DOMAIN KeysOf(o) THEN KeysOf(o)[t] ELSE ks[t]])
<1> DEFINE n == [t \in DOMAIN ks \cup DOMAIN KeysOf(o) |->
                    IF t \in DOMAIN KeysOf(o) THEN KeysOf(o)[t] ELSE ks[t]]
<1>1. HandleEthernet(o) # Error /\ ParseTunnelFlags(o.tunnel) # Error
  BY DEF Invalid
<1>2. KnownKey("ETHERNET", HandleEthernet(o)) /\ KnownKey("TUNNEL", ParseTunnelFlags(o.tunnel))
  BY <1>1, EthernetTyped, TunnelTyped
<1>3. /\ DOMAIN KeysOf(o) \subseteq {"ETHERNET", "TUNNEL"}
      /\ \A t \in DOMAIN KeysOf(o) : KeysOf(o)[t] = IF t = "ETHERNET" THEN HandleEthernet(o)
                                                    ELSE ParseTunnelFlags(o.tunnel)
  BY DEF KeysOf
<1>4. \A t \in DOMAIN KeysOf(o) : KnownKey(t, KeysOf(o)[t])
  BY <1>2, <1>3
<1>5. \A t \in DOMAIN n : KnownKey(t, n[t])
  BY <1>4 DEF IsFlowKeys, KnownKey
<1>6. DOMAIN n \subseteq Types
  BY <1>3 DEF IsFlowKeys, Types
<1> QED
  BY <1>5, <1>6, FlowKeysIntro

\* One more action.
LEMMA ActionAppended ==
    ASSUME NEW as, IsActions(as), NEW a, IsAction(a)
    PROVE  IsActions(Append(as, a))
<1> DEFINE S == {as[i] : i \in DOMAIN as} \cup {a}
           n == Append(as, a)
<1>1. as \in Seq({as[i] : i \in DOMAIN as})
  BY DEF IsActions, IsList
<1>2. as \in Seq(S) /\ a \in S
  BY <1>1, SeqMonotonic
<1>3. \A x \in S : IsAction(x)
  BY DEF IsActions
<1> HIDE DEF S
<1>4. n \in Seq(S)
  BY <1>2, AppendProperties
<1> HIDE DEF n
<1>5. \A i \in DOMAIN n : n[i] \in S
  BY <1>4, ElementOfSeq, LenProperties
<1>6. n \in Seq({n[i] : i \in DOMAIN n})
  <2> DEFINE T == {n[i] : i \in DOMAIN n}
  <2>1. Len(n) \in Nat /\ DOMAIN n = 1 .. Len(n) /\ n = [i \in 1 .. Len(n) |-> n[i]]
    BY <1>4, LenProperties
  <2>2. \A i \in 1 .. Len(n) : n[i] \in T
    BY <2>1
  <2> HIDE DEF T
  <2>3. n \in [1 .. Len(n) -> T]
    BY <2>1, <2>2
  <2>4. n \in Seq(T)
    BY <2>1, <2>3, SeqDef
  <2> QED
    BY <2>4 DEF T
<1>7. \A i \in DOMAIN n : IsAction(n[i])
  BY <1>3, <1>5
<1> QED
  BY <1>6, <1>7 DEF IsActions, IsList, n

-----------------------------------------------------------------------------
(* The invariant.                                                          *)

\* Where a command is, and what it is about.
PlaceOK ==
    /\ pc \in {"idle", "inPort", "parse", "enumerate", "keys"} => next = 1
    /\ pc \in {"inPort", "parse", "output"} => opts \in Options
    /\ pc = "inPort" => opts.inPort # None
    /\ pc \in {"keys", "actions"} => rest \subseteq listed
    /\ pc = "actions" => cur \in rest

CommandInv == IndInv /\ CommandTypeOK /\ PlaceOK

\* A request of the library, or nothing of it.
LEMMA LibraryStep ==
    ASSUME IndInv, [Next]_vars
    PROVE  IndInv'
BY TypeStep, FlowsStep DEF IndInv

\* A change of the FlowSpec that is being built.
LEMMA Building ==
    ASSUME IndInv, IsFlowSpec(spec'), UNCHANGED <<flows, foreign>>, listed' \in {{}, listed},
           result' \in {"none", result}
    PROVE  IndInv'
BY DEF IndInv, TypeOK, FlowsInv

\* The number of a vport that is there.
LEMMA NumberOK ==
    ASSUME CommandTypeOK, NEW n \in VportNames, number[n] # None
    PROVE  number[n] \in Numbers /\ number[n] \subseteq Pos
BY NumbersAssumption DEF CommandTypeOK

\* A FlowSpec without keys and actions is one.
LEMMA NewSpecTyped == IsFlowSpec(NewFlowSpec)
BY EmptyList DEF NewFlowSpec, EmptyFn, IsFlowSpec, IsFlowKeys

\* The in-port that was looked up is added (flagsToFlowSpec).
LEMMA LookupInPortSpec ==
    ASSUME CommandInv, LookupInPort
    PROVE  IndInv'
<1>1. CASE UNCHANGED flowVars
  BY <1>1, LibraryStep DEF flowVars, vars, CommandInv
<1>2. CASE /\ number[opts.inPort] # None
           /\ AddKey("IN_PORT", NewInPortFlowKey(number[opts.inPort]))
  <2> DEFINE k == NewInPortFlowKey(number[opts.inPort])
  <2>1. opts \in Options /\ opts.inPort # None
    BY DEF LookupInPort, CommandInv, PlaceOK
  <2>2. opts.inPort \in VportNames
    BY <2>1, TextAssumption
  <2>3. KnownKey("IN_PORT", k)
    BY <1>2, <2>2, NumberOK, InPortKnown DEF CommandInv
  <2> HIDE DEF k
  <2>4. IsFlowSpec(spec')
    <3>1. IsFlowKeys(spec.keys) /\ IsActions(spec.actions) /\ "IN_PORT" \in Types
      BY DEF CommandInv, IndInv, TypeOK, IsFlowSpec, Types
    <3>2. IsFlowKeys([u \in DOMAIN spec.keys \cup {"IN_PORT"} |->
                         IF u = "IN_PORT" THEN k ELSE spec.keys[u]])
      BY <2>3, <3>1, AddKeyTyped
    <3> QED
      BY <1>2, <3>1, <3>2 DEF AddKey, IsFlowSpec, k
  <2> QED
    BY <1>2, <2>4, Building DEF AddKey, CommandInv
<1> QED
  BY <1>1, <1>2 DEF LookupInPort

\* The keys and the SET action are added.
LEMMA ParseOptionsSpec ==
    ASSUME CommandInv, ParseOptions
    PROVE  IndInv'
<1>1. CASE UNCHANGED flowVars
  BY <1>1, LibraryStep DEF flowVars, vars, CommandInv
<1>2. CASE ~Invalid(opts)
  <2> DEFINE ks == [t \in DOMAIN spec.keys \cup DOMAIN KeysOf(opts) |->
                       IF t \in DOMAIN KeysOf(opts) THEN KeysOf(opts)[t] ELSE spec.keys[t]]
  <2>1. opts \in Options /\ IsFlowKeys(spec.keys)
    BY DEF ParseOptions, CommandInv, PlaceOK, IndInv, TypeOK, IsFlowSpec
  <2>2. IsFlowKeys(ks) /\ IsActions(Sets(opts))
    BY <1>2, <2>1, KeysTyped, SetsTyped
  <2>3. spec' = [keys |-> ks, actions |-> Sets(opts)]
    BY <1>2 DEF ParseOptions
  <2> HIDE DEF ks
  <2>4. IsFlowSpec(spec')
    BY <2>2, <2>3 DEF IsFlowSpec
  <2> QED
    BY <2>4, Building DEF ParseOptions, CommandInv
<1> QED
  BY <1>1, <1>2 DEF ParseOptions, flowVars

\* One more output is added.
LEMMA LookupOutputSpec ==
    ASSUME CommandInv, LookupOutput
    PROVE  IndInv'
<1> DEFINE n == opts.output[next]
<1>1. CASE UNCHANGED flowVars
  BY <1>1, LibraryStep DEF flowVars, vars, CommandInv
<1>2. CASE /\ number[n] # None
           /\ spec' = [spec EXCEPT !.actions = Append(@, NewOutputAction(number[n]))]
  <2>1. IsAction(NewOutputAction(number[n]))
    BY DEF IsAction, NewOutputAction
  <2>2. IsFlowKeys(spec.keys) /\ IsActions(spec.actions)
    BY DEF CommandInv, IndInv, TypeOK, IsFlowSpec
  <2>3. IsActions(Append(spec.actions, NewOutputAction(number[n])))
    BY <2>1, <2>2, ActionAppended
  <2>4. IsFlowSpec(spec')
    BY <1>2, <2>2, <2>3 DEF IsFlowSpec
  <2> QED
    BY <2>4, Building DEF LookupOutput, CommandInv
<1> QED
  BY <1>1, <1>2 DEF LookupOutput, flowVars

-----------------------------------------------------------------------------
(* Type correctness.                                                       *)

\* What a step of the tool does with the FlowSpecs.
LEMMA SpecsStep ==
    ASSUME CommandInv, [CommandNext]_allVars
    PROVE  IndInv'
<1>1. CASE UNCHANGED flowVars
  BY <1>1, LibraryStep DEF flowVars, vars, CommandInv
<1>2. CASE OtherInstalls \/ Send \/ Enumerate
  BY <1>2, LibraryStep DEF OtherInstalls, Send, Enumerate, Next, CommandInv
<1>3. CASE BeginFlow
  BY <1>3, NewSpecTyped, Building DEF BeginFlow, CommandInv
<1>4. CASE Exit
  BY <1>4, NewSpecTyped, Building DEF Exit, CommandInv
<1>5. CASE LookupInPort
  BY <1>5, LookupInPortSpec
<1>6. CASE ParseOptions
  BY <1>6, ParseOptionsSpec
<1>7. CASE LookupOutput
  BY <1>7, LookupOutputSpec
<1> QED
  BY <1>1, <1>2, <1>3, <1>4, <1>5, <1>6, <1>7
     DEF CommandNext, VportsChange, BeginList, LookupFails, Request, RequestFails, PrintKeys, PrintAction,
         EndOfLine, allVars

\* The actions of a listed FlowSpec, and the outputs of options, are sequences.
LEMMA Lengths ==
    ASSUME IndInv
    PROVE  /\ \A e \in listed : Len(e.spec.actions) \in Nat
           /\ \A o \in Options : Len(o.output) \in Nat
<1>1. \A e \in listed : e.spec.actions \in Seq({e.spec.actions[i] : i \in DOMAIN e.spec.actions})
  BY DEF IndInv, TypeOK, IsFlowSpec, IsActions, IsList
<1>2. \A o \in Options : o.output \in Seq(VportNames)
  BY TextAssumption
<1> QED
  BY <1>1, <1>2, LenProperties

\* The variables of the kernel's vports, and of the command as a whole.
VportsOK ==
    /\ number \in [VportNames -> Numbers \cup {None}] /\ had \in [VportNames -> SUBSET Numbers]
    /\ faults \in 0 .. MaxFaults
CommandOK ==
    /\ cmd \in {"none", "add", "delete", "clear", "list"}
    /\ pc \in {"idle", "inPort", "parse", "output", "enumerate", "keys", "actions", "done"}
    /\ opts \in Options \cup {NoOptions}
    /\ ok \in BOOLEAN /\ moved \in BOOLEAN /\ failed \in BOOLEAN
NextOK ==
    /\ next \in Nat \ {0}
    /\ pc = "output" => next <= 1 + Len(opts.output)
    /\ pc = "actions" => next <= 1 + Len(cur.spec.actions)

\* Vports come and go, and faults are counted.
LEMMA VportsStep ==
    ASSUME VportsOK, [CommandNext]_allVars
    PROVE  VportsOK'
<1>1. CASE VportsChange
  <2>1. PICK n \in VportNames, x \in Numbers \cup {None} :
           /\ number' = [number EXCEPT ![n] = x]
           /\ had' = IF pc = "idle" THEN had ELSE [had EXCEPT ![n] = @ \cup ({x} \ {None})]
    BY <1>1 DEF VportsChange
  <2>2. had' \in [VportNames -> SUBSET Numbers]
    <3>1. {x} \ {None} \subseteq Numbers
      OBVIOUS
    <3>2. had[n] \cup ({x} \ {None}) \in SUBSET Numbers
      BY <3>1 DEF VportsOK
    <3> QED
      BY <2>1, <3>2 DEF VportsOK
  <2>3. number' \in [VportNames -> Numbers \cup {None}]
    BY <2>1 DEF VportsOK
  <2>4. faults' \in 0 .. MaxFaults
    BY <1>1, FaultsAssumption DEF VportsChange, Fault, VportsOK
  <2> QED
    BY <2>2, <2>3, <2>4 DEF VportsOK
<1>2. CASE LookupFails \/ RequestFails
  <2>1. UNCHANGED <<number, had>> /\ Fault
    BY <1>2 DEF LookupFails, RequestFails
  <2> QED
    BY <2>1, FaultsAssumption DEF Fault, VportsOK
<1>3. CASE UNCHANGED <<number, faults, had>>
  BY <1>3 DEF VportsOK
<1>4. CASE BeginFlow \/ BeginList
  <2>1. had' = [n \in VportNames |-> {number[n]} \ {None}] /\ UNCHANGED <<number, faults>>
    BY <1>4 DEF BeginFlow, BeginList, Begin
  <2>2. \A n \in VportNames : {number[n]} \ {None} \subseteq Numbers
    BY DEF VportsOK
  <2> QED
    BY <2>1, <2>2 DEF VportsOK
<1>5. CASE Exit
  BY <1>5 DEF Exit, VportsOK, NoneHad
<1> QED
  BY <1>1, <1>2, <1>3, <1>4, <1>5
     DEF CommandNext, OtherInstalls, commandVars, LookupInPort,
         ParseOptions, LookupOutput, Request, Enumerate, PrintKeys, PrintAction, EndOfLine, allVars

\* Each command goes from one of its places to another.
LEMMA CommandStep ==
    ASSUME CommandOK, [CommandNext]_allVars
    PROVE  CommandOK'
<1>1. CASE VportsChange \/ OtherInstalls \/ UNCHANGED allVars
  BY <1>1 DEF VportsChange, OtherInstalls, allVars, commandVars, CommandOK
<1>2. CASE BeginFlow \/ BeginList
  BY <1>2 DEF BeginFlow, BeginList, Begin, CommandOK
<1>3. CASE Exit
  BY <1>3 DEF Exit, CommandOK
<1>4. CASE LookupFails
  BY <1>4 DEF LookupFails, Return, CommandOK
<1>5. CASE LookupInPort
  BY <1>5 DEF LookupInPort, Return, CommandOK
<1>6. CASE ParseOptions
  BY <1>6 DEF ParseOptions, Return, CommandOK
<1>7. CASE LookupOutput
  BY <1>7 DEF LookupOutput, Return, CommandOK
<1>8. CASE Request \/ RequestFails \/ Enumerate
  BY <1>8 DEF Request, RequestFails, Enumerate, Return, CommandOK
<1>9. CASE PrintKeys \/ PrintAction \/ EndOfLine
  BY <1>9 DEF PrintKeys, PrintAction, EndOfLine, Return, CommandOK
<1> QED
  BY <1>1, <1>2, <1>3, <1>4, <1>5, <1>6, <1>7, <1>8, <1>9 DEF CommandNext

\* The places in options and lists: what is looked up or printed next is there.
LEMMA PlaceStep ==
    ASSUME CommandInv, [CommandNext]_allVars
    PROVE  PlaceOK' /\ NextOK'
<1>0. /\ PlaceOK /\ NextOK
      /\ \A e \in listed : Len(e.spec.actions) \in Nat
      /\ \A o \in Options : Len(o.output) \in Nat
  BY Lengths DEF CommandInv, CommandTypeOK, NextOK
<1>1. CASE VportsChange \/ OtherInstalls \/ UNCHANGED allVars
  <2>1. listed' = listed /\ UNCHANGED <<pc, opts, next, rest, cur>>
    BY <1>1 DEF VportsChange, OtherInstalls, InstallForeign, flowVars, printVars, allVars, commandVars
  <2> QED
    BY <1>0, <2>1 DEF PlaceOK, NextOK
<1>2. CASE BeginFlow
  BY <1>0, <1>2 DEF BeginFlow, Begin, PlaceOK, NextOK
<1>3. CASE BeginList
  BY <1>0, <1>3 DEF BeginList, Begin, PlaceOK, NextOK
<1>4. CASE Exit
  BY <1>4 DEF Exit, PlaceOK, NextOK
<1>5. CASE LookupFails
  BY <1>0, <1>5 DEF LookupFails, Return, PlaceOK, NextOK
<1>6. CASE LookupInPort
  BY <1>0, <1>6 DEF LookupInPort, Return, PlaceOK, NextOK
<1>7. CASE ParseOptions
  BY <1>0, <1>7 DEF ParseOptions, Return, PlaceOK, NextOK
<1>8. CASE LookupOutput
  BY <1>0, <1>8 DEF LookupOutput, Return, PlaceOK, NextOK
<1>9. CASE Request \/ RequestFails
  BY <1>0, <1>9 DEF Request, RequestFails, Return, PlaceOK, NextOK
<1>10. CASE Enumerate
  BY <1>0, <1>10 DEF Enumerate, Return, PlaceOK, NextOK
<1>11. CASE PrintKeys
  BY <1>0, <1>11 DEF PrintKeys, Return, PlaceOK, NextOK, flowVars
<1>12. CASE PrintAction
  BY <1>0, <1>12 DEF PrintAction, PlaceOK, NextOK, flowVars
<1>13. CASE EndOfLine
  BY <1>0, <1>13 DEF EndOfLine, PlaceOK, NextOK, flowVars
<1> QED
  BY <1>1, <1>2, <1>3, <1>4, <1>5, <1>6, <1>7, <1>8, <1>9, <1>10, <1>11, <1>12, <1>13
     DEF CommandNext

\* The parts of the invariant.
LEMMA Parts == CommandInv <=> IndInv /\ VportsOK /\ CommandOK /\ NextOK /\ PlaceOK
BY DEF CommandInv, CommandTypeOK, IndInv, VportsOK, CommandOK, NextOK

\* CommandTypeOK, with where in its options and lists a command is, is inductive.
THEOREM CommandInvariance == CommandSpec => []CommandInv
<1>1. CommandInit => CommandInv
  <2> SUFFICES ASSUME CommandInit PROVE CommandInv
    OBVIOUS
  <2>1. IndInv
    BY NewSpecTyped DEF CommandInit, Init, IndInv, TypeOK, FlowsInv
  <2>2. VportsOK
    BY FaultsAssumption DEF CommandInit, VportsOK, NoneHad
  <2>3. CommandOK
    BY DEF CommandInit, CommandOK
  <2>4. NextOK /\ PlaceOK
    BY DEF CommandInit, NextOK, PlaceOK
  <2> QED
    BY <2>1, <2>2, <2>3, <2>4, Parts
<1>2. CommandInv /\ [CommandNext]_allVars => CommandInv'
  <2> SUFFICES ASSUME CommandInv, [CommandNext]_allVars PROVE CommandInv'
    OBVIOUS
  <2>1. IndInv'
    BY SpecsStep
  <2>2. VportsOK' /\ CommandOK' /\ PlaceOK' /\ NextOK'
    BY Parts, VportsStep, CommandStep, PlaceStep
  <2>3. TypeOK' /\ CommandTypeOK'
    BY <2>1, <2>2 DEF IndInv, CommandTypeOK, VportsOK, CommandOK, NextOK
  <2> QED
    BY <2>1, <2>2, <2>3 DEF CommandInv
<1> QED
  BY <1>1, <1>2, PTL DEF CommandSpec

\* What the tool makes of any options is a FlowSpec, and so is what it prints, whatever
\* vports come and go and whatever other programs install: its loops over the outputs and
\* over the actions stay inside them (flagsToFlowSpec, printFlowActions).
THEOREM CommandTypeCorrectness == CommandSpec => []CommandTypeOK
<1>1. CommandInv => CommandTypeOK
  BY DEF CommandInv
<1> QED
  BY <1>1, CommandInvariance, PTL

-----------------------------------------------------------------------------
(* What `flow list` has printed.                                           *)

Matches == {f.match : f \in flows} \cup {ForeignMatch(f) : f \in foreign}
AllListed == listed = rest \cup {l.entry : l \in lines} /\ {e.match : e \in listed} = Matches

\* Every flow is still to be printed, or is on a line.
Printing ==
    /\ pc \in {"enumerate", "keys", "actions"} => cmd = "list"
    /\ pc \in {"inPort", "parse", "output"} => cmd # "list"
    /\ pc \notin {"keys", "actions", "done"} => lines = {}
    /\ pc \in {"keys", "actions"} => AllListed
    /\ (cmd = "list" /\ pc = "done") =>
          /\ (ok => AllListed /\ rest = {})
          /\ (~ok => failed \/ \E f \in foreign : ParseFlowSpec(f) = Error)

\* What is listed of a flow of the library is parsed.
LEMMA OwnParsed ==
    ASSUME IndInv, NEW f \in flows, NEW extra \in SUBSET ShownTypes,
           NEW withKey \in SUBSET extra, NEW masked \in BOOLEAN, NEW linux43 \in BOOLEAN
    PROVE  ParseFlowSpec(ListFlow(f, extra, withKey, masked, linux43)) # Error
<1>1. FlowTyped(f) /\ FlowBy(f)
  BY DEF IndInv, TypeOK, FlowsInv
<1> QED
  BY <1>1, ListedSpec

\* A list that cannot be parsed has a flow of another program in it that cannot.
LEMMA EnumerateLists ==
    ASSUME IndInv, EnumerateFlows
    PROVE  \/ result' = "unparsable" /\ \E f \in foreign : ParseFlowSpec(f) = Error
           \/ result' # "unparsable" /\ {e.match : e \in listed'} = Matches
<1>1. PICK extra \in SUBSET ShownTypes, masked \in BOOLEAN, linux43 \in BOOLEAN :
         \E withKey \in SUBSET extra :
            LET all == OwnListed(extra, withKey, masked, linux43) \cup ForeignListed
            IN  IF \E e \in all : e.spec = Error
                THEN listed' = {} /\ result' = "unparsable"
                ELSE listed' = all /\ result' = "none"
  BY DEF EnumerateFlows
<1>2. PICK withKey \in SUBSET extra :
         LET all == OwnListed(extra, withKey, masked, linux43) \cup ForeignListed
         IN  IF \E e \in all : e.spec = Error
             THEN listed' = {} /\ result' = "unparsable"
             ELSE listed' = all /\ result' = "none"
  BY <1>1
<1> DEFINE own == OwnListed(extra, withKey, masked, linux43)
<1>3. \A e \in own : \E f \in flows :
         /\ e.spec = ParseFlowSpec(ListFlow(f, extra, withKey, masked, linux43))
         /\ e.match = f.match
  BY DEF OwnListed
<1>4. \A f \in flows : \E e \in own : e.match = f.match
  <2> SUFFICES ASSUME NEW f \in flows PROVE \E e \in own : e.match = f.match
    OBVIOUS
  <2> DEFINE p == ParseFlowSpec(ListFlow(f, extra, withKey, masked, linux43))
             e == [spec |-> p, match |-> f.match, actions |-> f.actions, by |-> f.by]
  <2>1. e \in own
    BY DEF OwnListed
  <2> QED
    BY <2>1
<1>5. \A e \in ForeignListed : \E f \in foreign : e.spec = ParseFlowSpec(f) /\ e.match = ForeignMatch(f)
  BY DEF ForeignListed
<1>6. \A f \in foreign : \E e \in ForeignListed : e.match = ForeignMatch(f)
  <2> SUFFICES ASSUME NEW f \in foreign PROVE \E e \in ForeignListed : e.match = ForeignMatch(f)
    OBVIOUS
  <2> DEFINE e == [spec |-> ParseFlowSpec(f), match |-> ForeignMatch(f), actions |-> f.actions,
                   by |-> None]
  <2>1. e \in ForeignListed
    BY DEF ForeignListed
  <2> QED
    BY <2>1
<1>7. \/ result' = "unparsable" /\ \E e \in own \cup ForeignListed : e.spec = Error
      \/ result' = "none" /\ listed' = own \cup ForeignListed
  BY <1>2, Zenon
<1> HIDE DEF own
<1>8. ASSUME NEW e \in own PROVE e.spec # Error
  <2>1. PICK f \in flows : e.spec = ParseFlowSpec(ListFlow(f, extra, withKey, masked, linux43))
    BY <1>3
  <2> QED
    BY <2>1, OwnParsed
<1>9. {e.match : e \in own \cup ForeignListed} = Matches
  <2>1. ASSUME NEW e \in own \cup ForeignListed PROVE e.match \in Matches
    BY <1>3, <1>5 DEF Matches
  <2>2. ASSUME NEW m \in Matches PROVE \E e \in own \cup ForeignListed : e.match = m
    BY <1>4, <1>6 DEF Matches
  <2> QED
    BY <2>1, <2>2, Zenon
<1> QED
  BY <1>5, <1>7, <1>8, <1>9

\* No flow is passed over.
LEMMA PrintingStep ==
    ASSUME CommandInv, Printing, [CommandNext]_allVars
    PROVE  Printing'
<1>1. CASE VportsChange \/ UNCHANGED allVars
  <2>1. UNCHANGED <<cmd, lines, rest, listed, flows, foreign, ok, failed, pc>>
    BY <1>1 DEF VportsChange, flowVars, printVars, allVars, commandVars
  <2> QED
    BY <2>1 DEF Printing, AllListed, Matches
<1>2. CASE OtherInstalls
  BY <1>2 DEF OtherInstalls, commandVars, printVars, Printing
<1>3. CASE BeginFlow
  BY <1>3 DEF BeginFlow, Begin, printVars, Printing
<1>4. CASE BeginList
  BY <1>4 DEF BeginList, Begin, printVars, Printing
<1>5. CASE Exit
  BY <1>5 DEF Exit, Printing
<1>6. CASE LookupFails
  BY <1>6 DEF LookupFails, Return, printVars, Printing
<1>7. CASE LookupInPort
  BY <1>7 DEF LookupInPort, Return, printVars, Printing
<1>8. CASE ParseOptions
  BY <1>8 DEF ParseOptions, Return, printVars, Printing
<1>9. CASE LookupOutput
  BY <1>9 DEF LookupOutput, Return, printVars, Printing
<1>10. CASE Request \/ RequestFails
  BY <1>10 DEF Request, RequestFails, Return, printVars, Printing
<1>11. CASE Enumerate
  <2>1. cmd = "list" /\ lines = {} /\ UNCHANGED <<flows, foreign, cmd, lines>>
    BY <1>11 DEF Enumerate, EnumerateFlows, Printing
  <2>2. CASE result' = "unparsable"
    BY <1>11, <2>1, <2>2, EnumerateLists DEF Enumerate, Return, Printing, CommandInv
  <2>3. CASE result' # "unparsable"
    <3>1. {e.match : e \in listed'} = Matches
      BY <1>11, <2>3, EnumerateLists DEF Enumerate, CommandInv
    <3>2. AllListed'
      BY <1>11, <2>1, <2>3, <3>1 DEF Enumerate, AllListed, Matches
    <3> QED
      BY <1>11, <2>1, <2>3, <3>2 DEF Enumerate, Printing
  <2> QED
    BY <2>2, <2>3
<1>12. CASE PrintKeys
  BY <1>12 DEF PrintKeys, Return, flowVars, Printing, AllListed, Matches
<1>13. CASE PrintAction
  BY <1>13 DEF PrintAction, flowVars, Printing, AllListed, Matches
<1>14. CASE EndOfLine
  <2> DEFINE new == [opts |-> line, entry |-> cur]
  <2>1. AllListed /\ cur \in rest /\ cmd = "list"
    BY <1>14 DEF EndOfLine, Printing, CommandInv, PlaceOK
  <2>2. UNCHANGED <<listed, flows, foreign, cmd>> /\ pc' = "keys"
    BY <1>14 DEF EndOfLine, flowVars
  <2>3. lines' = lines \cup {new} /\ rest' = rest \ {cur} /\ new.entry = cur
    BY <1>14 DEF EndOfLine
  <2> HIDE DEF new
  <2>4. AllListed'
    BY <2>1, <2>2, <2>3 DEF AllListed, Matches
  <2> QED
    BY <2>1, <2>2, <2>4 DEF Printing
<1> QED
  BY <1>1, <1>2, <1>3, <1>4, <1>5, <1>6, <1>7, <1>8, <1>9, <1>10, <1>11, <1>12, <1>13, <1>14
     DEF CommandNext

\* Printing is an invariant.
LEMMA PrintingInvariance == CommandSpec => []Printing
<1>1. CommandInit => Printing
  BY DEF CommandInit, Printing
<1>2. CommandInv /\ Printing /\ [CommandNext]_allVars => Printing'
  BY PrintingStep
<1> QED
  BY <1>1, <1>2, CommandInvariance, PTL DEF CommandSpec

\* `flow list` that returns true has printed every flow of the library and of other
\* programs, however many there are and whatever the vports do meanwhile; it returns false
\* only when a request failed for a reason of its own or another program's flow could not be
\* parsed (listFlows, printFlowActions).
THEOREM ListsPrintAll == CommandSpec => []ListsAll
<1>1. Printing => ListsAll
  <2> SUFFICES ASSUME Printing, cmd = "list", pc = "done", ok
               PROVE  {l.entry.match : l \in lines} = Matches
    BY DEF Printing, ListsAll, Matches
  <2>1. listed = {l.entry : l \in lines} /\ {e.match : e \in listed} = Matches
    BY DEF Printing, AllListed
  <2> QED
    BY <2>1
<1> QED
  BY <1>1, PrintingInvariance, PTL

-----------------------------------------------------------------------------
(* What `flow add` has installed.                                          *)

\* The key of an ethernet option, by its bits.
LEMMA EthernetBits ==
    ASSUME NEW src, NEW dst
    PROVE  /\ EthernetKey(src, dst).key = ({"EthSrc"} \X src.addr) \cup ({"EthDst"} \X dst.addr)
           /\ EthernetKey(src, dst).mask = ({"EthSrc"} \X src.mask) \cup ({"EthDst"} \X dst.mask)
<1> DEFINE k0 == NewEthernetFlowKey
           k1 == SetMaskedEth(k0, "EthSrc", src)
           k2 == SetMaskedEth(k1, "EthDst", dst)
<1>1. k0 = [key |-> {}, mask |-> {"EthSrc", "EthDst"} \X Pos, exact |-> FALSE]
  BY TypesAssumption DEF NewEthernetFlowKey, NewBlobFlowKey, Bits, Fields
<1> HIDE DEF k0
<1>2. /\ DOMAIN k1 = {"key", "mask", "exact"}
      /\ k1.key = (k0.key \ Field(k0.key, "EthSrc")) \cup ({"EthSrc"} \X src.addr)
      /\ k1.mask = (k0.mask \ Field(k0.mask, "EthSrc")) \cup ({"EthSrc"} \X src.mask)
  BY <1>1 DEF SetMaskedEth
<1> HIDE DEF k1
<1>3. /\ k2.key = (k1.key \ Field(k1.key, "EthDst")) \cup ({"EthDst"} \X dst.addr)
      /\ k2.mask = (k1.mask \ Field(k1.mask, "EthDst")) \cup ({"EthDst"} \X dst.mask)
  BY <1>2 DEF SetMaskedEth
<1> HIDE DEF k2
<1>4. k1.key = {"EthSrc"} \X src.addr
  BY <1>1, <1>2 DEF Field
<1>5. k1.mask = ({"EthDst"} \X Pos) \cup ({"EthSrc"} \X src.mask)
  BY <1>1, <1>2 DEF Field
<1>6. k2.key = ({"EthSrc"} \X src.addr) \cup ({"EthDst"} \X dst.addr)
  BY <1>3, <1>4 DEF Field
<1>7. k2.mask = ({"EthSrc"} \X src.mask) \cup ({"EthDst"} \X dst.mask)
  BY <1>3, <1>5 DEF Field
<1> QED
  BY <1>6, <1>7 DEF EthernetKey, k2, k1, k0

\* The mask an ethernet option gives.
EthMask(e) == CASE e.form = "absent" -> {} [] e.form = "plain" -> Pos [] OTHER -> e.mask

\* The ethernet key that options give, if they are as the tool expects them.
LEMMA EthernetWanted ==
    ASSUME NEW o \in Options, ~Invalid(o), Plain(o), NEW x
    PROVE  /\ HandleEthernet(o).mask = Wanted(o, x)["ETHERNET"].mask
           /\ HandleEthernet(o).key \cap HandleEthernet(o).mask = Wanted(o, x)["ETHERNET"].key
<1> DEFINE src == HandleEthernetAddrOption(o.ethSrc)
           dst == HandleEthernetAddrOption(o.ethDst)
           k == HandleEthernet(o)
           w == Wanted(o, x)["ETHERNET"]
<1>1. ~dst.err /\ k = EthernetKey(src, dst)
  BY DEF Invalid, HandleEthernet
<1>2. src.mask = EthMask(o.ethSrc) /\ src.addr \cap src.mask = o.ethSrc.addr \cap EthMask(o.ethSrc)
  BY DEF HandleEthernetAddrOption, EthMask, Plain
<1>3. dst.mask = EthMask(o.ethDst) /\ dst.addr \cap dst.mask = o.ethDst.addr \cap EthMask(o.ethDst)
  BY <1>1 DEF HandleEthernetAddrOption, EthMask
<1>4. w = [mask |-> ({"EthSrc"} \X EthMask(o.ethSrc)) \cup ({"EthDst"} \X EthMask(o.ethDst)),
           key  |-> ({"EthSrc"} \X (o.ethSrc.addr \cap EthMask(o.ethSrc)))
                      \cup ({"EthDst"} \X (o.ethDst.addr \cap EthMask(o.ethDst)))]
  BY DEF Wanted, Types, EthMask
<1> HIDE DEF src, dst, w
<1>5. /\ k.key = ({"EthSrc"} \X src.addr) \cup ({"EthDst"} \X dst.addr)
      /\ k.mask = ({"EthSrc"} \X src.mask) \cup ({"EthDst"} \X dst.mask)
  BY <1>1, EthernetBits
<1> HIDE DEF k
<1>6. k.key \cap k.mask = ({"EthSrc"} \X (src.addr \cap src.mask))
                             \cup ({"EthDst"} \X (dst.addr \cap dst.mask))
  BY <1>5
<1>7. k.mask = w.mask /\ k.key \cap k.mask = w.key
  BY <1>2, <1>3, <1>4, <1>5, <1>6
<1> QED
  BY <1>7 DEF k, w

\* The tunnel key that options give, if they fit their fields.
LEMMA TunnelWanted ==
    ASSUME NEW o \in Options, ~Invalid(o), Plain(o)
    PROVE  /\ ParseTunnelFlags(o.tunnel).mask = (DOMAIN o.tunnel) \X Pos
           /\ ParseTunnelFlags(o.tunnel).key = UNION {{f} \X o.tunnel[f] : f \in DOMAIN o.tunnel}
           /\ ParseTunnelFlags(o.tunnel).key \subseteq (DOMAIN o.tunnel) \X Pos
<1> DEFINE tf == o.tunnel
           s == [f \in DOMAIN tf |-> tf[f] \cap Pos]
<1>1. ParseTunnelFlags(tf) # Error
  BY DEF Invalid
<1>2. (\A f \in DOMAIN tf : tf[f] # BadText) /\ ParseTunnelFlags(tf) = SetTunnelFields(s)
  BY <1>1, TunnelTyped
<1>3. \A f \in DOMAIN tf : tf[f] \subseteq Pos
  BY <1>2 DEF Plain, Fits
<1>4. DOMAIN s = DOMAIN tf /\ \A f \in DOMAIN tf : s[f] = tf[f]
  BY <1>3
<1> HIDE DEF s
<1>5. UNION {{f} \X s[f] : f \in DOMAIN s} = UNION {{f} \X tf[f] : f \in DOMAIN tf}
  BY <1>4
<1>6. \A f \in DOMAIN tf : {f} \X tf[f] \subseteq (DOMAIN tf) \X Pos
  BY <1>3
<1>7. UNION {{f} \X tf[f] : f \in DOMAIN tf} \subseteq (DOMAIN tf) \X Pos
  BY <1>6
<1> QED
  BY <1>2, <1>4, <1>5, <1>7 DEF SetTunnelFields

\* The keys that options give, with that of the in-port, x being its number.
GivenKeys(o, x) ==
    [t \in DOMAIN KeysOf(o) \cup (IF o.inPort = None THEN {} ELSE {"IN_PORT"}) |->
        IF t = "IN_PORT" THEN NewInPortFlowKey(x) ELSE KeysOf(o)[t]]

\* The keys made of options ask for what the options say.
LEMMA KeysWanted ==
    ASSUME NEW o \in Options, ~Invalid(o), Plain(o), NEW x, o.inPort # None => x \subseteq Pos
    PROVE  Ordinary(GivenKeys(o, x)) /\ Asked(GivenKeys(o, x)) = Wanted(o, x)
<1> DEFINE ks == GivenKeys(o, x)
           eth == HandleEthernet(o)
           tun == ParseTunnelFlags(o.tunnel)
           inp == NewInPortFlowKey(x)
<1>1. /\ "ETHERNET" \in DOMAIN ks /\ ks["ETHERNET"] = eth
      /\ "TUNNEL" \in DOMAIN ks <=> ~Ignored("TUNNEL", tun)
      /\ "TUNNEL" \in DOMAIN ks => ks["TUNNEL"] = tun
      /\ "IN_PORT" \in DOMAIN ks <=> o.inPort # None
      /\ "IN_PORT" \in DOMAIN ks => ks["IN_PORT"] = inp
      /\ DOMAIN ks \subseteq {"ETHERNET", "TUNNEL", "IN_PORT"}
  BY DEF GivenKeys, KeysOf
<1>2. Ignored("TUNNEL", tun) <=> tun.mask \subseteq {"Df"} \X Pos
  BY TypesAssumption DEF Ignored
<1>3. Ordinary(ks)
  BY <1>1, <1>2 DEF Ordinary, HasEthernet, DfAlone
<1>4. /\ KnownKey("ETHERNET", eth) /\ KnownKey("TUNNEL", tun)
      /\ (o.inPort # None => KnownKey("IN_PORT", inp))
  BY EthernetTyped, TunnelTyped, InPortKnown DEF Invalid
<1>5. /\ eth.mask # None /\ tun.mask # None
      /\ (o.inPort # None => inp.mask # None)
  BY <1>4, NotNil, TypesAssumption DEF KnownKey, Types
<1>6. /\ eth.mask = Wanted(o, x)["ETHERNET"].mask
      /\ eth.key \cap eth.mask = Wanted(o, x)["ETHERNET"].key
      /\ tun.mask = (DOMAIN o.tunnel) \X Pos
      /\ tun.key = UNION {{f} \X o.tunnel[f] : f \in DOMAIN o.tunnel}
      /\ tun.key \subseteq (DOMAIN o.tunnel) \X Pos
  BY EthernetWanted, TunnelWanted
<1>7. o.inPort # None => /\ inp.mask = Bits("IN_PORT") /\ inp.key = {"lower16"} \X x
                         /\ inp.key \subseteq Bits("IN_PORT")
  BY TypesAssumption DEF NewInPortFlowKey, NewBlobFlowKey, Bits, Fields
<1> HIDE DEF ks, eth, tun, inp
<1>8. Asked(ks)["ETHERNET"] = Wanted(o, x)["ETHERNET"]
  <2>1. Asked(ks)["ETHERNET"] = [mask |-> eth.mask, key |-> eth.key \cap eth.mask]
    BY <1>1, <1>5 DEF Asked, Types
  <2>2. Wanted(o, x)["ETHERNET"] =
          [mask |-> Wanted(o, x)["ETHERNET"].mask, key |-> Wanted(o, x)["ETHERNET"].key]
    BY DEF Wanted, Types
  <2> QED
    BY <1>6, <2>1, <2>2
<1>9. Asked(ks)["TUNNEL"] = Wanted(o, x)["TUNNEL"]
  <2>1. Wanted(o, x)["TUNNEL"] = [mask |-> tun.mask, key |-> tun.key]
    BY <1>6 DEF Wanted, Types
  <2>2. CASE "TUNNEL" \in DOMAIN ks
    <3>1. Asked(ks)["TUNNEL"] = [mask |-> tun.mask, key |-> tun.key \cap tun.mask]
      BY <1>1, <1>5, <2>2 DEF Asked, Types
    <3>2. tun.key \cap tun.mask = tun.key
      BY <1>6
    <3> QED
      BY <2>1, <3>1, <3>2
  <2>3. CASE "TUNNEL" \notin DOMAIN ks
    <3>1. tun.mask \subseteq {"Df"} \X Pos
      BY <1>1, <1>2, <2>3
    <3>2. PICK p : p \in Pos
      BY TextAssumption
    <3>3. \A f \in DOMAIN o.tunnel : <<f, p>> \in {"Df"} \X Pos
      BY <1>6, <3>1, <3>2
    <3>4. DOMAIN o.tunnel = {}
      BY <3>3 DEF Plain
    <3>5. tun.mask = {} /\ tun.key = {}
      BY <1>6, <3>4
    <3>6. Asked(ks)["TUNNEL"] = [mask |-> {}, key |-> {}]
      BY <2>3 DEF Asked, Types
    <3> QED
      BY <2>1, <3>5, <3>6
  <2> QED
    BY <2>2, <2>3
<1>10. Asked(ks)["IN_PORT"] = Wanted(o, x)["IN_PORT"]
  <2>1. CASE o.inPort # None
    <3>1. Wanted(o, x)["IN_PORT"] = [mask |-> inp.mask, key |-> inp.key]
      BY <1>7, <2>1 DEF Wanted, Types
    <3>2. Asked(ks)["IN_PORT"] = [mask |-> inp.mask, key |-> inp.key \cap inp.mask]
      BY <1>1, <1>5, <2>1 DEF Asked, Types
    <3>3. inp.key \cap inp.mask = inp.key
      BY <1>7, <2>1
    <3> QED
      BY <3>1, <3>2, <3>3
  <2>2. CASE o.inPort = None
    <3>1. Wanted(o, x)["IN_PORT"] = [mask |-> {}, key |-> {}]
      BY <2>2 DEF Wanted, Types
    <3>2. Asked(ks)["IN_PORT"] = [mask |-> {}, key |-> {}]
      BY <1>1, <2>2 DEF Asked, Types
    <3> QED
      BY <3>1, <3>2
  <2> QED
    BY <2>1, <2>2
<1>11. ASSUME NEW t \in Types, t \notin {"ETHERNET", "TUNNEL", "IN_PORT"}
       PROVE  Asked(ks)[t] = Wanted(o, x)[t]
  <2>1. Wanted(o, x)[t] = [mask |-> {}, key |-> {}]
    BY <1>11 DEF Wanted
  <2>2. Asked(ks)[t] = [mask |-> {}, key |-> {}]
    BY <1>1, <1>11 DEF Asked
  <2> QED
    BY <2>1, <2>2
<1>12. \A t \in Types : Asked(ks)[t] = Wanted(o, x)[t]
  BY <1>8, <1>9, <1>10, <1>11
<1>13. Asked(ks) = Wanted(o, x)
  <2> DEFINE A == Asked(ks)
             W == Wanted(o, x)
  <2>1. A = [t \in Types |-> A[t]]
    BY DEF Asked
  <2>2. W = [t \in Types |-> W[t]]
    BY DEF Wanted
  <2> HIDE DEF A, W
  <2>3. A = W
    BY <1>12, <2>1, <2>2 DEF A, W
  <2> QED
    BY <2>3 DEF A, W
<1> QED
  BY <1>3, <1>13 DEF ks

\* The SET action is sent with the fields given, and of the flags those that are on.
LEMMA SetsSent ==
    ASSUME NEW o \in Options, ~Invalid(o), Fits(o.setTunnel)
    PROVE  /\ Len(WantedSets(o)) = Len(Sets(o))
           /\ \A i \in 1 .. Len(Sets(o)) : ActionNlAttr(Sets(o)[i]) = WantedSets(o)[i]
<1> DEFINE tf == o.setTunnel
           s == Cut(tf)
           a == SetTunnelAction(s)
           on == {f \in FlagFields : Field(a.attrs, f) # {}}
           present == (a.present \ FlagFields) \cup on
           sent == {f \in DOMAIN tf : f \in FlagFields => tf[f] # {}}
           w == [f \in sent |-> {f} \X tf[f]]
<1>1. TunnelSettings(s) /\ Sets(o) = IF tf = NoTunnel THEN <<>> ELSE <<a>>
  BY SetsMade
<1>2. ParseTunnelFlags(tf) # Error
  BY DEF Invalid
<1>3. \A f \in DOMAIN tf : tf[f] \subseteq Pos
  BY <1>2, TunnelTyped DEF Fits
<1>4. DOMAIN s = DOMAIN tf /\ \A f \in DOMAIN tf : s[f] = tf[f]
  BY <1>3 DEF Cut
<1>5. a.kind = "SetTunnel" /\ a.present = DOMAIN tf /\ a.attrs = UNION {{f} \X s[f] : f \in DOMAIN s}
  BY <1>4 DEF SetTunnelAction
<1> HIDE DEF s
<1>6. \A f : Field(a.attrs, f) = IF f \in DOMAIN tf THEN {f} \X tf[f] ELSE {}
  BY <1>4, <1>5 DEF Field
<1> HIDE DEF a
<1>7. \A f \in DOMAIN tf : {f} \X tf[f] # {} <=> tf[f] # {}
  <2>1. ASSUME NEW f, NEW v PROVE {f} \X v # {} <=> v # {}
    <3>1. \A p \in v : <<f, p>> \in {f} \X v
      OBVIOUS
    <3> QED
      BY <3>1
  <2> QED
    BY <2>1
<1>8. /\ \A f : f \in on <=> f \in FlagFields /\ f \in DOMAIN tf /\ tf[f] # {}
      /\ {g \in present : g \in FlagFields => Field(a.attrs, g) # {}} = sent
  BY <1>5, <1>6, <1>7
<1> HIDE DEF on
<1>9. TunnelNlAttrs(a.attrs, present) = w
  <2>1. TunnelNlAttrs(a.attrs, present) = [f \in sent |-> Field(a.attrs, f)]
    BY <1>8 DEF TunnelNlAttrs
  <2>2. \A f \in sent : Field(a.attrs, f) = {f} \X tf[f]
    BY <1>6
  <2> QED
    BY <2>1, <2>2
<1>10. ActionNlAttr(a) = [typ |-> "SET", val |-> [n \in {"TUNNEL"} |-> TunnelNlAttrs(a.attrs, present)]]
  BY <1>5 DEF ActionNlAttr, on
<1>11. WantedSets(o) =
         IF tf = NoTunnel THEN <<>> ELSE <<[typ |-> "SET", val |-> [n \in {"TUNNEL"} |-> w]]>>
  BY DEF WantedSets
<1> HIDE DEF w, present
<1> DEFINE b == [typ |-> "SET", val |-> [n \in {"TUNNEL"} |-> w]]
<1>12. ActionNlAttr(a) = b
  BY <1>9, <1>10
<1> HIDE DEF b
<1>13. WantedSets(o) = IF tf = NoTunnel THEN <<>> ELSE <<b>>
  BY <1>11 DEF b
<1> QED
  BY <1>1, <1>12, <1>13

\* What flagsToFlowSpec has made of the options of `flow add`, at each of its steps, with
\* numbers that the vports have had.
PortAdded ==
    /\ spec.actions = <<>>
    /\ \E x \in InPorts(opts) :
          /\ DOMAIN spec.keys = IF opts.inPort = None THEN {} ELSE {"IN_PORT"}
          /\ opts.inPort # None => spec.keys["IN_PORT"] = NewInPortFlowKey(x)
Outputs ==
    /\ Len(spec.actions) = Len(Sets(opts)) + (next - 1)
    /\ \A i \in 1 .. Len(Sets(opts)) : spec.actions[i] = Sets(opts)[i]
    /\ \A i \in 1 .. next - 1 :
          \E x \in had[opts.output[i]] : spec.actions[Len(Sets(opts)) + i] = NewOutputAction(x)
OutputsAdded ==
    /\ ~Invalid(opts) /\ DOMAIN spec = {"keys", "actions"}
    /\ \E x \in InPorts(opts) : spec.keys = GivenKeys(opts, x)
    /\ Outputs

\* A vport that is there has its number now among those it has had.
HadNow == pc # "idle" => \A n \in VportNames : number[n] # None => number[n] \in had[n]

Adding ==
    /\ pc # "done" => ~ok
    /\ HadNow
    /\ cmd = "add" =>
          /\ (pc = "inPort" => spec = NewFlowSpec)
          /\ (pc = "parse" => PortAdded)
          /\ (pc = "output" => OutputsAdded)
          /\ (pc = "done" /\ ok => Installed)

\* The vports that options name.
LEMMA Named ==
    ASSUME CommandInv
    PROVE  /\ opts.inPort \in VportNames \cup {None}
           /\ Len(opts.output) \in Nat /\ \A i \in 1 .. Len(opts.output) : opts.output[i] \in VportNames
<1>1. opts \in Options \cup {NoOptions}
  BY DEF CommandInv, CommandTypeOK
<1>2. opts.inPort \in VportNames \cup {None} /\ opts.output \in Seq(VportNames)
  <2>1. CASE opts \in Options
    BY <2>1, TextAssumption
  <2>2. CASE opts = NoOptions
    <3>1. opts.inPort = None /\ opts.output = <<>>
      BY <2>2 DEF NoOptions
    <3> QED
      BY <3>1, EmptySeq
  <2> QED
    BY <1>1, <2>1, <2>2
<1> QED
  BY <1>2, LenProperties, ElementOfSeq

\* What has been made of the options stays what they describe while vports come and go.
LEMMA AddingKept ==
    ASSUME CommandInv, Adding, HadNow', UNCHANGED <<spec, flows, cmd, pc, opts, next, ok>>,
           \A n \in VportNames : had[n] \subseteq had'[n]
    PROVE  Adding'
<1>1. /\ opts.inPort \in VportNames \cup {None}
      /\ Len(opts.output) \in Nat /\ \A i \in 1 .. Len(opts.output) : opts.output[i] \in VportNames
  BY Named
<1>2. InPorts(opts) \subseteq InPorts(opts)'
  BY <1>1 DEF InPorts
<1>3. \A i \in 1 .. Len(opts.output) : had[opts.output[i]] \subseteq had'[opts.output[i]]
  BY <1>1
<1>4. PortAdded => PortAdded'
  BY <1>2 DEF PortAdded
<1>5. ASSUME pc = "output", OutputsAdded PROVE OutputsAdded'
  <2>1. next \in Nat \ {0} /\ next <= 1 + Len(opts.output)
    BY <1>5 DEF CommandInv, CommandTypeOK
  <2>2. \A i \in 1 .. next - 1 : i \in 1 .. Len(opts.output)
    BY <1>1, <2>1
  <2>3. Outputs => Outputs'
    BY <1>3, <2>2 DEF Outputs
  <2> QED
    BY <1>2, <1>5, <2>3 DEF OutputsAdded
<1>6. \A f : Described(opts, f) => Described(opts, f)'
  BY <1>2, <1>3 DEF Described
<1>7. Installed => Installed'
  BY <1>6 DEF Installed
<1> QED
  BY <1>4, <1>5, <1>7 DEF Adding

\* The key of the in-port is that of the vport named.
LEMMA AddingInPort ==
    ASSUME CommandInv, Adding, LookupInPort
    PROVE  Adding'
<1>0. HadNow'
  <2>1. UNCHANGED <<number, had>> /\ pc = "inPort"
    BY DEF LookupInPort
  <2> QED
    BY <2>1 DEF Adding, HadNow
<1>1. CASE number[opts.inPort] = None
  BY <1>0, <1>1 DEF LookupInPort, Return, Adding
<1>2. CASE number[opts.inPort] # None
  <2> DEFINE k == NewInPortFlowKey(number[opts.inPort])
  <2>1. /\ spec' = [keys    |-> [u \in DOMAIN spec.keys \cup {"IN_PORT"} |->
                                    IF u = "IN_PORT" THEN k ELSE spec.keys[u]],
                    actions |-> spec.actions]
        /\ pc' = "parse" /\ ok' = ok /\ pc = "inPort"
        /\ UNCHANGED <<cmd, had, opts, number>>
    BY <1>2 DEF LookupInPort, AddKey
  <2>2. opts.inPort # None /\ opts.inPort \in VportNames
    BY <2>1, TextAssumption DEF CommandInv, PlaceOK
  <2>3. number[opts.inPort] \in InPorts(opts)'
    BY <1>2, <2>1, <2>2 DEF InPorts, Adding, HadNow
  <2>4. ASSUME cmd = "add" PROVE PortAdded'
    <3>1. spec = NewFlowSpec
      BY <2>1, <2>4 DEF Adding
    <3>2. spec.actions = <<>> /\ DOMAIN spec.keys = {}
      BY <3>1 DEF NewFlowSpec, EmptyFn
    <3> HIDE DEF k
    <3>3. spec'.actions = <<>> /\ DOMAIN spec'.keys = {"IN_PORT"} /\ spec'.keys["IN_PORT"] = k
      BY <2>1, <3>2
    <3> QED
      BY <2>1, <2>2, <2>3, <3>3 DEF PortAdded, k
  <2> QED
    BY <1>0, <2>1, <2>4 DEF Adding
<1> QED
  BY <1>1, <1>2

\* The keys are those of the options, and the first action is their SET.
LEMMA AddingParse ==
    ASSUME CommandInv, Adding, ParseOptions
    PROVE  Adding'
<1>0. HadNow'
  BY DEF ParseOptions, Adding, HadNow
<1>1. CASE Invalid(opts)
  BY <1>0, <1>1 DEF ParseOptions, Return, Adding
<1>2. CASE ~Invalid(opts)
  <2> DEFINE ks == [t \in DOMAIN spec.keys \cup DOMAIN KeysOf(opts) |->
                       IF t \in DOMAIN KeysOf(opts) THEN KeysOf(opts)[t] ELSE spec.keys[t]]
  <2>1. /\ spec'.keys = ks /\ spec'.actions = Sets(opts) /\ DOMAIN spec' = {"keys", "actions"}
        /\ pc' = "output" /\ ok' = ok /\ pc = "parse" /\ next = 1
        /\ UNCHANGED <<cmd, had, opts, number, next>>
    BY <1>2 DEF ParseOptions, CommandInv, PlaceOK
  <2>2. opts \in Options
    BY <2>1 DEF CommandInv, PlaceOK
  <2>3. Len(Sets(opts)) \in Nat
    BY <1>2, <2>2, SetsTyped
  <2>4. ASSUME cmd = "add" PROVE OutputsAdded'
    <3>1. PortAdded
      BY <2>1, <2>4 DEF Adding
    <3>2. DOMAIN KeysOf(opts) \subseteq {"ETHERNET", "TUNNEL"}
      BY DEF KeysOf
    <3>3. PICK x \in InPorts(opts) :
             /\ DOMAIN spec.keys = IF opts.inPort = None THEN {} ELSE {"IN_PORT"}
             /\ opts.inPort # None => spec.keys["IN_PORT"] = NewInPortFlowKey(x)
      BY <3>1 DEF PortAdded
    <3>4. ks = GivenKeys(opts, x)
      BY <3>2, <3>3 DEF GivenKeys
    <3>5. InPorts(opts)' = InPorts(opts)
      BY <2>1 DEF InPorts
    <3> HIDE DEF ks
    <3>6. Len(spec'.actions) = Len(Sets(opts)) + (next' - 1)
      BY <2>1, <2>3
    <3>7. 1 .. next' - 1 = {}
      BY <2>1
    <3>8. Outputs'
      BY <2>1, <3>6, <3>7 DEF Outputs
    <3> QED
      BY <1>2, <2>1, <3>3, <3>4, <3>5, <3>8 DEF OutputsAdded
  <2> QED
    BY <1>0, <2>1, <2>4 DEF Adding
<1> QED
  BY <1>1, <1>2

\* The outputs so far are those of the options.
LEMMA AddingOutput ==
    ASSUME CommandInv, Adding, LookupOutput
    PROVE  Adding'
<1> DEFINE y == number[opts.output[next]]
<1>0. HadNow'
  BY DEF LookupOutput, Adding, HadNow
<1>1. CASE y = None
  BY <1>0, <1>1 DEF LookupOutput, Return, Adding
<1>2. CASE y # None
  <2> DEFINE as == spec.actions
             s == Len(Sets(opts))
             a == NewOutputAction(y)
             ns == Append(as, a)
  <2>1. /\ spec' = [spec EXCEPT !.actions = ns]
        /\ pc' = pc /\ ok' = ok /\ pc = "output" /\ next <= Len(opts.output) /\ next' = next + 1
        /\ UNCHANGED <<cmd, had, opts, number>>
    BY <1>2 DEF LookupOutput
  <2>2. opts \in Options /\ next \in Nat \ {0} /\ IsActions(as)
    BY <2>1 DEF CommandInv, PlaceOK, CommandTypeOK, TypeOK, IsFlowSpec
  <2>3. y \in had[opts.output[next]]
    <3>1. next \in 1 .. Len(opts.output)
      BY <2>1, <2>2, Named
    <3>2. opts.output[next] \in VportNames
      BY <3>1, Named
    <3> QED
      BY <1>2, <2>1, <3>2 DEF Adding, HadNow
  <2>4. ASSUME cmd = "add" PROVE OutputsAdded'
    <3>1. OutputsAdded
      BY <2>1, <2>4 DEF Adding
    <3>2. s \in Nat
      BY <2>2, <3>1, SetsTyped DEF OutputsAdded
    <3>3. /\ Len(ns) = Len(as) + 1 /\ ns[Len(as) + 1] = a
          /\ \A i \in 1 .. Len(as) : ns[i] = as[i]
      <4> DEFINE S == {as[i] : i \in DOMAIN as} \cup {a}
      <4>1. as \in Seq({as[i] : i \in DOMAIN as})
        BY <2>2 DEF IsActions, IsList
      <4>2. as \in Seq(S) /\ a \in S
        BY <4>1, SeqMonotonic
      <4> HIDE DEF S
      <4> QED
        BY <4>2, AppendProperties
    <3>4. /\ Len(as) = s + (next - 1)
          /\ \A i \in 1 .. s : as[i] = Sets(opts)[i]
          /\ \A i \in 1 .. next - 1 : \E x \in had[opts.output[i]] : as[s + i] = NewOutputAction(x)
      BY <3>1 DEF OutputsAdded, Outputs
    <3>5. DOMAIN spec = {"keys", "actions"}
      BY <3>1 DEF OutputsAdded
    <3> HIDE DEF as, ns, s
    <3>6. spec'.actions = ns /\ spec'.keys = spec.keys /\ DOMAIN spec' = {"keys", "actions"}
      BY <2>1, <3>5
    <3>7. Len(ns) = s + (next' - 1)
      BY <2>1, <2>2, <3>2, <3>3, <3>4
    <3>8. ASSUME NEW i \in 1 .. next' - 1
          PROVE  \E x \in had[opts.output[i]] : ns[s + i] = NewOutputAction(x)
      <4>1. CASE i = next
        <5>1. s + i = Len(as) + 1
          BY <2>2, <3>2, <3>4, <4>1
        <5> QED
          BY <2>3, <3>3, <4>1, <5>1
      <4>2. CASE i # next
        <5>1. i \in 1 .. next - 1 /\ s + i \in 1 .. Len(as)
          BY <2>1, <2>2, <3>2, <3>4, <4>2
        <5>2. ns[s + i] = as[s + i]
          BY <3>3, <5>1
        <5> QED
          BY <3>4, <5>1, <5>2
      <4> QED
        BY <4>1, <4>2
    <3>9. ASSUME NEW i \in 1 .. s PROVE ns[i] = Sets(opts)[i]
      <4>1. i \in 1 .. Len(as)
        BY <2>2, <3>2, <3>4
      <4> QED
        BY <3>3, <3>4, <4>1
    <3>10. Outputs'
      BY <2>1, <3>6, <3>7, <3>8, <3>9 DEF Outputs, s
    <3>11. ~Invalid(opts)' /\ \E x \in InPorts(opts)' : spec'.keys = GivenKeys(opts', x)
      BY <2>1, <3>1, <3>6 DEF OutputsAdded, InPorts
    <3> QED
      BY <2>1, <3>6, <3>10, <3>11 DEF OutputsAdded
  <2> QED
    BY <1>0, <2>1, <2>4 DEF Adding
<1> QED
  BY <1>1, <1>2

\* The kernel's flow for a FlowSpec whose actions are a SET and outputs of the options.
LEMMA ActionsSent ==
    ASSUME NEW o \in Options, ~Invalid(o), Fits(o.setTunnel), NEW as, IsActions(as), NEW f,
           f.actions = [i \in DOMAIN as |-> ActionNlAttr(as[i])],
           Len(as) = Len(Sets(o)) + Len(o.output),
           \A i \in 1 .. Len(Sets(o)) : as[i] = Sets(o)[i],
           \A i \in 1 .. Len(o.output) :
              \E x \in had[o.output[i]] : as[Len(Sets(o)) + i] = NewOutputAction(x),
           \E x \in InPorts(o) : f.match = Wanted(o, x)
    PROVE  Described(o, f)
<1> DEFINE bs == [i \in DOMAIN as |-> ActionNlAttr(as[i])]
           sets == WantedSets(o)
           s == Len(Sets(o))
           n == Len(o.output)
<1>1. Len(sets) = s /\ \A i \in 1 .. s : ActionNlAttr(Sets(o)[i]) = sets[i]
  BY SetsSent
<1>2. s \in Nat /\ n \in Nat
  <2>1. o.output \in Seq(VportNames)
    BY TextAssumption
  <2> QED
    BY <2>1, SetsTyped, LenProperties
<1>3. Len(as) \in Nat /\ DOMAIN as = 1 .. Len(as) /\ IsList(as)
  BY ListDomain DEF IsActions
<1>4. Len(bs) = s + n
  <2>1. bs = [i \in DOMAIN as |-> bs[i]]
    OBVIOUS
  <2> QED
    BY <1>3, <2>1, MapList
<1>5. \A i \in 1 .. s : bs[i] = sets[i]
  <2> SUFFICES ASSUME NEW i \in 1 .. s PROVE bs[i] = sets[i]
    OBVIOUS
  <2>1. i \in DOMAIN as
    BY <1>2, <1>3
  <2>2. bs[i] = ActionNlAttr(as[i])
    BY <2>1
  <2> QED
    BY <1>1, <2>2
<1>6. \A i \in 1 .. n : \E x \in had[o.output[i]] : bs[s + i] = [typ |-> "OUTPUT", val |-> x]
  <2> SUFFICES ASSUME NEW i \in 1 .. n
               PROVE  \E x \in had[o.output[i]] : bs[s + i] = [typ |-> "OUTPUT", val |-> x]
    OBVIOUS
  <2>1. PICK x \in had[o.output[i]] : as[s + i] = NewOutputAction(x)
    OBVIOUS
  <2>2. s + i \in DOMAIN as
    BY <1>2, <1>3
  <2>3. bs[s + i] = ActionNlAttr(as[s + i])
    BY <2>2
  <2>4. ActionNlAttr(NewOutputAction(x)) = [typ |-> "OUTPUT", val |-> x]
    BY DEF ActionNlAttr, NewOutputAction
  <2> QED
    BY <2>1, <2>3, <2>4
<1>7. f.actions = bs
  OBVIOUS
<1> HIDE DEF bs, sets, s, n
<1>8. /\ Len(f.actions) = Len(sets) + n
      /\ \A i \in 1 .. Len(sets) : f.actions[i] = sets[i]
      /\ \A i \in 1 .. n : \E x \in had[o.output[i]] : f.actions[Len(sets) + i] = [typ |-> "OUTPUT", val |-> x]
  BY <1>1, <1>4, <1>5, <1>6, <1>7
<1> QED
  BY <1>8 DEF Described, sets, n

\* Options that were not refused can be parsed.
LEMMA NotRefused ==
    ASSUME NEW o \in Options, ~Invalid(o)
    PROVE  Parsable(o)
<1>1. HandleEthernet(o) # Error /\ ParseTunnelFlags(o.tunnel) # Error /\ ParseTunnelFlags(o.setTunnel) # Error
  BY DEF Invalid
<1>2. o.ethDst.form \in {"absent", "plain", "masked"}
  BY <1>1 DEF HandleEthernet, HandleEthernetAddrOption
<1>3. \A tf \in {o.tunnel, o.setTunnel} : \A f \in DOMAIN tf : tf[f] # BadText
  BY <1>1, TunnelTyped
<1> QED
  BY <1>2, <1>3 DEF Parsable

\* The FlowSpec becomes the flow that the options describe.
LEMMA AddingRequest ==
    ASSUME CommandInv, Adding, Request
    PROVE  Adding'
<1>1. /\ pc = "output" /\ next > Len(opts.output) /\ pc' = "done"
      /\ UNCHANGED <<cmd, had, opts, number, next>> /\ ok' = (result' = "ok")
  BY DEF Request, Return
<1>2. HadNow'
  BY <1>1 DEF Adding, HadNow
<1>3. ASSUME cmd = "add" PROVE OutputsAdded /\ opts \in Options /\ Parsable(opts)
  <2>1. OutputsAdded /\ opts \in Options
    BY <1>1, <1>3 DEF Adding, CommandInv, PlaceOK
  <2> QED
    BY <2>1, NotRefused DEF OutputsAdded
<1>4. ASSUME cmd = "add", result' = "ok", Plain(opts) PROVE \E f \in flows' : Described(opts, f)
  <2>1. PICK f \in flows' : f.match = SpecMatch /\ f.actions = ActionAttrs(spec)
    <3> DEFINE given == KeyAttrs(spec.keys)
               key == [t \in Types |-> IF t \in DOMAIN given THEN Value(t, given[t]) ELSE {}]
               new == [match |-> SpecMatch, actions |-> ActionAttrs(spec), by |-> spec, key |-> key]
    <3>1. CreateFlow
      BY <1>4 DEF Request, Send
    <3>2. new \in flows'
      BY <1>4, <3>1 DEF CreateFlow, Fails
    <3>3. new.match = SpecMatch /\ new.actions = ActionAttrs(spec)
      OBVIOUS
    <3> HIDE DEF new
    <3> QED
      BY <3>2, <3>3
  <2>2. ~Unserializable(spec.keys) /\ Accepts(KeyAttrs(spec.keys), ActionAttrs(spec))
    BY <1>4 DEF Request, Send, CreateFlow, Fails, Refused
  <2>3. OutputsAdded /\ opts \in Options /\ IsFlowKeys(spec.keys) /\ IsActions(spec.actions)
    BY <1>3, <1>4 DEF CommandInv, CommandTypeOK, TypeOK, IsFlowSpec
  <2>4. PICK x \in InPorts(opts) : spec.keys = GivenKeys(opts, x)
    BY <2>3 DEF OutputsAdded
  <2>5. opts.inPort # None => x \subseteq Pos
    <3> SUFFICES ASSUME opts.inPort # None PROVE x \subseteq Pos
      OBVIOUS
    <3>1. opts.inPort \in VportNames /\ x \in had[opts.inPort]
      BY Named DEF InPorts
    <3>2. had \in [VportNames -> SUBSET Numbers]
      BY DEF CommandInv, CommandTypeOK
    <3> QED
      BY <3>1, <3>2, NumbersAssumption
  <2>6. SpecMatch = Wanted(opts, x)
    <3>1. Ordinary(spec.keys) /\ Asked(spec.keys) = Wanted(opts, x)
      BY <1>4, <2>3, <2>4, <2>5, KeysWanted DEF OutputsAdded
    <3> QED
      BY <2>2, <2>3, <3>1, MatchAsked DEF SpecMatch
  <2>7. next = 1 + Len(opts.output) /\ Len(opts.output) \in Nat
    <3>1. next \in Nat \ {0} /\ next <= 1 + Len(opts.output) /\ Len(opts.output) \in Nat
      BY <1>1, Named DEF CommandInv, CommandTypeOK
    <3> QED
      BY <1>1, <3>1
  <2>8. next - 1 = Len(opts.output)
    BY <2>7
  <2>9. ~Invalid(opts) /\ Fits(opts.setTunnel)
    BY <1>4, <2>3 DEF OutputsAdded, Plain
  <2>10. /\ Len(spec.actions) = Len(Sets(opts)) + Len(opts.output)
         /\ \A i \in 1 .. Len(Sets(opts)) : spec.actions[i] = Sets(opts)[i]
         /\ \A i \in 1 .. Len(opts.output) :
               \E y \in had[opts.output[i]] : spec.actions[Len(Sets(opts)) + i] = NewOutputAction(y)
    BY <2>3, <2>8 DEF OutputsAdded, Outputs
  <2>11. f.actions = [i \in DOMAIN spec.actions |-> ActionNlAttr(spec.actions[i])]
    BY <2>1 DEF ActionAttrs
  <2>12. \E y \in InPorts(opts) : f.match = Wanted(opts, y)
    BY <2>1, <2>6
  <2>13. Described(opts, f)
    BY <2>3, <2>9, <2>10, <2>11, <2>12, ActionsSent
  <2> QED
    BY <2>13
<1>5. \A f : Described(opts, f)' = Described(opts, f)
  BY <1>1 DEF Described, InPorts
<1>6. ASSUME cmd = "add", result' = "ok" PROVE Installed'
  BY <1>1, <1>3, <1>4, <1>5, <1>6 DEF Installed, Parsable, Plain, Fits
<1> QED
  BY <1>1, <1>2, <1>6 DEF Adding

\* Every step keeps it.
LEMMA AddingStep ==
    ASSUME CommandInv, Printing, Adding, [CommandNext]_allVars
    PROVE  Adding'
<1>1. CASE UNCHANGED <<spec, flows, number, had, cmd, pc, opts, next, ok>>
  <2>1. HadNow'
    BY <1>1 DEF Adding, HadNow
  <2> QED
    BY <1>1, <2>1, AddingKept
<1>2. CASE VportsChange
  <2>1. PICK n \in VportNames, x \in Numbers \cup {None} :
           /\ number' = [number EXCEPT ![n] = x]
           /\ had' = IF pc = "idle" THEN had ELSE [had EXCEPT ![n] = @ \cup ({x} \ {None})]
    BY <1>2 DEF VportsChange
  <2>2. /\ had \in [VportNames -> SUBSET Numbers] /\ number \in [VportNames -> Numbers \cup {None}]
        /\ UNCHANGED <<spec, flows, cmd, pc, opts, next, ok>>
    BY <1>2 DEF VportsChange, flowVars, CommandInv, CommandTypeOK
  <2>3. \A m \in VportNames : had[m] \subseteq had'[m]
    BY <2>1, <2>2
  <2>4. HadNow'
    <3> SUFFICES ASSUME pc # "idle", NEW m \in VportNames, number'[m] # None
                 PROVE  number'[m] \in had'[m]
      BY <2>2 DEF HadNow
    <3>1. CASE m = n
      BY <2>1, <2>2, <3>1
    <3>2. CASE m # n
      BY <2>1, <2>2, <3>2 DEF Adding, HadNow
    <3> QED
      BY <3>1, <3>2
  <2> QED
    BY <2>2, <2>3, <2>4, AddingKept
<1>3. CASE OtherInstalls
  BY <1>1, <1>3 DEF OtherInstalls, InstallForeign, commandVars
<1>4. CASE BeginFlow \/ BeginList
  <2>1. /\ had' = [n \in VportNames |-> {number[n]} \ {None}] /\ UNCHANGED <<number, ok>>
        /\ pc = "idle" /\ pc' \notin {"idle", "output", "done"}
    BY <1>4 DEF BeginFlow, BeginList, Begin
  <2>2. HadNow'
    BY <2>1 DEF HadNow
  <2>3. CASE BeginList
    BY <1>4, <2>1, <2>2, <2>3 DEF BeginList, Begin, Adding
  <2>4. CASE BeginFlow
    <3>1. /\ pc' \in {"inPort", "parse"} /\ (pc' = "parse" => opts'.inPort = None)
          /\ spec' = NewFlowSpec
      BY <2>4 DEF BeginFlow, Begin
    <3>2. pc' = "parse" => PortAdded'
      BY <3>1 DEF PortAdded, InPorts, NewFlowSpec, EmptyFn
    <3> QED
      BY <2>1, <2>2, <3>1, <3>2 DEF Adding
  <2> QED
    BY <1>4, <2>3, <2>4
<1>5. CASE Exit \/ LookupFails \/ RequestFails
  <2>1. ok' = FALSE /\ pc' \in {"idle", "done"} /\ (pc' = "done" => pc # "idle" /\ UNCHANGED <<number, had>>)
    BY <1>5 DEF Exit, LookupFails, RequestFails, Return
  <2>2. HadNow'
    BY <2>1 DEF Adding, HadNow
  <2> QED
    BY <2>1, <2>2 DEF Adding
<1>6. CASE LookupInPort
  BY <1>6, AddingInPort
<1>7. CASE ParseOptions
  BY <1>7, AddingParse
<1>8. CASE LookupOutput
  BY <1>8, AddingOutput
<1>9. CASE Request
  BY <1>9, AddingRequest
<1>10. CASE Enumerate \/ PrintKeys \/ PrintAction \/ EndOfLine
  <2>1. cmd' = "list" /\ pc # "idle" /\ pc' # "idle" /\ UNCHANGED <<number, had>>
    BY <1>10 DEF Enumerate, PrintKeys, PrintAction, EndOfLine, Return, Printing
  <2>2. HadNow'
    BY <2>1 DEF Adding, HadNow
  <2>3. pc # "done" /\ (pc' # "done" => UNCHANGED ok)
    BY <1>10 DEF Enumerate, PrintKeys, PrintAction, EndOfLine, Return
  <2> QED
    BY <2>1, <2>2, <2>3 DEF Adding
<1> QED
  BY <1>1, <1>2, <1>3, <1>4, <1>5, <1>6, <1>7, <1>8, <1>9, <1>10
     DEF CommandNext, allVars, flowVars, commandVars

\* `flow add` returns true only for options that can be parsed, and then it has installed
\* the flow that they describe: it matches the addresses, the tunnel fields and the in-port
\* given, and nothing else, it sets the tunnel fields given to their values, and it outputs
\* to the vports named, in their order; for any options, any number of outputs and whatever
\* vports come, go and change their numbers while the tool looks them up one after the
\* other: each number is one that the vport of that name has had meanwhile.
THEOREM AddInstalls == CommandSpec => []Installed
<1>1. CommandInit => Adding
  BY DEF CommandInit, Adding, HadNow
<1>2. CommandInv /\ Printing /\ Adding /\ [CommandNext]_allVars => Adding'
  BY AddingStep
<1>3. Adding => Installed
  BY DEF Adding, Installed
<1> QED
  BY <1>1, <1>2, <1>3, CommandInvariance, PrintingInvariance, PTL DEF CommandSpec

=============================================================================
