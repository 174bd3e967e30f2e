-------------------------------- MODULE Flows --------------------------------
(***************************************************************************)
(* Flows (odp/flow.go): how flow keys and actions are built, compared,     *)
(* sent to the kernel, and parsed when the kernel lists its flows.         *)
(*                                                                         *)
(* The bytes of a flow key are a set of bits. A bit is a pair of the field *)
(* it belongs to and a position, so that ^ and & are set operations, a     *)
(* mask of zeros is {} and one of 0xff bytes is Bits(t). The attributes of *)
(* a message are a function from their types to their values; the value of *)
(* OVS_KEY_ATTR_TUNNEL is again such a function. WrongSize is a value with *)
(* a length that the code does not expect.                                 *)
(*                                                                         *)
(* The kernel and the other programs that install flows are external. What *)
(* is modelled of them is what the comments and the tests of the library   *)
(* say: there is one flow for a match; IN_PORT is matched exactly if its   *)
(* key is given at all; the lists mention flow keys that were not set.     *)
(***************************************************************************)
EXTENDS Naturals, Sequences, FiniteSets

CONSTANTS
    BlobTypes,     \* key types handled as opaque bytes, PRIORITY among them
    OtherTypes,    \* key types that flowKeyParsers does not know
    Pos,           \* bit positions of a field
    None,          \* nil
    WrongSize,     \* the value of an attribute of unexpected length
    Ports,         \* the in-ports a client uses, sets of positions
    EthOptions,    \* addresses with masks a client uses, [addr, mask]
    TunnelOptions, \* settings of tunnel fields a client uses
    ActionLists,   \* the actions a client uses
    ShownTypes,    \* key types the kernel lists even if they are not set
    ForeignFlows,  \* flows that other programs install
    MaxFlows       \* bound: flows in the table

VARIABLES
    spec,    \* the FlowSpec the client is building
    flows,   \* kernel: the flows installed through CreateFlow
    foreign, \* kernel: the flows of other programs
    listed,  \* the flows that EnumerateFlows returned, until the next request
    result   \* how CreateFlow, DeleteFlow, ClearFlow or EnumerateFlows ended, until the
             \* next step

vars == <<spec, flows, foreign, listed, result>>

-----------------------------------------------------------------------------
\* Fields and bits

TunnelFields ==
    {"TunnelId", "Ipv4Src", "Ipv4Dst", "Tos", "Ttl", "Df", "Csum", "TpSrc", "TpDst"}
FlagFields == {"Df", "Csum"}

Types == BlobTypes \cup OtherTypes \cup {"IN_PORT", "ETHERNET", "TUNNEL"}

Fields(t) ==
    CASE t = "TUNNEL"   -> TunnelFields
      [] t = "ETHERNET" -> {"EthSrc", "EthDst"}
      [] t = "IN_PORT"  -> {"upper16", "lower16"}
      [] OTHER          -> {t}

Bits(t) == Fields(t) \X Pos
Field(v, f) == {b \in v : b[1] = f}
Xor(v, w) == (v \ w) \cup (w \ v)

EmptyFn == [x \in {} |-> None]

\* An error return. No key, action or FlowSpec is a record of this form.
Error == [err |-> TRUE]

\* The masks of a flow that is listed without any (nil Attrs).
NoMasks == [nil |-> TRUE]

ASSUME TypesAssumption ==
    /\ BlobTypes \cap (OtherTypes \cup {"IN_PORT", "ETHERNET", "TUNNEL"}) = {}
    /\ OtherTypes \cap {"IN_PORT", "ETHERNET", "TUNNEL"} = {}

\* nil is not a value, nor the attributes of a tunnel.
ASSUME NilAssumption ==
    /\ None # WrongSize
    /\ \A t \in Types : \A v \in SUBSET Bits(t) : v # None /\ v # WrongSize
    /\ \A F \in SUBSET TunnelFields : None \notin [F -> SUBSET Bits("TUNNEL")]

ASSUME ClientAssumption ==
    /\ \A vport \in Ports : vport \subseteq Pos
    /\ \A option \in EthOptions : option.addr \subseteq Pos /\ option.mask \subseteq Pos
    /\ \A s \in TunnelOptions :
          /\ DOMAIN s \subseteq TunnelFields
          /\ \A f \in DOMAIN s : s[f] \subseteq Pos /\ (f \in FlagFields => s[f] \in {{}, Pos})

ASSUME ShownAssumption == ShownTypes \subseteq Types

IsList(s) == s \in Seq({s[i] : i \in DOMAIN s})

\* The values an attribute can have. A type without a parser has no expected length.
AttrValue(t, v) ==
    CASE t = "TUNNEL"     -> \A f \in DOMAIN v \cap TunnelFields :
                                v[f] \subseteq {f} \X Pos \/ v[f] = WrongSize
      [] t \in OtherTypes -> v \in SUBSET Bits(t)
      [] OTHER            -> v \in SUBSET Bits(t) \/ v = WrongSize

\* The value of a SET action: one attribute or, listed by Linux 4.3, those of a tunnel.
SetValue(v) ==
    /\ DOMAIN v # {}
    /\ \A n \in DOMAIN v :
          IF n = "TUNNEL" THEN AttrValue(n, v[n])
                          ELSE n \notin {"OUTPUT", "SET"} /\ v[n] \subseteq {n} \X Pos

ForeignTyped(f) ==
    /\ DOMAIN f.keys \subseteq Types /\ \A t \in DOMAIN f.keys : AttrValue(t, f.keys[t])
    /\ f.masks # NoMasks =>
          DOMAIN f.masks \subseteq Types /\ \A t \in DOMAIN f.masks : AttrValue(t, f.masks[t])
    /\ IsList(f.actions)
    /\ \A i \in DOMAIN f.actions : f.actions[i].typ = "SET" => SetValue(f.actions[i].val)

ASSUME ForeignAssumption == \A f \in ForeignFlows : ForeignTyped(f)

-----------------------------------------------------------------------------
\* Flow keys. The type of a key is its index in FlowKeys. Only an UnknownFlowKey
\* can have exact = TRUE, or None for its key or mask.

FlowKey(t) ==
    IF t \in OtherTypes
    THEN [key : (SUBSET Bits(t)) \cup {None}, mask : (SUBSET Bits(t)) \cup {None}, exact : BOOLEAN]
    ELSE [key : SUBSET Bits(t), mask : SUBSET Bits(t), exact : {FALSE}]

\* A flag is a Boolean: all of its bits are the same.
Whole(v) == \A f \in FlagFields : Field(v, f) \in {{}, {f} \X Pos}

\* An in-port is exact or ignored.
IsFlowKeys(ks) ==
    /\ DOMAIN ks \subseteq Types
    /\ \A t \in DOMAIN ks : (None \in {ks[t].key, ks[t].mask} => t \in OtherTypes)
                           /\ ks[t] \in FlowKey(t)
    /\ "IN_PORT" \in DOMAIN ks => ks["IN_PORT"].mask \in {{}, Bits("IN_PORT")}
    /\ "TUNNEL" \in DOMAIN ks => Whole(ks["TUNNEL"].key) /\ Whole(ks["TUNNEL"].mask)

NewBlobFlowKey(t) == [key |-> {}, mask |-> Bits(t), exact |-> FALSE]

NewInPortFlowKey(vport) ==
    [NewBlobFlowKey("IN_PORT") EXCEPT !.key = {"lower16"} \X vport]

NewEthernetFlowKey == NewBlobFlowKey("ETHERNET")

\* SetMaskedEthSrc and SetMaskedEthDst
SetMaskedEth(k, field, option) ==
    [k EXCEPT !.key  = (@ \ Field(@, field)) \cup ({field} \X option.addr),
              !.mask = (@ \ Field(@, field)) \cup ({field} \X option.mask)]

\* A TunnelFlowKey on which the Set methods of the fields in DOMAIN s were called.
SetTunnelFields(s) ==
    [key |-> UNION {{f} \X s[f] : f \in DOMAIN s}, mask |-> (DOMAIN s) \X Pos, exact |-> FALSE]

IgnoredNever(t, k) == FALSE

\* Ignored. TunnelFlowKey.Ignored looks at all fields except Df; EthernetFlowKey.Ignored is
\* false.
Ignored(t, k) ==
    CASE t \in OtherTypes -> k.mask = None /\ ~k.exact
      [] t = "ETHERNET"   -> FALSE
      [] t = "TUNNEL"     -> k.mask \subseteq {"Df"} \X Pos
      [] OTHER            -> k.mask = {}

UnknownEquals(a, b) ==
    /\ a.key = b.key
    /\ IF a.exact THEN b.exact ELSE a.mask = b.mask

BlobEqualsMaskOnly(a, b) == a.mask = b.mask
BlobEquals(a, b) == a.mask = b.mask /\ Xor(a.key, b.key) \cap a.mask = {}

KeyEquals(t, a, b) ==
    CASE t \in OtherTypes -> UnknownEquals(a, b)
      [] t = "TUNNEL"     -> a = b
      [] OTHER            -> BlobEquals(a, b)

\* FlowKeys.Equals
Equals(a, b) ==
    /\ \A t \in DOMAIN a :
          IF t \in DOMAIN b THEN KeyEquals(t, a[t], b[t]) ELSE Ignored(t, a[t])
    /\ \A t \in DOMAIN b \ DOMAIN a : Ignored(t, b[t])

-----------------------------------------------------------------------------
\* Sending flow keys

\* TunnelAttrs.present: Ipv4Dst and Ttl are always sent.
Present(mask) == {f \in TunnelFields : Field(mask, f) # {}} \cup {"Ipv4Dst", "Ttl"}

\* TunnelAttrsPresence.mask
PresenceMask(present) == present \X Pos

\* TunnelAttrs.toNlAttrs: a flag is sent by its presence only.
TunnelNlAttrs(ta, present) ==
    [f \in {g \in present : g \in FlagFields => Field(ta, g) # {}} |-> Field(ta, f)]

PutKey(t, k) ==
    CASE t = "TUNNEL" -> TunnelNlAttrs(k.key, Present(k.mask))
      [] t \in OtherTypes /\ k.key = None -> WrongSize
      [] OTHER -> k.key

PutMask(t, k) ==
    IF t = "TUNNEL" THEN TunnelNlAttrs(k.mask, Present(k.mask)) ELSE k.mask

WithEthernetAlways(ks) ==
    [t \in DOMAIN ks \cup {"ETHERNET"} |->
        IF t # "ETHERNET" THEN ks[t] ELSE NewEthernetFlowKey]

WithEthernet(ks) ==
    [t \in DOMAIN ks \cup {"ETHERNET"} |->
        IF t \in DOMAIN ks THEN ks[t] ELSE NewEthernetFlowKey]

\* FlowKeys.toNlAttrs: the types that are sent, and the two nested attributes.
Sent(ks) == {t \in DOMAIN WithEthernet(ks) : ~Ignored(t, WithEthernet(ks)[t])}
KeyAttrs(ks) == [t \in Sent(ks) |-> PutKey(t, WithEthernet(ks)[t])]
MaskAttrs(ks) == [t \in Sent(ks) |-> PutMask(t, WithEthernet(ks)[t])]

\* It fails for an exact mask of an unknown key.
Unserializable(ks) == \E t \in DOMAIN ks : t \in OtherTypes /\ ks[t].exact

-----------------------------------------------------------------------------
\* Parsing flow keys

\* The bits of tunnel attribute f: GetEmpty for a flag, GetOptional... for a value.
TunnelBits(attrs, f) == IF f \in FlagFields THEN {f} \X Pos ELSE attrs[f]

\* parseTunnelAttrs. The error of Ipv4Dst is overwritten by the next one.
ParseTunnelAttrs(attrs) ==
    LET known == DOMAIN attrs \cap TunnelFields
        good  == {f \in known : attrs[f] # WrongSize}
    IN  IF known \ good \subseteq {"Ipv4Dst"}
        THEN [attrs |-> UNION {TunnelBits(attrs, f) : f \in good}, present |-> good]
        ELSE Error

ParseTunnelFlowKey(key, mask) ==
    LET k == IF key = None THEN [attrs |-> {}, present |-> {}] ELSE ParseTunnelAttrs(key)
        m == IF mask = None THEN k ELSE ParseTunnelAttrs(mask)
    IN  IF k = Error \/ m = Error
        THEN Error
        ELSE [key |-> k.attrs, exact |-> FALSE,
              mask |-> IF mask = None THEN PresenceMask(k.present) ELSE m.attrs]

ParseBlobFlowKeyNil(key, mask) ==
    IF key = WrongSize \/ mask = WrongSize THEN Error
    ELSE [key |-> key, mask |-> mask, exact |-> FALSE]

ParseBlobFlowKey(key, mask) ==
    IF key = WrongSize \/ mask = WrongSize \/ (key = None /\ mask # {})
    THEN Error
    ELSE [key |-> IF key = None THEN {} ELSE key, mask |-> mask, exact |-> FALSE]

\* parseInPortFlowKey: any mask but 0xffffffff means ignored.
InPortMaskAsIs(mask) == mask
InPortMask(mask) == IF mask \in {Bits("IN_PORT"), WrongSize} THEN mask ELSE {}

ParseFlowKey(t, key, mask, exact) ==
    CASE t = "TUNNEL"     -> ParseTunnelFlowKey(key, mask)
      [] t = "IN_PORT"    -> ParseBlobFlowKey(key, InPortMask(mask))
      [] t \in OtherTypes -> [key |-> key, mask |-> mask, exact |-> exact]
      [] OTHER            -> ParseBlobFlowKey(key, mask)

\* FlowKeyParser.exactMask and ignoreMask
ExactMask(t) == IF t \in OtherTypes \cup {"TUNNEL"} THEN None ELSE Bits(t)
IgnoreMask(t) ==
    CASE t \in OtherTypes -> None
      [] t = "TUNNEL"     -> EmptyFn
      [] OTHER            -> {}

ParseFlowKeys(keys, masks) ==
    LET fk == IF masks = NoMasks
              THEN [t \in DOMAIN keys |-> ParseFlowKey(t, keys[t], ExactMask(t), TRUE)]
              ELSE [t \in DOMAIN keys \cup DOMAIN masks |->
                       ParseFlowKey(t, IF t \in DOMAIN keys THEN keys[t] ELSE None,
                                    IF t \in DOMAIN masks THEN masks[t] ELSE IgnoreMask(t),
                                    FALSE)]
    IN  IF \E t \in DOMAIN fk : fk[t] = Error THEN Error ELSE fk

-----------------------------------------------------------------------------
\* Actions. An action attribute is [typ, val]; the value of SET is again a function
\* from attribute names to values. The numbers of the names overlap: those of
\* OVS_TUNNEL_KEY_ATTR_* and OVS_KEY_ATTR_* are told apart by their context only.

Number(name) ==
    CASE name = "TunnelId" -> 0
      [] name = "Ipv4Src"  -> 1
      [] name \in {"Ipv4Dst", "PRIORITY"} -> 2
      [] name \in {"Tos", "IN_PORT"}      -> 3
      [] name \in {"Ttl", "ETHERNET"}     -> 4
      [] name = "Df"    -> 5
      [] name = "Csum"  -> 6
      [] name = "TpSrc" -> 9
      [] name = "TpDst" -> 10
      [] name \in {"Ipv6Dst", "ARP"} -> 13
      [] name = "SKB_MARK" -> 15
      [] name = "TUNNEL"   -> 16

Length(name) ==
    CASE name = "TunnelId" -> 8
      [] name \in {"Ipv4Src", "Ipv4Dst", "PRIORITY", "IN_PORT", "SKB_MARK"} -> 4
      [] name \in {"Tos", "Ttl"}     -> 1
      [] name \in {"Df", "Csum"}     -> 0
      [] name \in {"TpSrc", "TpDst"} -> 2
      [] name = "ETHERNET" -> 12
      [] name = "Ipv6Dst"  -> 16
      [] name = "ARP"      -> 24

NewOutputAction(vport) == [kind |-> "Output", vport |-> vport]

\* A SetTunnelAction on which the Set methods of the fields in DOMAIN s were called.
SetTunnelAction(s) ==
    [kind |-> "SetTunnel", attrs |-> UNION {{f} \X s[f] : f \in DOMAIN s}, present |-> DOMAIN s]

SetUnknownAction(typ, val) == [kind |-> "SetUnknown", typ |-> typ, val |-> val]

\* The actions of a FlowSpec.
IsAction(a) ==
    \/ a.kind = "Output" /\ a = NewOutputAction(a.vport)
    \/ /\ a.kind = "SetTunnel"
       /\ a.present \subseteq TunnelFields /\ a.attrs \subseteq a.present \X Pos /\ Whole(a.attrs)
    \/ a.kind = "SetUnknown" /\ a.typ \notin {"OUTPUT", "SET"}

IsActions(as) == IsList(as) /\ \A i \in DOMAIN as : IsAction(as[i])

ASSUME ActionsAssumption == \A as \in ActionLists : IsActions(as)

ActionNlAttr(a) ==
    CASE a.kind = "Output" -> [typ |-> "OUTPUT", val |-> a.vport]
      [] a.kind = "SetTunnel" ->
            LET present == (a.present \ FlagFields) \cup
                           {f \in FlagFields : Field(a.attrs, f) # {}}
            IN  [typ |-> "SET",
                 val |-> [n \in {"TUNNEL"} |-> TunnelNlAttrs(a.attrs, present)]]
      [] a.kind = "SetUnknown" -> [typ |-> a.typ, val |-> a.val]

ActionEqualsPresent(a, b) == a = b

ActionEquals(a, b) ==
    /\ a.kind = b.kind
    /\ IF a.kind = "SetTunnel" THEN a.attrs = b.attrs ELSE a = b

\* What parseTunnelAttrs finds when it takes attrs for tunnel attributes.
AsTunnelAttrs(attrs) ==
    LET Named(f) == {n \in DOMAIN attrs : Number(n) = Number(f)}
        Value(n, f) == IF Length(n) = Length(f) THEN {<<f, b[2]>> : b \in attrs[n]}
                                                ELSE WrongSize
    IN  [f \in {g \in TunnelFields : Named(g) # {}} |->
            Value(CHOOSE n \in Named(f) : TRUE, f)]

MakeSetTunnelAction(ta) ==
    IF ta = Error THEN Error
    ELSE [kind |-> "SetTunnel", attrs |-> ta.attrs, present |-> ta.present]

ParseSetActionNested(attrs) ==
    IF "TUNNEL" \in DOMAIN attrs
    THEN MakeSetTunnelAction(ParseTunnelAttrs(attrs["TUNNEL"]))
    ELSE LET n == CHOOSE m \in DOMAIN attrs : TRUE IN SetUnknownAction(n, attrs[n])

ParseSetAction(attrs) ==
    LET Has(name) == \E n \in DOMAIN attrs :
                        n # "TUNNEL" /\ Number(n) = Number(name) /\ Length(n) = Length(name)
    IN  CASE Has("Ipv4Dst") \/ Has("Ipv6Dst") ->
                MakeSetTunnelAction(ParseTunnelAttrs(AsTunnelAttrs(attrs)))
          [] ~(Has("Ipv4Dst") \/ Has("Ipv6Dst")) /\ "TUNNEL" \in DOMAIN attrs ->
                MakeSetTunnelAction(ParseTunnelAttrs(attrs["TUNNEL"]))
          [] OTHER ->
                LET n == CHOOSE m \in DOMAIN attrs : TRUE IN SetUnknownAction(n, attrs[n])

ParseAction(a) ==
    CASE a.typ = "OUTPUT" -> NewOutputAction(a.val)
      [] a.typ = "SET"    -> ParseSetAction(a.val)
      [] OTHER            -> Error

-----------------------------------------------------------------------------
\* FlowSpecs

IsFlowSpec(s) == IsFlowKeys(s.keys) /\ IsActions(s.actions)

NewFlowSpec == [keys |-> EmptyFn, actions |-> <<>>]

SpecEquals(a, b) ==
    /\ Equals(a.keys, b.keys)
    /\ Len(a.actions) = Len(b.actions)
    /\ \A i \in DOMAIN a.actions : ActionEquals(a.actions[i], b.actions[i])

ActionAttrs(s) == [i \in DOMAIN s.actions |-> ActionNlAttr(s.actions[i])]

\* parseFlowSpec. f is what the kernel lists: keys, masks (or NoMasks) and actions.
ParseFlowSpec(f) ==
    LET keys    == ParseFlowKeys(f.keys, f.masks)
        actions == [i \in DOMAIN f.actions |-> ParseAction(f.actions[i])]
    IN  IF keys = Error \/ \E i \in DOMAIN actions : actions[i] = Error
        THEN Error
        ELSE [keys |-> keys, actions |-> actions]

-----------------------------------------------------------------------------
\* The kernel

\* The bits of an attribute's value.
Value(t, v) == IF t = "TUNNEL" THEN UNION {TunnelBits(v, f) : f \in DOMAIN v} ELSE v

\* What a flow matches: for each type the bits compared, and their values.
Match(keys, masks) ==
    [t \in Types |->
        LET mask == CASE t \notin DOMAIN keys -> {}
                      [] t \in DOMAIN keys /\ t = "IN_PORT" -> Bits(t)
                      [] OTHER -> IF t \in DOMAIN masks THEN Value(t, masks[t]) ELSE {}
        IN  [mask |-> mask, key |-> IF mask = {} THEN {} ELSE Value(t, keys[t]) \cap mask]]

TunnelComplete(attrs) == {"Ipv4Dst", "Ttl"} \subseteq DOMAIN attrs

Accepts(keys, actions) ==
    /\ "ETHERNET" \in DOMAIN keys
    /\ \A t \in DOMAIN keys :
          IF t = "TUNNEL" THEN TunnelComplete(keys[t]) ELSE keys[t] # WrongSize
    /\ \A i \in DOMAIN actions :
          \/ actions[i].typ = "OUTPUT"
          \/ /\ actions[i].typ = "SET"
             /\ "TUNNEL" \in DOMAIN actions[i].val => TunnelComplete(actions[i].val["TUNNEL"])

\* How the kernel lists a tunnel key or mask, and a SET action.
ListTunnel(v) ==
    [f \in {g \in TunnelFields : Field(v, g) # {}} \cup {"Ttl"} |-> Field(v, f)]
ListValue(t, v) == IF t = "TUNNEL" THEN ListTunnel(v) ELSE v

\* Linux 4.3 lists SET(TUNNEL) without the TUNNEL attribute.
ListAction(a, linux43) ==
    IF linux43 /\ a.typ = "SET" /\ "TUNNEL" \in DOMAIN a.val
    THEN [a EXCEPT !.val = a.val["TUNNEL"]]
    ELSE a

\* How the kernel lists flow f: besides the types that f matches on, it mentions the types
\* extra in the mask and, of these, withKey in the key. The bits of the key that are not
\* matched may be shown as they were given, or as zeros.
ListFlow(f, extra, withKey, masked, linux43) ==
    LET on == {t \in Types : f.match[t].mask # {}} \cup {"ETHERNET"}
    IN  [keys    |-> [t \in on \cup withKey |->
                         ListValue(t, IF masked THEN f.match[t].key ELSE f.key[t])],
         masks   |-> [t \in on \cup extra \cup {"IN_PORT"} |->
                         IF t = "IN_PORT" THEN f.match[t].mask \cup ({"upper16"} \X Pos)
                                          ELSE ListValue(t, f.match[t].mask)],
         actions |-> [i \in DOMAIN f.actions |-> ListAction(f.actions[i], linux43)]]

\* Without a mask, all bits of the keys are matched.
ExactMasks(keys) ==
    [t \in DOMAIN keys |->
        IF t = "TUNNEL" THEN [f \in TunnelFields |-> {f} \X Pos] ELSE Bits(t)]
ForeignMatch(f) == Match(f.keys, IF f.masks = NoMasks THEN ExactMasks(f.keys) ELSE f.masks)

-----------------------------------------------------------------------------
\* The client

Init ==
    /\ spec = NewFlowSpec
    /\ flows = {}
    /\ foreign = {}
    /\ listed = {}
    /\ result = "none"

\* FlowSpec.AddKey
AddKey(t, k) ==
    /\ spec' = [keys    |-> [u \in DOMAIN spec.keys \cup {t} |->
                                IF u = t THEN k ELSE spec.keys[u]],
                actions |-> spec.actions]
    /\ result' = "none"
    /\ UNCHANGED <<flows, foreign, listed>>

AddInPort == \E vport \in Ports : AddKey("IN_PORT", NewInPortFlowKey(vport))

AddEthernet ==
    \E src, dst \in EthOptions :
        AddKey("ETHERNET",
               SetMaskedEth(SetMaskedEth(NewEthernetFlowKey, "EthSrc", src), "EthDst", dst))

AddTunnel == \E s \in TunnelOptions : AddKey("TUNNEL", SetTunnelFields(s))

AddBlob == \E t \in BlobTypes : AddKey(t, NewBlobFlowKey(t))

\* Bound: the client calls AddActions once.
AddActions ==
    /\ spec.actions = <<>>
    /\ \E as \in ActionLists : spec' = [keys |-> spec.keys, actions |-> spec.actions \o as]
    /\ result' = "none"
    /\ UNCHANGED <<flows, foreign, listed>>

StartSpec ==
    /\ spec # NewFlowSpec
    /\ spec' = NewFlowSpec
    /\ result' = "none"
    /\ UNCHANGED <<flows, foreign, listed>>

\* The client goes on with a FlowSpec it got from EnumerateFlows.
TakeListed ==
    /\ \E e \in listed : spec' = e.spec
    /\ result' = "none"
    /\ UNCHANGED <<flows, foreign, listed>>

\* The request that spec becomes, and the match it names.
Refused(actions) == ~Accepts(KeyAttrs(spec.keys), actions)
SpecMatch == Match(KeyAttrs(spec.keys), MaskAttrs(spec.keys))

Fails(res) == listed' = {} /\ result' = res /\ UNCHANGED <<spec, flows, foreign>>

CreateFlow ==
    \/ Unserializable(spec.keys) /\ Fails("error")
    \/ ~Unserializable(spec.keys) /\ Refused(ActionAttrs(spec)) /\ Fails("EINVAL")
    \/ /\ ~Unserializable(spec.keys)
       /\ ~Refused(ActionAttrs(spec))
       /\ foreign' = {f \in foreign : ForeignMatch(f) # SpecMatch}
       /\ LET others == {f \in flows : f.match # SpecMatch}
              given  == KeyAttrs(spec.keys)
          IN  /\ Cardinality(others) + Cardinality(foreign') < MaxFlows
              /\ flows' = others \cup
                    {[match |-> SpecMatch, actions |-> ActionAttrs(spec), by |-> spec,
                      key |-> [t \in Types |-> IF t \in DOMAIN given THEN Value(t, given[t])
                                                                     ELSE {}]]}
       /\ listed' = {}
       /\ result' = "ok"
       /\ UNCHANGED spec

Found == \/ \E f \in flows : f.match = SpecMatch
         \/ \E f \in foreign : ForeignMatch(f) = SpecMatch

DeleteFlow ==
    \/ Unserializable(spec.keys) /\ Fails("error")
    \/ ~Unserializable(spec.keys) /\ Refused(<<>>) /\ Fails("EINVAL")
    \/ ~Unserializable(spec.keys) /\ ~Refused(<<>>) /\ ~Found /\ Fails("ENOENT")
    \/ /\ ~Unserializable(spec.keys)
       /\ ~Refused(<<>>)
       /\ Found
       /\ flows' = {f \in flows : f.match # SpecMatch}
       /\ foreign' = {f \in foreign : ForeignMatch(f) # SpecMatch}
       /\ listed' = {}
       /\ result' = "ok"
       /\ UNCHANGED spec

\* ClearFlow sends the actions too, and so replaces those of the flow.
ClearFlow ==
    \/ Unserializable(spec.keys) /\ Fails("error")
    \/ ~Unserializable(spec.keys) /\ Refused(ActionAttrs(spec)) /\ Fails("EINVAL")
    \/ ~Unserializable(spec.keys) /\ ~Refused(ActionAttrs(spec)) /\ ~Found /\ Fails("ENOENT")
    \/ /\ ~Unserializable(spec.keys)
       /\ ~Refused(ActionAttrs(spec))
       /\ Found
       /\ flows' = {IF f.match = SpecMatch
                    THEN [match |-> f.match, key |-> f.key, actions |-> ActionAttrs(spec),
                          by |-> [keys |-> f.by.keys, actions |-> spec.actions]]
                    ELSE f : f \in flows}
       /\ foreign' = {IF ForeignMatch(f) = SpecMatch
                      THEN [keys |-> f.keys, masks |-> f.masks, actions |-> ActionAttrs(spec)]
                      ELSE f : f \in foreign}
       /\ listed' = {}
       /\ result' = "ok"
       /\ UNCHANGED spec

\* The answers to the request, parsed.
OwnListed(extra, withKey, masked, linux43) ==
    {[spec |-> ParseFlowSpec(ListFlow(f, extra, withKey, masked, linux43)),
      match |-> f.match, actions |-> f.actions, by |-> f.by] : f \in flows}
ForeignListed ==
    {[spec |-> ParseFlowSpec(f), match |-> ForeignMatch(f),
      actions |-> f.actions, by |-> None] : f \in foreign}

EnumerateFlows ==
    /\ \E extra \in SUBSET ShownTypes, masked, linux43 \in BOOLEAN :
       \E withKey \in SUBSET extra :
           LET all == OwnListed(extra, withKey, masked, linux43) \cup ForeignListed
           IN  IF \E e \in all : e.spec = Error
               THEN listed' = {} /\ result' = "unparsable"
               ELSE listed' = all /\ result' = "none"
    /\ UNCHANGED <<spec, flows, foreign>>

\* Another program installs a flow.
InstallForeign ==
    /\ Cardinality(flows) + Cardinality(foreign) < MaxFlows
    /\ \E f \in ForeignFlows :
          /\ \A g \in flows : g.match # ForeignMatch(f)
          /\ \A g \in foreign : ForeignMatch(g) # ForeignMatch(f)
          /\ foreign' = foreign \cup {f}
    /\ result' = "none"
    /\ UNCHANGED <<spec, flows, listed>>

Next ==
    \/ AddInPort \/ AddEthernet \/ AddTunnel \/ AddBlob \/ AddActions
    \/ StartSpec \/ TakeListed
    \/ CreateFlow \/ DeleteFlow \/ ClearFlow \/ EnumerateFlows
    \/ InstallForeign

Spec == Init /\ [][Next]_vars

-----------------------------------------------------------------------------
\* Properties

FlowTyped(f) ==
    /\ IsFlowSpec(f.by)
    /\ \A t \in Types : /\ f.key[t] \subseteq Bits(t)
                        /\ f.match[t].key \subseteq Bits(t)
                        /\ f.match[t].mask \subseteq Bits(t)

\* Everything the client holds is a FlowSpec: the parsers never let a value of another
\* length, or a missing value, into a key that has a fixed size.
TypeOK ==
    /\ IsFlowSpec(spec)
    /\ \A f \in flows : FlowTyped(f)
    /\ \A f \in foreign : ForeignTyped(f)
    /\ \A e \in listed : IsFlowSpec(e.spec)
    /\ result \in {"none", "ok", "error", "unparsable", "EINVAL", "ENOENT"}

\* What the keys of a FlowSpec ask for.
Asked(ks) ==
    [t \in Types |->
        IF t \in DOMAIN ks /\ ks[t].mask # None
        THEN [mask |-> ks[t].mask,
              key  |-> IF ks[t].mask = {} THEN {} ELSE ks[t].key \cap ks[t].mask]
        ELSE [mask |-> {}, key |-> {}]]

HasEthernet(ks) == "ETHERNET" \in DOMAIN ks
DfAlone(ks) == "TUNNEL" \in DOMAIN ks /\ ks["TUNNEL"].mask # {}
                                      /\ ks["TUNNEL"].mask \subseteq {"Df"} \X Pos
Ordinary(ks) == HasEthernet(ks) /\ ~DfAlone(ks)

\* A flow created through CreateFlow matches exactly the packets its FlowSpec describes,
\* whether that was built or came from a list: nothing gets lost or added by leaving out
\* ignored keys, by the tunnel fields that are always sent, or by flags sent by presence.
AsAsked == \A f \in flows : Ordinary(f.by.keys) => f.match = Asked(f.by.keys)

\* A list of flows created by this library can be parsed, and each flow is listed as a
\* FlowSpec that is Equal to the one it was created from, in both directions, whatever else
\* the kernel mentions in the list.
RoundTrip ==
    /\ foreign = {} => result # "unparsable"
    /\ \A e \in listed :
          e.by # None /\ Ordinary(e.by.keys)
              => SpecEquals(e.spec, e.by) /\ SpecEquals(e.by, e.spec)

\* RoundTrip is about Equals, which compares a tunnel key, and a key without a parser, bit by
\* bit. A client that goes on with the FlowSpec of a foreign flow can count on it if such keys
\* of foreign flows have no bits outside their masks, and the kernel does not mention types
\* without a parser that were not set.
UnderMask(ks) ==
    \A t \in DOMAIN ks \cap (OtherTypes \cup {"TUNNEL"}) :
        None \notin {ks[t].key, ks[t].mask} =>
            ks[t].key \subseteq ks[t].mask /\ (t \in OtherTypes => ks[t].mask # {})

Comparable ==
    /\ ShownTypes \cap OtherTypes = {}
    /\ \A f \in ForeignFlows : LET ks == ParseFlowKeys(f.keys, f.masks)
                               IN  ks # Error => UnderMask(ks)

\* The FlowSpec from a list names the flow that was listed: with it, DeleteFlow and
\* ClearFlow reach this flow and no other, and CreateFlow installs the same actions.
Reusable ==
    \A e \in listed :
        e.by # None =>
            /\ ~Unserializable(e.spec.keys)
            /\ Match(KeyAttrs(e.spec.keys), MaskAttrs(e.spec.keys)) = e.match
            /\ ActionAttrs(e.spec) = e.actions

\* FlowKeys that are Equal name the same flow, if they can be sent at all.
EqualsSound ==
    LET all == {spec.keys} \cup {f.by.keys : f \in flows} \cup
               {e.spec.keys : e \in listed}
    IN  \A a, b \in all :
            Equals(a, b) /\ ~Unserializable(a) /\ ~Unserializable(b)
                => Match(KeyAttrs(a), MaskAttrs(a)) = Match(KeyAttrs(b), MaskAttrs(b))

\* Everything a FlowSpec asks for is matched (README.md: --tunnel-df is a flow key option).
NothingDropped == \A f \in flows : \A t \in Types : Asked(f.by.keys)[t].mask \subseteq f.match[t].mask
=============================================================================
