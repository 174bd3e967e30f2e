----------------------------- MODULE FlowsProofs -----------------------------
(***************************************************************************)
(* Theorems about Flows, for any flow key types, field widths, inputs and  *)
(* foreign flows.                                                          *)
(***************************************************************************)
EXTENDS Flows, SequenceTheorems, TLAPS

-----------------------------------------------------------------------------
(* What Equals decides.                                                    *)

\* Keys that are Equal are ignored or not alike.
LEMMA EqualIgnored ==
    ASSUME NEW t \in Types, NEW a \in FlowKey(t), NEW b \in FlowKey(t),
           KeyEquals(t, a, b), t \in OtherTypes => ~a.exact /\ ~b.exact
    PROVE  Ignored(t, a) <=> Ignored(t, b)
<1>1. CASE t \in OtherTypes
  BY <1>1, TypesAssumption DEF KeyEquals, UnknownEquals, Ignored, FlowKey
<1>2. CASE t = "TUNNEL"
  BY <1>2, TypesAssumption DEF KeyEquals, Ignored
<1>3. CASE t \notin OtherTypes \cup {"TUNNEL"}
  BY <1>3, TypesAssumption DEF KeyEquals, BlobEquals, Ignored
<1> QED
  BY <1>1, <1>2, <1>3

\* Keys that are Equal and sent have the same mask attribute, and key attributes that agree
\* under it.
LEMMA EqualAttrs ==
    ASSUME NEW t \in Types, NEW a \in FlowKey(t), NEW b \in FlowKey(t),
           KeyEquals(t, a, b), t \in OtherTypes => ~a.exact /\ ~b.exact
    PROVE  /\ PutMask(t, a) = PutMask(t, b)
           /\ Value(t, PutKey(t, a)) \cap Value(t, PutMask(t, a))
                = Value(t, PutKey(t, b)) \cap Value(t, PutMask(t, b))
           /\ t = "IN_PORT" => a.mask = b.mask
<1>1. CASE t \in OtherTypes
  BY <1>1, TypesAssumption DEF KeyEquals, UnknownEquals, PutKey, PutMask, Value, FlowKey
<1>2. CASE t = "TUNNEL"
  BY <1>2, TypesAssumption DEF KeyEquals
<1>3. CASE t \notin OtherTypes \cup {"TUNNEL"}
  <2>1. a.mask = b.mask /\ Xor(a.key, b.key) \cap a.mask = {}
    BY <1>3, TypesAssumption DEF KeyEquals, BlobEquals
  <2>2. a.key \cap a.mask = b.key \cap b.mask
    BY <2>1 DEF Xor
  <2> QED
    BY <1>3, <2>1, <2>2 DEF PutKey, PutMask, Value
<1> QED
  BY <1>1, <1>2, <1>3

\* The Ethernet key that is always sent is a key like the others.
LEMMA WithEthernetKeys ==
    ASSUME NEW ks, IsFlowKeys(ks)
    PROVE  /\ DOMAIN WithEthernet(ks) = DOMAIN ks \cup {"ETHERNET"}
           /\ \A t \in DOMAIN WithEthernet(ks) : WithEthernet(ks)[t] \in FlowKey(t)
           /\ \A t \in DOMAIN ks : WithEthernet(ks)[t] = ks[t]
           /\ DOMAIN WithEthernet(ks) \subseteq Types
<1>1. NewEthernetFlowKey \in FlowKey("ETHERNET")
  BY TypesAssumption DEF NewEthernetFlowKey, NewBlobFlowKey, FlowKey
<1> QED
  BY <1>1 DEF WithEthernet, IsFlowKeys, Types

\* FlowKeys that are Equal send the same types.
LEMMA EqualSent ==
    ASSUME NEW a, NEW b, IsFlowKeys(a), IsFlowKeys(b), Equals(a, b),
           ~Unserializable(a), ~Unserializable(b)
    PROVE  /\ Sent(a) = Sent(b)
           /\ \A t \in Sent(a) : \/ t \in DOMAIN a \cap DOMAIN b
                                 \/ WithEthernet(a)[t] = WithEthernet(b)[t]
<1> DEFINE A == WithEthernet(a)
           B == WithEthernet(b)
<1>0. /\ DOMAIN A = DOMAIN a \cup {"ETHERNET"} /\ \A t \in DOMAIN a : A[t] = a[t]
      /\ DOMAIN B = DOMAIN b \cup {"ETHERNET"} /\ \A t \in DOMAIN b : B[t] = b[t]
      /\ \A t \in DOMAIN A \cup DOMAIN B : t \in Types
  BY WithEthernetKeys
<1>1. \A k : ~Ignored("ETHERNET", k)
  BY TypesAssumption DEF Ignored
<1>2. "ETHERNET" \in DOMAIN a <=> "ETHERNET" \in DOMAIN b
  BY <1>1 DEF Equals
<1>3. "ETHERNET" \notin DOMAIN a => A["ETHERNET"] = B["ETHERNET"]
  BY <1>2 DEF WithEthernet
<1>4. \A t \in DOMAIN a \cap DOMAIN b : Ignored(t, a[t]) <=> Ignored(t, b[t])
  <2> SUFFICES ASSUME NEW t \in DOMAIN a \cap DOMAIN b
               PROVE  Ignored(t, a[t]) <=> Ignored(t, b[t])
    OBVIOUS
  <2>1. t \in Types /\ a[t] \in FlowKey(t) /\ b[t] \in FlowKey(t)
    BY DEF IsFlowKeys
  <2>2. KeyEquals(t, a[t], b[t])
    BY DEF Equals
  <2>3. t \in OtherTypes => ~a[t].exact /\ ~b[t].exact
    BY DEF Unserializable
  <2> QED
    BY <2>1, <2>2, <2>3, EqualIgnored
<1>5. \A t \in DOMAIN a \ DOMAIN b : Ignored(t, a[t])
  BY DEF Equals
<1>6. \A t \in DOMAIN b \ DOMAIN a : Ignored(t, b[t])
  BY DEF Equals
<1>7. ASSUME NEW t PROVE t \in Sent(a) <=> t \in Sent(b)
  BY <1>0, <1>1, <1>2, <1>4, <1>5, <1>6 DEF Sent
<1>8. \A t \in Sent(a) : t \in DOMAIN a \cap DOMAIN b \/ A[t] = B[t]
  BY <1>0, <1>2, <1>3, <1>5 DEF Sent
<1>9. Sent(a) = Sent(b)
  BY <1>7
<1> QED
  BY <1>8, <1>9

\* FlowKeys that are Equal and can be sent name the same flow.
LEMMA EqualMatch ==
    ASSUME NEW a, NEW b, IsFlowKeys(a), IsFlowKeys(b), Equals(a, b),
           ~Unserializable(a), ~Unserializable(b)
    PROVE  Match(KeyAttrs(a), MaskAttrs(a)) = Match(KeyAttrs(b), MaskAttrs(b))
<1> DEFINE A == WithEthernet(a)
           B == WithEthernet(b)
           S == Sent(a)
<1>1. Sent(b) = S
  BY EqualSent
<1>2. \A t \in S :
         /\ PutMask(t, A[t]) = PutMask(t, B[t])
         /\ Value(t, PutKey(t, A[t])) \cap Value(t, PutMask(t, A[t]))
              = Value(t, PutKey(t, B[t])) \cap Value(t, PutMask(t, B[t]))
         /\ t = "IN_PORT" => A[t].key \cap Bits(t) = B[t].key \cap Bits(t)
  <2> SUFFICES ASSUME NEW t \in S, t \in DOMAIN a \cap DOMAIN b
               PROVE  /\ PutMask(t, A[t]) = PutMask(t, B[t])
                      /\ Value(t, PutKey(t, A[t])) \cap Value(t, PutMask(t, A[t]))
                           = Value(t, PutKey(t, B[t])) \cap Value(t, PutMask(t, B[t]))
                      /\ t = "IN_PORT" => A[t].key \cap Bits(t) = B[t].key \cap Bits(t)
    BY EqualSent
  <2>1. A[t] = a[t] /\ B[t] = b[t]
    BY WithEthernetKeys
  <2>2. t \in Types /\ a[t] \in FlowKey(t) /\ b[t] \in FlowKey(t)
    BY DEF IsFlowKeys
  <2>3. KeyEquals(t, a[t], b[t])
    BY DEF Equals
  <2>4. t \in OtherTypes => ~a[t].exact /\ ~b[t].exact
    BY DEF Unserializable
  <2>5. CASE t = "IN_PORT"
    <3>1. ~Ignored(t, a[t])
      BY <2>1 DEF Sent
    <3>2. a[t].mask = Bits(t)
      BY <2>5, <3>1, TypesAssumption DEF IsFlowKeys, Ignored
    <3>3. BlobEquals(a[t], b[t])
      BY <2>3, <2>5, TypesAssumption DEF KeyEquals
    <3>4. a[t].key \cap Bits(t) = b[t].key \cap Bits(t)
      BY <3>2, <3>3 DEF BlobEquals, Xor
    <3> QED
      BY <2>1, <2>2, <2>3, <2>4, <3>4, EqualAttrs
  <2> QED
    BY <2>1, <2>2, <2>3, <2>4, <2>5, EqualAttrs
<1>3. DOMAIN KeyAttrs(a) = S /\ DOMAIN KeyAttrs(b) = S
  BY <1>1 DEF KeyAttrs
<1>4. MaskAttrs(a) = MaskAttrs(b) /\ DOMAIN MaskAttrs(a) = S
  BY <1>1, <1>2 DEF MaskAttrs
<1>5. \A t \in S : KeyAttrs(a)[t] = PutKey(t, A[t]) /\ KeyAttrs(b)[t] = PutKey(t, B[t])
                   /\ MaskAttrs(a)[t] = PutMask(t, A[t])
  BY <1>1 DEF KeyAttrs, MaskAttrs
<1>6. ASSUME NEW t \in Types
      PROVE  Match(KeyAttrs(a), MaskAttrs(a))[t] = Match(KeyAttrs(b), MaskAttrs(b))[t]
  <2>1. CASE t \notin S
    BY <1>3, <2>1 DEF Match
  <2>2. CASE t \in S /\ t = "IN_PORT"
    <3>1. Value(t, KeyAttrs(a)[t]) = A[t].key /\ Value(t, KeyAttrs(b)[t]) = B[t].key
      BY <1>5, <2>2, TypesAssumption DEF PutKey, Value
    <3> QED
      BY <1>2, <1>3, <2>2, <3>1, ZenonT(30) DEF Match
  <2>3. CASE t \in S /\ t # "IN_PORT"
    BY <1>2, <1>3, <1>4, <1>5, <2>3 DEF Match
  <2> QED
    BY <2>1, <2>2, <2>3
<1> QED
  BY <1>6 DEF Match

-----------------------------------------------------------------------------
(* Types. A key of a known type, made by a constructor or a parser, has    *)
(* its size.                                                               *)

KnownKey(t, k) ==
    /\ k \in FlowKey(t)
    /\ t = "IN_PORT" => k.mask \in {{}, Bits("IN_PORT")}
    /\ t = "TUNNEL" => Whole(k.key) /\ Whole(k.mask)

LEMMA ProductField ==
    ASSUME NEW F, NEW g
    PROVE  Field(F \X Pos, g) = IF g \in F THEN {g} \X Pos ELSE {}
BY DEF Field

LEMMA NotNil ==
    ASSUME NEW t \in Types, NEW k \in FlowKey(t), t \notin OtherTypes
    PROVE  None \notin {k.key, k.mask}
BY NilAssumption DEF FlowKey

LEMMA FlowKeysIntro ==
    ASSUME NEW ks, DOMAIN ks \subseteq Types, \A t \in DOMAIN ks : KnownKey(t, ks[t])
    PROVE  IsFlowKeys(ks)
BY NotNil DEF IsFlowKeys, KnownKey

LEMMA AddKeyTyped ==
    ASSUME NEW ks, IsFlowKeys(ks), NEW t \in Types, NEW k, KnownKey(t, k)
    PROVE  IsFlowKeys([u \in DOMAIN ks \cup {t} |-> IF u = t THEN k ELSE ks[u]])
<1> DEFINE new == [u \in DOMAIN ks \cup {t} |-> IF u = t THEN k ELSE ks[u]]
<1>1. \A u \in DOMAIN new : KnownKey(u, new[u])
  BY DEF IsFlowKeys, KnownKey
<1>2. DOMAIN new \subseteq Types
  BY DEF IsFlowKeys
<1> QED
  BY <1>1, <1>2, FlowKeysIntro

LEMMA BlobKnown ==
    ASSUME NEW t \in Types, t \notin OtherTypes
    PROVE  t = "TUNNEL" \/ KnownKey(t, NewBlobFlowKey(t))
BY DEF KnownKey, NewBlobFlowKey, FlowKey

LEMMA InPortKnown ==
    ASSUME NEW vport, vport \subseteq Pos
    PROVE  KnownKey("IN_PORT", NewInPortFlowKey(vport))
<1>1. {"lower16"} \X vport \subseteq Bits("IN_PORT")
  BY TypesAssumption DEF Bits, Fields
<1> QED
  BY <1>1, TypesAssumption DEF KnownKey, NewInPortFlowKey, NewBlobFlowKey, FlowKey

LEMMA EthKnown ==
    ASSUME NEW k, KnownKey("ETHERNET", k), NEW field \in {"EthSrc", "EthDst"},
           NEW option, option.addr \subseteq Pos, option.mask \subseteq Pos
    PROVE  KnownKey("ETHERNET", SetMaskedEth(k, field, option))
<1>1. /\ {field} \X option.addr \subseteq Bits("ETHERNET")
      /\ {field} \X option.mask \subseteq Bits("ETHERNET")
  BY TypesAssumption DEF Bits, Fields
<1>2. k \in [key : SUBSET Bits("ETHERNET"), mask : SUBSET Bits("ETHERNET"), exact : {FALSE}]
  BY TypesAssumption DEF KnownKey, FlowKey
<1>3. SetMaskedEth(k, field, option)
        \in [key : SUBSET Bits("ETHERNET"), mask : SUBSET Bits("ETHERNET"), exact : {FALSE}]
  BY <1>1, <1>2 DEF SetMaskedEth, Field
<1> QED
  BY <1>3, TypesAssumption DEF KnownKey, FlowKey

\* Settings of tunnel fields.
TunnelSettings(s) ==
    /\ DOMAIN s \subseteq TunnelFields
    /\ \A f \in DOMAIN s : s[f] \subseteq Pos /\ (f \in FlagFields => s[f] \in {{}, Pos})

LEMMA TunnelKnown ==
    ASSUME NEW s, TunnelSettings(s)
    PROVE  KnownKey("TUNNEL", SetTunnelFields(s))
<1>1. \A f \in DOMAIN s : {f} \X s[f] \subseteq Bits("TUNNEL")
  BY DEF TunnelSettings, Bits, Fields
<1>2. (DOMAIN s) \X Pos \subseteq Bits("TUNNEL")
  BY DEF TunnelSettings, Bits, Fields
<1>3. UNION {{f} \X s[f] : f \in DOMAIN s} \subseteq Bits("TUNNEL")
  BY <1>1
<1>4. Whole((DOMAIN s) \X Pos)
  BY ProductField DEF Whole
<1>5. Whole(UNION {{f} \X s[f] : f \in DOMAIN s})
  <2> DEFINE b == [f \in DOMAIN s |-> {f} \X s[f]]
  <2>1. \A f \in DOMAIN s : b[f] \subseteq {f} \X Pos
    BY DEF TunnelSettings
  <2>2. UNION {b[f] : f \in DOMAIN s} = UNION {{f} \X s[f] : f \in DOMAIN s}
    OBVIOUS
  <2>3. ASSUME NEW g
        PROVE  Field(UNION {b[f] : f \in DOMAIN s}, g) = IF g \in DOMAIN s THEN b[g] ELSE {}
    <3> HIDE DEF b
    <3> QED
      BY <2>1 DEF Field
  <2>4. \A g \in FlagFields \cap DOMAIN s : {g} \X s[g] \in {{}, {g} \X Pos}
    BY DEF TunnelSettings
  <2> QED
    BY <2>2, <2>3, <2>4 DEF Whole
<1> QED
  BY <1>2, <1>3, <1>4, <1>5, TypesAssumption DEF KnownKey, SetTunnelFields, FlowKey

\* parseTunnelAttrs accepts only what fits into a TunnelAttrs.
LEMMA TunnelParsed ==
    ASSUME NEW v, AttrValue("TUNNEL", v), ParseTunnelAttrs(v) # Error
    PROVE  /\ ParseTunnelAttrs(v).attrs \subseteq Bits("TUNNEL")
           /\ ParseTunnelAttrs(v).present \subseteq TunnelFields
           /\ ParseTunnelAttrs(v).attrs \subseteq ParseTunnelAttrs(v).present \X Pos
           /\ Whole(ParseTunnelAttrs(v).attrs)
<1> DEFINE known == DOMAIN v \cap TunnelFields
           good  == {f \in known : v[f] # WrongSize}
<1>1. ParseTunnelAttrs(v) = [attrs |-> UNION {TunnelBits(v, f) : f \in good}, present |-> good]
  BY DEF ParseTunnelAttrs
<1>2. \A f \in good : TunnelBits(v, f) \subseteq {f} \X Pos
  BY TypesAssumption DEF AttrValue, TunnelBits
<1>3. \A f \in good : {f} \X Pos \subseteq Bits("TUNNEL")
  BY DEF Bits, Fields
<1>4. UNION {TunnelBits(v, f) : f \in good} \subseteq Bits("TUNNEL")
  BY <1>2, <1>3
<1>6. UNION {TunnelBits(v, f) : f \in good} \subseteq good \X Pos
  BY <1>2
<1>5. Whole(UNION {TunnelBits(v, f) : f \in good})
  <2> DEFINE b == [f \in good |-> TunnelBits(v, f)]
  <2>1. \A f \in good : b[f] \subseteq {f} \X Pos
    BY <1>2
  <2>2. UNION {b[f] : f \in good} = UNION {TunnelBits(v, f) : f \in good}
    OBVIOUS
  <2>3. ASSUME NEW g
        PROVE  Field(UNION {b[f] : f \in good}, g) = IF g \in good THEN b[g] ELSE {}
    <3> HIDE DEF b, good
    <3> QED
      BY <2>1 DEF Field
  <2>4. \A g \in FlagFields \cap good : b[g] = {g} \X Pos
    BY DEF TunnelBits
  <2> QED
    BY <2>2, <2>3, <2>4 DEF Whole
<1> QED
  BY <1>1, <1>4, <1>5, <1>6

\* Whatever the kernel lists, a parser returns an error or a key of its type.
LEMMA KeyParsed ==
    ASSUME NEW t \in Types, NEW key, NEW mask, NEW exact \in BOOLEAN,
           key = None \/ AttrValue(t, key),
           mask \in {ExactMask(t), IgnoreMask(t)} \/ AttrValue(t, mask),
           ParseFlowKey(t, key, mask, exact) # Error
    PROVE  KnownKey(t, ParseFlowKey(t, key, mask, exact))
<1>1. CASE t = "TUNNEL"
  <2> DEFINE zero == [attrs |-> {}, present |-> {}]
             k == IF key = None THEN zero ELSE ParseTunnelAttrs(key)
             m == IF mask = None THEN k ELSE ParseTunnelAttrs(mask)
             res == [key |-> k.attrs, exact |-> FALSE,
                     mask |-> IF mask = None THEN PresenceMask(k.present) ELSE m.attrs]
  <2>1. ParseFlowKey(t, key, mask, exact) = ParseTunnelFlowKey(key, mask)
    BY <1>1, TypesAssumption DEF ParseFlowKey
  <2>2. k # Error /\ m # Error /\ ParseFlowKey(t, key, mask, exact) = res
    BY <2>1 DEF ParseTunnelFlowKey
  <2>3. AttrValue("TUNNEL", EmptyFn)
    BY TypesAssumption DEF AttrValue, EmptyFn
  <2>4. mask = None \/ AttrValue("TUNNEL", mask)
    BY <1>1, <2>3, TypesAssumption DEF ExactMask, IgnoreMask
  <2>5. k.attrs \subseteq Bits("TUNNEL") /\ k.present \subseteq TunnelFields /\ Whole(k.attrs)
    <3>1. CASE key = None
      BY <3>1 DEF Whole, Field
    <3>2. CASE key # None
      BY <1>1, <2>2, <3>2, TunnelParsed
    <3> QED
      BY <3>1, <3>2
  <2>6. mask # None => m.attrs \subseteq Bits("TUNNEL") /\ Whole(m.attrs)
    BY <2>2, <2>4, TunnelParsed
  <2>7. PresenceMask(k.present) \subseteq Bits("TUNNEL") /\ Whole(PresenceMask(k.present))
    BY <2>5, ProductField DEF PresenceMask, Bits, Fields, Whole
  <2>8. res.mask \subseteq Bits("TUNNEL") /\ Whole(res.mask) /\ Whole(res.key)
    BY <2>5, <2>6, <2>7
  <2>9. res \in [key : SUBSET Bits(t), mask : SUBSET Bits(t), exact : {FALSE}]
    <3> HIDE DEF k, m
    <3> QED
      BY <1>1, <2>5, <2>8
  <2> QED
    BY <1>1, <2>2, <2>8, <2>9, TypesAssumption DEF KnownKey, FlowKey
<1>2. CASE t \in OtherTypes
  <2>1. ParseFlowKey(t, key, mask, exact) = [key |-> key, mask |-> mask, exact |-> exact]
    BY <1>2, TypesAssumption DEF ParseFlowKey
  <2>2. key \in (SUBSET Bits(t)) \cup {None} /\ mask \in (SUBSET Bits(t)) \cup {None}
    BY <1>2, TypesAssumption DEF AttrValue, ExactMask, IgnoreMask
  <2> QED
    BY <1>2, <2>1, <2>2, TypesAssumption DEF KnownKey, FlowKey
<1>3. CASE t \notin OtherTypes \cup {"TUNNEL"}
  <2>1. mask \in SUBSET Bits(t) \/ mask = WrongSize
    BY <1>3, TypesAssumption DEF AttrValue, ExactMask, IgnoreMask
  <2>2. key = None \/ key \in SUBSET Bits(t) \/ key = WrongSize
    BY <1>3, TypesAssumption DEF AttrValue
  <2>3. ASSUME NEW m \in (SUBSET Bits(t)) \cup {WrongSize}, ParseBlobFlowKey(key, m) # Error
        PROVE  /\ ParseBlobFlowKey(key, m) \in FlowKey(t)
               /\ ParseBlobFlowKey(key, m).mask = m
    BY <1>3, <2>2, <2>3 DEF ParseBlobFlowKey, FlowKey
  <2>4. CASE t = "IN_PORT"
    <3>1. ParseFlowKey(t, key, mask, exact) = ParseBlobFlowKey(key, InPortMask(mask))
      BY <2>4, TypesAssumption DEF ParseFlowKey
    <3>2. InPortMask(mask) \in {{}, Bits("IN_PORT"), WrongSize}
      BY DEF InPortMask
    <3>3. InPortMask(mask) # WrongSize
      BY <3>1 DEF ParseBlobFlowKey
    <3> QED
      BY <2>3, <2>4, <3>1, <3>2, <3>3 DEF KnownKey
  <2>5. CASE t # "IN_PORT"
    <3>1. ParseFlowKey(t, key, mask, exact) = ParseBlobFlowKey(key, mask)
      BY <1>3, <2>5, TypesAssumption DEF ParseFlowKey
    <3> QED
      BY <1>3, <2>1, <2>3, <2>5, <3>1 DEF KnownKey
  <2> QED
    BY <2>4, <2>5
<1> QED
  BY <1>1, <1>2, <1>3

LEMMA KeysParsed ==
    ASSUME NEW keys, NEW masks, ParseFlowKeys(keys, masks) # Error,
           DOMAIN keys \subseteq Types, \A t \in DOMAIN keys : AttrValue(t, keys[t]),
           masks # NoMasks => /\ DOMAIN masks \subseteq Types
                              /\ \A t \in DOMAIN masks : AttrValue(t, masks[t])
    PROVE  IsFlowKeys(ParseFlowKeys(keys, masks))
<1>1. CASE masks = NoMasks
  <2> DEFINE fk == [t \in DOMAIN keys |-> ParseFlowKey(t, keys[t], ExactMask(t), TRUE)]
  <2>1. ParseFlowKeys(keys, masks) = fk /\ \A t \in DOMAIN fk : fk[t] # Error
    BY <1>1 DEF ParseFlowKeys
  <2>2. \A t \in DOMAIN fk : KnownKey(t, fk[t])
    BY <2>1, KeyParsed
  <2> QED
    BY <2>1, <2>2, FlowKeysIntro
<1>2. CASE masks # NoMasks
  <2> DEFINE K(t) == IF t \in DOMAIN keys THEN keys[t] ELSE None
             M(t) == IF t \in DOMAIN masks THEN masks[t] ELSE IgnoreMask(t)
             fk == [t \in DOMAIN keys \cup DOMAIN masks |-> ParseFlowKey(t, K(t), M(t), FALSE)]
  <2>1. ParseFlowKeys(keys, masks) = fk /\ \A t \in DOMAIN fk : fk[t] # Error
    BY <1>2 DEF ParseFlowKeys
  <2>2. ASSUME NEW t \in DOMAIN fk PROVE KnownKey(t, fk[t])
    <3>1. t \in Types
      BY <1>2
    <3>2. K(t) = None \/ AttrValue(t, K(t))
      OBVIOUS
    <3>3. M(t) \in {ExactMask(t), IgnoreMask(t)} \/ AttrValue(t, M(t))
      BY <1>2
    <3>4. fk[t] = ParseFlowKey(t, K(t), M(t), FALSE) /\ fk[t] # Error
      BY <2>1
    <3> HIDE DEF K, M, fk
    <3> QED
      BY <3>1, <3>2, <3>3, <3>4, KeyParsed
  <2>3. DOMAIN fk \subseteq Types
    BY <1>2
  <2> QED
    BY <2>1, <2>2, <2>3, FlowKeysIntro
<1> QED
  BY <1>1, <1>2

-----------------------------------------------------------------------------
(* What is sent, and what the kernel makes of it.                          *)

\* The fields of a tunnel key that are sent keep their bits, flags included.
LEMMA TunnelValue ==
    ASSUME NEW v, v \subseteq Bits("TUNNEL"), Whole(v), NEW P, P \subseteq TunnelFields
    PROVE  Value("TUNNEL", TunnelNlAttrs(v, P)) = {b \in v : b[1] \in P}
<1> DEFINE S == {g \in P : g \in FlagFields => Field(v, g) # {}}
           attrs == [f \in S |-> Field(v, f)]
<1>1. TunnelNlAttrs(v, P) = attrs /\ DOMAIN attrs = S
  BY DEF TunnelNlAttrs
<1>2. \A f \in S : TunnelBits(attrs, f) = Field(v, f)
  <2> SUFFICES ASSUME NEW f \in S PROVE TunnelBits(attrs, f) = Field(v, f)
    OBVIOUS
  <2>1. CASE f \in FlagFields
    <3>1. Field(v, f) = {f} \X Pos
      BY <2>1 DEF Whole
    <3> QED
      BY <2>1, <3>1 DEF TunnelBits
  <2>2. CASE f \notin FlagFields
    BY <2>2 DEF TunnelBits
  <2> QED
    BY <2>1, <2>2
<1>3. Value("TUNNEL", attrs) = UNION {TunnelBits(attrs, f) : f \in S}
  BY <1>1 DEF Value
<1> HIDE DEF attrs
<1>4. UNION {TunnelBits(attrs, f) : f \in S} = UNION {Field(v, f) : f \in S}
  BY <1>2
<1>5. UNION {Field(v, f) : f \in S} = {b \in v : b[1] \in P}
  BY DEF Field
<1> QED
  BY <1>1, <1>3, <1>4, <1>5

\* The fields that a mask has bits of are among those that are sent.
LEMMA PresentFields ==
    ASSUME NEW m, m \subseteq Bits("TUNNEL")
    PROVE  /\ Present(m) \subseteq TunnelFields
           /\ \A b \in m : b[1] \in Present(m)
<1>1. \A b \in m : b[1] \in TunnelFields /\ b \in Field(m, b[1])
  BY DEF Bits, Fields, Field
<1> QED
  BY <1>1 DEF Present, TunnelFields

\* A key that is accepted arrives with its mask, and with the bits under the mask.
LEMMA SentValues ==
    ASSUME NEW ks, IsFlowKeys(ks), ~Unserializable(ks), NEW acts,
           Accepts(KeyAttrs(ks), acts), NEW t \in Sent(ks)
    PROVE  LET k == WithEthernet(ks)[t]
               v == Value(t, KeyAttrs(ks)[t])
           IN  /\ v \subseteq Bits(t)
               /\ Value(t, MaskAttrs(ks)[t]) = k.mask
               /\ v \cap k.mask = k.key \cap k.mask
               /\ k.mask \subseteq Bits(t)
               /\ k.mask # None
               /\ t = "IN_PORT" => k.mask = Bits(t)
               /\ t \in OtherTypes => v = k.key
               /\ t = "TUNNEL" => /\ Whole(k.key) /\ Whole(k.mask)
                                  /\ v = {b \in k.key : b[1] \in Present(k.mask)}
                                  /\ ~(k.mask \subseteq {"Df"} \X Pos)
<1> DEFINE k == WithEthernet(ks)[t]
<1>0. t \in DOMAIN WithEthernet(ks) /\ ~Ignored(t, k)
  BY DEF Sent
<1>1. /\ t \in Types /\ k \in FlowKey(t) /\ ~Ignored(t, k)
      /\ KeyAttrs(ks)[t] = PutKey(t, k) /\ MaskAttrs(ks)[t] = PutMask(t, k)
      /\ DOMAIN KeyAttrs(ks) = Sent(ks)
  BY <1>0, WithEthernetKeys DEF KeyAttrs, MaskAttrs
<1>2. t = "ETHERNET" \/ (t \in DOMAIN ks /\ k = ks[t])
  <2>1. DOMAIN WithEthernet(ks) = DOMAIN ks \cup {"ETHERNET"}
    BY WithEthernetKeys
  <2>2. t \in DOMAIN ks => k = ks[t]
    BY WithEthernetKeys
  <2> QED
    BY <1>0, <2>1, <2>2, Zenon
<1> HIDE DEF k
<1>3. CASE t \in OtherTypes
  <2>1. t # "TUNNEL" /\ t # "IN_PORT" /\ t # "ETHERNET"
    BY <1>3, TypesAssumption
  <2>2. ~k.exact
    BY <1>2, <1>3, <2>1, Zenon DEF Unserializable
  <2>3. k.mask # None
    BY <1>1, <1>3, <2>1, <2>2 DEF Ignored
  <2>4. KeyAttrs(ks)[t] # WrongSize
    BY <1>1, <2>1 DEF Accepts
  <2>5. k.key # None /\ PutKey(t, k) = k.key
    BY <1>1, <1>3, <2>1, <2>4 DEF PutKey
  <2>6. k.key \subseteq Bits(t) /\ k.mask \subseteq Bits(t)
    BY <1>1, <1>3, <2>3, <2>5 DEF FlowKey
  <2> QED
    BY <1>1, <2>1, <2>3, <2>5, <2>6 DEF k, Value, PutMask
<1>4. CASE t = "TUNNEL"
  <2>1. k.key \subseteq Bits(t) /\ k.mask \subseteq Bits(t) /\ k.mask # None
    <3>1. t \notin OtherTypes
      BY <1>4, TypesAssumption
    <3>2. k \in [key : SUBSET Bits(t), mask : SUBSET Bits(t), exact : {FALSE}]
      BY <1>1, <3>1 DEF FlowKey
    <3>3. k.mask # None
      BY <1>1, <3>1, NotNil
    <3> QED
      BY <3>2, <3>3
  <2>2. Whole(k.key) /\ Whole(k.mask)
    BY <1>2, <1>4 DEF IsFlowKeys
  <2>3. Present(k.mask) \subseteq TunnelFields /\ \A b \in k.mask : b[1] \in Present(k.mask)
    BY <1>4, <2>1, PresentFields
  <2>4. PutKey(t, k) = TunnelNlAttrs(k.key, Present(k.mask))
    BY <1>4, TypesAssumption DEF PutKey
  <2>5. PutMask(t, k) = TunnelNlAttrs(k.mask, Present(k.mask))
    BY <1>4 DEF PutMask
  <2>6. Value(t, PutKey(t, k)) = {b \in k.key : b[1] \in Present(k.mask)}
    BY <1>4, <2>1, <2>2, <2>3, <2>4, TunnelValue
  <2>7. Value(t, PutMask(t, k)) = {b \in k.mask : b[1] \in Present(k.mask)}
    BY <1>4, <2>1, <2>2, <2>3, <2>5, TunnelValue
  <2>8. {b \in k.mask : b[1] \in Present(k.mask)} = k.mask
    BY <2>3
  <2>9. {b \in k.key : b[1] \in Present(k.mask)} \cap k.mask = k.key \cap k.mask
    BY <2>3
  <2>10. ~(k.mask \subseteq {"Df"} \X Pos)
    BY <1>1, <1>4, TypesAssumption DEF Ignored
  <2>11. t \notin OtherTypes /\ t # "IN_PORT"
    BY <1>4, TypesAssumption
  <2> QED
    BY <1>1, <2>1, <2>2, <2>6, <2>7, <2>8, <2>9, <2>10, <2>11 DEF k
<1>5. CASE t \notin OtherTypes \cup {"TUNNEL"}
  <2>1. k.key \subseteq Bits(t) /\ k.mask \subseteq Bits(t) /\ k.mask # None
    BY <1>1, <1>5, NotNil DEF FlowKey
  <2>2. PutKey(t, k) = k.key /\ PutMask(t, k) = k.mask
    BY <1>5 DEF PutKey, PutMask
  <2>3. t = "IN_PORT" => k.mask = Bits(t)
    BY <1>1, <1>2, <1>5 DEF IsFlowKeys, Ignored
  <2> QED
    BY <1>1, <1>5, <2>1, <2>2, <2>3 DEF k, Value
<1> QED
  BY <1>3, <1>4, <1>5

\* The match that FlowKeys become, type by type.
LEMMA MatchOf ==
    ASSUME NEW ks, IsFlowKeys(ks), ~Unserializable(ks), NEW acts,
           Accepts(KeyAttrs(ks), acts), NEW t \in Types
    PROVE  LET k == WithEthernet(ks)[t]
           IN  Match(KeyAttrs(ks), MaskAttrs(ks))[t] =
                 IF t \in Sent(ks)
                 THEN [mask |-> k.mask, key |-> IF k.mask = {} THEN {} ELSE k.key \cap k.mask]
                 ELSE [mask |-> {}, key |-> {}]
<1> DEFINE K == KeyAttrs(ks)
           M == MaskAttrs(ks)
           k == WithEthernet(ks)[t]
<1>1. DOMAIN K = Sent(ks) /\ DOMAIN M = Sent(ks)
  BY DEF KeyAttrs, MaskAttrs
<1>2. t \in Sent(ks) => /\ Value(t, M[t]) = k.mask
                        /\ Value(t, K[t]) \cap k.mask = k.key \cap k.mask
                        /\ t = "IN_PORT" => k.mask = Bits(t)
  BY SentValues
<1> HIDE DEF K, M, k
<1>3. CASE t \notin Sent(ks)
  BY <1>1, <1>3 DEF Match, K, M
<1>4. CASE t \in Sent(ks) /\ t = "IN_PORT"
  BY <1>1, <1>2, <1>4 DEF Match, K, M, k
<1>5. CASE t \in Sent(ks) /\ t # "IN_PORT"
  BY <1>1, <1>2, <1>5 DEF Match, K, M, k
<1> QED
  BY <1>3, <1>4, <1>5

LEMMA MatchTyped ==
    ASSUME NEW ks, IsFlowKeys(ks), ~Unserializable(ks), NEW acts,
           Accepts(KeyAttrs(ks), acts), NEW t \in Types
    PROVE  /\ Match(KeyAttrs(ks), MaskAttrs(ks))[t].key \subseteq Bits(t)
           /\ Match(KeyAttrs(ks), MaskAttrs(ks))[t].mask \subseteq Bits(t)
<1> DEFINE M == Match(KeyAttrs(ks), MaskAttrs(ks))[t]
           k == WithEthernet(ks)[t]
<1>1. t \in Sent(ks) => k.mask \subseteq Bits(t)
  BY SentValues
<1>2. M = IF t \in Sent(ks)
          THEN [mask |-> k.mask, key |-> IF k.mask = {} THEN {} ELSE k.key \cap k.mask]
          ELSE [mask |-> {}, key |-> {}]
  BY MatchOf
<1> HIDE DEF M, k
<1>3. M.mask \subseteq Bits(t) /\ M.key \subseteq Bits(t)
  BY <1>1, <1>2
<1> QED
  BY <1>3 DEF M

\* FlowKeys with an Ethernet key, and with more in the tunnel mask than Df, are matched as
\* they ask for.
LEMMA MatchAsked ==
    ASSUME NEW ks, IsFlowKeys(ks), ~Unserializable(ks), NEW acts,
           Accepts(KeyAttrs(ks), acts), Ordinary(ks)
    PROVE  Match(KeyAttrs(ks), MaskAttrs(ks)) = Asked(ks)
<1> DEFINE M == Match(KeyAttrs(ks), MaskAttrs(ks))
<1>1. DOMAIN WithEthernet(ks) = DOMAIN ks
  <2>1. DOMAIN WithEthernet(ks) = DOMAIN ks \cup {"ETHERNET"}
    BY WithEthernetKeys
  <2> QED
    BY <2>1 DEF Ordinary, HasEthernet
<1>2. \A t \in DOMAIN ks : WithEthernet(ks)[t] = ks[t]
  BY WithEthernetKeys
<1>3. ASSUME NEW t \in Types PROVE M[t] = Asked(ks)[t]
  <2>1. CASE t \in Sent(ks)
    <3>1. t \in DOMAIN ks /\ WithEthernet(ks)[t] = ks[t]
      BY <1>1, <1>2, <2>1 DEF Sent
    <3>2. ks[t].mask # None
      BY <2>1, <3>1, SentValues
    <3>3. M[t] = [mask |-> ks[t].mask,
                  key  |-> IF ks[t].mask = {} THEN {} ELSE ks[t].key \cap ks[t].mask]
      BY <2>1, <3>1, MatchOf
    <3> QED
      BY <3>1, <3>2, <3>3 DEF Asked
  <2>2. CASE t \notin Sent(ks)
    <3>1. M[t] = [mask |-> {}, key |-> {}]
      BY <2>2, MatchOf
    <3>2. CASE t \notin DOMAIN ks
      BY <3>1, <3>2 DEF Asked
    <3>3. CASE t \in DOMAIN ks
      <4>1. Ignored(t, ks[t])
        BY <1>1, <1>2, <2>2, <3>3 DEF Sent
      <4>2. ks[t].mask \in {{}, None}
        <5>1. CASE t \in OtherTypes
          BY <4>1, <5>1, TypesAssumption DEF Ignored
        <5>2. CASE t = "TUNNEL"
          BY <3>3, <4>1, <5>2, TypesAssumption DEF Ignored, Ordinary, DfAlone
        <5>3. CASE t \notin OtherTypes \cup {"TUNNEL"}
          BY <4>1, <5>3 DEF Ignored
        <5> QED
          BY <5>1, <5>2, <5>3
      <4> QED
        BY <3>1, <3>3, <4>2 DEF Asked
    <3> QED
      BY <3>2, <3>3
  <2> QED
    BY <2>1, <2>2
<1> QED
  BY <1>3 DEF Match, Asked

\* What the kernel lists of a flow are attributes.
LEMMA Listed ==
    ASSUME NEW t \in Types, NEW v, v \subseteq Bits(t)
    PROVE  AttrValue(t, ListValue(t, v))
<1>1. CASE t = "TUNNEL"
  <2>1. \A f : Field(v, f) \subseteq {f} \X Pos
    BY <1>1 DEF Field, Bits
  <2> QED
    BY <1>1, <2>1, TypesAssumption DEF AttrValue, ListValue, ListTunnel
<1>2. CASE t # "TUNNEL"
  BY <1>2, TypesAssumption DEF AttrValue, ListValue
<1> QED
  BY <1>1, <1>2

LEMMA ListTyped ==
    ASSUME NEW f, FlowTyped(f), NEW extra \in SUBSET ShownTypes, NEW withKey \in SUBSET extra,
           NEW masked \in BOOLEAN, NEW linux43 \in BOOLEAN
    PROVE  LET L == ListFlow(f, extra, withKey, masked, linux43)
           IN  /\ DOMAIN L.keys \subseteq Types /\ \A t \in DOMAIN L.keys : AttrValue(t, L.keys[t])
               /\ DOMAIN L.masks \subseteq Types /\ \A t \in DOMAIN L.masks : AttrValue(t, L.masks[t])
<1> DEFINE on == {t \in Types : f.match[t].mask # {}} \cup {"ETHERNET"}
           keys == [t \in on \cup withKey |->
                       ListValue(t, IF masked THEN f.match[t].key ELSE f.key[t])]
           masks == [t \in on \cup extra \cup {"IN_PORT"} |->
                       IF t = "IN_PORT" THEN f.match[t].mask \cup ({"upper16"} \X Pos)
                                        ELSE ListValue(t, f.match[t].mask)]
           L == ListFlow(f, extra, withKey, masked, linux43)
<1>1. L.keys = keys /\ L.masks = masks
  BY DEF ListFlow
<1>2. on \cup withKey \subseteq Types /\ on \cup extra \cup {"IN_PORT"} \subseteq Types
  BY ShownAssumption DEF Types
<1>3. \A t \in on \cup withKey : AttrValue(t, keys[t])
  <2> SUFFICES ASSUME NEW t \in on \cup withKey PROVE AttrValue(t, keys[t])
    OBVIOUS
  <2>1. t \in Types
    BY <1>2
  <2>2. (IF masked THEN f.match[t].key ELSE f.key[t]) \subseteq Bits(t)
    BY <2>1 DEF FlowTyped
  <2>3. keys[t] = ListValue(t, IF masked THEN f.match[t].key ELSE f.key[t])
    OBVIOUS
  <2> QED
    BY <2>1, <2>2, <2>3, Listed
<1>4. \A t \in on \cup extra \cup {"IN_PORT"} : AttrValue(t, masks[t])
  <2> SUFFICES ASSUME NEW t \in on \cup extra \cup {"IN_PORT"} PROVE AttrValue(t, masks[t])
    OBVIOUS
  <2>1. t \in Types /\ f.match[t].mask \subseteq Bits(t)
    BY <1>2 DEF FlowTyped
  <2>2. CASE t = "IN_PORT"
    <3>1. masks[t] = f.match[t].mask \cup ({"upper16"} \X Pos)
      BY <2>2
    <3>2. {"upper16"} \X Pos \subseteq Bits(t)
      BY <2>2 DEF Bits, Fields
    <3>3. masks[t] \in SUBSET Bits(t)
      BY <2>1, <3>1, <3>2
    <3> QED
      BY <2>2, <3>3, TypesAssumption DEF AttrValue
  <2>3. CASE t # "IN_PORT"
    <3>1. masks[t] = ListValue(t, f.match[t].mask)
      BY <2>3
    <3> QED
      BY <2>1, <3>1, Listed
  <2> QED
    BY <2>2, <2>3
<1>5. DOMAIN keys = on \cup withKey /\ DOMAIN masks = on \cup extra \cup {"IN_PORT"}
  OBVIOUS
<1> HIDE DEF keys, masks, on, L
<1>6. /\ DOMAIN L.keys \subseteq Types /\ \A t \in DOMAIN L.keys : AttrValue(t, L.keys[t])
      /\ DOMAIN L.masks \subseteq Types /\ \A t \in DOMAIN L.masks : AttrValue(t, L.masks[t])
  BY <1>1, <1>2, <1>3, <1>4, <1>5
<1> QED
  BY <1>6 DEF L

-----------------------------------------------------------------------------
(* Actions.                                                                *)

LEMMA NotError ==
    /\ \A k, m, x : [key |-> k, mask |-> m, exact |-> x] # Error
    /\ \A a, p : [attrs |-> a, present |-> p] # Error
    /\ \A k, a : [keys |-> k, actions |-> a] # Error
    /\ \A v : NewOutputAction(v) # Error
    /\ \A a, p : [kind |-> "SetTunnel", attrs |-> a, present |-> p] # Error
    /\ \A t, v : SetUnknownAction(t, v) # Error
<1>1. DOMAIN Error = {"err"}
  BY DEF Error
<1> QED
  BY <1>1 DEF NewOutputAction, SetUnknownAction

LEMMA SameRange ==
    ASSUME NEW m \in Nat, NEW n \in Nat, 1 .. m = 1 .. n
    PROVE  m = n
<1>1. \A i \in Nat : (1 <= i /\ i <= m) <=> (1 <= i /\ i <= n)
  OBVIOUS
<1> QED
  BY <1>1

LEMMA ListDomain ==
    ASSUME NEW as, IsList(as)
    PROVE  Len(as) \in Nat /\ DOMAIN as = 1 .. Len(as)
<1> DEFINE S == {as[i] : i \in DOMAIN as}
<1>1. as \in Seq(S)
  BY DEF IsList
<1> HIDE DEF S
<1> QED
  BY <1>1, LenProperties

LEMMA MapList ==
    ASSUME NEW as, IsList(as), NEW bs, bs = [i \in DOMAIN as |-> bs[i]]
    PROVE  IsList(bs) /\ Len(bs) = Len(as) /\ DOMAIN bs = DOMAIN as
<1> DEFINE T == {bs[i] : i \in DOMAIN bs}
<1>1. Len(as) \in Nat /\ DOMAIN as = 1 .. Len(as)
  BY ListDomain
<1>2. DOMAIN bs = 1 .. Len(as)
  BY <1>1
<1>3. bs = [i \in 1 .. Len(as) |-> bs[i]] /\ \A i \in 1 .. Len(as) : bs[i] \in T
  BY <1>1, <1>2
<1>4. IsList(bs) <=> bs \in Seq(T)
  BY DEF IsList
<1> HIDE DEF T
<1>5. bs \in [1 .. Len(as) -> T]
  BY <1>3
<1>6. bs \in Seq(T)
  <2>1. [1 .. Len(as) -> T] \in {[1 .. n -> T] : n \in Nat}
    BY <1>1, Zenon
  <2>2. bs \in UNION {[1 .. n -> T] : n \in Nat}
    BY <1>5, <2>1, Zenon
  <2> QED
    BY <2>2, SeqDef, Zenon
<1>7. Len(bs) \in Nat /\ DOMAIN bs = 1 .. Len(bs)
  BY <1>6, LenProperties
<1>8. Len(bs) = Len(as)
  <2>1. 1 .. Len(bs) = 1 .. Len(as)
    BY <1>2, <1>7
  <2> QED
    BY <1>1, <1>7, <2>1, SameRange
<1> QED
  BY <1>1, <1>2, <1>4, <1>6, <1>8

LEMMA NumberInjective ==
    /\ \A f, g \in TunnelFields : Number(f) = Number(g) => f = g
    /\ \A f \in TunnelFields : Number(f) # Number("TUNNEL")
<1>1. Number("TunnelId") = 0 /\ Number("Ipv4Src") = 1 /\ Number("Ipv4Dst") = 2
  BY DEF Number
<1>2. Number("Tos") = 3 /\ Number("Ttl") = 4 /\ Number("Df") = 5
  BY DEF Number
<1>3. Number("Csum") = 6 /\ Number("TpSrc") = 9 /\ Number("TpDst") = 10
  BY DEF Number
<1>4. Number("TUNNEL") = 16
  BY DEF Number
<1> QED
  BY <1>1, <1>2, <1>3, <1>4 DEF TunnelFields

\* The parser reads back the fields that were written, and nothing else.
LEMMA FieldsParsed ==
    ASSUME NEW v, v \subseteq Bits("TUNNEL"), NEW m, DOMAIN m \subseteq TunnelFields,
           \A f \in DOMAIN m : m[f] = Field(v, f) /\ (f \in FlagFields => m[f] = {f} \X Pos),
           \A b \in v : b[1] \in DOMAIN m
    PROVE  ParseTunnelAttrs(m) = [attrs |-> v, present |-> DOMAIN m]
<1> DEFINE known == DOMAIN m \cap TunnelFields
           good  == {f \in known : m[f] # WrongSize}
<1>1. \A f \in DOMAIN m : m[f] # WrongSize
  <2> SUFFICES ASSUME NEW f \in DOMAIN m PROVE m[f] # WrongSize
    OBVIOUS
  <2>1. m[f] \in SUBSET Bits("TUNNEL") /\ "TUNNEL" \in Types
    BY DEF Field, Types
  <2> QED
    BY <2>1, NilAssumption
<1>2. known = DOMAIN m /\ good = DOMAIN m
  BY <1>1
<1>3. \A f \in DOMAIN m : TunnelBits(m, f) = Field(v, f)
  BY DEF TunnelBits
<1>4. UNION {TunnelBits(m, f) : f \in DOMAIN m} = UNION {Field(v, f) : f \in DOMAIN m}
  BY <1>3
<1>5. UNION {Field(v, f) : f \in DOMAIN m} = v
  BY DEF Field
<1>6. ParseTunnelAttrs(m) = [attrs |-> UNION {TunnelBits(m, f) : f \in good}, present |-> good]
  BY <1>2 DEF ParseTunnelAttrs
<1> QED
  BY <1>2, <1>4, <1>5, <1>6

\* Tunnel attributes that Linux 4.3 lists without their nesting are taken for what they are.
LEMMA TunnelTakenForTunnel ==
    ASSUME NEW m, DOMAIN m \subseteq TunnelFields, m = [f \in DOMAIN m |-> m[f]],
           \A f \in DOMAIN m : m[f] \subseteq {f} \X Pos
    PROVE  AsTunnelAttrs(m) = m
<1> DEFINE Named(f) == {n \in DOMAIN m : Number(n) = Number(f)}
           Val(n, f) == IF Length(n) = Length(f) THEN {<<f, b[2]>> : b \in m[n]} ELSE WrongSize
           D == {g \in TunnelFields : Named(g) # {}}
<1>1. \A f \in DOMAIN m : Named(f) = {f}
  BY NumberInjective
<1>2. D = DOMAIN m
  <2>1. \A g \in TunnelFields : Named(g) # {} => g \in DOMAIN m
    BY NumberInjective
  <2> QED
    BY <1>1, <2>1
<1>3. ASSUME NEW f \in DOMAIN m PROVE Val(CHOOSE n \in Named(f) : TRUE, f) = m[f]
  <2>1. \A n : n \in Named(f) <=> n = f
    BY <1>1
  <2> HIDE DEF Named
  <2>2. (CHOOSE n \in Named(f) : TRUE) \in Named(f)
    BY <2>1
  <2>3. (CHOOSE n \in Named(f) : TRUE) = f
    BY <2>1, <2>2
  <2>4. {<<f, b[2]>> : b \in m[f]} = m[f]
    <3>1. \A b \in m[f] : b = <<f, b[2]>>
      OBVIOUS
    <3> QED
      BY <3>1
  <2>5. Val(f, f) = m[f]
    BY <2>4
  <2> HIDE DEF Val
  <2> QED
    BY <2>3, <2>5
<1>4. AsTunnelAttrs(m) = [f \in D |-> Val(CHOOSE n \in Named(f) : TRUE, f)]
  BY DEF AsTunnelAttrs
<1> HIDE DEF D, Val, Named
<1> QED
  BY <1>2, <1>3, <1>4

ActionAccepted(x) ==
    \/ x.typ = "OUTPUT"
    \/ /\ x.typ = "SET"
       /\ "TUNNEL" \in DOMAIN x.val => TunnelComplete(x.val["TUNNEL"])

\* An action that is accepted is listed as an action that is Equal to it, in both
\* directions, and becomes the same attribute, also with the bug of Linux 4.3.
LEMMA ActionListed ==
    ASSUME NEW a, IsAction(a), ActionAccepted(ActionNlAttr(a)), NEW linux43 \in BOOLEAN
    PROVE  LET p == ParseAction(ListAction(ActionNlAttr(a), linux43))
           IN  /\ p # Error /\ IsAction(p)
               /\ ActionEquals(p, a) /\ ActionEquals(a, p)
               /\ ActionNlAttr(p) = ActionNlAttr(a)
<1> DEFINE x == ActionNlAttr(a)
           p == ParseAction(ListAction(x, linux43))
<1>1. CASE a.kind = "Output"
  <2>1. x.typ = "OUTPUT" /\ x.val = a.vport /\ a = NewOutputAction(a.vport)
    BY <1>1 DEF ActionNlAttr, IsAction
  <2>2. ListAction(x, linux43) = x
    BY <2>1 DEF ListAction
  <2>3. p = a
    BY <2>1, <2>2 DEF ParseAction
  <2> QED
    BY <1>1, <2>1, <2>3, NotError DEF ActionEquals
<1>2. CASE a.kind = "SetUnknown"
  <2>1. x.typ \notin {"OUTPUT", "SET"}
    BY <1>2 DEF ActionNlAttr, IsAction
  <2> QED
    BY <2>1 DEF ActionAccepted
<1>3. CASE a.kind = "SetTunnel"
  <2> DEFINE v == a.attrs
             P == (a.present \ FlagFields) \cup {f \in FlagFields : Field(v, f) # {}}
             m == [f \in P |-> Field(v, f)]
             q == [kind |-> "SetTunnel", attrs |-> v, present |-> P]
  <2>1. /\ a.present \subseteq TunnelFields /\ v \subseteq a.present \X Pos
        /\ Whole(v)
    BY <1>3 DEF IsAction
  <2>2. P \subseteq TunnelFields /\ v \subseteq Bits("TUNNEL")
    BY <2>1 DEF FlagFields, TunnelFields, Bits, Fields
  <2>3. \A b \in v : b[1] \in P
    BY <2>1 DEF Field
  <2>4. TunnelNlAttrs(v, P) = m
    <3>1. {g \in P : g \in FlagFields => Field(v, g) # {}} = P
      OBVIOUS
    <3> QED
      BY <3>1 DEF TunnelNlAttrs
  <2>5. x = [typ |-> "SET", val |-> [n \in {"TUNNEL"} |-> m]]
    BY <1>3, <2>4 DEF ActionNlAttr
  <2>6. DOMAIN m = P /\ \A f \in P : m[f] = Field(v, f) /\ m[f] \subseteq {f} \X Pos
                                      /\ (f \in FlagFields => m[f] = {f} \X Pos)
    BY <2>1 DEF Whole, Field
  <2>7. ParseTunnelAttrs(m) = [attrs |-> v, present |-> P]
    BY <2>2, <2>3, <2>6, FieldsParsed
  <2>8. AsTunnelAttrs(m) = m
    BY <2>2, <2>6, TunnelTakenForTunnel
  <2>9. "Ipv4Dst" \in P
    BY <2>5, <2>6 DEF ActionAccepted, TunnelComplete
  <2>10. MakeSetTunnelAction(ParseTunnelAttrs(m)) = q
    BY <2>7, NotError DEF MakeSetTunnelAction
  <2>11. p = q
    <3>1. CASE linux43
      <4>1. ListAction(x, linux43) = [typ |-> "SET", val |-> m]
        BY <2>5, <3>1 DEF ListAction
      <4>2. "Ipv4Dst" \in DOMAIN m /\ "Ipv4Dst" # "TUNNEL"
        BY <2>6, <2>9
      <4>3. ParseSetAction(m) = MakeSetTunnelAction(ParseTunnelAttrs(AsTunnelAttrs(m)))
        BY <4>2 DEF ParseSetAction
      <4> QED
        BY <2>8, <2>10, <4>1, <4>3 DEF ParseAction
    <3>2. CASE ~linux43
      <4>1. ListAction(x, linux43) = x
        BY <3>2 DEF ListAction
      <4> DEFINE w == [n \in {"TUNNEL"} |-> m]
      <4>2. DOMAIN w = {"TUNNEL"} /\ w["TUNNEL"] = m
        OBVIOUS
      <4> HIDE DEF w, m
      <4>3. ParseSetAction(w) = MakeSetTunnelAction(ParseTunnelAttrs(m))
        BY <4>2 DEF ParseSetAction
      <4>4. x.typ = "SET" /\ x.val = w
        BY <2>5 DEF w
      <4> QED
        BY <2>10, <4>1, <4>3, <4>4 DEF ParseAction
    <3> QED
      BY <3>1, <3>2
  <2>12. IsAction(q)
    BY <2>1, <2>2, <2>3 DEF IsAction
  <2>13. ActionNlAttr(q) = x
    <3>1. (P \ FlagFields) \cup {f \in FlagFields : Field(v, f) # {}} = P
      OBVIOUS
    <3> HIDE DEF P, m, v
    <3>2. q.kind = "SetTunnel" /\ q.attrs = v /\ q.present = P
      OBVIOUS
    <3> HIDE DEF q
    <3> QED
      BY <2>4, <2>5, <3>1, <3>2 DEF ActionNlAttr
  <2>14. ActionEquals(q, a) /\ ActionEquals(a, q)
    BY <1>3 DEF ActionEquals
  <2>15. q # Error
    BY NotError
  <2> QED
    BY <2>11, <2>12, <2>13, <2>14, <2>15
<1>4. a.kind \in {"Output", "SetTunnel", "SetUnknown"}
  BY DEF IsAction
<1> QED
  BY <1>1, <1>2, <1>3, <1>4

\* Whatever action the kernel lists, parseAction returns an error or an action.
LEMMA ActionParsed ==
    ASSUME NEW a, a.typ = "SET" => SetValue(a.val), ParseAction(a) # Error
    PROVE  IsAction(ParseAction(a))
<1> DEFINE w == a.val
           As == AsTunnelAttrs(w)
<1>1. CASE a.typ = "OUTPUT"
  BY <1>1 DEF ParseAction, NewOutputAction, IsAction
<1>2. CASE a.typ = "SET"
  <2>1. ParseAction(a) = ParseSetAction(w)
    BY <1>2 DEF ParseAction
  <2>2. SetValue(w)
    BY <1>2
  <2>3. ASSUME NEW m, AttrValue("TUNNEL", m),
               MakeSetTunnelAction(ParseTunnelAttrs(m)) # Error
        PROVE  IsAction(MakeSetTunnelAction(ParseTunnelAttrs(m)))
    <3>1. ParseTunnelAttrs(m) # Error
      BY <2>3 DEF MakeSetTunnelAction
    <3> QED
      BY <2>3, <3>1, TunnelParsed DEF MakeSetTunnelAction, IsAction
  <2>4. ASSUME NEW n \in DOMAIN w, n # "TUNNEL" PROVE IsAction(SetUnknownAction(n, w[n]))
    BY <2>2, <2>4 DEF SetValue, SetUnknownAction, IsAction
  <2>5. AttrValue("TUNNEL", As)
    <3> DEFINE Named(f) == {n \in DOMAIN w : Number(n) = Number(f)}
               Val(n, f) == IF Length(n) = Length(f) THEN {<<f, b[2]>> : b \in w[n]}
                                                     ELSE WrongSize
               D == {g \in TunnelFields : Named(g) # {}}
    <3>1. As = [f \in D |-> Val(CHOOSE n \in Named(f) : TRUE, f)]
      BY DEF AsTunnelAttrs
    <3>2. ASSUME NEW f \in D PROVE As[f] \subseteq {f} \X Pos \/ As[f] = WrongSize
      <4> DEFINE n == CHOOSE n \in Named(f) : TRUE
      <4>1. n \in Named(f)
        <5>1. \E c : c \in Named(f)
          OBVIOUS
        <5> HIDE DEF Named
        <5> QED
          BY <5>1, Zenon
      <4>2. As[f] = Val(n, f)
        BY <3>1
      <4>3. f \in TunnelFields
        OBVIOUS
      <4> HIDE DEF n, As
      <4>4. n \in DOMAIN w /\ n # "TUNNEL"
        BY <4>1, <4>3, NumberInjective
      <4>5. w[n] \subseteq {n} \X Pos
        BY <2>2, <4>4 DEF SetValue
      <4>6. {<<f, b[2]>> : b \in w[n]} \subseteq {f} \X Pos
        BY <4>5
      <4> QED
        BY <4>2, <4>6
    <3>3. DOMAIN As = D
      BY <3>1
    <3> HIDE DEF As, D
    <3> QED
      BY <3>2, <3>3, TypesAssumption DEF AttrValue
  <2>6. CASE ParseSetAction(w) = MakeSetTunnelAction(ParseTunnelAttrs(As))
    <3> HIDE DEF As, w
    <3> QED
      BY <2>1, <2>3, <2>5, <2>6
  <2>7. CASE "TUNNEL" \in DOMAIN w
             /\ ParseSetAction(w) = MakeSetTunnelAction(ParseTunnelAttrs(w["TUNNEL"]))
    BY <2>1, <2>2, <2>3, <2>7 DEF SetValue
  <2>8. CASE /\ "TUNNEL" \notin DOMAIN w
             /\ ParseSetAction(w) = LET n == CHOOSE m \in DOMAIN w : TRUE
                                    IN  SetUnknownAction(n, w[n])
    <3> DEFINE n == CHOOSE m \in DOMAIN w : TRUE
    <3>1. n \in DOMAIN w
      BY <2>2, Zenon DEF SetValue
    <3>2. n # "TUNNEL"
      BY <2>8, <3>1
    <3> HIDE DEF n
    <3> QED
      BY <2>1, <2>4, <2>8, <3>1, <3>2 DEF n
  <2> QED
    <3> HIDE DEF w
    <3> QED
      BY <2>6, <2>7, <2>8, Zenon DEF ParseSetAction, As
<1>3. CASE a.typ \notin {"OUTPUT", "SET"}
  BY <1>3 DEF ParseAction
<1> QED
  BY <1>1, <1>2, <1>3

\* Whatever the kernel lists, parseFlowSpec returns an error or a FlowSpec.
LEMMA SpecParsed ==
    ASSUME NEW f, ForeignTyped(f), ParseFlowSpec(f) # Error
    PROVE  IsFlowSpec(ParseFlowSpec(f))
<1> DEFINE as == [i \in DOMAIN f.actions |-> ParseAction(f.actions[i])]
<1>1. /\ ParseFlowKeys(f.keys, f.masks) # Error
      /\ ParseFlowSpec(f) = [keys |-> ParseFlowKeys(f.keys, f.masks), actions |-> as]
      /\ \A i \in DOMAIN as : as[i] # Error
  BY DEF ParseFlowSpec
<1>2. IsFlowKeys(ParseFlowKeys(f.keys, f.masks))
  BY <1>1, KeysParsed DEF ForeignTyped
<1>3. IsList(as)
  BY MapList DEF ForeignTyped
<1>4. \A i \in DOMAIN as : IsAction(as[i])
  <2> SUFFICES ASSUME NEW i \in DOMAIN as PROVE IsAction(as[i])
    OBVIOUS
  <2>1. i \in DOMAIN f.actions /\ as[i] = ParseAction(f.actions[i])
    OBVIOUS
  <2>2. as[i] # Error
    BY <1>1
  <2> HIDE DEF as
  <2> QED
    BY <2>1, <2>2, ActionParsed DEF ForeignTyped
<1> HIDE DEF as
<1> DEFINE ks == ParseFlowKeys(f.keys, f.masks)
           q  == [keys |-> ks, actions |-> as]
<1> HIDE DEF ks
<1>5. q.keys = ks /\ q.actions = as
  OBVIOUS
<1> HIDE DEF q
<1>6. IsFlowSpec(q)
  BY <1>2, <1>3, <1>4, <1>5 DEF IsFlowSpec, IsActions, ks
<1> QED
  BY <1>1, <1>6 DEF q, ks

-----------------------------------------------------------------------------
(* What the library reads back of the flows it installed.                  *)

\* A flow of the table is what became of the FlowSpec it was created with.
FlowBy(f) ==
    LET given == KeyAttrs(f.by.keys)
    IN  /\ ~Unserializable(f.by.keys)
        /\ Accepts(given, <<>>)
        /\ f.match = Match(given, MaskAttrs(f.by.keys))
        /\ f.key = [t \in Types |-> IF t \in DOMAIN given THEN Value(t, given[t]) ELSE {}]
        /\ f.actions = ActionAttrs(f.by)
        /\ \A i \in DOMAIN f.actions : ActionAccepted(f.actions[i])

\* One type of such a flow: k is the key of its FlowSpec.
KeyOf(f, t) == WithEthernet(f.by.keys)[t]

LEMMA FlowShape ==
    ASSUME NEW f, IsFlowSpec(f.by), FlowBy(f), NEW t \in Types
    PROVE  LET v == f.key[t]
               m == f.match[t].mask
               k == KeyOf(f, t)
           IN  /\ v \subseteq Bits(t) /\ m \subseteq Bits(t)
               /\ f.match[t] = [mask |-> m, key |-> v \cap m]
               /\ t = "IN_PORT" => m \in {{}, Bits(t)}
               /\ t = "TUNNEL" => Whole(v) /\ Whole(m) /\ (m \subseteq {"Df"} \X Pos => m = {})
               /\ t \in Sent(f.by.keys) => /\ m = k.mask /\ v \cap m = k.key \cap m
                                           /\ t \in OtherTypes => v = k.key
                                           /\ t = "TUNNEL" => v = {b \in k.key : b[1] \in Present(k.mask)}
               /\ t \notin Sent(f.by.keys) => m = {} /\ v = {}
<1> DEFINE ks == f.by.keys
           v == f.key[t]
           m == f.match[t].mask
           k == KeyOf(f, t)
<1>1. /\ IsFlowKeys(ks) /\ ~Unserializable(ks) /\ Accepts(KeyAttrs(ks), <<>>)
      /\ f.match = Match(KeyAttrs(ks), MaskAttrs(ks))
      /\ v = IF t \in DOMAIN KeyAttrs(ks) THEN Value(t, KeyAttrs(ks)[t]) ELSE {}
  BY DEF FlowBy, IsFlowSpec
<1>2. DOMAIN KeyAttrs(ks) = Sent(ks)
  BY DEF KeyAttrs
<1>3. f.match[t] = IF t \in Sent(ks)
                   THEN [mask |-> k.mask, key |-> IF k.mask = {} THEN {} ELSE k.key \cap k.mask]
                   ELSE [mask |-> {}, key |-> {}]
  BY <1>1, MatchOf DEF KeyOf
<1>4. CASE t \notin Sent(ks)
  <2>1. v = {} /\ f.match[t] = [mask |-> {}, key |-> {}]
    BY <1>1, <1>2, <1>3, <1>4
  <2>2. m = {} /\ f.match[t] = [mask |-> m, key |-> v \cap m]
    BY <2>1
  <2>3. Whole({})
    BY DEF Whole, Field
  <2> HIDE DEF v, m, k
  <2>4. v = {}
    BY <2>1 DEF v
  <2> QED
    BY <1>4, <2>2, <2>3, <2>4 DEF v, m, k
<1>5. CASE t \in Sent(ks)
  <2>1. v = Value(t, KeyAttrs(ks)[t])
    BY <1>1, <1>2, <1>5
  <2>2. /\ v \subseteq Bits(t)
        /\ v \cap k.mask = k.key \cap k.mask
        /\ k.mask \subseteq Bits(t)
        /\ t = "IN_PORT" => k.mask = Bits(t)
        /\ t \in OtherTypes => v = k.key
        /\ t = "TUNNEL" => /\ Whole(k.key) /\ Whole(k.mask)
                           /\ v = {b \in k.key : b[1] \in Present(k.mask)}
                           /\ ~(k.mask \subseteq {"Df"} \X Pos)
    BY <1>1, <1>5, <2>1, SentValues DEF KeyOf
  <2>3. m = k.mask /\ f.match[t] = [mask |-> m, key |-> v \cap m]
    BY <1>3, <1>5, <2>2, SMTT(30)
  <2>4. t = "TUNNEL" => Whole(v)
    <3> SUFFICES ASSUME t = "TUNNEL", NEW g \in FlagFields
                 PROVE  Field(v, g) \in {{}, {g} \X Pos}
      BY DEF Whole
    <3>1. v = {b \in k.key : b[1] \in Present(k.mask)}
      BY <2>2
    <3>2. Field(k.key, g) \in {{}, {g} \X Pos}
      BY <2>2 DEF Whole
    <3>3. Field(v, g) = IF g \in Present(k.mask) THEN Field(k.key, g) ELSE {}
      BY <3>1 DEF Field
    <3> QED
      BY <3>2, <3>3
  <2> HIDE DEF v, m, k
  <2> QED
    BY <1>5, <2>2, <2>3, <2>4 DEF v, m, k
<1> QED
  BY <1>4, <1>5

\* The keys of the FlowSpec that such a flow is listed as.
On(f) == {t \in Types : f.match[t].mask # {}} \cup {"ETHERNET"}
ShownBits(f, masked, t) == IF masked THEN f.match[t].key ELSE f.key[t]
KeyShown(f, withKey, masked, t) ==
    IF t \in On(f) \cup withKey THEN ListValue(t, ShownBits(f, masked, t)) ELSE None
MaskShown(f, t) ==
    IF t = "IN_PORT" THEN f.match[t].mask \cup ({"upper16"} \X Pos)
                     ELSE ListValue(t, f.match[t].mask)
ListedKey(f, withKey, masked, t) ==
    [key   |-> IF t \in On(f) \cup withKey THEN ShownBits(f, masked, t)
               ELSE IF t \in OtherTypes THEN None ELSE {},
     mask  |-> f.match[t].mask,
     exact |-> FALSE]
ListedKeys(f, extra, withKey, masked) ==
    [t \in On(f) \cup extra \cup {"IN_PORT"} |-> ListedKey(f, withKey, masked, t)]

\* The kernel's list of a tunnel is parsed to the bits there were.
LEMMA TunnelListed ==
    ASSUME NEW v, v \subseteq Bits("TUNNEL"), Whole(v)
    PROVE  /\ ParseTunnelAttrs(ListTunnel(v)).attrs = v /\ ParseTunnelAttrs(ListTunnel(v)) # Error
           /\ ListTunnel(v) # None
<1> DEFINE D == {g \in TunnelFields : Field(v, g) # {}} \cup {"Ttl"}
           m == ListTunnel(v)
<1>1. m = [f \in D |-> Field(v, f)] /\ DOMAIN m = D
  BY DEF ListTunnel
<1>2. D \subseteq TunnelFields /\ "Ttl" \notin FlagFields
  BY DEF TunnelFields, FlagFields
<1>3. \A f \in D : f \in FlagFields => Field(v, f) = {f} \X Pos
  BY <1>2 DEF Whole
<1>4. \A b \in v : b[1] \in D
  BY DEF Field, Bits, Fields
<1>5. \A f \in D : m[f] = Field(v, f) /\ m[f] \in SUBSET Bits("TUNNEL")
  BY <1>1 DEF Field
<1>6. m \in [D -> SUBSET Bits("TUNNEL")]
  BY <1>1, <1>5
<1> HIDE DEF D, m
<1>7. ParseTunnelAttrs(m) = [attrs |-> v, present |-> DOMAIN m]
  BY <1>1, <1>2, <1>3, <1>4, <1>5, FieldsParsed
<1>8. m # None
  BY <1>2, <1>6, NilAssumption
<1> QED
  BY <1>7, <1>8, NotError DEF m

LEMMA ShownShape ==
    ASSUME NEW f, IsFlowSpec(f.by), FlowBy(f), NEW t \in Types, NEW masked \in BOOLEAN
    PROVE  LET s == ShownBits(f, masked, t)
           IN  /\ s \subseteq Bits(t)
               /\ s \cap f.match[t].mask = f.match[t].key
               /\ s \in {f.key[t], f.key[t] \cap f.match[t].mask}
               /\ t = "TUNNEL" => Whole(s)
<1> DEFINE v == f.key[t]
           m == f.match[t].mask
<1>1. /\ v \subseteq Bits(t) /\ m \subseteq Bits(t)
      /\ f.match[t].key = v \cap m
      /\ t = "TUNNEL" => Whole(v) /\ Whole(m)
  <2>1. v \subseteq Bits(t) /\ m \subseteq Bits(t)
    BY FlowShape
  <2>2. t = "TUNNEL" => Whole(v) /\ Whole(m)
    BY FlowShape
  <2>3. f.match[t] = [mask |-> m, key |-> v \cap m]
    BY FlowShape
  <2> HIDE DEF v, m
  <2>4. f.match[t].key = v \cap m
    BY <2>3
  <2> QED
    BY <2>1, <2>2, <2>4
<1>2. ShownBits(f, masked, t) = IF masked THEN v \cap m ELSE v
  BY <1>1 DEF ShownBits
<1>3. (Whole(v) /\ Whole(m)) => Whole(v \cap m)
  <2>1. \A g : Field(v \cap m, g) = Field(v, g) \cap Field(m, g)
    BY DEF Field
  <2> HIDE DEF v, m
  <2> SUFFICES ASSUME Whole(v), Whole(m), NEW g \in FlagFields
               PROVE  Field(v \cap m, g) \in {{}, {g} \X Pos}
    BY DEF Whole
  <2>2. Field(v, g) \in {{}, {g} \X Pos} /\ Field(m, g) \in {{}, {g} \X Pos}
    BY DEF Whole
  <2> QED
    BY <2>1, <2>2
<1> HIDE DEF v, m
<1>4. /\ ShownBits(f, masked, t) \subseteq Bits(t)
      /\ ShownBits(f, masked, t) \cap m = v \cap m
      /\ ShownBits(f, masked, t) \in {v, v \cap m}
      /\ t = "TUNNEL" => Whole(ShownBits(f, masked, t))
  BY <1>1, <1>2, <1>3
<1> QED
  BY <1>1, <1>4 DEF v, m

\* What the parser of a type makes of the list: the mask is the one of the flow, the key
\* has the bits that are shown, or none.
LEMMA KeyListed ==
    ASSUME NEW f, IsFlowSpec(f.by), FlowBy(f), NEW t \in Types, NEW masked \in BOOLEAN,
           NEW withKey
    PROVE  ParseFlowKey(t, KeyShown(f, withKey, masked, t), MaskShown(f, t), FALSE)
               = ListedKey(f, withKey, masked, t)
<1> DEFINE m == f.match[t].mask
           s == ShownBits(f, masked, t)
           in == t \in On(f) \cup withKey
           K == IF in THEN ListValue(t, s) ELSE None
           M == IF t = "IN_PORT" THEN m \cup ({"upper16"} \X Pos) ELSE ListValue(t, m)
<1>1. m \subseteq Bits(t) /\ (t = "IN_PORT" => m \in {{}, Bits(t)})
      /\ (t = "TUNNEL" => Whole(m))
  BY FlowShape
<1>2. s \subseteq Bits(t) /\ (t = "TUNNEL" => Whole(s))
  BY ShownShape
<1>3. ~in => m = {}
  BY DEF On
<1>4. ListedKey(f, withKey, masked, t) =
         [key |-> IF in THEN s ELSE IF t \in OtherTypes THEN None ELSE {},
          mask |-> m, exact |-> FALSE]
  BY DEF ListedKey
<1>5. s # None /\ s # WrongSize /\ m # None /\ m # WrongSize
  BY <1>1, <1>2, NilAssumption
<1> HIDE DEF m, s, in
<1>6. CASE t = "TUNNEL"
  <2>1. /\ ParseTunnelAttrs(ListTunnel(s)).attrs = s /\ ParseTunnelAttrs(ListTunnel(s)) # Error
        /\ ListTunnel(s) # None
    BY <1>2, <1>6, TunnelListed
  <2>2. /\ ParseTunnelAttrs(ListTunnel(m)).attrs = m /\ ParseTunnelAttrs(ListTunnel(m)) # Error
        /\ ListTunnel(m) # None
    BY <1>1, <1>6, TunnelListed
  <2>3. M = ListTunnel(m) /\ K = IF in THEN ListTunnel(s) ELSE None
    BY <1>6 DEF ListValue
  <2> DEFINE none == [attrs |-> {}, present |-> {}]
  <2>4. none # Error /\ none.attrs = {}
    BY NotError
  <2> HIDE DEF M, K, none
  <2>5. ParseTunnelFlowKey(K, M) = [key |-> IF in THEN s ELSE {}, exact |-> FALSE, mask |-> m]
    <3>1. CASE in
      BY <2>1, <2>2, <2>3, <3>1 DEF ParseTunnelFlowKey
    <3>2. CASE ~in
      BY <2>2, <2>3, <2>4, <3>2 DEF ParseTunnelFlowKey, none
    <3> QED
      BY <3>1, <3>2
  <2>6. ParseFlowKey(t, K, M, FALSE) = ParseTunnelFlowKey(K, M)
    BY <1>6, TypesAssumption DEF ParseFlowKey
  <2>7. t \notin OtherTypes
    BY <1>6, TypesAssumption
  <2> QED
    BY <1>4, <2>5, <2>6, <2>7 DEF K, M, m, s, in, KeyShown, MaskShown
<1>7. CASE t = "IN_PORT"
  <2>1. K = IF in THEN s ELSE None
    BY <1>7 DEF ListValue
  <2>2. M = m \cup ({"upper16"} \X Pos) /\ M \subseteq Bits(t)
    BY <1>1, <1>7 DEF Bits, Fields
  <2>3. M # WrongSize
    BY <2>2, NilAssumption
  <2>4. InPortMask(M) = m
    <3>1. CASE m = Bits(t)
      <4>1. M = Bits(t)
        BY <2>2, <3>1
      <4> QED
        BY <1>7, <3>1, <4>1 DEF InPortMask
    <3>2. CASE m = {} /\ m # Bits(t)
      <4>1. PICK p \in Pos : TRUE
        BY <1>7, <3>2 DEF Bits, Fields
      <4>2. <<"lower16", p>> \in Bits(t) /\ <<"lower16", p>> \notin M
        BY <1>7, <2>2, <3>2, <4>1 DEF Bits, Fields
      <4> QED
        BY <1>7, <2>3, <3>2, <4>2 DEF InPortMask
    <3>3. m \in {{}, Bits(t)}
      BY <1>1, <1>7
    <3> QED
      BY <3>1, <3>2, <3>3
  <2>5. ParseFlowKey(t, K, M, FALSE) = ParseBlobFlowKey(K, m)
    BY <1>7, <2>4, TypesAssumption DEF ParseFlowKey
  <2>6. t \notin OtherTypes
    BY <1>7, TypesAssumption
  <2> HIDE DEF K, M
  <2>7. ParseBlobFlowKey(K, m) = [key |-> IF in THEN s ELSE {}, mask |-> m, exact |-> FALSE]
    <3>1. K # WrongSize
      BY <1>5, <2>1, NilAssumption
    <3> QED
      BY <1>3, <1>5, <2>1, <3>1 DEF ParseBlobFlowKey
  <2> QED
    BY <1>4, <2>5, <2>6, <2>7 DEF K, M, m, s, in, KeyShown, MaskShown
<1>8. CASE t \in OtherTypes
  <2>1. t # "TUNNEL" /\ t # "IN_PORT"
    BY <1>8, TypesAssumption
  <2>2. M = m /\ K = IF in THEN s ELSE None
    BY <2>1 DEF ListValue
  <2> HIDE DEF K, M
  <2>3. ParseFlowKey(t, K, M, FALSE) = [key |-> K, mask |-> M, exact |-> FALSE]
    BY <1>8, <2>1 DEF ParseFlowKey
  <2> QED
    BY <1>4, <1>8, <2>2, <2>3 DEF K, M, m, s, in, KeyShown, MaskShown
<1>9. CASE t \notin OtherTypes \cup {"TUNNEL", "IN_PORT"}
  <2>1. M = m /\ K = IF in THEN s ELSE None
    BY <1>9 DEF ListValue
  <2> HIDE DEF K, M
  <2>2. ParseFlowKey(t, K, M, FALSE) = ParseBlobFlowKey(K, m)
    BY <1>9, <2>1 DEF ParseFlowKey
  <2>3. ParseBlobFlowKey(K, m) = [key |-> IF in THEN s ELSE {}, mask |-> m, exact |-> FALSE]
    <3>1. K # WrongSize
      BY <1>5, <2>1, NilAssumption
    <3> QED
      BY <1>3, <1>5, <2>1, <3>1 DEF ParseBlobFlowKey
  <2> QED
    BY <1>4, <1>9, <2>2, <2>3 DEF K, M, m, s, in, KeyShown, MaskShown
<1> QED
  BY <1>6, <1>7, <1>8, <1>9

LEMMA KeysListed ==
    ASSUME NEW f, IsFlowSpec(f.by), FlowBy(f), NEW extra \in SUBSET ShownTypes,
           NEW withKey \in SUBSET extra, NEW masked \in BOOLEAN, NEW linux43 \in BOOLEAN
    PROVE  LET L == ListFlow(f, extra, withKey, masked, linux43)
           IN  /\ ParseFlowKeys(L.keys, L.masks) = ListedKeys(f, extra, withKey, masked)
               /\ ParseFlowKeys(L.keys, L.masks) # Error
<1> DEFINE L == ListFlow(f, extra, withKey, masked, linux43)
           D == On(f) \cup extra \cup {"IN_PORT"}
           K(t) == KeyShown(f, withKey, masked, t)
           M(t) == MaskShown(f, t)
           fk == [t \in D |-> ParseFlowKey(t, K(t), M(t), FALSE)]
           keys == L.keys
           masks == L.masks
<1>1. /\ keys = [t \in On(f) \cup withKey |-> ListValue(t, ShownBits(f, masked, t))]
      /\ masks = [t \in D |-> M(t)]
  BY DEF ListFlow, On, ShownBits, MaskShown
<1>2. DOMAIN keys = On(f) \cup withKey /\ DOMAIN masks = D
  BY <1>1
<1>3. masks # NoMasks
  <2>1. DOMAIN NoMasks = {"nil"}
    BY DEF NoMasks
  <2>2. "IN_PORT" \in DOMAIN masks
    BY <1>2
  <2> QED
    BY <2>1, <2>2
<1>4. D \subseteq Types
  BY ShownAssumption DEF On, Types
<1>5. \A t \in D : /\ (IF t \in DOMAIN keys THEN keys[t] ELSE None) = K(t)
                   /\ (IF t \in DOMAIN masks THEN masks[t] ELSE IgnoreMask(t)) = M(t)
  BY <1>1, <1>2 DEF KeyShown
<1>6. DOMAIN keys \cup DOMAIN masks = D
  BY <1>2
<1> HIDE DEF keys, masks, D, K, M
<1>7. [t \in DOMAIN keys \cup DOMAIN masks |->
          ParseFlowKey(t, IF t \in DOMAIN keys THEN keys[t] ELSE None,
                       IF t \in DOMAIN masks THEN masks[t] ELSE IgnoreMask(t), FALSE)] = fk
  BY <1>5, <1>6
<1>8. \A t \in D : ParseFlowKey(t, K(t), M(t), FALSE) = ListedKey(f, withKey, masked, t)
  <2> SUFFICES ASSUME NEW t \in D
               PROVE  ParseFlowKey(t, K(t), M(t), FALSE) = ListedKey(f, withKey, masked, t)
    OBVIOUS
  <2>1. t \in Types
    BY <1>4
  <2> QED
    BY <2>1, KeyListed DEF K, M
<1>9. fk = ListedKeys(f, extra, withKey, masked)
  BY <1>8 DEF ListedKeys, D
<1>10. DOMAIN fk = D /\ \A t \in D : fk[t] # Error
  BY <1>8, NotError DEF ListedKey
<1>11. fk # Error
  <2>1. DOMAIN Error = {"err"}
    BY DEF Error
  <2>2. "IN_PORT" \in D
    BY DEF D
  <2> QED
    BY <1>10, <2>1, <2>2
<1> HIDE DEF fk
<1>12. ParseFlowKeys(keys, masks) = fk
  BY <1>3, <1>7, <1>10 DEF ParseFlowKeys
<1> QED
  BY <1>9, <1>11, <1>12 DEF keys, masks

\* The keys that are listed name the flow: they become its match again.
LEMMA ListedMatch ==
    ASSUME NEW f, IsFlowSpec(f.by), FlowBy(f), NEW extra \in SUBSET ShownTypes,
           NEW withKey \in SUBSET extra, NEW masked \in BOOLEAN
    PROVE  LET ks == ListedKeys(f, extra, withKey, masked)
           IN  ~Unserializable(ks) /\ Match(KeyAttrs(ks), MaskAttrs(ks)) = f.match
<1> DEFINE ks == ListedKeys(f, extra, withKey, masked)
           D == On(f) \cup extra \cup {"IN_PORT"}
           a(t) == ListedKey(f, withKey, masked, t)
<1>1. DOMAIN ks = D /\ \A t \in D : ks[t] = a(t)
  BY DEF ListedKeys
<1>2. D \subseteq Types /\ "ETHERNET" \in D
  BY ShownAssumption DEF On, Types
<1>3. \A t : a(t).exact = FALSE /\ a(t).mask = f.match[t].mask
  BY DEF ListedKey
<1> HIDE DEF a, D, ks
<1>4. ~Unserializable(ks)
  BY <1>1, <1>3 DEF Unserializable
<1>5. WithEthernet(ks) = [t \in D |-> a(t)]
  BY <1>1, <1>2 DEF WithEthernet
<1>6. Sent(ks) = {t \in D : ~Ignored(t, a(t))}
  BY <1>5 DEF Sent
<1>7. /\ DOMAIN KeyAttrs(ks) = Sent(ks) /\ DOMAIN MaskAttrs(ks) = Sent(ks)
      /\ \A t \in Sent(ks) : /\ KeyAttrs(ks)[t] = PutKey(t, a(t))
                             /\ MaskAttrs(ks)[t] = PutMask(t, a(t))
  BY <1>5, <1>6 DEF KeyAttrs, MaskAttrs
<1>8. ASSUME NEW t \in Types PROVE Match(KeyAttrs(ks), MaskAttrs(ks))[t] = f.match[t]
  <2> DEFINE m == f.match[t].mask
             v == f.key[t]
  <2>1. /\ v \subseteq Bits(t) /\ m \subseteq Bits(t)
        /\ f.match[t] = [mask |-> m, key |-> v \cap m]
        /\ t = "IN_PORT" => m \in {{}, Bits(t)}
        /\ t = "TUNNEL" => Whole(v) /\ Whole(m) /\ (m \subseteq {"Df"} \X Pos => m = {})
    BY FlowShape
  <2>2. a(t).mask = m /\ a(t).exact = FALSE
    BY <1>3
  <2>3. m # None
    BY <2>1, NilAssumption
  <2> HIDE DEF m, v
  <2>4. CASE t \notin Sent(ks)
    <3>1. m = {}
      <4>1. CASE t \notin D
        BY <4>1 DEF D, On, m
      <4>2. CASE Ignored(t, a(t))
        <5>1. CASE t \in OtherTypes
          BY <2>2, <2>3, <4>2, <5>1, TypesAssumption DEF Ignored
        <5>2. CASE t = "TUNNEL"
          BY <2>1, <2>2, <4>2, <5>2, TypesAssumption DEF Ignored
        <5>3. CASE t \notin OtherTypes \cup {"TUNNEL"}
          BY <2>2, <4>2, <5>3 DEF Ignored
        <5> QED
          BY <5>1, <5>2, <5>3
      <4> QED
        BY <1>6, <2>4, <4>1, <4>2
    <3>2. Match(KeyAttrs(ks), MaskAttrs(ks))[t] = [mask |-> {}, key |-> {}]
      BY <1>7, <2>4 DEF Match
    <3> QED
      BY <2>1, <3>1, <3>2
  <2>5. CASE t \in Sent(ks)
    <3>1. t \in D /\ ~Ignored(t, a(t))
      BY <1>6, <2>5
    <3>2. CASE m = {}
      <4>1. t # "IN_PORT"
        BY <2>2, <3>1, <3>2, TypesAssumption DEF Ignored
      <4>2. t # "TUNNEL"
        BY <2>2, <3>1, <3>2, TypesAssumption DEF Ignored
      <4>3. MaskAttrs(ks)[t] = {} /\ Value(t, MaskAttrs(ks)[t]) = {}
        BY <1>7, <2>2, <2>5, <3>2, <4>2 DEF PutMask, Value
      <4>4. Match(KeyAttrs(ks), MaskAttrs(ks))[t] = [mask |-> {}, key |-> {}]
        BY <1>7, <2>5, <4>1, <4>3 DEF Match
      <4> QED
        BY <2>1, <3>2, <4>4
    <3>3. CASE m # {}
      <4> DEFINE s == ShownBits(f, masked, t)
      <4>1. t \in On(f) /\ a(t).key = s
        BY <3>3 DEF On, m, a, ListedKey
      <4>2. s \subseteq Bits(t) /\ s \cap m = v \cap m /\ (t = "TUNNEL" => Whole(s))
        <5>1. s \subseteq Bits(t) /\ s \cap m = f.match[t].key /\ (t = "TUNNEL" => Whole(s))
          BY ShownShape DEF m
        <5> QED
          BY <2>1, <5>1
      <4>3. s # None
        BY <4>2, NilAssumption
      <4> HIDE DEF s
      <4>4. Value(t, PutKey(t, a(t))) \cap m = s \cap m /\ Value(t, PutMask(t, a(t))) = m
        <5>1. CASE t = "TUNNEL"
          <6>1. Present(m) \subseteq TunnelFields /\ \A b \in m : b[1] \in Present(m)
            BY <2>1, <5>1, PresentFields
          <6>2. /\ PutKey(t, a(t)) = TunnelNlAttrs(s, Present(m))
                /\ PutMask(t, a(t)) = TunnelNlAttrs(m, Present(m))
            BY <2>2, <4>1, <5>1, TypesAssumption DEF PutKey, PutMask
          <6>3. Value(t, PutKey(t, a(t))) = {b \in s : b[1] \in Present(m)}
            BY <4>2, <5>1, <6>1, <6>2, TunnelValue
          <6>4. Value(t, PutMask(t, a(t))) = {b \in m : b[1] \in Present(m)}
            BY <2>1, <5>1, <6>1, <6>2, TunnelValue
          <6> QED
            BY <6>1, <6>3, <6>4
        <5>2. CASE t # "TUNNEL"
          <6>1. PutKey(t, a(t)) = s /\ PutMask(t, a(t)) = m
            BY <2>2, <4>1, <4>3, <5>2 DEF PutKey, PutMask
          <6> QED
            BY <5>2, <6>1 DEF Value
        <5> QED
          BY <5>1, <5>2
      <4>5. Match(KeyAttrs(ks), MaskAttrs(ks))[t] = [mask |-> m, key |-> s \cap m]
        <5>1. CASE t = "IN_PORT"
          <6>1. m = Bits(t)
            BY <2>1, <3>3, <5>1
          <6> QED
            BY <1>7, <2>5, <3>3, <4>4, <5>1, <6>1 DEF Match
        <5>2. CASE t # "IN_PORT"
          BY <1>7, <2>5, <3>3, <4>4, <5>2 DEF Match
        <5> QED
          BY <5>1, <5>2
      <4> QED
        BY <2>1, <4>2, <4>5
    <3> QED
      BY <3>2, <3>3
  <2> QED
    BY <2>4, <2>5
<1>9. Match(KeyAttrs(ks), MaskAttrs(ks)) = f.match
  <2>1. f.match = Match(KeyAttrs(f.by.keys), MaskAttrs(f.by.keys))
    BY DEF FlowBy
  <2>2. f.match = [t \in Types |-> f.match[t]]
    BY <2>1 DEF Match
  <2>3. Match(KeyAttrs(ks), MaskAttrs(ks)) =
           [t \in Types |-> Match(KeyAttrs(ks), MaskAttrs(ks))[t]]
    BY DEF Match
  <2> QED
    BY <1>8, <2>2, <2>3
<1> QED
  BY <1>4, <1>9 DEF ks

\* The keys that are listed are Equal to those the flow was created with.
LEMMA ListedEquals ==
    ASSUME NEW f, IsFlowSpec(f.by), FlowBy(f), NEW extra \in SUBSET ShownTypes,
           NEW withKey \in SUBSET extra, NEW masked \in BOOLEAN,
           Ordinary(f.by.keys), UnderMask(f.by.keys), ShownTypes \cap OtherTypes = {}
    PROVE  LET ks == ListedKeys(f, extra, withKey, masked)
           IN  Equals(ks, f.by.keys) /\ Equals(f.by.keys, ks)
<1> DEFINE ks == ListedKeys(f, extra, withKey, masked)
           b == f.by.keys
           D == On(f) \cup extra \cup {"IN_PORT"}
           a(t) == ListedKey(f, withKey, masked, t)
           m(t) == f.match[t].mask
           v(t) == f.key[t]
           s(t) == ShownBits(f, masked, t)
<1>1. DOMAIN ks = D /\ \A t \in D : ks[t] = a(t)
  BY DEF ListedKeys
<1>2. D \subseteq Types /\ "ETHERNET" \in On(f)
  BY ShownAssumption DEF On, Types
<1>3. IsFlowKeys(b) /\ ~Unserializable(b) /\ "ETHERNET" \in DOMAIN b /\ ~DfAlone(b)
  BY DEF FlowBy, IsFlowSpec, Ordinary, HasEthernet
<1>4. WithEthernet(b) = [t \in DOMAIN b |-> b[t]]
  BY <1>3 DEF WithEthernet
<1>5. Sent(b) = {t \in DOMAIN b : ~Ignored(t, b[t])}
  BY <1>4 DEF Sent
<1>6. \A t \in DOMAIN b : KeyOf(f, t) = b[t] /\ t \in Types /\ b[t] \in FlowKey(t)
  BY <1>3, <1>4 DEF KeyOf, IsFlowKeys
<1>7. \A t : /\ a(t).exact = FALSE /\ a(t).mask = m(t)
             /\ t \in On(f) \cup withKey => a(t).key = s(t)
             /\ t \notin On(f) \cup withKey \cup OtherTypes => a(t).key = {}
  BY DEF ListedKey
<1>8. \A t \in Types : t \notin On(f) => m(t) = {}
  BY DEF On
<1>9. \A t \in Types : s(t) \in {v(t), v(t) \cap m(t)} /\ s(t) \cap m(t) = v(t) \cap m(t)
  BY ShownShape, FlowShape
<1>10. \A t \in Types : t \notin Sent(b) => m(t) = {} /\ v(t) = {}
  BY FlowShape
<1>11. \A t \in Sent(b) :
          /\ v(t) \subseteq Bits(t) /\ m(t) \subseteq Bits(t)
          /\ m(t) = b[t].mask /\ v(t) \cap m(t) = b[t].key \cap m(t)
          /\ t \in OtherTypes => v(t) = b[t].key
          /\ t = "TUNNEL" => v(t) = {c \in b[t].key : c[1] \in Present(b[t].mask)}
  <2> SUFFICES ASSUME NEW t \in Sent(b)
               PROVE  /\ v(t) \subseteq Bits(t) /\ m(t) \subseteq Bits(t)
                      /\ m(t) = b[t].mask /\ v(t) \cap m(t) = b[t].key \cap m(t)
                      /\ t \in OtherTypes => v(t) = b[t].key
                      /\ t = "TUNNEL" => v(t) = {c \in b[t].key : c[1] \in Present(b[t].mask)}
    OBVIOUS
  <2>1. t \in DOMAIN b /\ t \in Types /\ KeyOf(f, t) = b[t]
    BY <1>5, <1>6
  <2>2. v(t) \subseteq Bits(t) /\ m(t) \subseteq Bits(t)
    BY <2>1, FlowShape
  <2>3. m(t) = KeyOf(f, t).mask
    BY <2>1, FlowShape
  <2>4. v(t) \cap m(t) = b[t].key \cap m(t)
    BY <2>1, FlowShape, ZenonT(30)
  <2>5. t \in OtherTypes => v(t) = KeyOf(f, t).key
    BY <2>1, FlowShape
  <2>6. t = "TUNNEL" => v(t) = {c \in KeyOf(f, t).key : c[1] \in Present(KeyOf(f, t).mask)}
    BY <2>1, FlowShape
  <2> HIDE DEF v, m
  <2> QED
    BY <2>1, <2>2, <2>3, <2>4, <2>5, <2>6
<1>12. \A t \in D : t \notin On(f) => t \notin OtherTypes
  BY TypesAssumption
<1> HIDE DEF a, m, v, s, ks, D
<1>13. ASSUME NEW t \in Sent(b) PROVE t \in On(f)
  <2> SUFFICES ASSUME t \notin On(f) PROVE FALSE
    OBVIOUS
  <2>1. t \in DOMAIN b /\ ~Ignored(t, b[t]) /\ t \in Types /\ t # "ETHERNET"
    BY <1>2, <1>5, <1>6
  <2>2. b[t].mask = {}
    BY <1>8, <1>11, <2>1
  <2>3. CASE t \in OtherTypes
    <3>1. b[t].key # None /\ b[t].mask # None
      BY <1>11, <2>1, <2>3, NilAssumption
    <3> QED
      BY <2>1, <2>2, <2>3, <3>1 DEF UnderMask
  <2>4. CASE t \notin OtherTypes
    BY <2>1, <2>2, <2>4 DEF Ignored
  <2> QED
    BY <2>3, <2>4
<1>14. ASSUME NEW t \in D, t \notin DOMAIN b PROVE Ignored(t, a(t))
  <2>1. t \in Types /\ t # "ETHERNET" /\ t \notin Sent(b)
    BY <1>2, <1>3, <1>5, <1>14
  <2>2. a(t).mask = {} /\ t \notin On(f)
    BY <1>7, <1>10, <2>1 DEF On, m
  <2>3. t \notin OtherTypes
    BY <1>12, <2>2
  <2> QED
    BY <2>1, <2>2, <2>3 DEF Ignored
<1>15. ASSUME NEW t \in DOMAIN b, t \notin D PROVE Ignored(t, b[t])
  BY <1>5, <1>13, <1>15 DEF D
<1>16. ASSUME NEW t \in D, t \in DOMAIN b
       PROVE  KeyEquals(t, a(t), b[t]) /\ KeyEquals(t, b[t], a(t))
  <2>1. t \in Types /\ b[t] \in FlowKey(t)
    BY <1>6, <1>16
  <2>2. CASE t \in Sent(b)
    <3>1. /\ t \in On(f) /\ a(t).key = s(t) /\ a(t).mask = b[t].mask /\ a(t).exact = FALSE
          /\ m(t) = b[t].mask /\ s(t) \cap m(t) = b[t].key \cap m(t)
      BY <1>7, <1>9, <1>11, <1>13, <2>1, <2>2
    <3>2. CASE t \in OtherTypes
      <4>1. b[t].key # None /\ b[t].mask # None /\ v(t) = b[t].key
        BY <1>11, <2>1, <2>2, <3>2, NilAssumption
      <4>2. b[t].key \subseteq m(t)
        BY <1>16, <3>1, <3>2, <4>1 DEF UnderMask
      <4>3. s(t) = b[t].key
        BY <1>9, <2>1, <4>1, <4>2
      <4>4. b[t].exact = FALSE
        BY <1>3, <1>16, <2>1, <3>2 DEF Unserializable, FlowKey
      <4> QED
        BY <3>1, <3>2, <4>3, <4>4, TypesAssumption DEF KeyEquals, UnknownEquals
    <3>3. CASE t = "TUNNEL"
      <4>1. b[t] \in [key : SUBSET Bits(t), mask : SUBSET Bits(t), exact : {FALSE}]
        BY <2>1, <3>3, TypesAssumption DEF FlowKey
      <4>2. b[t].key \subseteq m(t)
        <5>1. b[t].key # None /\ b[t].mask # None
          BY <2>1, <4>1, NilAssumption
        <5> QED
          BY <1>16, <3>1, <3>3, <5>1 DEF UnderMask
      <4>3. \A c \in m(t) : c[1] \in Present(m(t))
        BY <3>1, <3>3, <4>1, PresentFields
      <4>4. v(t) = b[t].key
        BY <1>11, <2>2, <3>1, <3>3, <4>2, <4>3
      <4>5. s(t) = b[t].key
        BY <1>9, <2>1, <4>2, <4>4
      <4>6. a(t) = b[t]
        BY <3>1, <4>1, <4>5 DEF a, ListedKey
      <4> QED
        BY <3>3, <4>6, TypesAssumption DEF KeyEquals
    <3>4. CASE t \notin OtherTypes \cup {"TUNNEL"}
      BY <3>1, <3>4 DEF KeyEquals, BlobEquals, Xor
    <3> QED
      BY <3>2, <3>3, <3>4
  <2>3. CASE t \notin Sent(b)
    <3>1. m(t) = {} /\ v(t) = {} /\ Ignored(t, b[t]) /\ a(t).mask = {} /\ a(t).exact = FALSE
      BY <1>5, <1>7, <1>10, <1>16, <2>1, <2>3
    <3>2. t # "ETHERNET"
      BY <3>1, TypesAssumption DEF Ignored
    <3>3. t \notin On(f) /\ t \notin OtherTypes
      BY <1>12, <3>1, <3>2 DEF On, m
    <3>4. CASE t = "TUNNEL"
      <4>1. b[t] \in [key : SUBSET Bits(t), mask : SUBSET Bits(t), exact : {FALSE}]
        BY <2>1, <3>4, TypesAssumption DEF FlowKey
      <4>2. b[t].mask = {}
        BY <1>3, <1>16, <3>1, <3>3, <3>4 DEF Ignored, DfAlone
      <4>3. b[t].key = {}
        <5>1. b[t].key # None /\ b[t].mask # None
          BY <2>1, <4>1, NilAssumption
        <5> QED
          BY <1>16, <3>4, <4>2, <5>1 DEF UnderMask
      <4>4. a(t).key = {}
        BY <1>7, <1>9, <2>1, <3>1, <3>3
      <4>5. a(t) = b[t]
        BY <3>1, <4>1, <4>2, <4>3, <4>4 DEF a, ListedKey
      <4> QED
        BY <3>3, <3>4, <4>5 DEF KeyEquals
    <3>5. CASE t # "TUNNEL"
      <4>1. b[t].mask = {}
        BY <3>1, <3>2, <3>3, <3>5 DEF Ignored
      <4> QED
        BY <3>1, <3>3, <3>5, <4>1 DEF KeyEquals, BlobEquals
    <3> QED
      BY <3>4, <3>5
  <2> QED
    BY <2>2, <2>3
<1>17. Equals(ks, b) /\ Equals(b, ks)
  BY <1>1, <1>14, <1>15, <1>16 DEF Equals
<1> QED
  BY <1>17 DEF ks

\* The bits of the tunnel keys and the unknown keys that are listed are under their masks, if
\* those of the FlowSpec were.
LEMMA ListedUnderMask ==
    ASSUME NEW f, IsFlowSpec(f.by), FlowBy(f), NEW extra \in SUBSET ShownTypes,
           NEW withKey \in SUBSET extra, NEW masked \in BOOLEAN,
           UnderMask(f.by.keys), ShownTypes \cap OtherTypes = {}
    PROVE  UnderMask(ListedKeys(f, extra, withKey, masked))
<1> DEFINE ks == ListedKeys(f, extra, withKey, masked)
           b == f.by.keys
           D == On(f) \cup extra \cup {"IN_PORT"}
<1>1. DOMAIN ks = D /\ \A t \in D : ks[t] = ListedKey(f, withKey, masked, t)
  BY DEF ListedKeys
<1>2. D \subseteq Types
  BY ShownAssumption DEF On, Types
<1>3. IsFlowKeys(b)
  BY DEF IsFlowSpec
<1> HIDE DEF ks
<1>4. ASSUME NEW t \in D \cap (OtherTypes \cup {"TUNNEL"})
      PROVE  ks[t].key \subseteq ks[t].mask /\ (t \in OtherTypes => ks[t].mask # {})
  <2> DEFINE v == f.key[t]
             m == f.match[t].mask
             s == ShownBits(f, masked, t)
             k == KeyOf(f, t)
  <2>1. t \in Types /\ t # "ETHERNET" /\ t # "IN_PORT"
    BY <1>2, <1>4, TypesAssumption
  <2>2. /\ v \subseteq Bits(t) /\ m \subseteq Bits(t)
        /\ t \in Sent(b) => /\ m = k.mask
                            /\ t \in OtherTypes => v = k.key
                            /\ t = "TUNNEL" => v = {c \in k.key : c[1] \in Present(k.mask)}
        /\ t \notin Sent(b) => m = {} /\ v = {}
    BY <2>1, FlowShape
  <2>3. s \in {v, v \cap m}
    BY <2>1, ShownShape
  <2>4. /\ ks[t].mask = m
        /\ t \in On(f) \cup withKey => ks[t].key = s
        /\ t \notin On(f) \cup withKey \cup OtherTypes => ks[t].key = {}
    <3>1. t \in D
      BY <1>4
    <3>2. ks[t] = ListedKey(f, withKey, masked, t)
      BY <1>1, <3>1
    <3> QED
      BY <3>2 DEF ListedKey
  <2>5. t \in On(f) <=> m # {}
    BY <2>1 DEF On
  <2>6. t \in OtherTypes => t \in On(f)
    BY <1>4, <2>1
  <2> HIDE DEF v, m, s, k
  <2>7. CASE t \notin Sent(b)
    BY <1>4, <2>2, <2>3, <2>4, <2>5, <2>6, <2>7
  <2>8. CASE t \in Sent(b)
    <3>1. t \in DOMAIN b /\ k = b[t]
      <4>1. t \in DOMAIN WithEthernet(b)
        BY <2>8 DEF Sent
      <4> QED
        BY <1>3, <2>1, <4>1, WithEthernetKeys DEF k, KeyOf
    <3>2. v \subseteq m
      <4>1. CASE t \in OtherTypes
        <5>1. b[t].key # None /\ b[t].mask # None
          BY <2>1, <2>2, <2>8, <3>1, <4>1, NilAssumption
        <5> QED
          BY <2>2, <2>8, <3>1, <4>1, <5>1 DEF UnderMask
      <4>2. CASE t = "TUNNEL"
        <5>1. b[t].key # None /\ b[t].mask # None
          BY <1>3, <2>1, <3>1, <4>2, NotNil, TypesAssumption DEF IsFlowKeys
        <5>2. b[t].key \subseteq b[t].mask
          BY <3>1, <4>2, <5>1 DEF UnderMask
        <5> QED
          BY <2>2, <2>8, <3>1, <4>2, <5>2
      <4> QED
        BY <1>4, <4>1, <4>2
    <3> QED
      BY <1>4, <2>3, <2>4, <2>5, <2>6, <3>2
  <2> QED
    BY <2>7, <2>8
<1> QED
  BY <1>1, <1>4 DEF UnderMask, ks

\* A flow is listed as a FlowSpec with these keys and with actions that are Equal to its
\* own and become the same attributes.
LEMMA ListedSpec ==
    ASSUME NEW f, FlowTyped(f), FlowBy(f), NEW extra \in SUBSET ShownTypes,
           NEW withKey \in SUBSET extra, NEW masked \in BOOLEAN, NEW linux43 \in BOOLEAN
    PROVE  LET p == ParseFlowSpec(ListFlow(f, extra, withKey, masked, linux43))
           IN  /\ p # Error /\ IsFlowSpec(p)
               /\ p.keys = ListedKeys(f, extra, withKey, masked)
               /\ ActionAttrs(p) = f.actions
               /\ Len(p.actions) = Len(f.by.actions)
               /\ DOMAIN p.actions = DOMAIN f.by.actions
               /\ \A i \in DOMAIN p.actions : /\ ActionEquals(p.actions[i], f.by.actions[i])
                                              /\ ActionEquals(f.by.actions[i], p.actions[i])
<1> DEFINE L == ListFlow(f, extra, withKey, masked, linux43)
           ks == ListedKeys(f, extra, withKey, masked)
           as == f.by.actions
           p(i) == ParseAction(ListAction(ActionNlAttr(as[i]), linux43))
           ps == [i \in DOMAIN as |-> p(i)]
<1>1. ParseFlowKeys(L.keys, L.masks) = ks /\ ks # Error
  BY KeysListed DEF FlowTyped
<1>2. IsFlowKeys(ks)
  <2>1. /\ DOMAIN L.keys \subseteq Types /\ \A t \in DOMAIN L.keys : AttrValue(t, L.keys[t])
        /\ DOMAIN L.masks \subseteq Types /\ \A t \in DOMAIN L.masks : AttrValue(t, L.masks[t])
    BY ListTyped, ZenonT(30)
  <2> HIDE DEF L, ks
  <2> QED
    BY <1>1, <2>1, KeysParsed
<1>3. f.actions = [i \in DOMAIN as |-> ActionNlAttr(as[i])]
  BY DEF FlowBy, ActionAttrs
<1>4. L.actions = [i \in DOMAIN as |-> ListAction(ActionNlAttr(as[i]), linux43)]
  BY <1>3 DEF ListFlow
<1>5. [i \in DOMAIN L.actions |-> ParseAction(L.actions[i])] = ps
  BY <1>4
<1>6. IsActions(as)
  BY DEF FlowTyped, IsFlowSpec
<1>7. ASSUME NEW i \in DOMAIN as
      PROVE  /\ p(i) # Error /\ IsAction(p(i))
             /\ ActionEquals(p(i), as[i]) /\ ActionEquals(as[i], p(i))
             /\ ActionNlAttr(p(i)) = ActionNlAttr(as[i])
  <2>1. IsAction(as[i]) /\ ActionAccepted(ActionNlAttr(as[i]))
    BY <1>3, <1>6 DEF IsActions, FlowBy
  <2> QED
    BY <2>1, ActionListed
<1> HIDE DEF L, ks, as, p
<1>8. DOMAIN ps = DOMAIN as /\ \A i \in DOMAIN as : ps[i] = p(i)
  OBVIOUS
<1>9. IsList(ps) /\ Len(ps) = Len(as)
  BY <1>6, <1>8, MapList DEF IsActions
<1> HIDE DEF ps
<1>10. ParseFlowSpec(L) = [keys |-> ks, actions |-> ps]
  BY <1>1, <1>5, <1>7, <1>8 DEF ParseFlowSpec
<1> DEFINE q == [keys |-> ks, actions |-> ps]
<1>11. q.keys = ks /\ q.actions = ps /\ q # Error
  BY NotError
<1> HIDE DEF q
<1>12. IsFlowSpec(q)
  BY <1>2, <1>7, <1>8, <1>9, <1>11 DEF IsFlowSpec, IsActions
<1>13. ActionAttrs(q) = f.actions
  BY <1>3, <1>7, <1>8, <1>11 DEF ActionAttrs
<1>14. ParseFlowSpec(L) = q
  BY <1>10 DEF q
<1> QED
  BY <1>7, <1>8, <1>9, <1>11, <1>12, <1>13, <1>14 DEF L, ks, as

-----------------------------------------------------------------------------
(* The invariants. TypeOK is inductive with the fact that every flow is    *)
(* what became of its FlowSpec: only then the list of its actions is known *)
(* to be a list of actions.                                                *)

FlowsInv == \A f \in flows : FlowBy(f)

IndInv == TypeOK /\ FlowsInv

LEMMA AcceptedParts ==
    ASSUME NEW keys, NEW acts, Accepts(keys, acts)
    PROVE  Accepts(keys, <<>>) /\ \A i \in DOMAIN acts : ActionAccepted(acts[i])
BY DEF Accepts, ActionAccepted

\* An action that is accepted is one that other programs could have installed.
LEMMA AcceptedSet ==
    ASSUME NEW a, IsAction(a), ActionAccepted(ActionNlAttr(a)), ActionNlAttr(a).typ = "SET"
    PROVE  SetValue(ActionNlAttr(a).val)
<1>1. a.kind = "SetTunnel"
  BY DEF IsAction, ActionNlAttr
<1> DEFINE P == (a.present \ FlagFields) \cup {f \in FlagFields : Field(a.attrs, f) # {}}
           m == TunnelNlAttrs(a.attrs, P)
           w == [n \in {"TUNNEL"} |-> m]
<1>2. ActionNlAttr(a).val = w
  BY <1>1 DEF ActionNlAttr
<1>3. AttrValue("TUNNEL", m)
  <2>1. a.attrs \subseteq TunnelFields \X Pos
    BY <1>1 DEF IsAction
  <2>2. \A f \in DOMAIN m : m[f] \subseteq {f} \X Pos
    BY <2>1 DEF TunnelNlAttrs, Field
  <2> HIDE DEF m
  <2> QED
    BY <2>2, TypesAssumption DEF AttrValue
<1>4. DOMAIN w = {"TUNNEL"} /\ w["TUNNEL"] = m
  OBVIOUS
<1> HIDE DEF w, m
<1> QED
  BY <1>2, <1>3, <1>4 DEF SetValue

LEMMA EmptyList == IsActions(<<>>)
<1>1. <<>> \in Seq({<<>>[i] : i \in DOMAIN <<>>}) /\ DOMAIN <<>> = {}
  BY EmptySeq
<1> QED
  BY <1>1 DEF IsActions, IsList

LEMMA CreateTyped ==
    ASSUME TypeOK, CreateFlow
    PROVE  TypeOK'
<1>1. CASE \E res \in {"error", "EINVAL"} : Fails(res)
  BY <1>1 DEF TypeOK, Fails
<1>2. CASE /\ ~Unserializable(spec.keys)
           /\ ~Refused(ActionAttrs(spec))
           /\ foreign' \subseteq foreign
           /\ listed' = {}
           /\ result' = "ok"
           /\ spec' = spec
           /\ \A f \in flows' :
                 \/ f \in flows
                 \/ f = [match |-> SpecMatch, actions |-> ActionAttrs(spec), by |-> spec,
                         key |-> [t \in Types |-> IF t \in DOMAIN KeyAttrs(spec.keys)
                                                  THEN Value(t, KeyAttrs(spec.keys)[t])
                                                  ELSE {}]]
  <2>1. /\ Accepts(KeyAttrs(spec.keys), ActionAttrs(spec))
        /\ IsFlowSpec(spec) /\ IsFlowKeys(spec.keys)
    BY <1>2 DEF Refused, TypeOK, IsFlowSpec
  <2>2. \A t \in Types : SpecMatch[t].key \subseteq Bits(t) /\ SpecMatch[t].mask \subseteq Bits(t)
    BY <1>2, <2>1, MatchTyped DEF SpecMatch
  <2>3. \A t \in DOMAIN KeyAttrs(spec.keys) : Value(t, KeyAttrs(spec.keys)[t]) \subseteq Bits(t)
    <3>1. DOMAIN KeyAttrs(spec.keys) = Sent(spec.keys)
      BY DEF KeyAttrs
    <3> QED
      BY <1>2, <2>1, <3>1, SentValues
  <2>4. \A f \in flows' : FlowTyped(f)
    BY <1>2, <2>1, <2>2, <2>3 DEF TypeOK, FlowTyped
  <2> QED
    BY <1>2, <2>4 DEF TypeOK
<1> QED
  BY <1>1, <1>2 DEF CreateFlow

LEMMA DeleteTyped ==
    ASSUME TypeOK, DeleteFlow
    PROVE  TypeOK'
<1>1. CASE \E res \in {"error", "EINVAL", "ENOENT"} : Fails(res)
  BY <1>1 DEF TypeOK, Fails
<1>2. CASE /\ flows' \subseteq flows /\ foreign' \subseteq foreign
           /\ listed' = {} /\ result' = "ok" /\ spec' = spec
  BY <1>2 DEF TypeOK
<1> QED
  BY <1>1, <1>2 DEF DeleteFlow

LEMMA ClearTyped ==
    ASSUME TypeOK, ClearFlow
    PROVE  TypeOK'
<1>0. IsActions(spec.actions)
  BY DEF TypeOK, IsFlowSpec
<1> DEFINE New(f) == [match |-> f.match, key |-> f.key, actions |-> ActionAttrs(spec),
                      by |-> [keys |-> f.by.keys, actions |-> spec.actions]]
           NewForeign(f) == [keys |-> f.keys, masks |-> f.masks, actions |-> ActionAttrs(spec)]
<1>1. CASE \E res \in {"error", "EINVAL", "ENOENT"} : Fails(res)
  BY <1>1 DEF TypeOK, Fails
<1>2. CASE /\ flows' = {IF f.match = SpecMatch THEN New(f) ELSE f : f \in flows}
           /\ foreign' = {IF ForeignMatch(f) = SpecMatch THEN NewForeign(f) ELSE f : f \in foreign}
           /\ listed' = {} /\ result' = "ok" /\ spec' = spec
           /\ ~Refused(ActionAttrs(spec))
  <2>1. \A f : FlowTyped(f) => FlowTyped(New(f))
    BY <1>0 DEF FlowTyped, IsFlowSpec
  <2>2. \A f : ForeignTyped(f) => ForeignTyped(NewForeign(f))
    <3> DEFINE acts == ActionAttrs(spec)
    <3>1. acts = [i \in DOMAIN spec.actions |-> ActionNlAttr(spec.actions[i])]
      BY DEF ActionAttrs
    <3>2. IsList(acts) /\ DOMAIN acts = DOMAIN spec.actions
      BY <1>0, <3>1, MapList DEF IsActions
    <3>3. \A i \in DOMAIN acts : ActionAccepted(acts[i])
      BY <1>2, AcceptedParts DEF Refused
    <3>4. \A i \in DOMAIN acts : acts[i].typ = "SET" => SetValue(acts[i].val)
      BY <1>0, <3>1, <3>2, <3>3, AcceptedSet DEF IsActions
    <3> HIDE DEF acts
    <3>5. \A f : NewForeign(f) = [keys |-> f.keys, masks |-> f.masks, actions |-> acts]
      BY DEF acts
    <3> QED
      BY <3>2, <3>4, <3>5 DEF ForeignTyped
  <2> HIDE DEF New, NewForeign
  <2>3. \A f \in flows' : FlowTyped(f)
    BY <1>2, <2>1 DEF TypeOK
  <2>4. \A f \in foreign' : ForeignTyped(f)
    BY <1>2, <2>2 DEF TypeOK
  <2> QED
    BY <1>2, <2>3, <2>4 DEF TypeOK
<1> QED
  BY <1>1, <1>2 DEF ClearFlow

LEMMA EnumerateTyped ==
    ASSUME IndInv, EnumerateFlows
    PROVE  TypeOK'
<1>1. ASSUME NEW extra \in SUBSET ShownTypes, NEW withKey \in SUBSET extra,
             NEW masked \in BOOLEAN, NEW linux43 \in BOOLEAN,
             NEW e \in OwnListed(extra, withKey, masked, linux43)
      PROVE  IsFlowSpec(e.spec)
  <2>1. PICK f \in flows : e.spec = ParseFlowSpec(ListFlow(f, extra, withKey, masked, linux43))
    BY DEF OwnListed
  <2>2. FlowTyped(f) /\ FlowBy(f)
    BY DEF IndInv, TypeOK, FlowsInv
  <2> QED
    BY <2>1, <2>2, ListedSpec
<1>2. ASSUME NEW e \in ForeignListed, e.spec # Error PROVE IsFlowSpec(e.spec)
  <2>1. PICK f \in foreign : e.spec = ParseFlowSpec(f)
    BY DEF ForeignListed
  <2> QED
    BY <1>2, <2>1, SpecParsed DEF IndInv, TypeOK
<1>3. \A e \in listed' : IsFlowSpec(e.spec)
  BY <1>1, <1>2 DEF EnumerateFlows
<1>4. result' \in {"none", "unparsable"} /\ UNCHANGED <<spec, flows, foreign>>
  BY DEF EnumerateFlows
<1> QED
  BY <1>3, <1>4 DEF IndInv, TypeOK

LEMMA AddTyped ==
    ASSUME TypeOK, AddInPort \/ AddEthernet \/ AddTunnel \/ AddBlob
    PROVE  TypeOK'
<1>1. ASSUME NEW t \in Types, NEW k, KnownKey(t, k), AddKey(t, k) PROVE TypeOK'
  <2>1. IsFlowKeys(spec'.keys) /\ spec'.actions = spec.actions
    BY <1>1, AddKeyTyped DEF AddKey, TypeOK, IsFlowSpec
  <2>2. IsFlowSpec(spec')
    BY <2>1 DEF TypeOK, IsFlowSpec
  <2> QED
    BY <1>1, <2>2 DEF AddKey, TypeOK
<1>2. CASE AddInPort
  BY <1>1, <1>2, InPortKnown, ClientAssumption DEF AddInPort, Types
<1>3. CASE AddEthernet
  <2>1. KnownKey("ETHERNET", NewEthernetFlowKey)
    BY BlobKnown, TypesAssumption DEF NewEthernetFlowKey, Types
  <2>2. PICK src \in EthOptions, dst \in EthOptions :
           AddKey("ETHERNET",
               SetMaskedEth(SetMaskedEth(NewEthernetFlowKey, "EthSrc", src), "EthDst", dst))
    BY <1>3 DEF AddEthernet
  <2>3. KnownKey("ETHERNET", SetMaskedEth(NewEthernetFlowKey, "EthSrc", src))
    BY <2>1, EthKnown, ClientAssumption
  <2>4. KnownKey("ETHERNET",
           SetMaskedEth(SetMaskedEth(NewEthernetFlowKey, "EthSrc", src), "EthDst", dst))
    BY <2>3, EthKnown, ClientAssumption
  <2> QED
    BY <1>1, <2>2, <2>4 DEF Types
<1>4. CASE AddTunnel
  BY <1>1, <1>4, TunnelKnown, ClientAssumption DEF AddTunnel, TunnelSettings, Types
<1>5. CASE AddBlob
  <2>1. PICK t \in BlobTypes : AddKey(t, NewBlobFlowKey(t))
    BY <1>5 DEF AddBlob
  <2>2. t \in Types /\ KnownKey(t, NewBlobFlowKey(t))
    BY BlobKnown, TypesAssumption DEF Types
  <2> QED
    BY <1>1, <2>1, <2>2
<1> QED
  BY <1>2, <1>3, <1>4, <1>5

LEMMA FlowsStep ==
    ASSUME IndInv, [Next]_vars
    PROVE  FlowsInv'
<1>1. CASE flows' \subseteq flows
  BY <1>1 DEF IndInv, FlowsInv
<1>2. CASE CreateFlow
  <2> DEFINE given == KeyAttrs(spec.keys)
             new == [match |-> SpecMatch, actions |-> ActionAttrs(spec), by |-> spec,
                     key |-> [t \in Types |-> IF t \in DOMAIN given THEN Value(t, given[t])
                                                                    ELSE {}]]
  <2>1. CASE flows' = flows
    BY <1>1, <2>1
  <2>2. CASE /\ ~Unserializable(spec.keys)
             /\ ~Refused(ActionAttrs(spec))
             /\ \A f \in flows' : f \in flows \/ f = new
    <3>1. /\ Accepts(given, <<>>)
          /\ \A i \in DOMAIN ActionAttrs(spec) : ActionAccepted(ActionAttrs(spec)[i])
      BY <2>2, AcceptedParts DEF Refused
    <3>2. FlowBy(new)
      BY <2>2, <3>1 DEF FlowBy, SpecMatch
    <3> HIDE DEF new
    <3> QED
      BY <2>2, <3>2 DEF IndInv, FlowsInv
  <2> QED
    BY <1>2, <2>1, <2>2 DEF CreateFlow, Fails
<1>3. CASE ClearFlow
  <2> DEFINE New(f) == [match |-> f.match, key |-> f.key, actions |-> ActionAttrs(spec),
                        by |-> [keys |-> f.by.keys, actions |-> spec.actions]]
  <2>1. CASE flows' = flows
    BY <1>1, <2>1
  <2>2. CASE /\ ~Refused(ActionAttrs(spec))
             /\ \A g \in flows' : g \in flows \/ \E f \in flows : g = New(f)
    <3>1. \A i \in DOMAIN ActionAttrs(spec) : ActionAccepted(ActionAttrs(spec)[i])
      BY <2>2, AcceptedParts DEF Refused
    <3>2. ASSUME NEW f, FlowBy(f) PROVE FlowBy(New(f))
      <4>1. ActionAttrs(New(f).by) = ActionAttrs(spec)
        BY DEF ActionAttrs
      <4>2. /\ New(f).by.keys = f.by.keys /\ New(f).match = f.match /\ New(f).key = f.key
            /\ New(f).actions = ActionAttrs(spec)
        OBVIOUS
      <4> HIDE DEF New
      <4> QED
        BY <3>1, <3>2, <4>1, <4>2 DEF FlowBy
    <3> HIDE DEF New
    <3> QED
      BY <2>2, <3>2 DEF IndInv, FlowsInv
  <2> QED
    BY <1>3, <2>1, <2>2 DEF ClearFlow, Fails
<1>4. CASE DeleteFlow
  BY <1>1, <1>4 DEF DeleteFlow, Fails
<1>5. CASE flows' = flows
  BY <1>1, <1>5
<1> QED
  BY <1>2, <1>3, <1>4, <1>5
     DEF Next, AddInPort, AddEthernet, AddTunnel, AddBlob, AddKey, AddActions, StartSpec,
         TakeListed, EnumerateFlows, InstallForeign, vars

LEMMA TypeStep ==
    ASSUME IndInv, [Next]_vars
    PROVE  TypeOK'
<1>0. TypeOK
  BY DEF IndInv
<1>1. CASE AddInPort \/ AddEthernet \/ AddTunnel \/ AddBlob
  BY <1>0, <1>1, AddTyped
<1>2. CASE AddActions
  <2>1. PICK as \in ActionLists : spec' = [keys |-> spec.keys, actions |-> <<>> \o as]
    BY <1>2 DEF AddActions
  <2>2. IsActions(as)
    BY ActionsAssumption
  <2>3. <<>> \o as = as
    BY <2>2, ConcatEmptySeq DEF IsActions, IsList
  <2>4. IsFlowSpec(spec')
    BY <1>0, <2>1, <2>2, <2>3 DEF TypeOK, IsFlowSpec
  <2> QED
    BY <1>0, <1>2, <2>4 DEF AddActions, TypeOK
<1>3. CASE StartSpec
  <2>1. IsFlowSpec(NewFlowSpec)
    BY EmptyList DEF NewFlowSpec, EmptyFn, IsFlowSpec, IsFlowKeys
  <2> QED
    BY <1>0, <1>3, <2>1 DEF StartSpec, TypeOK
<1>4. CASE TakeListed
  BY <1>0, <1>4 DEF TakeListed, TypeOK
<1>5. CASE CreateFlow
  BY <1>0, <1>5, CreateTyped
<1>6. CASE DeleteFlow
  BY <1>0, <1>6, DeleteTyped
<1>7. CASE ClearFlow
  BY <1>0, <1>7, ClearTyped
<1>8. CASE EnumerateFlows
  BY <1>8, EnumerateTyped
<1>9. CASE InstallForeign
  BY <1>0, <1>9, ForeignAssumption DEF InstallForeign, TypeOK
<1>10. CASE UNCHANGED vars
  BY <1>0, <1>10 DEF vars, TypeOK
<1> QED
  BY <1>1, <1>2, <1>3, <1>4, <1>5, <1>6, <1>7, <1>8, <1>9, <1>10 DEF Next

\* TypeOK, with every flow in the table being what became of the FlowSpec it was created
\* with, is inductive.
THEOREM Invariance == Spec => []IndInv
<1>1. Init => IndInv
  <2>1. IsFlowSpec(NewFlowSpec)
    BY EmptyList DEF NewFlowSpec, EmptyFn, IsFlowSpec, IsFlowKeys
  <2> QED
    BY <2>1 DEF Init, IndInv, TypeOK, FlowsInv
<1>2. IndInv /\ [Next]_vars => IndInv'
  BY TypeStep, FlowsStep DEF IndInv
<1> QED
  BY <1>1, <1>2, PTL DEF Spec

\* Everything the client holds is a FlowSpec, whatever the kernel lists: the parsers refuse
\* missing values and values of another size for the keys that have one, and what they make
\* of an action is an action.
THEOREM TypeCorrectness == Spec => []TypeOK
<1>1. IndInv => TypeOK
  BY DEF IndInv
<1> QED
  BY <1>1, Invariance, PTL

\* FlowKeys that Equals takes for equal name the same flow in the kernel, for all that the
\* client can build or be listed.
THEOREM EqualsIsSound == Spec => []EqualsSound
<1>1. TypeOK => EqualsSound
  BY EqualMatch DEF TypeOK, FlowTyped, IsFlowSpec, EqualsSound
<1> QED
  BY <1>1, TypeCorrectness, PTL

\* A flow matches exactly the packets its FlowSpec describes, if that has an Ethernet key
\* and does not ask for Df alone of the tunnel: whatever keys and masks the client uses.
THEOREM FlowsAreAsAsked == Spec => []AsAsked
<1>1. Init => AsAsked
  BY DEF Init, AsAsked
<1>2. TypeOK /\ AsAsked /\ [Next]_vars => AsAsked'
  <2> SUFFICES ASSUME TypeOK, AsAsked, [Next]_vars PROVE AsAsked'
    OBVIOUS
  <2>1. CASE flows' \subseteq flows
    BY <2>1 DEF AsAsked
  <2>2. CASE CreateFlow
    <3>1. CASE flows' = flows
      BY <2>1, <3>1
    <3>2. CASE /\ ~Unserializable(spec.keys)
               /\ ~Refused(ActionAttrs(spec))
               /\ \A f \in flows' :
                     \/ f \in flows
                     \/ f.match = SpecMatch /\ f.by = spec
      <4>1. Accepts(KeyAttrs(spec.keys), ActionAttrs(spec)) /\ IsFlowKeys(spec.keys)
        BY <3>2 DEF Refused, TypeOK, IsFlowSpec
      <4>2. Ordinary(spec.keys) => SpecMatch = Asked(spec.keys)
        BY <3>2, <4>1, MatchAsked DEF SpecMatch
      <4> QED
        BY <3>2, <4>2 DEF AsAsked
    <3> QED
      BY <2>2, <3>1, <3>2 DEF CreateFlow, Fails
  <2>3. CASE ClearFlow
    <3>1. CASE flows' = flows
      BY <2>1, <3>1
    <3>2. CASE \A f \in flows' : \E g \in flows : f.match = g.match /\ f.by.keys = g.by.keys
      BY <3>2 DEF AsAsked
    <3> QED
      BY <2>3, <3>1, <3>2 DEF ClearFlow, Fails
  <2>4. CASE DeleteFlow
    BY <2>1, <2>4 DEF DeleteFlow, Fails
  <2>5. CASE flows' = flows
    BY <2>1, <2>5
  <2> QED
    BY <2>2, <2>3, <2>4, <2>5
       DEF Next, AddInPort, AddEthernet, AddTunnel, AddBlob, AddKey, AddActions, StartSpec,
           TakeListed, EnumerateFlows, InstallForeign, vars
<1> QED
  BY <1>1, <1>2, TypeCorrectness, PTL DEF Spec

-----------------------------------------------------------------------------
(* What a client can do with the list of flows.                            *)

LEMMA ListsChange ==
    ASSUME [Next]_vars
    PROVE  EnumerateFlows \/ listed' \in {{}, listed}
BY DEF Next, AddInPort, AddEthernet, AddTunnel, AddBlob, AddKey, AddActions, StartSpec,
       TakeListed, CreateFlow, DeleteFlow, ClearFlow, Fails, InstallForeign, vars

\* The FlowSpec of a list names the flow that was listed and has its actions, for any key
\* types, masks and actions, and whatever else the kernel mentions: so DeleteFlow and
\* ClearFlow of what EnumerateFlows returned reach this flow.
THEOREM ListsAreReusable == Spec => []Reusable
<1>1. Init => Reusable
  BY DEF Init, Reusable
<1>2. IndInv /\ Reusable /\ [Next]_vars => Reusable'
  <2> SUFFICES ASSUME IndInv, Reusable, [Next]_vars PROVE Reusable'
    OBVIOUS
  <2>1. CASE listed' \in {{}, listed}
    BY <2>1 DEF Reusable
  <2>2. CASE EnumerateFlows
    <3>1. PICK extra \in SUBSET ShownTypes, masked \in BOOLEAN, linux43 \in BOOLEAN :
             \E withKey \in SUBSET extra :
                \A e \in listed' : e \in OwnListed(extra, withKey, masked, linux43) \cup ForeignListed
      BY <2>2 DEF EnumerateFlows
    <3>2. PICK withKey \in SUBSET extra :
             \A e \in listed' : e \in OwnListed(extra, withKey, masked, linux43) \cup ForeignListed
      BY <3>1
    <3>3. ASSUME NEW e \in OwnListed(extra, withKey, masked, linux43)
          PROVE  /\ ~Unserializable(e.spec.keys)
                 /\ Match(KeyAttrs(e.spec.keys), MaskAttrs(e.spec.keys)) = e.match
                 /\ ActionAttrs(e.spec) = e.actions
      <4>1. PICK f \in flows :
               /\ e.spec = ParseFlowSpec(ListFlow(f, extra, withKey, masked, linux43))
               /\ e.match = f.match /\ e.actions = f.actions
        BY DEF OwnListed
      <4>2. FlowTyped(f) /\ FlowBy(f) /\ IsFlowSpec(f.by)
        BY DEF IndInv, TypeOK, FlowsInv, FlowTyped
      <4> DEFINE p == ParseFlowSpec(ListFlow(f, extra, withKey, masked, linux43))
                 ks == ListedKeys(f, extra, withKey, masked)
      <4>3. p.keys = ks /\ ActionAttrs(p) = f.actions
        BY <4>2, ListedSpec
      <4>4. ~Unserializable(ks) /\ Match(KeyAttrs(ks), MaskAttrs(ks)) = f.match
        BY <4>2, ListedMatch
      <4> HIDE DEF p, ks
      <4> QED
        BY <4>1, <4>3, <4>4 DEF p
    <3>4. \A e \in ForeignListed : e.by = None
      BY DEF ForeignListed
    <3> QED
      BY <3>2, <3>3, <3>4 DEF Reusable
  <2> QED
    BY <2>1, <2>2, ListsChange
<1> QED
  BY <1>1, <1>2, Invariance, PTL DEF Spec

\* The bits of tunnel keys and of keys without a parser are under their masks, in all that
\* the client holds.
MaskInv ==
    /\ UnderMask(spec.keys)
    /\ \A f \in flows : UnderMask(f.by.keys)
    /\ \A f \in foreign : ParseFlowKeys(f.keys, f.masks) # Error
                              => UnderMask(ParseFlowKeys(f.keys, f.masks))
    /\ \A e \in listed : UnderMask(e.spec.keys)

LEMMA AddMasked ==
    ASSUME MaskInv, AddInPort \/ AddEthernet \/ AddTunnel \/ AddBlob
    PROVE  MaskInv'
<1>1. ASSUME NEW t, NEW k, AddKey(t, k), t = "TUNNEL" => k.key \subseteq k.mask,
             t \notin OtherTypes
      PROVE  MaskInv'
  <2> DEFINE new == [u \in DOMAIN spec.keys \cup {t} |-> IF u = t THEN k ELSE spec.keys[u]]
  <2>1. UnderMask(new)
    BY <1>1 DEF MaskInv, UnderMask
  <2>2. spec'.keys = new
    BY <1>1 DEF AddKey
  <2> HIDE DEF new
  <2> QED
    BY <1>1, <2>1, <2>2 DEF MaskInv, AddKey
<1>2. CASE AddTunnel
  <2>1. PICK s \in TunnelOptions : AddKey("TUNNEL", SetTunnelFields(s))
    BY <1>2 DEF AddTunnel
  <2>2. SetTunnelFields(s).key \subseteq SetTunnelFields(s).mask
    BY ClientAssumption DEF SetTunnelFields
  <2> QED
    BY <1>1, <2>1, <2>2, TypesAssumption
<1>3. CASE AddInPort
  BY <1>1, <1>3, TypesAssumption DEF AddInPort
<1>4. CASE AddEthernet
  BY <1>1, <1>4, TypesAssumption DEF AddEthernet
<1>5. CASE AddBlob
  BY <1>1, <1>5, TypesAssumption DEF AddBlob
<1> QED
  BY <1>2, <1>3, <1>4, <1>5

LEMMA EnumerateMasked ==
    ASSUME Comparable, IndInv, MaskInv, EnumerateFlows
    PROVE  MaskInv'
<1>1. ASSUME NEW extra \in SUBSET ShownTypes, NEW withKey \in SUBSET extra,
             NEW masked \in BOOLEAN, NEW linux43 \in BOOLEAN,
             NEW e \in OwnListed(extra, withKey, masked, linux43)
      PROVE  UnderMask(e.spec.keys)
  <2>1. PICK f \in flows : e.spec = ParseFlowSpec(ListFlow(f, extra, withKey, masked, linux43))
    BY DEF OwnListed
  <2>2. FlowTyped(f) /\ FlowBy(f) /\ IsFlowSpec(f.by) /\ UnderMask(f.by.keys)
    BY DEF IndInv, TypeOK, FlowsInv, FlowTyped, MaskInv
  <2> DEFINE p == ParseFlowSpec(ListFlow(f, extra, withKey, masked, linux43))
             ks == ListedKeys(f, extra, withKey, masked)
  <2>3. p.keys = ks
    BY <2>2, ListedSpec
  <2>4. UnderMask(ks)
    BY <2>2, ListedUnderMask DEF Comparable
  <2> HIDE DEF ks, p
  <2> QED
    BY <2>1, <2>3, <2>4 DEF p
<1>2. ASSUME NEW e \in ForeignListed, e.spec # Error PROVE UnderMask(e.spec.keys)
  <2>1. PICK f \in foreign : e.spec = ParseFlowSpec(f)
    BY DEF ForeignListed
  <2>2. /\ ParseFlowKeys(f.keys, f.masks) # Error
        /\ e.spec.keys = ParseFlowKeys(f.keys, f.masks)
    BY <1>2, <2>1 DEF ParseFlowSpec
  <2> QED
    BY <2>2 DEF MaskInv
<1>3. \A e \in listed' : UnderMask(e.spec.keys)
  BY <1>1, <1>2 DEF EnumerateFlows
<1> QED
  BY <1>3 DEF MaskInv, EnumerateFlows

LEMMA MaskStep ==
    ASSUME Comparable, IndInv, MaskInv, [Next]_vars
    PROVE  MaskInv'
<1>1. CASE AddInPort \/ AddEthernet \/ AddTunnel \/ AddBlob
  BY <1>1, AddMasked
<1>2. CASE EnumerateFlows
  BY <1>2, EnumerateMasked
<1>3. CASE AddActions \/ StartSpec \/ TakeListed \/ UNCHANGED vars
  BY <1>3 DEF MaskInv, AddActions, StartSpec, NewFlowSpec, EmptyFn, UnderMask, TakeListed, vars
<1>4. CASE InstallForeign
  <2>1. PICK f \in ForeignFlows : foreign' = foreign \cup {f}
    BY <1>4 DEF InstallForeign
  <2> QED
    BY <1>4, <2>1 DEF MaskInv, InstallForeign, Comparable
<1>5. CASE CreateFlow \/ DeleteFlow \/ ClearFlow
  <2>1. listed' = {} /\ spec' = spec
    BY <1>5 DEF CreateFlow, DeleteFlow, ClearFlow, Fails
  <2>2. ASSUME NEW g \in flows'
        PROVE  g.by = spec \/ \E f \in flows : g.by.keys = f.by.keys
    <3>1. CASE CreateFlow
      BY <3>1 DEF CreateFlow, Fails
    <3>2. CASE DeleteFlow
      BY <3>2 DEF DeleteFlow, Fails
    <3>3. CASE ClearFlow
      BY <3>3 DEF ClearFlow, Fails
    <3> QED
      BY <1>5, <3>1, <3>2, <3>3
  <2>3. ASSUME NEW g \in foreign'
        PROVE  \E f \in foreign : g.keys = f.keys /\ g.masks = f.masks
    <3>1. CASE CreateFlow
      BY <3>1 DEF CreateFlow, Fails
    <3>2. CASE DeleteFlow
      BY <3>2 DEF DeleteFlow, Fails
    <3>3. CASE ClearFlow
      BY <3>3 DEF ClearFlow, Fails
    <3> QED
      BY <1>5, <3>1, <3>2, <3>3
  <2> QED
    BY <2>1, <2>2, <2>3 DEF MaskInv
<1> QED
  BY <1>1, <1>2, <1>3, <1>4, <1>5 DEF Next

\* EnumerateFlows succeeds when all flows are this library's, and each flow is listed as a
\* FlowSpec that Equals the one it was created with, in both directions, for any key types,
\* masks and actions, whatever else the kernel mentions and also with the bug of Linux 4.3.
\* Keys that are compared bit by bit must not come with bits outside their masks from other
\* programs: Comparable.
THEOREM ListsAreEqual ==
    ASSUME Comparable
    PROVE  Spec => []RoundTrip
<1>1. Init => MaskInv /\ RoundTrip
  BY DEF Init, MaskInv, NewFlowSpec, EmptyFn, UnderMask, RoundTrip
<1>2. IndInv /\ MaskInv /\ [Next]_vars => MaskInv'
  BY MaskStep
<1>3. IndInv /\ MaskInv /\ RoundTrip /\ [Next]_vars => RoundTrip'
  <2> SUFFICES ASSUME IndInv, MaskInv, RoundTrip, [Next]_vars PROVE RoundTrip'
    OBVIOUS
  <2>1. CASE EnumerateFlows
    <3>1. PICK extra \in SUBSET ShownTypes, masked \in BOOLEAN, linux43 \in BOOLEAN :
             \E withKey \in SUBSET extra :
                LET all == OwnListed(extra, withKey, masked, linux43) \cup ForeignListed
                IN  /\ \A e \in listed' : e \in all
                    /\ result' = "unparsable" => \E e \in all : e.spec = Error
      BY <2>1 DEF EnumerateFlows
    <3>2. PICK withKey \in SUBSET extra :
             LET all == OwnListed(extra, withKey, masked, linux43) \cup ForeignListed
             IN  /\ \A e \in listed' : e \in all
                 /\ result' = "unparsable" => \E e \in all : e.spec = Error
      BY <3>1
    <3>3. ASSUME NEW e \in OwnListed(extra, withKey, masked, linux43)
          PROVE  /\ e.spec # Error
                 /\ Ordinary(e.by.keys) => SpecEquals(e.spec, e.by) /\ SpecEquals(e.by, e.spec)
      <4>1. PICK f \in flows :
               /\ e.spec = ParseFlowSpec(ListFlow(f, extra, withKey, masked, linux43))
               /\ e.by = f.by
        BY DEF OwnListed
      <4>2. FlowTyped(f) /\ FlowBy(f) /\ IsFlowSpec(f.by) /\ UnderMask(f.by.keys)
        BY DEF IndInv, TypeOK, FlowsInv, FlowTyped, MaskInv
      <4>3. /\ e.spec # Error
            /\ e.spec.keys = ListedKeys(f, extra, withKey, masked)
            /\ Len(e.spec.actions) = Len(f.by.actions)
            /\ DOMAIN e.spec.actions = DOMAIN f.by.actions
            /\ \A i \in DOMAIN e.spec.actions :
                  /\ ActionEquals(e.spec.actions[i], f.by.actions[i])
                  /\ ActionEquals(f.by.actions[i], e.spec.actions[i])
        BY <4>1, <4>2, ListedSpec
      <4>4. Ordinary(f.by.keys) => Equals(e.spec.keys, f.by.keys) /\ Equals(f.by.keys, e.spec.keys)
        BY <4>2, <4>3, ListedEquals DEF Comparable
      <4> QED
        BY <4>1, <4>3, <4>4 DEF SpecEquals
    <3>4. \A e \in ForeignListed : e.by = None
      BY DEF ForeignListed
    <3>5. foreign' = {} => ForeignListed = {}
      BY <2>1 DEF EnumerateFlows, ForeignListed
    <3> QED
      BY <3>2, <3>3, <3>4, <3>5 DEF RoundTrip
  <2>2. CASE listed' \in {{}, listed} /\ result' # "unparsable"
    BY <2>2 DEF RoundTrip
  <2>3. CASE UNCHANGED vars
    BY <2>3 DEF vars, RoundTrip
  <2>4. EnumerateFlows \/ result' # "unparsable" \/ UNCHANGED vars
    BY DEF Next, AddInPort, AddEthernet, AddTunnel, AddBlob, AddKey, AddActions, StartSpec,
           TakeListed, CreateFlow, DeleteFlow, ClearFlow, Fails, InstallForeign
  <2> QED
    BY <2>1, <2>2, <2>3, <2>4, ListsChange
<1> QED
  BY <1>1, <1>2, <1>3, Invariance, PTL DEF Spec

=============================================================================
