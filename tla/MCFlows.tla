------------------------------ MODULE MCFlows ------------------------------
(* Instances of Flows for TLC.                                             *)
EXTENDS Flows, TLC

Full == Pos
Zero == {}

\* An address masked partly, with a value under the zeros of the mask.
MCEthOptions == {[addr |-> {0, 1}, mask |-> {1}]}
ExactEthOptions == {[addr |-> {0}, mask |-> Full]}

\* Tunnel settings: all combinations of a few fields.
Settings(fields) == UNION {[F -> {Zero, Full}] : F \in SUBSET fields}
MCTunnelOptions == Settings({"TunnelId", "Ipv4Dst", "Df"})
FewTunnelOptions ==
    {[f \in {"TunnelId", "Csum"} |-> IF f = "Csum" THEN Zero ELSE Full],
     [f \in {"TunnelId", "Df"} |-> IF f = "Df" THEN Full ELSE Zero]}

MCPorts == {Full}
NoActions == {<<>>}
OutputOnly == {<<NewOutputAction(1)>>}

\* Flows of other programs: with a key type that is not known, with and without a mask,
\* and with a mask only; with a SET of another header than the tunnel's.
Foreign(types, masks, actions) ==
    [keys  |-> [t \in types \cup {"ETHERNET"} |-> {<<"EthSrc", 0>>} \cap Bits(t)],
     masks |-> masks, actions |-> actions]
ForeignUnknownKeys ==
    {Foreign(OtherTypes, NoMasks, <<>>),
     Foreign(OtherTypes, [t \in OtherTypes \cup {"ETHERNET"} |-> Bits(t)], <<>>),
     Foreign(OtherTypes, [t \in {"ETHERNET"} |-> Bits(t)], <<>>),
     Foreign({}, [t \in OtherTypes \cup {"ETHERNET"} |->
                     IF t = "ETHERNET" THEN Bits(t) ELSE {}], <<>>)}
ForeignSet(name) ==
    {Foreign({}, [t \in {"ETHERNET"} |-> Bits(t)],
             <<[typ |-> "SET", val |-> [n \in {name} |-> {name} \X Pos]]>>)}
ForeignSetMark == ForeignSet("SKB_MARK")

\* What the theorem about RoundTrip supposes of the foreign flows holds in every instance.
ASSUME MCComparable == Comparable
=============================================================================
