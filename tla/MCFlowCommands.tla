--------------------------- MODULE MCFlowCommands ---------------------------
(* Instances of FlowCommands for TLC.                                      *)
EXTENDS FlowCommands, MCFlows

CONSTANTS v1, v2

MCNumbers == {{0}, {1}}

Eth(form, addr, mask) == [form |-> form, addr |-> addr, mask |-> mask]
EthPlain == Eth("plain", {0}, {})

\* A field that is always sent, another one and a flag, each not given, zero or all ones:
\* all pairs of these occur.
Levels == <<"none", Zero, Full>>
Tunnels ==
    {LET level == [f \in {"Ipv4Dst", "TunnelId", "Df"} |->
                      CASE f = "Ipv4Dst" -> i [] f = "TunnelId" -> j [] f = "Df" -> ((i + j) % 3) + 1]
     IN  [f \in {g \in DOMAIN level : level[g] # 1} |-> Levels[level[f]]] :
            i, j \in 1 .. 3}

\* One option varied at a time, and some together.
MCOptions ==
    {NoOptions,
     [NoOptions EXCEPT !.ethSrc = EthPlain, !.inPort = v1],
     [NoOptions EXCEPT !.ethSrc = Eth("masked", {0, 1}, {1})],
     [NoOptions EXCEPT !.ethSrc = Eth("bad", {}, {}), !.ethDst = EthPlain],
     [NoOptions EXCEPT !.ethDst = Eth("bad", {}, {})],
     [NoOptions EXCEPT !.tunnel = [f \in {"Ipv4Src", "Tos", "Csum"} |-> IF f = "Csum" THEN {} ELSE {0}]],
     [NoOptions EXCEPT !.tunnel = [f \in {"Ttl"} |-> {0, Over}]],
     [NoOptions EXCEPT !.tunnel = [f \in {"TunnelId"} |-> BadText]],
     [NoOptions EXCEPT !.setTunnel = [f \in {"Ipv4Dst", "Ttl", "Df"} |-> IF f = "Ttl" THEN {0} ELSE {}],
                       !.output = <<v1, v2>>],
     [NoOptions EXCEPT !.setTunnel = [f \in {"TunnelId", "Ipv4Dst", "Ttl", "Csum"} |->
                                        IF f = "TunnelId" THEN {} ELSE Pos]],
     [NoOptions EXCEPT !.inPort = v1, !.output = <<v2, v1>>]}
    \cup {[NoOptions EXCEPT !.tunnel = tf] : tf \in Tunnels}

\* The mask as README.md gives it.
ColonOptions == {[NoOptions EXCEPT !.ethSrc = Eth("colon", {0}, {0}), !.ethDst = EthPlain]}

\* A flow of another program with a SET of another header, and one with an action
\* that the library does not know.
MCForeign ==
    ForeignSetMark \cup
    {Foreign({}, [t \in {"ETHERNET"} |-> {<<"EthDst", 0>>}], <<[typ |-> "OTHER", val |-> {}]>>)}
=============================================================================
