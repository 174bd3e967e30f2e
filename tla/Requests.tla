------------------------------ MODULE Requests ------------------------------
(***************************************************************************)
(* What Request, RequestMulti and Execute (odp/netlink.go, odp/packet.go)  *)
(* promise their callers, without sockets, datagrams, sequence numbers or  *)
(* leftovers: a call is made, answers are handed over in order, the call   *)
(* ends. NetlinkSocket implements it.                                      *)
(***************************************************************************)
EXTENDS Naturals, Sequences

VARIABLES
    call,   \* the current or last call: its number, its kind, how the kernel answers it
            \* (refused, or total items), and whether the socket had leftovers (clean)
    given,  \* the answers handed to the caller, as numbers of a call and an item
    outcome \* how the call ended, or "none"

vars == <<call, given, outcome>>

NoCall == [kind |-> "none", call |-> 0, clean |-> TRUE, refused |-> FALSE, total |-> 0]

Init == call = NoCall /\ given = <<>> /\ outcome = "none"

Active == call.kind # "none" /\ outcome = "none"

\* A call with a number of its own. Execute is over when it is sent, and so is a call
\* that cannot be sent.
Begin ==
    /\ ~Active
    /\ call'.call > call.call /\ call'.kind \in {"Request", "RequestMulti", "Execute"}
    /\ call'.refused => call'.total = 0
    /\ given' = <<>>
    /\ outcome' \in IF call'.kind = "Execute" THEN {"ok", "io"} ELSE {"none", "io"}

Hand == given' = Append(given, [call |-> call.call, item |-> Len(given) + 1])

\* RequestMulti hands over the next item of its own answer.
Item ==
    /\ Active /\ call.kind = "RequestMulti" /\ ~call.refused
    /\ Len(given) < call.total
    /\ Hand
    /\ UNCHANGED <<call, outcome>>

\* Request hands over its one answer, and is over.
Answer ==
    /\ Active /\ call.kind = "Request" /\ ~call.refused
    /\ Hand
    /\ outcome' = "ok"
    /\ UNCHANGED call

End(o) == outcome' = o /\ UNCHANGED <<call, given>>

\* RequestMulti ends well only after the last item.
Complete ==
    /\ Active /\ call.kind = "RequestMulti" /\ ~call.refused
    /\ Len(given) = call.total
    /\ End("ok")

\* The kernel refused, or its dump failed.
Errno ==
    /\ Active
    /\ call.refused \/ (call.kind = "RequestMulti" /\ Len(given) = call.total)
    /\ End("errno")

\* The consumer gave up with an item at hand.
Abort ==
    /\ Active /\ call.kind = "RequestMulti" /\ ~call.refused
    /\ Len(given) < call.total
    /\ End("abort")

\* The socket failed, or somebody else's datagram was found on it.
Fail == Active /\ End("io")

\* A leftover is taken for the answer: Request ends well without one.
NoAnswer == Active /\ call.kind = "Request" /\ ~call.clean /\ End("ok")

Next == Begin \/ Item \/ Answer \/ Complete \/ Errno \/ Abort \/ Fail \/ NoAnswer

\* What a call may do.
Safety == Init /\ [][Next]_vars

\* Every call ends.
Spec == Safety /\ []<>(~Active)
=============================================================================
