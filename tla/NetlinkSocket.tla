--------------------------- MODULE NetlinkSocket ---------------------------
(***************************************************************************)
(* Requests on one NetlinkSocket (odp/netlink.go): Request, RequestMulti   *)
(* and a bare send (Execute of odp/packet.go), and Receive under them.     *)
(*                                                                         *)
(* A socket serves one call at a time, but the messages of a call may      *)
(* outlive it: a dump whose consumer gave up goes on, and the error that   *)
(* answers an Execute is read by nobody. Sequence numbers tell the         *)
(* messages apart; the counter behind them is shared by all sockets.       *)
(*                                                                         *)
(* The kernel is external. It answers a request with one message, in a     *)
(* datagram of its own. It produces a dump piece by piece: one piece       *)
(* within Sendto and one more each time a datagram is read, the last one   *)
(* ending in NLMSG_DONE. While a dump runs, another one on the same socket *)
(* is refused (EBUSY).                                                     *)
(***************************************************************************)
EXTENDS Naturals, Sequences

CONSTANTS
    SeqMod,    \* number of sequence numbers, 2^32 in the code
    MaxItems,  \* bound: items of a dump
    MaxSends,  \* bound: sequence numbers taken
    MaxStray   \* bound: datagrams that are not answers, and failed calls

ASSUME SeqModAssumption == SeqMod \in Nat \ {0}
ASSUME BoundsAssumption == MaxItems \in Nat /\ MaxSends \in Nat /\ MaxStray \in Nat

VARIABLES
    queue,  \* kernel: datagrams queued on the socket, each a sequence of messages
    dump,   \* kernel: the dump in progress, or NoDump
    sent,   \* sequence numbers taken so far, by all sockets (nextSeqNo)
    pc,     \* "idle", "recv" (at s.recv in Receive), "msg" (a message is at hand)
    op,     \* the current or the last call
    rest,   \* messages of the datagram at hand that Receive has still to process
    got,    \* messages the call accepted: resp, or those the consumer took
    result, \* how the last call ended
    strays  \* history: stray datagrams and failures so far

vars == <<queue, dump, sent, pc, op, rest, got, result, strays>>

\* A message answers the call that took sequence number `call' (counted without
\* wrapping). "bad" is one that recv, nextNlMsg or the port id check rejects.
Kinds == {"item", "error", "done", "failed", "bad"}
Msg(call, kind, idx) == [call |-> call, kind |-> kind, idx |-> idx]
Message == [call : 0 .. MaxSends, kind : Kinds, idx : Nat]
Datagram == Seq(Message) \ {<<>>}
Dump == [call : 0 .. MaxSends, idx : Nat, total : Nat]
NoDump == [call |-> 0, idx |-> 0, total |-> 0]
Bad == Msg(0, "bad", 0)

\* The sequence number in the header of a message.
SeqNo(call) == call % SeqMod

\* kind, number, and, known to the kernel: was the socket clean before the call,
\* was the call refused, and how many items does the answer have.
Op == [kind : {"none", "Request", "RequestMulti", "Execute"}, call : 0 .. MaxSends,
       clean : BOOLEAN, refused : BOOLEAN, total : 0 .. MaxItems]
NoOp == [kind |-> "none", call |-> 0, clean |-> TRUE, refused |-> FALSE, total |-> 0]

TypeOK ==
    /\ queue \in Seq(Datagram)
    /\ dump \in Dump
    /\ sent \in 0 .. MaxSends
    /\ pc \in {"idle", "recv", "msg"}
    /\ op \in Op
    /\ rest \in Seq(Message) /\ (pc = "msg" <=> rest # <<>>)
    /\ got \in Seq(Message)
    /\ result \in {"none", "ok", "errno", "abort", "io"}
    /\ strays \in 0 .. MaxStray

Init ==
    /\ queue = <<>> /\ dump = NoDump
    /\ sent = 0
    /\ pc = "idle" /\ op = NoOp /\ rest = <<>> /\ got = <<>> /\ result = "none"
    /\ strays = 0

-----------------------------------------------------------------------------
(* The kernel.                                                             *)

Clean == queue = <<>> /\ dump = NoDump

\* Messages i + 1 .. j of a dump.
Items(call, i, j) == [k \in 1 .. j - i |-> Msg(call, "item", i + k)]

\* The pieces that may come next in dump d: some more items, or what is left of
\* them and NLMSG_DONE, whose error code may say that the dump failed.
\* Each with the dump that remains.
Pieces(d) ==
    {[datagram |-> Items(d.call, d.idx, j), dump |-> [d EXCEPT !.idx = j]] :
        j \in d.idx + 1 .. d.total}
    \cup
    {[datagram |-> Append(Items(d.call, d.idx, d.total), Msg(d.call, kind, 0)), dump |-> NoDump] :
        kind \in {"done", "failed"}}

\* A datagram q has been read: a dump in progress puts its next piece behind it.
Continue(q) ==
    IF dump = NoDump
      THEN queue' = q /\ UNCHANGED dump
      ELSE \E p \in Pieces(dump) : queue' = Append(q, p.datagram) /\ dump' = p.dump

-----------------------------------------------------------------------------
(* send.                                                                   *)

Stray == strays < MaxStray /\ strays' = strays + 1

\* nextSeqNo, by any socket of the process.
TakeSeqNo == sent < MaxSends /\ sent' = sent + 1

Call(kind, refused, total) ==
    op' = [kind |-> kind, call |-> sent + 1, clean |-> Clean, refused |-> refused, total |-> total]

\* Sendto fails: the call is over and the kernel has seen nothing.
SendFails(kind) ==
    /\ pc = "idle" /\ TakeSeqNo /\ Stray
    /\ Call(kind, FALSE, 0)
    /\ got' = <<>> /\ result' = "io"
    /\ UNCHANGED <<queue, dump, pc, rest>>

\* The kernel's answer to a request.
Answer(refused) == IF refused THEN Msg(sent + 1, "error", 0) ELSE Msg(sent + 1, "item", 1)

\* Request: the kernel answers with one message or refuses with an error.
Request ==
    /\ pc = "idle" /\ TakeSeqNo
    /\ \E refused \in BOOLEAN :
         /\ Call("Request", refused, 0)
         /\ queue' = Append(queue, <<Answer(refused)>>)
    /\ pc' = "recv" /\ got' = <<>> /\ result' = "none"
    /\ UNCHANGED <<dump, rest, strays>>

\* RequestMulti: the kernel starts a dump, or refuses; it must refuse while one
\* is in progress.
RequestMulti ==
    /\ pc = "idle" /\ TakeSeqNo
    /\ \/ /\ Call("RequestMulti", TRUE, 0)
          /\ queue' = Append(queue, <<Msg(sent + 1, "error", 0)>>)
          /\ UNCHANGED dump
       \/ /\ dump = NoDump
          /\ \E total \in 0 .. MaxItems :
               \E p \in Pieces([call |-> sent + 1, idx |-> 0, total |-> total]) :
                 /\ Call("RequestMulti", FALSE, total)
                 /\ queue' = Append(queue, p.datagram)
                 /\ dump' = p.dump
    /\ pc' = "recv" /\ got' = <<>> /\ result' = "none"
    /\ UNCHANGED <<rest, strays>>

\* Execute sends and does not wait; the kernel answers only to refuse.
Execute ==
    /\ pc = "idle" /\ TakeSeqNo
    /\ \E refused \in BOOLEAN :
         /\ Call("Execute", refused, 0)
         /\ queue' = IF refused THEN Append(queue, <<Msg(sent + 1, "error", 0)>>) ELSE queue
    /\ got' = <<>> /\ result' = "ok"
    /\ UNCHANGED <<dump, pc, rest, strays>>

\* Another socket takes a sequence number.
OtherSend ==
    /\ TakeSeqNo
    /\ UNCHANGED <<queue, dump, pc, op, rest, got, result, strays>>

\* Somebody else's datagram arrives.
StrayDatagram ==
    /\ Stray
    /\ queue' = Append(queue, <<Bad>>)
    /\ UNCHANGED <<dump, sent, pc, op, rest, got, result>>

-----------------------------------------------------------------------------
(* Receive.                                                                *)

\* s.recv: the next datagram.
Recv ==
    /\ pc = "recv" /\ queue # <<>>
    /\ rest' = Head(queue)
    /\ Continue(Tail(queue))
    /\ pc' = "msg"
    /\ UNCHANGED <<sent, op, got, result, strays>>

\* Recvfrom fails.
RecvFails ==
    /\ pc = "recv" /\ Stray
    /\ pc' = "idle" /\ result' = "io"
    /\ UNCHANGED <<queue, dump, sent, op, rest, got>>

\* Mutant: only the first message of a datagram is processed.
ProceedToDatagram == rest' = <<>> /\ pc' = "recv" /\ UNCHANGED result

\* The callback returned (false, nil): the next message, or the next datagram.
Proceed ==
    /\ rest' = Tail(rest)
    /\ pc' = IF Len(rest) = 1 THEN "recv" ELSE "msg"
    /\ UNCHANGED result

\* Mutant: the rest of the datagram stays for the next call.
ReturnKeepsRest(r) == pc' = "idle" /\ rest' = Tail(rest) /\ result' = r

\* The callback returned (true, _) or an error: Receive returns, and with it the
\* call. What is left of the datagram is dropped.
Return(r) == pc' = "idle" /\ rest' = <<>> /\ result' = r

Take(m) == got' = Append(got, m)

\* Mutant: every message is taken for an answer.
RelevantAlways(m) == TRUE

\* checkResponseHeader: is the message an answer to this call?
Relevant(m) == SeqNo(m.call) = SeqNo(op.call)

\* Mutant: the error code is not looked at.
RequestMsgUnchecked(m) ==
    \/ m.kind = "bad" /\ Return("io") /\ UNCHANGED got
    \/ m.kind # "bad" /\ ~Relevant(m) /\ Return("ok") /\ UNCHANGED got
    \/ m.kind # "bad" /\ Relevant(m) /\ Return("ok") /\ Take(m)

\* The callback of Request ends the call with the first message, relevant or not.
RequestMsg(m) ==
    \/ m.kind = "bad" /\ Return("io") /\ UNCHANGED got
    \/ m.kind # "bad" /\ ~Relevant(m) /\ Return("ok") /\ UNCHANGED got
    \/ m.kind = "error" /\ Relevant(m) /\ Return("errno") /\ UNCHANGED got
    \/ m.kind \notin {"bad", "error"} /\ Relevant(m) /\ Return("ok") /\ Take(m)

\* The part of RequestMultiMsg the mutants below leave alone.
ItemOrBad(m) ==
    \/ m.kind = "bad" /\ Return("io") /\ UNCHANGED got
    \/ m.kind = "item" /\ ~Relevant(m) /\ Proceed /\ UNCHANGED got
    \/ m.kind = "item" /\ Relevant(m) /\ Proceed /\ Take(m)
    \/ m.kind = "item" /\ Relevant(m) /\ Return("abort") /\ UNCHANGED got

\* Mutant: NLMSG_DONE ends the call whatever its sequence number.
RequestMultiMsgAnyDone(m) ==
    \/ ItemOrBad(m)
    \/ m.kind = "error" /\ ~Relevant(m) /\ Proceed /\ UNCHANGED got
    \/ m.kind = "error" /\ Relevant(m) /\ Return("errno") /\ UNCHANGED got
    \/ m.kind \in {"done", "failed"} /\ Return("ok") /\ UNCHANGED got

\* Mutant: a refusal is skipped like an irrelevant message.
RequestMultiMsgNoError(m) ==
    \/ ItemOrBad(m)
    \/ m.kind = "error" /\ Proceed /\ UNCHANGED got
    \/ m.kind \in {"done", "failed"} /\ ~Relevant(m) /\ Proceed /\ UNCHANGED got
    \/ m.kind \in {"done", "failed"} /\ Relevant(m) /\ Return("ok") /\ UNCHANGED got

\* Mutant: an error of the consumer is kept, but does not end the call.
RequestMultiMsgGoOn(m) ==
    \/ m.kind = "bad" /\ Return("io") /\ UNCHANGED got
    \/ m.kind # "bad" /\ ~Relevant(m) /\ Proceed /\ UNCHANGED got
    \/ m.kind = "error" /\ Relevant(m) /\ Return("errno") /\ UNCHANGED got
    \/ m.kind \in {"done", "failed"} /\ Relevant(m) /\ UNCHANGED got
       /\ Return(IF result = "abort" THEN "abort" ELSE IF m.kind = "done" THEN "ok" ELSE "errno")
    \/ m.kind = "item" /\ Relevant(m) /\ Proceed /\ Take(m)
    \/ /\ m.kind = "item" /\ Relevant(m) /\ UNCHANGED got
       /\ rest' = Tail(rest) /\ pc' = (IF Len(rest) = 1 THEN "recv" ELSE "msg") /\ result' = "abort"

\* The callback of RequestMulti skips what is irrelevant; the consumer may fail.
RequestMultiMsg(m) ==
    \/ m.kind = "bad" /\ Return("io") /\ UNCHANGED got
    \/ m.kind # "bad" /\ ~Relevant(m) /\ Proceed /\ UNCHANGED got
    \/ m.kind = "error" /\ Relevant(m) /\ Return("errno") /\ UNCHANGED got
    \/ m.kind = "done" /\ Relevant(m) /\ Return("ok") /\ UNCHANGED got
    \/ m.kind = "failed" /\ Relevant(m) /\ Return("errno") /\ UNCHANGED got
    \/ m.kind = "item" /\ Relevant(m) /\ Proceed /\ Take(m)
    \/ m.kind = "item" /\ Relevant(m) /\ Return("abort") /\ UNCHANGED got

Process ==
    /\ pc = "msg"
    /\ \/ op.kind = "Request" /\ RequestMsg(Head(rest))
       \/ op.kind = "RequestMulti" /\ RequestMultiMsg(Head(rest))
    /\ UNCHANGED <<queue, dump, sent, op, strays>>

Next ==
    \/ Request \/ RequestMulti \/ Execute \/ OtherSend \/ StrayDatagram
    \/ \E kind \in {"Request", "RequestMulti", "Execute"} : SendFails(kind)
    \/ Recv \/ RecvFails \/ Process

Spec == Init /\ [][Next]_vars

\* A goroutine that can take a step takes it.
FairSpec == Spec /\ WF_vars(Recv) /\ WF_vars(Process)

-----------------------------------------------------------------------------
(* Properties.                                                             *)

\* netlink.go:298-308: whatever is left over from earlier calls, a call accepts
\* only messages that answer it. (A leftover that is a whole turn of the counter
\* old is the exception, so SeqMod must exceed MaxSends.)
OwnReply == \A k \in 1 .. Len(got) : got[k].call = op.call

\* netlink.go:629-653: a RequestMulti that ends without error has given its
\* consumer every item of its dump, once and in order.
DumpComplete ==
    op.kind = "RequestMulti" /\ result = "ok"
        => ~op.refused /\ got = Items(op.call, 0, op.total)

\* netlink.go:573-603: Receive is never left waiting for a message that does not
\* come.
NeverBlocks == pc = "recv" => queue # <<>>

\* netlink.go:298-308: a RequestMulti that ends without error has disposed of every
\* leftover; only strays can be queued after it.
Resync ==
    op.kind = "RequestMulti" /\ result = "ok"
        => dump = NoDump /\ \A k \in 1 .. Len(queue) : queue[k] = <<Bad>>

\* netlink.go:610-625: on a clean socket, a Request that ends without error has
\* its own answer.
RequestSound ==
    op.kind = "Request" /\ result = "ok" /\ op.clean
        => ~op.refused /\ got = Items(op.call, 0, 1)

\* The call the caller sees, and the answers it was handed.
Promise == INSTANCE Requests WITH
    call <- op,
    given <- [k \in 1 .. Len(got) |-> [call |-> got[k].call, item |-> got[k].idx]],
    outcome <- result

\* netlink.go:573-672: whatever datagrams, leftovers and strays are queued, a call behaves as
\* Requests says: it hands over the items of its own answer, each once and in order, ends well
\* only after the last of them, ends with an error code only if the kernel gave one in answer
\* to this call, hands over nothing after its end, and does end.
Implements == Promise!Spec

\* netlink.go:299-303, "we should discard them": so of Request, on any socket.
RequestAnswered == op.kind = "Request" /\ result = "ok" => got = Items(op.call, 0, 1)
=============================================================================
