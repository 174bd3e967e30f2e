------------------------ MODULE NetlinkSocketProofs ------------------------
(***************************************************************************)
(* Proofs about NetlinkSocket, for dumps of any length and any number of   *)
(* calls, leftovers and strays. What tells the messages of a call from     *)
(* leftovers is its number, so all but the types needs that the sequence   *)
(* numbers taken have not wrapped. The rest is order: what is at hand,     *)
(* what is queued and what the kernel has yet to produce form a chain that *)
(* leads from the last message of the answer the call has processed to its *)
(* end (Chained).                                                          *)
(***************************************************************************)
EXTENDS NetlinkSocket, SequenceTheorems, TLAPS

USE SeqModAssumption, BoundsAssumption

\* Sequence numbers that have not wrapped tell calls apart.
LEMMA SeqNoInjective ==
    ASSUME MaxSends < SeqMod, NEW a \in 0 .. MaxSends, NEW b \in 0 .. MaxSends, SeqNo(a) = SeqNo(b)
    PROVE  a = b
<1>1. \A n \in 0 .. MaxSends : n % SeqMod = n
  OBVIOUS
<1> QED
  BY <1>1 DEF SeqNo

\* A run of items is a sequence of messages.
LEMMA ItemsType ==
    ASSUME NEW c \in 0 .. MaxSends, NEW i \in Nat, NEW j \in Nat, i <= j
    PROVE  Items(c, i, j) \in Seq(Message) /\ Len(Items(c, i, j)) = j - i
<1>1. \A k \in 1 .. j - i : Msg(c, "item", i + k) \in Message
  BY DEF Msg, Message, Kinds
<1>2. j - i \in Nat
  OBVIOUS
<1>3. Items(c, i, j) \in [1 .. j - i -> Message]
  BY <1>1 DEF Items
<1> QED
  BY <1>2, <1>3, SeqDef DEF Items

\* A dump that has not delivered more than it has.
DumpOK(d) == d \in Dump /\ d.idx <= d.total

\* Every piece of a dump is a datagram, and leaves a dump.
LEMMA PieceType ==
    ASSUME NEW d, DumpOK(d), NEW p \in Pieces(d)
    PROVE  p.datagram \in Datagram /\ DumpOK(p.dump)
<1>1. d.call \in 0 .. MaxSends /\ d.idx \in Nat /\ d.total \in Nat /\ d.idx <= d.total
  BY DEF DumpOK, Dump
<1>2. CASE \E j \in d.idx + 1 .. d.total :
             p = [datagram |-> Items(d.call, d.idx, j), dump |-> [d EXCEPT !.idx = j]]
  <2>1. PICK j \in d.idx + 1 .. d.total :
             p = [datagram |-> Items(d.call, d.idx, j), dump |-> [d EXCEPT !.idx = j]]
    BY <1>2
  <2>2. j \in Nat /\ d.idx <= j /\ j - d.idx # 0
    BY <1>1
  <2>3. Items(d.call, d.idx, j) \in Seq(Message) /\ Len(Items(d.call, d.idx, j)) # 0
    BY <1>1, <2>2, ItemsType
  <2>4. Items(d.call, d.idx, j) # <<>>
    BY <2>3
  <2>5. DumpOK([d EXCEPT !.idx = j])
    BY <1>1, <2>2 DEF DumpOK, Dump
  <2> QED
    BY <2>1, <2>3, <2>4, <2>5 DEF Datagram
<1>3. CASE \E kind \in {"done", "failed"} :
             p = [datagram |-> Append(Items(d.call, d.idx, d.total), Msg(d.call, kind, 0)), dump |-> NoDump]
  <2>1. PICK kind \in {"done", "failed"} :
             p = [datagram |-> Append(Items(d.call, d.idx, d.total), Msg(d.call, kind, 0)), dump |-> NoDump]
    BY <1>3
  <2>2. Items(d.call, d.idx, d.total) \in Seq(Message)
    BY <1>1, ItemsType
  <2>3. Msg(d.call, kind, 0) \in Message
    BY <1>1 DEF Msg, Message, Kinds
  <2>4. Append(Items(d.call, d.idx, d.total), Msg(d.call, kind, 0)) \in Datagram
    BY <2>2, <2>3, AppendProperties DEF Datagram
  <2>5. DumpOK(NoDump)
    BY DEF DumpOK, NoDump, Dump
  <2> QED
    BY <2>1, <2>4, <2>5
<1> QED
  BY <1>2, <1>3 DEF Pieces

TypeInv == TypeOK /\ DumpOK(dump)

\* Taking a message leaves a sequence of messages.
LEMMA RestType ==
    ASSUME TypeOK, pc = "msg"
    PROVE  /\ Head(rest) \in Message /\ Tail(rest) \in Seq(Message)
           /\ Tail(rest) = <<>> <=> Len(rest) = 1
<1>1. rest \in Seq(Message) /\ rest # <<>>
  BY DEF TypeOK
<1>2. Head(rest) \in Message /\ Tail(rest) \in Seq(Message) /\ Len(Tail(rest)) = Len(rest) - 1
  BY <1>1, HeadTailProperties
<1>3. Len(rest) \in Nat
  BY <1>1
<1>4. Tail(rest) = <<>> <=> Len(Tail(rest)) = 0
  BY <1>2, EmptySeq
<1> QED
  BY <1>2, <1>3, <1>4

\* The record of a call that takes the next sequence number.
LEMMA CallType ==
    ASSUME TypeOK, TakeSeqNo, NEW kind \in {"Request", "RequestMulti", "Execute"},
           NEW refused \in BOOLEAN, NEW total \in 0 .. MaxItems, Call(kind, refused, total)
    PROVE  op' \in Op /\ sent + 1 \in 0 .. MaxSends /\ sent' = sent + 1
<1>1. sent + 1 \in 0 .. MaxSends /\ sent' = sent + 1
  BY DEF TypeOK, TakeSeqNo
<1>2. Clean \in BOOLEAN
  BY DEF Clean
<1> QED
  BY <1>1, <1>2 DEF Call, Op

\* A single answer is a datagram.
LEMMA AnswerType ==
    ASSUME NEW c \in 0 .. MaxSends, NEW kind \in Kinds, NEW idx \in Nat
    PROVE  <<Msg(c, kind, idx)>> \in Datagram
<1>1. Msg(c, kind, idx) \in Message
  BY DEF Msg, Message
<1> HIDE DEF Msg
<1> QED
  BY <1>1 DEF Datagram

\* Every step keeps the types.
LEMMA TypeStep == TypeInv /\ [Next]_vars => TypeInv'
<1> SUFFICES ASSUME TypeInv, [Next]_vars PROVE TypeInv'
  OBVIOUS
<1> USE DEF TypeInv
<1>1. ASSUME NEW kind \in {"Request", "RequestMulti", "Execute"}, SendFails(kind) PROVE TypeInv'
  <2>1. 0 \in 0 .. MaxItems /\ FALSE \in BOOLEAN
    OBVIOUS
  <2>2. op' \in Op /\ sent' \in 0 .. MaxSends
    BY <1>1, <2>1, CallType DEF SendFails
  <2> QED
    BY <1>1, <2>2 DEF SendFails, Stray, TypeOK
<1>2. CASE Request
  <2>1. PICK refused \in BOOLEAN :
          /\ Call("Request", refused, 0)
          /\ queue' = Append(queue, <<Answer(refused)>>)
    BY <1>2 DEF Request
  <2>2. op' \in Op /\ sent' \in 0 .. MaxSends /\ sent + 1 \in 0 .. MaxSends
    BY <1>2, <2>1, CallType DEF Request
  <2>3. <<Answer(refused)>> \in Datagram
    BY <2>2, AnswerType DEF Kinds, Answer
  <2>4. queue' \in Seq(Datagram)
    BY <2>1, <2>3, AppendProperties DEF TypeOK
  <2> QED
    BY <1>2, <2>2, <2>4 DEF Request, TypeOK
<1>3. CASE RequestMulti
  <2>1. TakeSeqNo /\ pc' = "recv" /\ got' = <<>> /\ result' = "none" /\ rest' = rest /\ strays' = strays
        /\ pc = "idle"
    BY <1>3 DEF RequestMulti
  <2>2. sent + 1 \in 0 .. MaxSends /\ sent' \in 0 .. MaxSends
    BY <2>1 DEF TakeSeqNo, TypeOK
  <2>3. op' \in Op /\ queue' \in Seq(Datagram) /\ DumpOK(dump')
    <3>1. CASE Call("RequestMulti", TRUE, 0) /\ queue' = Append(queue, <<Msg(sent + 1, "error", 0)>>) /\ UNCHANGED dump
      <4>1. 0 \in 0 .. MaxItems /\ TRUE \in BOOLEAN
        OBVIOUS
      <4>2. op' \in Op
        BY <2>1, <3>1, <4>1, CallType
      <4>3. <<Msg(sent + 1, "error", 0)>> \in Datagram
        BY <2>2, AnswerType DEF Kinds
      <4> QED
        BY <3>1, <4>2, <4>3, AppendProperties DEF TypeOK
    <3>2. ASSUME NEW total \in 0 .. MaxItems,
                 NEW p \in Pieces([call |-> sent + 1, idx |-> 0, total |-> total]),
                 Call("RequestMulti", FALSE, total), queue' = Append(queue, p.datagram), dump' = p.dump
          PROVE  op' \in Op /\ queue' \in Seq(Datagram) /\ DumpOK(dump')
      <4>1. op' \in Op
        BY <2>1, <3>2, CallType
      <4>2. DumpOK([call |-> sent + 1, idx |-> 0, total |-> total])
        BY <2>2 DEF DumpOK, Dump
      <4>3. p.datagram \in Datagram /\ DumpOK(p.dump)
        BY <4>2, PieceType
      <4> QED
        BY <3>2, <4>1, <4>3, AppendProperties DEF TypeOK
    <3> QED
      BY <1>3, <3>1, <3>2 DEF RequestMulti
  <2> QED
    BY <2>1, <2>2, <2>3 DEF TypeOK, DumpOK
<1>4. CASE Execute
  <2>1. PICK refused \in BOOLEAN :
          /\ Call("Execute", refused, 0)
          /\ queue' = IF refused THEN Append(queue, <<Msg(sent + 1, "error", 0)>>) ELSE queue
    BY <1>4 DEF Execute
  <2>2. op' \in Op /\ sent' \in 0 .. MaxSends /\ sent + 1 \in 0 .. MaxSends
    BY <1>4, <2>1, CallType DEF Execute
  <2>3. <<Msg(sent + 1, "error", 0)>> \in Datagram
    BY <2>2, AnswerType DEF Kinds
  <2>4. queue' \in Seq(Datagram)
    BY <2>1, <2>3, AppendProperties DEF TypeOK
  <2> QED
    BY <1>4, <2>2, <2>4 DEF Execute, TypeOK
<1>5. CASE OtherSend
  BY <1>5 DEF OtherSend, TakeSeqNo, TypeOK
<1>6. CASE StrayDatagram
  <2>1. <<Bad>> \in Datagram
    BY AnswerType DEF Bad, Kinds
  <2>2. queue' \in Seq(Datagram)
    BY <1>6, <2>1, AppendProperties DEF StrayDatagram, TypeOK
  <2> QED
    BY <1>6, <2>2 DEF StrayDatagram, Stray, TypeOK
<1>7. CASE Recv
  <2>1. Head(queue) \in Datagram /\ Tail(queue) \in Seq(Datagram)
    BY <1>7, HeadTailProperties DEF Recv, TypeOK
  <2>2. queue' \in Seq(Datagram) /\ DumpOK(dump')
    <3>1. CASE dump = NoDump
      BY <1>7, <2>1, <3>1 DEF Recv, Continue
    <3>2. CASE dump # NoDump
      <4>1. PICK p \in Pieces(dump) : queue' = Append(Tail(queue), p.datagram) /\ dump' = p.dump
        BY <1>7, <3>2 DEF Recv, Continue
      <4>2. p.datagram \in Datagram /\ DumpOK(p.dump)
        BY PieceType
      <4> QED
        BY <2>1, <4>1, <4>2, AppendProperties
    <3> QED
      BY <3>1, <3>2
  <2>3. rest' \in Seq(Message) /\ rest' # <<>>
    BY <1>7, <2>1 DEF Recv, Datagram
  <2> QED
    BY <1>7, <2>2, <2>3 DEF Recv, TypeOK, DumpOK
<1>8. CASE RecvFails
  BY <1>8 DEF RecvFails, Stray, TypeOK
<1>9. CASE Process
  <2>1. Head(rest) \in Message /\ Tail(rest) \in Seq(Message) /\ (Tail(rest) = <<>> <=> Len(rest) = 1)
    BY <1>9, RestType DEF Process
  <2>2. got' = got \/ got' = Append(got, Head(rest))
    BY <1>9 DEF Process, RequestMsg, RequestMultiMsg, Take
  <2>3. got' \in Seq(Message)
    <3>1. got \in Seq(Message)
      BY DEF TypeOK
    <3>2. Append(got, Head(rest)) \in Seq(Message)
      BY <2>1, <3>1, AppendProperties
    <3> QED
      BY <2>2, <3>1, <3>2
  <2>4. Proceed \/ Return("io") \/ Return("ok") \/ Return("errno") \/ Return("abort")
    BY <1>9 DEF Process, RequestMsg, RequestMultiMsg
  <2>5. /\ rest' \in Seq(Message) /\ pc' \in {"idle", "recv", "msg"} /\ (pc' = "msg" <=> rest' # <<>>)
        /\ result' \in {"none", "ok", "errno", "abort", "io"}
    <3>1. CASE Proceed
      BY <2>1, <3>1 DEF Proceed, TypeOK
    <3>2. CASE Return("io") \/ Return("ok") \/ Return("errno") \/ Return("abort")
      <4>1. rest' = <<>> /\ pc' = "idle" /\ result' \in {"none", "ok", "errno", "abort", "io"}
        BY <3>2 DEF Return
      <4>2. rest' \in Seq(Message)
        BY <4>1
      <4> QED
        BY <4>1, <4>2
    <3> QED
      BY <2>4, <3>1, <3>2
  <2> QED
    BY <1>9, <2>3, <2>5 DEF Process, TypeOK
<1>10. CASE UNCHANGED vars
  BY <1>10 DEF vars, TypeOK
<1> QED
  BY <1>1, <1>2, <1>3, <1>4, <1>5, <1>6, <1>7, <1>8, <1>9, <1>10 DEF Next

\* Every variable keeps its type: in particular every queued message, leftover or
\* not, carries the number of a call that was made.
THEOREM TypeCorrectness == Spec => []TypeOK
<1>1. Init => TypeInv
  BY DEF Init, TypeInv, TypeOK, DumpOK, NoDump, Dump, NoOp, Op
<1>2. TypeInv /\ [Next]_vars => TypeInv'
  BY TypeStep
<1>3. TypeInv => TypeOK
  BY DEF TypeInv
<1> QED
  BY <1>1, <1>2, <1>3, PTL DEF Spec

\* netlink.go:298-308: whatever leftovers are queued, in whatever order, a call
\* accepts only its own messages, as long as the counter has not wrapped.
THEOREM RepliesAreOwn ==
    ASSUME MaxSends < SeqMod
    PROVE  Spec => []OwnReply
<1>1. Init => OwnReply
  BY DEF Init, OwnReply
<1>2. TypeOK /\ OwnReply /\ [Next]_vars => OwnReply'
  <2> SUFFICES ASSUME TypeOK, OwnReply, [Next]_vars PROVE OwnReply'
    OBVIOUS
  <2>1. CASE got' = <<>>
    BY <2>1 DEF OwnReply
  <2>2. CASE UNCHANGED <<got, op>>
    BY <2>2 DEF OwnReply
  <2>3. CASE Process
    <3>1. op' = op /\ op.call \in 0 .. MaxSends
      BY <2>3 DEF Process, TypeOK, Op
    <3>2. Head(rest).call \in 0 .. MaxSends
      BY <2>3, RestType DEF Process, Message
    <3>3. CASE got' = got
      BY <3>1, <3>3 DEF OwnReply
    <3>4. CASE Relevant(Head(rest)) /\ got' = Append(got, Head(rest))
      <4>1. Head(rest).call = op.call
        BY <3>1, <3>2, <3>4, SeqNoInjective DEF Relevant
      <4>2. /\ Len(got) \in Nat /\ Len(got') = Len(got) + 1
            /\ \A k \in 1 .. Len(got) : got'[k] = got[k]
            /\ got'[Len(got) + 1] = Head(rest)
        BY <3>4 DEF TypeOK
      <4>3. ASSUME NEW k \in 1 .. Len(got') PROVE k \in 1 .. Len(got) \/ k = Len(got) + 1
        BY <4>2
      <4> QED
        BY <3>1, <4>1, <4>2, <4>3 DEF OwnReply
    <3> QED
      BY <2>3, <3>3, <3>4 DEF Process, RequestMsg, RequestMultiMsg, Take
  <2> QED
    BY <2>1, <2>2, <2>3
    DEF Next, vars, Request, RequestMulti, Execute, SendFails, OtherSend, StrayDatagram, Recv, RecvFails
<1> QED
  BY <1>1, <1>2, TypeCorrectness, PTL DEF Spec

-----------------------------------------------------------------------------
(* The order of the messages on the way to a call: what Receive has at     *)
(* hand, what is queued, and what the kernel has yet to produce.           *)

\* The answer of the kernel to call o: its length, and its n-th message.
Length(o) == IF o.refused \/ o.kind = "Request" THEN 1 ELSE o.total + 1

Nth(o, n) ==
    IF o.refused THEN {Msg(o.call, "error", 0)}
    ELSE IF o.kind = "Request" \/ n <= o.total THEN {Msg(o.call, "item", n)}
    ELSE {Msg(o.call, "done", 0), Msg(o.call, "failed", 0)}

\* A datagram, or its remainder, that holds messages i + 1 .. j of the answer.
Part(o, s, i, j) == i <= j /\ Len(s) = j - i /\ \A k \in 1 .. Len(s) : s[k] \in Nth(o, i + k)

\* A leftover of an earlier call. One may be found behind the i-th message of the answer
\* only if the socket was not clean or a dump was in progress when the call was made.
Foreign(o, s) == \A k \in 1 .. Len(s) : s[k].call # o.call
MayFollow(o, i) == IF o.kind = "Request" THEN ~o.clean ELSE o.refused \/ i = 0

\* From message i of the answer s leads to message j.
Link(o, s, i, j) ==
    \/ Part(o, s, i, j)
    \/ i = j /\ (s = <<Bad>> \/ (Foreign(o, s) /\ MayFollow(o, i)))

\* The dump d produces what comes after message n of the answer.
Remains(o, d, n) ==
    IF n = Length(o) THEN d = NoDump \/ (d.call # o.call /\ MayFollow(o, n))
    ELSE o.kind = "RequestMulti" /\ ~o.refused /\ d = [call |-> o.call, idx |-> n, total |-> o.total]

\* Message n of the answer has been processed, r is at hand, q is queued and d is the dump:
\* at[k] is how far the answer has come after the k-th datagram of the queue.
Path(o, r, n, q, at) ==
    /\ Link(o, r, n, at[0])
    /\ \A k \in 1 .. Len(q) : Link(o, q[k], at[k - 1], at[k])
    /\ \A j, k \in 0 .. Len(q) : j <= k => at[j] <= at[k]

Chain(o, r, n, q, d, at) == Path(o, r, n, q, at) /\ Remains(o, d, at[Len(q)])

Chained(o, r, n, q, d) == \E at \in [0 .. Len(q) -> 0 .. Length(o)] : Chain(o, r, n, q, d, at)

\* No message is queued of a call that is yet to come.
Within(q, n) == \A k \in 1 .. Len(q) : \A j \in 1 .. Len(q[k]) : q[k][j].call <= n

Numbers == op.call <= sent /\ dump.call <= sent /\ Within(queue, sent)

\* A dump in progress has a piece in the queue: reading it makes the kernel go on.
DumpQueued == dump # NoDump => queue # <<>>

Status ==
    /\ pc = "idle" <=> (op.kind = "none" \/ result # "none")
    /\ pc # "idle" => op.kind \in {"Request", "RequestMulti"}
    /\ op.kind # "none" => op.call > 0
    /\ op.refused => op.total = 0

Coming ==
    pc # "idle" =>
        /\ Len(got) < Length(op) /\ \A k \in 1 .. Len(got) : got[k] = Msg(op.call, "item", k)
        /\ Chained(op, rest, Len(got), queue, dump)

Ends == DumpComplete /\ Resync /\ RequestSound

IndInv == TypeInv /\ Numbers /\ DumpQueued /\ Status /\ Coming /\ Ends

\* A call is answered by at least one message.
LEMMA LengthType ==
    ASSUME NEW o \in Op
    PROVE  /\ Length(o) \in Nat /\ Length(o) >= 1 /\ o.total \in Nat /\ o.call \in 0 .. MaxSends
           /\ o.refused \in BOOLEAN /\ o.clean \in BOOLEAN
  BY DEF Op, Length

LEMMA NothingLinks ==
    ASSUME NEW o, NEW i \in Nat, NEW j \in Nat, Link(o, <<>>, i, j)
    PROVE  i = j
<1>1. Len(<<>>) = 0
  OBVIOUS
<1> QED
  BY <1>1 DEF Link, Part

\* A datagram behind the queue.
LEMMA ChainAppend ==
    ASSUME NEW o \in Op, NEW r, NEW n, NEW q \in Seq(Datagram),
           NEW at \in [0 .. Len(q) -> 0 .. Length(o)], Path(o, r, n, q, at),
           NEW s \in Datagram, NEW m \in 0 .. Length(o), Link(o, s, at[Len(q)], m),
           NEW e, Remains(o, e, m)
    PROVE  Chained(o, r, n, Append(q, s), e)
<1> DEFINE t == Append(q, s)
<1> DEFINE b == [k \in 0 .. Len(t) |-> IF k = Len(t) THEN m ELSE at[k]]
<1>1. /\ Len(q) \in Nat /\ Len(t) = Len(q) + 1 /\ t[Len(q) + 1] = s
      /\ \A k \in 1 .. Len(q) : t[k] = q[k]
  BY AppendProperties
<1> HIDE DEF t
<1>2. \A k \in 0 .. Len(q) : k \in 0 .. Len(t) /\ k # Len(t)
  BY <1>1
<1>3. Len(t) \in 0 .. Len(t) /\ \A k \in 0 .. Len(t) : k = Len(t) \/ k \in 0 .. Len(q)
  BY <1>1
<1>4. b \in [0 .. Len(t) -> 0 .. Length(o)]
  BY <1>3
<1>5. b[Len(t)] = m /\ \A k \in 0 .. Len(q) : b[k] = at[k]
  BY <1>2, <1>3
<1> HIDE DEF b
<1>6. ASSUME NEW k \in 1 .. Len(t) PROVE Link(o, t[k], b[k - 1], b[k])
  <2>1. CASE k \in 1 .. Len(q)
    <3>1. k - 1 \in 0 .. Len(q) /\ k \in 0 .. Len(q)
      BY <1>1, <2>1
    <3> QED
      BY <1>1, <1>5, <2>1, <3>1 DEF Path
  <2>2. CASE k = Len(q) + 1
    <3>1. k - 1 = Len(q) /\ k - 1 \in 0 .. Len(q) /\ k = Len(t)
      BY <1>1, <2>2
    <3> QED
      BY <1>1, <1>5, <2>2, <3>1
  <2> QED
    BY <1>1, <2>1, <2>2
<1>7. b[0] = at[0]
  BY <1>1, <1>5
<1>8. ASSUME NEW j \in 0 .. Len(t), NEW k \in 0 .. Len(t), j <= k PROVE b[j] <= b[k]
  <2>1. at[Len(q)] <= m
    BY <1>1, LengthType DEF Link, Part
  <2>2. 0 .. Length(o) \subseteq Nat /\ Len(q) \in 0 .. Len(q)
    BY <1>1, LengthType
  <2>3. CASE k \in 0 .. Len(q)
    <3>1. j \in 0 .. Len(q)
      BY <1>1, <1>8, <2>3
    <3> QED
      BY <1>5, <1>8, <2>3, <3>1 DEF Path
  <2>4. CASE k = Len(t) /\ j \in 0 .. Len(q)
    <3>1. at[j] <= at[Len(q)]
      BY <1>1, <2>2, <2>4 DEF Path
    <3>2. at[j] \in Nat /\ at[Len(q)] \in Nat /\ m \in Nat
      BY <2>2, <2>4
    <3> QED
      BY <1>5, <2>1, <2>4, <3>1, <3>2
  <2>5. CASE k = Len(t) /\ j = Len(t)
    BY <1>5, <2>2, <2>5
  <2> QED
    BY <1>3, <2>3, <2>4, <2>5
<1>9. Chain(o, r, n, t, e, b)
  BY <1>5, <1>6, <1>7, <1>8 DEF Chain, Path
<1>10. Chained(o, r, n, t, e)
  BY <1>4, <1>9 DEF Chained
<1> QED
  BY <1>10 DEF t

\* The first datagram of the queue is taken in hand.
LEMMA ChainShift ==
    ASSUME NEW o \in Op, NEW n \in Nat, NEW q \in Seq(Datagram), q # <<>>, NEW d,
           Chained(o, <<>>, n, q, d)
    PROVE  Chained(o, Head(q), n, Tail(q), d)
<1>1. PICK at \in [0 .. Len(q) -> 0 .. Length(o)] : Chain(o, <<>>, n, q, d, at)
  BY DEF Chained
<1> DEFINE t == Tail(q)
<1> DEFINE b == [k \in 0 .. Len(t) |-> at[k + 1]]
<1>2. /\ Len(q) \in Nat \ {0} /\ Len(t) = Len(q) - 1 /\ Head(q) = q[1]
      /\ \A k \in 1 .. Len(t) : t[k] = q[k + 1]
  BY HeadTailProperties, EmptySeq
<1> HIDE DEF t
<1>3. \A k \in 0 .. Len(t) : k + 1 \in 0 .. Len(q) /\ k + 1 \in 1 .. Len(q)
  BY <1>2
<1>4. b \in [0 .. Len(t) -> 0 .. Length(o)] /\ \A k \in 0 .. Len(t) : b[k] = at[k + 1]
  BY <1>3
<1> HIDE DEF b
<1>5. Link(o, Head(q), n, b[0])
  <2>1. at[0] = n
    <3>1. 0 \in 0 .. Len(q) /\ 0 .. Length(o) \subseteq Nat
      BY <1>2, LengthType
    <3>2. Link(o, <<>>, n, at[0])
      BY <1>1 DEF Chain, Path
    <3> QED
      BY <3>1, <3>2, NothingLinks
  <2>2. 1 \in 1 .. Len(q) /\ 0 \in 0 .. Len(t)
    BY <1>2
  <2>3. Link(o, q[1], at[1 - 1], at[1])
    BY <1>1, <2>2 DEF Chain, Path
  <2>4. b[0] = at[1] /\ 1 - 1 = 0
    BY <1>4, <2>2
  <2> QED
    BY <1>2, <2>1, <2>3, <2>4
<1>6. ASSUME NEW k \in 1 .. Len(t) PROVE Link(o, t[k], b[k - 1], b[k])
  <2>1. k + 1 \in 1 .. Len(q) /\ k - 1 \in 0 .. Len(t) /\ k \in 0 .. Len(t) /\ k - 1 + 1 = k /\ k + 1 - 1 = k
    BY <1>2
  <2>2. Link(o, q[k + 1], at[k + 1 - 1], at[k + 1])
    BY <1>1, <2>1 DEF Chain, Path
  <2>3. b[k - 1] = at[k] /\ b[k] = at[k + 1] /\ t[k] = q[k + 1]
    BY <1>2, <1>4, <2>1
  <2> QED
    BY <2>1, <2>2, <2>3
<1>7. Remains(o, d, b[Len(t)])
  <2>1. Len(t) \in 0 .. Len(t) /\ Len(t) + 1 = Len(q)
    BY <1>2
  <2> QED
    BY <1>1, <1>4, <2>1 DEF Chain, Path
<1>8. ASSUME NEW j \in 0 .. Len(t), NEW k \in 0 .. Len(t), j <= k PROVE b[j] <= b[k]
  <2>1. j + 1 \in 0 .. Len(q) /\ k + 1 \in 0 .. Len(q) /\ j + 1 <= k + 1
    BY <1>3, <1>8
  <2> QED
    BY <1>1, <1>4, <2>1 DEF Chain, Path
<1>9. Chained(o, Head(q), n, t, d)
  BY <1>4, <1>5, <1>6, <1>7, <1>8 DEF Chained, Chain, Path
<1> QED
  BY <1>9 DEF t

\* Where Receive is tells only about the datagram at hand.
LEMMA ChainHead ==
    ASSUME NEW o, NEW r, NEW n, NEW s, NEW m, NEW q, NEW d, Chained(o, r, n, q, d),
           \A j \in 0 .. Length(o) : Link(o, r, n, j) => Link(o, s, m, j), Len(q) \in Nat
    PROVE  Chained(o, s, m, q, d)
<1>1. PICK at \in [0 .. Len(q) -> 0 .. Length(o)] : Chain(o, r, n, q, d, at)
  BY DEF Chained
<1>2. at[0] \in 0 .. Length(o)
  OBVIOUS
<1> QED
  BY <1>1, <1>2 DEF Chained, Chain, Path

\* A piece of any dump holds messages of its call.
LEMMA PieceCalls ==
    ASSUME NEW d, DumpOK(d), NEW p \in Pieces(d)
    PROVE  /\ \A k \in 1 .. Len(p.datagram) : p.datagram[k].call = d.call
           /\ p.dump = NoDump \/ p.dump.call = d.call
<1>1. d.call \in 0 .. MaxSends /\ d.idx \in Nat /\ d.total \in Nat /\ d.idx <= d.total
  BY DEF DumpOK, Dump
<1>2. ASSUME NEW j \in d.idx .. d.total
      PROVE  /\ Items(d.call, d.idx, j) \in Seq(Message)
             /\ \A k \in 1 .. Len(Items(d.call, d.idx, j)) : Items(d.call, d.idx, j)[k].call = d.call
  <2>1. j \in Nat /\ d.idx <= j
    BY <1>1
  <2>2. Items(d.call, d.idx, j) \in Seq(Message) /\ Len(Items(d.call, d.idx, j)) = j - d.idx
    BY <1>1, <2>1, ItemsType
  <2> QED
    BY <2>2 DEF Items, Msg
<1>3. ASSUME NEW j \in d.idx + 1 .. d.total,
             p = [datagram |-> Items(d.call, d.idx, j), dump |-> [d EXCEPT !.idx = j]]
      PROVE  /\ \A k \in 1 .. Len(p.datagram) : p.datagram[k].call = d.call
             /\ p.dump = NoDump \/ p.dump.call = d.call
  <2>1. j \in d.idx .. d.total
    BY <1>1
  <2>2. p.datagram = Items(d.call, d.idx, j) /\ p.dump.call = d.call
    BY <1>3 DEF DumpOK, Dump
  <2> QED
    BY <1>2, <2>1, <2>2
<1>4. ASSUME NEW kind \in {"done", "failed"},
             p = [datagram |-> Append(Items(d.call, d.idx, d.total), Msg(d.call, kind, 0)), dump |-> NoDump]
      PROVE  /\ \A k \in 1 .. Len(p.datagram) : p.datagram[k].call = d.call
             /\ p.dump = NoDump \/ p.dump.call = d.call
  <2> DEFINE s == Items(d.call, d.idx, d.total)
  <2> DEFINE m == Msg(d.call, kind, 0)
  <2>1. s \in Seq(Message) /\ \A k \in 1 .. Len(s) : s[k].call = d.call
    BY <1>1, <1>2
  <2>2. m \in Message /\ m.call = d.call
    BY <1>1 DEF Msg, Message, Kinds
  <2>3. p.datagram = Append(s, m) /\ p.dump = NoDump
    BY <1>4
  <2> HIDE DEF s, m
  <2>4. /\ Len(s) \in Nat /\ Len(Append(s, m)) = Len(s) + 1 /\ Append(s, m)[Len(s) + 1] = m
        /\ \A k \in 1 .. Len(s) : Append(s, m)[k] = s[k]
    BY <2>1, <2>2, AppendProperties
  <2>5. \A k \in 1 .. Len(s) + 1 : k \in 1 .. Len(s) \/ k = Len(s) + 1
    BY <2>4
  <2> QED
    BY <2>1, <2>2, <2>3, <2>4, <2>5
<1> QED
  BY <1>3, <1>4 DEF Pieces

\* A piece of the call's own dump continues the answer where the last one ended.
LEMMA PieceLinks ==
    ASSUME NEW o \in Op, o.kind = "RequestMulti", ~o.refused, o.call > 0, NEW n \in 0 .. o.total,
           NEW p \in Pieces([call |-> o.call, idx |-> n, total |-> o.total])
    PROVE  \E j \in 0 .. Length(o) : Link(o, p.datagram, n, j) /\ Remains(o, p.dump, j)
<1> DEFINE d == [call |-> o.call, idx |-> n, total |-> o.total]
<1>1. /\ o.call \in 0 .. MaxSends /\ n \in Nat /\ o.total \in Nat /\ n <= o.total
      /\ Length(o) = o.total + 1
  BY LengthType DEF Length
<1>2. d.call = o.call /\ d.idx = n /\ d.total = o.total
  OBVIOUS
<1>3. ASSUME NEW j \in n + 1 .. o.total,
             p = [datagram |-> Items(o.call, n, j), dump |-> [d EXCEPT !.idx = j]]
      PROVE  \E i \in 0 .. Length(o) : Link(o, p.datagram, n, i) /\ Remains(o, p.dump, i)
  <2>1. j \in Nat /\ n <= j /\ j \in 0 .. Length(o) /\ j # Length(o) /\ j <= o.total
    BY <1>1
  <2>2. p.datagram = Items(o.call, n, j) /\ p.dump = [call |-> o.call, idx |-> j, total |-> o.total]
    BY <1>3
  <2>3. Len(p.datagram) = j - n
    BY <1>1, <2>1, <2>2, ItemsType, ZenonT(30)
  <2>4. ASSUME NEW k \in 1 .. j - n PROVE p.datagram[k] \in Nth(o, n + k)
    <3>1. n + k <= o.total
      BY <1>1, <2>1
    <3>2. p.datagram[k] = Msg(o.call, "item", n + k)
      BY <2>2 DEF Items
    <3> QED
      BY <3>1, <3>2 DEF Nth
  <2>5. Part(o, p.datagram, n, j)
    BY <2>1, <2>3, <2>4 DEF Part
  <2>6. Remains(o, p.dump, j)
    BY <2>1, <2>2 DEF Remains
  <2> QED
    BY <2>1, <2>5, <2>6 DEF Link
<1>4. ASSUME NEW kind \in {"done", "failed"},
             p = [datagram |-> Append(Items(o.call, n, o.total), Msg(o.call, kind, 0)), dump |-> NoDump]
      PROVE  \E i \in 0 .. Length(o) : Link(o, p.datagram, n, i) /\ Remains(o, p.dump, i)
  <2> DEFINE s == Items(o.call, n, o.total)
  <2> DEFINE m == Msg(o.call, kind, 0)
  <2>1. s \in Seq(Message) /\ Len(s) = o.total - n
    BY <1>1, ItemsType
  <2>2. \A k \in 1 .. o.total - n : s[k] = Msg(o.call, "item", n + k)
    BY DEF Items
  <2>3. m \in Message /\ m \in {Msg(o.call, "done", 0), Msg(o.call, "failed", 0)}
    BY <1>1 DEF Msg, Message, Kinds
  <2>4. p.datagram = Append(s, m) /\ p.dump = NoDump
    BY <1>4
  <2> HIDE DEF s, m
  <2>5. /\ Len(Append(s, m)) = Length(o) - n /\ Append(s, m)[Len(s) + 1] = m
        /\ \A k \in 1 .. Len(s) : Append(s, m)[k] = s[k]
    BY <1>1, <2>1, <2>3, AppendProperties
  <2>6. ASSUME NEW k \in 1 .. Length(o) - n PROVE p.datagram[k] \in Nth(o, n + k)
    <3>1. CASE k <= o.total - n
      <4>1. k \in 1 .. o.total - n /\ n + k <= o.total
        BY <1>1, <3>1
      <4> QED
        BY <2>1, <2>2, <2>4, <2>5, <4>1 DEF Nth
    <3>2. CASE k > o.total - n
      <4>1. k = Len(s) + 1 /\ ~(n + k <= o.total)
        BY <1>1, <2>1, <3>2
      <4> QED
        BY <2>3, <2>4, <2>5, <4>1 DEF Nth
    <3> QED
      BY <1>1, <3>1, <3>2
  <2>7. n <= Length(o) /\ Length(o) \in 0 .. Length(o)
    BY <1>1
  <2>8. Part(o, p.datagram, n, Length(o))
    BY <2>4, <2>5, <2>6, <2>7 DEF Part
  <2>9. Remains(o, p.dump, Length(o))
    BY <2>4 DEF Remains
  <2> QED
    BY <2>7, <2>8, <2>9 DEF Link
<1>5. p \in Pieces(d)
  OBVIOUS
<1> HIDE DEF d
<1>6. \/ \E j \in n + 1 .. o.total : p = [datagram |-> Items(o.call, n, j), dump |-> [d EXCEPT !.idx = j]]
      \/ \E kind \in {"done", "failed"} :
           p = [datagram |-> Append(Items(o.call, n, o.total), Msg(o.call, kind, 0)), dump |-> NoDump]
  BY <1>2, <1>5, Zenon DEF Pieces
<1> QED
  BY <1>3, <1>4, <1>6

\* What the n-th message of an answer can be.
LEMMA NthMeans ==
    ASSUME NEW o \in Op, NEW n \in Nat, NEW m \in Nth(o, n)
    PROVE  /\ m.call = o.call /\ m.kind \in {"error", "item", "done", "failed"}
           /\ m.kind = "error" => o.refused
           /\ m.kind = "item" => m = Msg(o.call, "item", n) /\ ~o.refused /\ (o.kind = "Request" \/ n <= o.total)
           /\ m.kind \in {"done", "failed"} => ~o.refused /\ o.kind # "Request" /\ n > o.total
<1>1. o.total \in Nat
  BY LengthType
<1> QED
  BY <1>1 DEF Nth, Msg

\* In a datagram that is a link of the chain, the first message tells what the datagram is.
LEMMA HeadLinks ==
    ASSUME NEW o \in Op, o.call > 0, NEW r \in Datagram, NEW i \in Nat, NEW j \in Nat, Link(o, r, i, j)
    PROVE  /\ Head(r).kind # "bad" /\ Head(r).call = o.call =>
                Head(r) \in Nth(o, i + 1) /\ i < j /\ Link(o, Tail(r), i + 1, j)
           /\ Head(r).kind # "bad" /\ Head(r).call # o.call =>
                MayFollow(o, i) /\ i = j /\ Link(o, Tail(r), i, j)
<1>1. /\ Len(r) \in Nat \ {0} /\ Head(r) = r[1] /\ Len(Tail(r)) = Len(r) - 1
      /\ \A k \in 1 .. Len(Tail(r)) : Tail(r)[k] = r[k + 1]
  BY HeadTailProperties, EmptySeq DEF Datagram
<1>2. 1 \in 1 .. Len(r) /\ \A k \in 1 .. Len(Tail(r)) : k + 1 \in 1 .. Len(r)
  BY <1>1
<1>3. CASE Part(o, r, i, j)
  <2>1. Head(r) \in Nth(o, i + 1) /\ Head(r).call = o.call
    BY <1>1, <1>2, <1>3, NthMeans DEF Part
  <2>2. i < j /\ i + 1 <= j /\ Len(Tail(r)) = j - (i + 1)
    BY <1>1, <1>3 DEF Part
  <2>3. ASSUME NEW k \in 1 .. Len(Tail(r)) PROVE Tail(r)[k] \in Nth(o, i + 1 + k)
    <3>1. i + (k + 1) = i + 1 + k
      BY <1>1
    <3>2. r[k + 1] \in Nth(o, i + (k + 1))
      BY <1>2, <1>3 DEF Part
    <3> QED
      BY <1>1, <3>1, <3>2
  <2> QED
    BY <2>1, <2>2, <2>3 DEF Link, Part
<1>4. CASE i = j /\ r = <<Bad>>
  BY <1>1, <1>4 DEF Bad, Msg
<1>5. CASE i = j /\ Foreign(o, r) /\ MayFollow(o, i)
  <2>1. Head(r).call # o.call
    BY <1>1, <1>2, <1>5 DEF Foreign
  <2>2. Foreign(o, Tail(r))
    BY <1>1, <1>2, <1>5 DEF Foreign
  <2> QED
    BY <1>5, <2>1, <2>2 DEF Link
<1> QED
  BY <1>3, <1>4, <1>5 DEF Link

\* The message at hand is the next of the answer, or a leftover where there may be one, or
\* is rejected.
LEMMA AtHand ==
    ASSUME MaxSends < SeqMod, TypeInv, Status, Coming, pc = "msg"
    PROVE  /\ Head(rest).kind # "bad" /\ Relevant(Head(rest)) =>
                Head(rest) \in Nth(op, Len(got) + 1)
           /\ Head(rest).kind # "bad" /\ ~Relevant(Head(rest)) => MayFollow(op, Len(got))
           /\ Head(rest) \in Message /\ Len(got) \in Nat
<1>1. op \in Op /\ op.call \in 0 .. MaxSends /\ op.call > 0 /\ rest \in Datagram /\ Len(got) \in Nat
      /\ Len(queue) \in Nat
  BY LengthType DEF TypeInv, TypeOK, Status, Datagram
<1>2. Head(rest) \in Message /\ Head(rest).call \in 0 .. MaxSends
  BY RestType DEF TypeInv, Message
<1>3. Relevant(Head(rest)) <=> Head(rest).call = op.call
  BY <1>1, <1>2, SeqNoInjective DEF Relevant
<1>4. PICK at \in [0 .. Len(queue) -> 0 .. Length(op)] : Chain(op, rest, Len(got), queue, dump, at)
  BY DEF Coming, Chained
<1>5. at[0] \in Nat /\ Link(op, rest, Len(got), at[0])
  <2>1. 0 \in 0 .. Len(queue) /\ 0 .. Length(op) \subseteq Nat
    BY <1>1, LengthType
  <2> QED
    BY <1>4, <2>1 DEF Chain, Path
<1> QED
  BY <1>1, <1>2, <1>3, <1>5, HeadLinks

LEMMA WithinAppend ==
    ASSUME NEW q \in Seq(Datagram), NEW s \in Datagram, NEW n, Within(q, n),
           \A j \in 1 .. Len(s) : s[j].call <= n
    PROVE  Within(Append(q, s), n)
<1>1. /\ Len(q) \in Nat /\ Len(Append(q, s)) = Len(q) + 1 /\ Append(q, s)[Len(q) + 1] = s
      /\ \A k \in 1 .. Len(q) : Append(q, s)[k] = q[k]
  BY AppendProperties
<1>2. \A k \in 1 .. Len(q) + 1 : k \in 1 .. Len(q) \/ k = Len(q) + 1
  BY <1>1
<1> QED
  BY <1>1, <1>2 DEF Within

LEMMA WithinTail ==
    ASSUME NEW q \in Seq(Datagram), q # <<>>, NEW n, Within(q, n)
    PROVE  Within(Tail(q), n)
<1>1. /\ Len(q) \in Nat \ {0} /\ Len(Tail(q)) = Len(q) - 1
      /\ \A k \in 1 .. Len(Tail(q)) : Tail(q)[k] = q[k + 1]
  BY HeadTailProperties, EmptySeq
<1>2. \A k \in 1 .. Len(Tail(q)) : k + 1 \in 1 .. Len(q)
  BY <1>1
<1> QED
  BY <1>1, <1>2 DEF Within

LEMMA WithinGrows ==
    ASSUME NEW q \in Seq(Datagram), NEW n \in Nat, Within(q, n)
    PROVE  Within(q, n + 1)
<1> SUFFICES ASSUME NEW k \in 1 .. Len(q), NEW j \in 1 .. Len(q[k]) PROVE q[k][j].call <= n + 1
  BY DEF Within
<1>1. q[k] \in Seq(Message)
  BY DEF Datagram
<1>2. q[k][j] \in Message
  BY <1>1
<1>3. q[k][j].call \in Nat /\ q[k][j].call <= n
  BY <1>2 DEF Within, Message
<1> QED
  BY <1>3

\* A datagram of one message.
LEMMA Single ==
    ASSUME NEW m
    PROVE  Len(<<m>>) = 1 /\ <<m>>[1] = m /\ <<m>> # <<>>
  OBVIOUS

LEMMA NumbersStep ==
    ASSUME TypeInv, Numbers, DumpQueued, [Next]_vars
    PROVE  Numbers' /\ DumpQueued'
<1>1. /\ queue \in Seq(Datagram) /\ DumpOK(dump) /\ sent \in Nat /\ dump.call \in Nat /\ op.call \in Nat
      /\ NoDump.call = 0
  BY DEF TypeInv, TypeOK, DumpOK, Dump, Op, NoDump
<1>2. ASSUME TakeSeqNo PROVE sent' = sent + 1 /\ dump.call <= sent' /\ op.call <= sent' /\ Within(queue, sent')
  BY <1>1, <1>2, WithinGrows DEF TakeSeqNo, Numbers
<1>3. ASSUME NEW kind, NEW refused, NEW total, Call(kind, refused, total) PROVE op'.call = sent + 1
  BY <1>3 DEF Call
\* One message behind the queue.
<1>4. ASSUME NEW q \in Seq(Datagram), NEW n \in Nat, Within(q, n), NEW m \in Message, m.call <= n
      PROVE  Within(Append(q, <<m>>), n) /\ Append(q, <<m>>) # <<>>
  <2>1. <<m>> \in Datagram /\ \A j \in 1 .. Len(<<m>>) : <<m>>[j].call <= n
    BY <1>4, Single DEF Datagram
  <2> QED
    BY <1>4, <2>1, WithinAppend, AppendProperties
\* A piece of dump d behind the queue.
<1>5. ASSUME NEW q \in Seq(Datagram), NEW n \in Nat, Within(q, n), NEW d, DumpOK(d), d.call <= n,
             NEW p \in Pieces(d)
      PROVE  Within(Append(q, p.datagram), n) /\ Append(q, p.datagram) # <<>> /\ p.dump.call <= n
  <2>1. p.datagram \in Datagram
    BY <1>5, PieceType
  <2>2. (\A j \in 1 .. Len(p.datagram) : p.datagram[j].call <= n) /\ p.dump.call <= n
    BY <1>1, <1>5, PieceCalls
  <2> QED
    BY <1>5, <2>1, <2>2, WithinAppend, AppendProperties
<1>6. ASSUME NEW kind \in {"error", "item"}, NEW idx \in Nat, TakeSeqNo
      PROVE  Msg(sent + 1, kind, idx) \in Message /\ Msg(sent + 1, kind, idx).call <= sent' /\ sent' \in Nat
  BY <1>1, <1>6 DEF TakeSeqNo, Msg, Message, Kinds
<1>7. ASSUME NEW kind, SendFails(kind) PROVE Numbers' /\ DumpQueued'
  <2>1. TakeSeqNo /\ op'.call = sent + 1 /\ UNCHANGED <<queue, dump>>
    BY <1>7 DEF SendFails, Call
  <2> QED
    BY <1>1, <1>2, <2>1 DEF Numbers, DumpQueued
<1>8. CASE Request
  <2>1. PICK refused \in BOOLEAN :
          /\ Call("Request", refused, 0)
          /\ queue' = Append(queue, <<Answer(refused)>>)
    BY <1>8 DEF Request
  <2>2. Answer(refused) \in Message /\ Answer(refused).call <= sent' /\ sent' \in Nat
    BY <1>6, <1>8 DEF Request, Answer
  <2>3. Within(queue', sent') /\ queue' # <<>>
    BY <1>1, <1>2, <1>4, <1>8, <2>1, <2>2 DEF Request
  <2>4. dump' = dump /\ op'.call = sent + 1 /\ sent' = sent + 1 /\ dump.call <= sent'
    BY <1>2, <1>3, <1>8, <2>1 DEF Request
  <2> QED
    BY <1>1, <2>3, <2>4 DEF Numbers, DumpQueued
<1>9. CASE RequestMulti
  <2>1. TakeSeqNo /\ sent' = sent + 1 /\ sent' \in Nat /\ Within(queue, sent') /\ dump.call <= sent'
    BY <1>1, <1>2, <1>9 DEF RequestMulti
  <2>2. CASE Call("RequestMulti", TRUE, 0) /\ queue' = Append(queue, <<Msg(sent + 1, "error", 0)>>) /\ UNCHANGED dump
    <3>1. Within(queue', sent') /\ queue' # <<>>
      BY <1>1, <1>4, <1>6, <2>1, <2>2
    <3>2. op'.call = sent + 1
      BY <2>2 DEF Call
    <3> QED
      BY <1>1, <2>1, <2>2, <3>1, <3>2 DEF Numbers, DumpQueued
  <2>3. ASSUME NEW total \in 0 .. MaxItems,
               NEW p \in Pieces([call |-> sent + 1, idx |-> 0, total |-> total]),
               Call("RequestMulti", FALSE, total), queue' = Append(queue, p.datagram), dump' = p.dump
        PROVE  Numbers' /\ DumpQueued'
    <3> DEFINE d == [call |-> sent + 1, idx |-> 0, total |-> total]
    <3>1. DumpOK(d) /\ d.call <= sent'
      BY <1>1, <2>1 DEF DumpOK, Dump, TakeSeqNo
    <3>2. p \in Pieces(d)
      OBVIOUS
    <3> HIDE DEF d
    <3>3. Within(queue', sent') /\ queue' # <<>> /\ dump'.call <= sent'
      BY <1>1, <1>5, <2>1, <2>3, <3>1, <3>2
    <3>4. op'.call = sent + 1 /\ op'.call <= sent'
      BY <1>1, <2>1, <2>3 DEF Call
    <3> QED
      BY <3>3, <3>4 DEF Numbers, DumpQueued
  <2> QED
    BY <1>9, <2>2, <2>3 DEF RequestMulti
<1>10. CASE Execute
  <2>1. PICK refused \in BOOLEAN :
          /\ Call("Execute", refused, 0)
          /\ queue' = IF refused THEN Append(queue, <<Msg(sent + 1, "error", 0)>>) ELSE queue
    BY <1>10 DEF Execute
  <2>2. TakeSeqNo /\ dump' = dump /\ sent' = sent + 1 /\ dump.call <= sent' /\ Within(queue, sent')
    BY <1>2, <1>10 DEF Execute
  <2>3. Within(queue', sent') /\ (queue # <<>> => queue' # <<>>)
    <3>1. CASE refused
      BY <1>1, <1>4, <1>6, <2>1, <2>2, <3>1
    <3>2. CASE ~refused
      BY <2>1, <2>2, <3>2
    <3> QED
      BY <3>1, <3>2
  <2> QED
    BY <1>1, <1>3, <2>1, <2>2, <2>3 DEF Numbers, DumpQueued
<1>11. CASE OtherSend
  BY <1>2, <1>11 DEF OtherSend, Numbers, DumpQueued
<1>12. CASE StrayDatagram
  <2>1. Bad \in Message /\ Bad.call <= sent
    BY <1>1 DEF Bad, Msg, Message, Kinds
  <2>2. Within(queue', sent) /\ queue' # <<>>
    BY <1>1, <1>4, <1>12, <2>1 DEF StrayDatagram, Numbers
  <2> QED
    BY <1>12, <2>2 DEF StrayDatagram, Numbers, DumpQueued
<1>13. CASE Recv
  <2>1. Tail(queue) \in Seq(Datagram) /\ Within(Tail(queue), sent)
    BY <1>1, <1>13, WithinTail, HeadTailProperties DEF Recv, Numbers
  <2>2. CASE dump = NoDump
    BY <1>13, <2>1, <2>2 DEF Recv, Continue, Numbers, DumpQueued
  <2>3. CASE dump # NoDump
    <3>1. PICK p \in Pieces(dump) : queue' = Append(Tail(queue), p.datagram) /\ dump' = p.dump
      BY <1>13, <2>3 DEF Recv, Continue
    <3>2. Within(queue', sent) /\ queue' # <<>> /\ dump'.call <= sent
      BY <1>1, <1>5, <2>1, <3>1 DEF Numbers
    <3> QED
      BY <1>13, <3>2 DEF Recv, Numbers, DumpQueued
  <2> QED
    BY <2>2, <2>3
<1>14. CASE RecvFails \/ Process \/ UNCHANGED vars
  BY <1>14 DEF RecvFails, Process, vars, Numbers, DumpQueued
<1> QED
  BY <1>7, <1>8, <1>9, <1>10, <1>11, <1>12, <1>13, <1>14 DEF Next

\* What Receive does with the message at hand.
LEMMA ProcessEnds ==
    ASSUME Process
    PROVE  /\ op.kind \in {"Request", "RequestMulti"} /\ UNCHANGED <<queue, dump, sent, op, strays>>
           /\ \/ Proceed /\ op.kind = "RequestMulti"
              \/ \E r \in {"io", "ok", "errno", "abort"} : Return(r)
  BY DEF Process, RequestMsg, RequestMultiMsg

LEMMA StatusStep ==
    ASSUME TypeInv, Status, [Next]_vars
    PROVE  Status'
<1>1. sent \in Nat
  BY DEF TypeInv, TypeOK
<1>2. ASSUME NEW kind \in {"Request", "RequestMulti", "Execute"}, NEW refused, NEW total,
             refused => total = 0, Call(kind, refused, total)
      PROVE  op'.kind = kind /\ op'.call > 0 /\ (op'.refused => op'.total = 0)
  BY <1>1, <1>2 DEF Call
<1>3. ASSUME NEW kind \in {"Request", "RequestMulti", "Execute"}, SendFails(kind) PROVE Status'
  BY <1>2, <1>3 DEF SendFails, Status
<1>4. CASE Request
  BY <1>2, <1>4 DEF Request, Status
<1>5. CASE RequestMulti
  BY <1>2, <1>5 DEF RequestMulti, Status
<1>6. CASE Execute
  BY <1>2, <1>6 DEF Execute, Status
<1>7. CASE Process
  <2>1. CASE Proceed
    BY <1>7, <2>1, ProcessEnds DEF Process, Proceed, Status
  <2>2. ASSUME NEW r \in {"io", "ok", "errno", "abort"}, Return(r) PROVE Status'
    BY <1>7, <2>2, ProcessEnds DEF Return, Status
  <2> QED
    BY <1>7, <2>1, <2>2, ProcessEnds
<1>8. CASE OtherSend \/ StrayDatagram \/ Recv \/ RecvFails \/ UNCHANGED vars
  BY <1>8 DEF OtherSend, StrayDatagram, Recv, RecvFails, vars, Status
<1> QED
  BY <1>3, <1>4, <1>5, <1>6, <1>7, <1>8 DEF Next

-----------------------------------------------------------------------------
(* The chain from call to call.                                            *)

\* Before the kernel answers, all that is queued is left over.
LEMMA FreshPath ==
    ASSUME NEW o \in Op, NEW q \in Seq(Datagram), NEW n \in Nat, Within(q, n), o.call > n,
           q # <<>> => MayFollow(o, 0)
    PROVE  \E at \in [0 .. Len(q) -> 0 .. Length(o)] : Path(o, <<>>, 0, q, at) /\ at[Len(q)] = 0
<1> DEFINE at == [k \in 0 .. Len(q) |-> 0]
<1>1. Len(q) \in Nat /\ Len(q) \in 0 .. Len(q) /\ 0 \in 0 .. Len(q)
  OBVIOUS
<1>2. at \in [0 .. Len(q) -> 0 .. Length(o)] /\ \A k \in 0 .. Len(q) : at[k] = 0
  BY LengthType
<1> HIDE DEF at
<1>3. Link(o, <<>>, 0, at[0])
  <2>1. Len(<<>>) = 0 /\ 0 <= 0 /\ 0 - 0 = 0 /\ \A k \in 1 .. 0 : FALSE
    OBVIOUS
  <2>2. Part(o, <<>>, 0, 0)
    BY <2>1 DEF Part
  <2> QED
    BY <1>1, <1>2, <2>2 DEF Link
<1>4. ASSUME NEW k \in 1 .. Len(q) PROVE Link(o, q[k], at[k - 1], at[k])
  <2>1. k \in 0 .. Len(q) /\ k - 1 \in 0 .. Len(q) /\ q # <<>> /\ q[k] \in Seq(Message)
    BY <1>1 DEF Datagram
  <2>2. ASSUME NEW j \in 1 .. Len(q[k]) PROVE q[k][j].call # o.call
    <3>1. q[k][j] \in Message
      BY <2>1
    <3>2. q[k][j].call <= n
      BY DEF Within
    <3> QED
      BY <3>1, <3>2, LengthType DEF Message
  <2> QED
    BY <1>2, <2>1, <2>2 DEF Link, Foreign
<1>5. Path(o, <<>>, 0, q, at)
  BY <1>2, <1>3, <1>4 DEF Path
<1> QED
  BY <1>1, <1>2, <1>5

LEMMA ComingStep ==
    ASSUME MaxSends < SeqMod, TypeInv, Numbers, DumpQueued, Status, Coming, [Next]_vars
    PROVE  Coming'
<1>1. /\ queue \in Seq(Datagram) /\ Len(queue) \in Nat /\ op \in Op /\ sent \in Nat /\ Len(got) \in Nat
      /\ DumpOK(dump) /\ dump.call \in Nat /\ Len(<<>>) = 0 /\ (pc # "msg" => rest = <<>>)
  BY DEF TypeInv, TypeOK, DumpOK, Dump
<1>2. op' \in Op
  BY TypeStep DEF TypeInv, TypeOK
\* A call that is answered with one message.
<1>3. ASSUME pc = "idle", pc' # "idle", got' = <<>>, UNCHANGED <<rest, dump>>,
             NEW kind, NEW refused, Call(kind, refused, 0), NEW m \in Message,
             queue' = Append(queue, <<m>>), m \in Nth(op', 1), Length(op') = 1,
             ~Clean => MayFollow(op', 0) /\ MayFollow(op', 1)
      PROVE  Coming'
  <2>1. op'.call = sent + 1
    BY <1>3 DEF Call
  <2>2. queue # <<>> => MayFollow(op', 0)
    BY <1>3 DEF Clean
  <2>3. PICK at \in [0 .. Len(queue) -> 0 .. Length(op')] :
          Path(op', <<>>, 0, queue, at) /\ at[Len(queue)] = 0
    BY <1>1, <1>2, <2>1, <2>2, FreshPath DEF Numbers
  <2>4. <<m>> \in Datagram /\ Len(<<m>>) = 1 /\ <<m>>[1] = m
    BY <1>3, Single DEF Datagram
  <2>5. Link(op', <<m>>, at[Len(queue)], 1)
    <3>1. Part(op', <<m>>, 0, 1)
      BY <1>3, <2>4 DEF Part
    <3> QED
      BY <2>3, <3>1 DEF Link
  <2>6. Remains(op', dump, 1)
    BY <1>1, <1>3, <2>1 DEF Remains, Clean, Numbers
  <2>7. Chained(op', <<>>, 0, queue', dump)
    <3>1. 1 \in 0 .. Length(op')
      BY <1>3
    <3>2. Chained(op', <<>>, 0, Append(queue, <<m>>), dump)
      BY <1>1, <1>2, <2>3, <2>4, <2>5, <2>6, <3>1, ChainAppend
    <3> QED
      BY <1>3, <3>2
  <2> QED
    BY <1>1, <1>3, <2>7 DEF Coming
<1>4. CASE Request
  <2>1. PICK refused \in BOOLEAN :
          /\ Call("Request", refused, 0)
          /\ queue' = Append(queue, <<Answer(refused)>>)
    BY <1>4 DEF Request
  <2>2. op'.kind = "Request" /\ op'.refused = refused /\ op'.call = sent + 1 /\ op'.clean = Clean
    BY <2>1 DEF Call
  <2>3. Answer(refused) \in Message
    BY <1>1, <1>4 DEF Request, TakeSeqNo, Answer, Msg, Message, Kinds
  <2>4. Answer(refused) \in Nth(op', 1)
    BY <2>2 DEF Nth, Answer
  <2>5. Length(op') = 1 /\ (~Clean => MayFollow(op', 0) /\ MayFollow(op', 1))
    BY <2>2 DEF Length, MayFollow
  <2> QED
    BY <1>3, <1>4, <2>1, <2>3, <2>4, <2>5 DEF Request
<1>5. CASE RequestMulti
  <2>1. CASE Call("RequestMulti", TRUE, 0) /\ queue' = Append(queue, <<Msg(sent + 1, "error", 0)>>) /\ UNCHANGED dump
    <3>1. op'.kind = "RequestMulti" /\ op'.refused /\ op'.call = sent + 1
      BY <2>1 DEF Call
    <3>2. Msg(sent + 1, "error", 0) \in Message
      BY <1>1, <1>5 DEF RequestMulti, TakeSeqNo, Msg, Message, Kinds
    <3>3. Msg(sent + 1, "error", 0) \in Nth(op', 1)
      BY <3>1 DEF Nth
    <3>4. Length(op') = 1 /\ MayFollow(op', 0) /\ MayFollow(op', 1)
      BY <3>1 DEF Length, MayFollow
    <3> QED
      BY <1>3, <1>5, <2>1, <3>2, <3>3, <3>4 DEF RequestMulti
  <2>2. ASSUME NEW total \in 0 .. MaxItems,
               NEW p \in Pieces([call |-> sent + 1, idx |-> 0, total |-> total]),
               Call("RequestMulti", FALSE, total), queue' = Append(queue, p.datagram), dump' = p.dump
        PROVE  Coming'
    <3>1. op'.kind = "RequestMulti" /\ ~op'.refused /\ op'.call = sent + 1 /\ op'.total = total
      BY <2>2 DEF Call
    <3>2. pc = "idle" /\ got' = <<>> /\ rest' = <<>>
      BY <1>1, <1>5 DEF RequestMulti
    <3>3. MayFollow(op', 0) /\ op'.call > 0 /\ 0 \in 0 .. op'.total
      BY <1>1, <3>1 DEF MayFollow
    <3>4. PICK at \in [0 .. Len(queue) -> 0 .. Length(op')] :
            Path(op', <<>>, 0, queue, at) /\ at[Len(queue)] = 0
      BY <1>1, <1>2, <3>1, <3>3, FreshPath DEF Numbers
    <3>5. PICK j \in 0 .. Length(op') : Link(op', p.datagram, 0, j) /\ Remains(op', p.dump, j)
      <4>1. p \in Pieces([call |-> op'.call, idx |-> 0, total |-> op'.total])
        BY <3>1
      <4> QED
        BY <1>2, <3>1, <3>3, <4>1, PieceLinks
    <3>6. p.datagram \in Datagram
      <4>1. DumpOK([call |-> sent + 1, idx |-> 0, total |-> total])
        BY <1>1, <1>5 DEF RequestMulti, TakeSeqNo, DumpOK, Dump
      <4> QED
        BY <4>1, PieceType
    <3>7. Chained(op', <<>>, 0, queue', dump')
      BY <1>1, <1>2, <2>2, <3>4, <3>5, <3>6, ChainAppend
    <3>8. 0 < Length(op')
      BY <1>2, LengthType
    <3> QED
      BY <1>1, <3>2, <3>7, <3>8 DEF Coming
  <2> QED
    BY <1>5, <2>1, <2>2 DEF RequestMulti
<1>6. CASE StrayDatagram
  <2>1. UNCHANGED <<dump, pc, op, rest, got>> /\ queue' = Append(queue, <<Bad>>)
    BY <1>6 DEF StrayDatagram
  <2> SUFFICES ASSUME pc # "idle" PROVE Chained(op, rest, Len(got), queue', dump)
    BY <2>1 DEF Coming
  <2>2. PICK at \in [0 .. Len(queue) -> 0 .. Length(op)] : Chain(op, rest, Len(got), queue, dump, at)
    BY DEF Coming, Chained
  <2>3. <<Bad>> \in Datagram
    BY AnswerType DEF Bad, Kinds
  <2>4. at[Len(queue)] \in 0 .. Length(op)
    BY <1>1
  <2>5. Link(op, <<Bad>>, at[Len(queue)], at[Len(queue)])
    BY DEF Link
  <2> QED
    BY <1>1, <2>1, <2>2, <2>3, <2>4, <2>5, ChainAppend DEF Chain
<1>7. CASE Recv
  <2>1. pc = "recv" /\ queue # <<>> /\ rest' = Head(queue) /\ Continue(Tail(queue)) /\ UNCHANGED <<op, got>>
    BY <1>7 DEF Recv
  <2>2. Chained(op, <<>>, Len(got), queue, dump)
    BY <1>1, <2>1 DEF Coming
  <2>3. Chained(op, Head(queue), Len(got), Tail(queue), dump)
    BY <1>1, <2>1, <2>2, ChainShift
  <2>4. Tail(queue) \in Seq(Datagram) /\ Len(Tail(queue)) \in Nat
    BY <1>1, <2>1, HeadTailProperties
  <2>5. Chained(op, Head(queue), Len(got), queue', dump')
    <3>1. CASE dump = NoDump
      BY <2>1, <2>3, <3>1 DEF Continue
    <3>2. CASE dump # NoDump
      <4> DEFINE q == Tail(queue)
      <4>1. PICK p \in Pieces(dump) : queue' = Append(q, p.datagram) /\ dump' = p.dump
        BY <2>1, <3>2 DEF Continue
      <4>2. PICK at \in [0 .. Len(q) -> 0 .. Length(op)] : Chain(op, Head(queue), Len(got), q, dump, at)
        BY <2>3 DEF Chained
      <4>3. p.datagram \in Datagram
        BY <1>1, PieceType
      <4> DEFINE n == at[Len(q)]
      <4>4. n \in 0 .. Length(op) /\ Remains(op, dump, n)
        BY <2>4, <4>2 DEF Chain
      <4> HIDE DEF q
      <4>5. \E j \in 0 .. Length(op) : Link(op, p.datagram, n, j) /\ Remains(op, p.dump, j)
        <5> HIDE DEF n
        <5>1. CASE n = Length(op)
          <6>1. dump.call # op.call /\ MayFollow(op, n)
            BY <3>2, <4>4, <5>1 DEF Remains
          <6>2. Foreign(op, p.datagram)
            BY <1>1, <6>1, PieceCalls DEF Foreign
          <6>3. p.dump = NoDump \/ p.dump.call = dump.call
            BY <1>1, PieceCalls
          <6> QED
            BY <4>4, <5>1, <6>1, <6>2, <6>3 DEF Link, Remains
        <5>2. CASE n # Length(op)
          <6>1. /\ op.kind = "RequestMulti" /\ ~op.refused
                /\ dump = [call |-> op.call, idx |-> n, total |-> op.total]
            BY <4>4, <5>2 DEF Remains
          <6>2. op.call > 0
            BY <6>1 DEF Status
          <6>3. n \in 0 .. op.total
            BY <1>1, <4>4, <5>2, <6>1, LengthType DEF Length
          <6> QED
            BY <1>1, <6>1, <6>2, <6>3, PieceLinks
        <5> QED
          BY <5>1, <5>2
      <4>6. PICK j \in 0 .. Length(op) : Link(op, p.datagram, n, j) /\ Remains(op, p.dump, j)
        BY <4>5
      <4>7. q \in Seq(Datagram)
        BY <2>4 DEF q
      <4> QED
        BY <1>1, <4>1, <4>2, <4>3, <4>6, <4>7, ChainAppend DEF Chain
    <3> QED
      BY <3>1, <3>2
  <2> QED
    BY <2>1, <2>5 DEF Coming
<1>8. CASE Process
  <2>1. pc = "msg" /\ UNCHANGED <<queue, dump, sent, op, strays>>
    BY <1>8 DEF Process
  <2>2. ASSUME NEW r, Return(r) PROVE Coming'
    BY <2>2 DEF Return, Coming
  <2>3. CASE Proceed /\ op.kind = "RequestMulti"
    <3> DEFINE m == Head(rest)
    <3>1. op.call > 0 /\ rest \in Datagram /\ Len(got) < Length(op)
      BY <2>1, <2>3 DEF Status, TypeInv, TypeOK, Datagram, Coming
    <3>2. m \in Message /\ m.call \in 0 .. MaxSends /\ op.call \in 0 .. MaxSends
      BY <1>1, <2>1, RestType, LengthType DEF TypeInv, Message
    <3>3. Relevant(m) <=> m.call = op.call
      BY <3>2, SeqNoInjective DEF Relevant
    <3>4. Chained(op, rest, Len(got), queue, dump)
      BY <2>1 DEF Coming
    <3>5. 0 .. Length(op) \subseteq Nat
      BY <1>1, LengthType
    <3>6. rest' = Tail(rest)
      BY <2>3 DEF Proceed
    <3>7. \/ m.kind # "bad" /\ ~Relevant(m) /\ got' = got
          \/ m.kind = "item" /\ Relevant(m) /\ got' = Append(got, m)
      <4>1. ASSUME NEW r, Return(r) PROVE FALSE
        BY <2>1, <2>3, <4>1 DEF Return, Proceed
      <4>2. RequestMultiMsg(m)
        BY <1>8, <2>3 DEF Process
      <4> QED
        BY <4>1, <4>2 DEF RequestMultiMsg, Take
    <3>8. CASE m.kind # "bad" /\ ~Relevant(m) /\ got' = got
      <4>1. \A j \in 0 .. Length(op) : Link(op, rest, Len(got), j) => Link(op, Tail(rest), Len(got), j)
        BY <1>1, <3>1, <3>3, <3>5, <3>8, HeadLinks
      <4>2. Chained(op, Tail(rest), Len(got), queue, dump)
        BY <1>1, <3>4, <4>1, ChainHead
      <4> QED
        BY <2>1, <3>6, <3>8, <4>2 DEF Coming
    <3>9. CASE m.kind = "item" /\ Relevant(m) /\ got' = Append(got, m)
      <4>1. \A j \in 0 .. Length(op) : Link(op, rest, Len(got), j) => Link(op, Tail(rest), Len(got) + 1, j)
        BY <1>1, <3>1, <3>3, <3>5, <3>9, HeadLinks
      <4>2. Chained(op, Tail(rest), Len(got) + 1, queue, dump)
        BY <1>1, <3>4, <4>1, ChainHead
      <4>3. m \in Nth(op, Len(got) + 1)
        BY <2>1, <3>9, AtHand
      <4>4. m = Msg(op.call, "item", Len(got) + 1) /\ ~op.refused /\ Len(got) + 1 <= op.total
        BY <1>1, <2>3, <3>9, <4>3, NthMeans
      <4>5. Length(op) = op.total + 1 /\ op.total \in Nat
        BY <1>1, <2>3, <4>4, LengthType DEF Length
      <4> HIDE DEF m
      <4>6. /\ Len(got') = Len(got) + 1 /\ got'[Len(got) + 1] = m
            /\ \A k \in 1 .. Len(got) : got'[k] = got[k]
        BY <3>2, <3>9, AppendProperties DEF TypeInv, TypeOK
      <4>7. \A k \in 1 .. Len(got) + 1 : k \in 1 .. Len(got) \/ k = Len(got) + 1
        BY <1>1
      <4>8. \A k \in 1 .. Len(got') : got'[k] = Msg(op.call, "item", k)
        BY <2>1, <4>4, <4>6, <4>7 DEF Coming
      <4>9. Len(got') < Length(op)
        BY <1>1, <4>4, <4>5, <4>6
      <4> QED
        BY <2>1, <3>6, <4>2, <4>6, <4>8, <4>9 DEF Coming
    <3> QED
      BY <3>7, <3>8, <3>9
  <2> QED
    BY <1>8, <2>2, <2>3, ProcessEnds
<1>9. ASSUME pc' = "idle" PROVE Coming'
  BY <1>9 DEF Coming
<1>10. CASE OtherSend \/ UNCHANGED vars
  BY <1>10 DEF OtherSend, vars, Coming
<1>11. ASSUME NEW kind, SendFails(kind) PROVE Coming'
  BY <1>9, <1>11 DEF SendFails
<1>12. CASE Execute \/ RecvFails
  BY <1>9, <1>12 DEF Execute, RecvFails
<1> QED
  BY <1>4, <1>5, <1>6, <1>7, <1>8, <1>10, <1>11, <1>12 DEF Next

-----------------------------------------------------------------------------
(* How a call ends.                                                        *)

\* The items taken so far are a prefix of the answer.
LEMMA GotItems ==
    ASSUME NEW c \in 0 .. MaxSends, NEW g \in Seq(Message), \A k \in 1 .. Len(g) : g[k] = Msg(c, "item", k)
    PROVE  g = Items(c, 0, Len(g))
<1>1. Len(g) \in Nat /\ 0 <= Len(g) /\ Len(g) - 0 = Len(g)
  OBVIOUS
<1>2. Items(c, 0, Len(g)) \in Seq(Message) /\ Len(Items(c, 0, Len(g))) = Len(g)
  BY <1>1, ItemsType
<1>3. \A k \in 1 .. Len(g) : 0 + k = k /\ Items(c, 0, Len(g))[k] = Msg(c, "item", 0 + k)
  BY <1>1 DEF Items
<1>4. \A k \in 1 .. Len(g) : Items(c, 0, Len(g))[k] = g[k]
  BY <1>3
<1> QED
  BY <1>2, <1>4, SeqEqual

\* When NLMSG_DONE of the call is at hand nothing but strays is left behind it.
LEMMA DoneLeavesNothing ==
    ASSUME MaxSends < SeqMod, TypeInv, Status, Coming, pc = "msg", op.kind = "RequestMulti",
           Head(rest).kind = "done", Relevant(Head(rest))
    PROVE  /\ ~op.refused /\ Len(got) = op.total
           /\ dump = NoDump /\ \A k \in 1 .. Len(queue) : queue[k] = <<Bad>>
<1>1. /\ op \in Op /\ op.call > 0 /\ rest \in Datagram /\ Len(got) \in Nat /\ Len(queue) \in Nat
      /\ queue \in Seq(Datagram) /\ Len(got) < Length(op) /\ op.total \in Nat
  BY LengthType DEF TypeInv, TypeOK, Status, Datagram, Coming
<1>2. ~op.refused /\ Len(got) + 1 > op.total
  BY <1>1, AtHand, NthMeans
<1>3. Length(op) = op.total + 1 /\ Len(got) = op.total
  BY <1>1, <1>2 DEF Length
<1>4. PICK at \in [0 .. Len(queue) -> 0 .. Length(op)] : Chain(op, rest, Len(got), queue, dump, at)
  BY DEF Coming, Chained
<1>5. \A k \in 0 .. Len(queue) : at[k] \in 0 .. Length(op)
  OBVIOUS
<1>6. at[0] = Length(op)
  <2>1. at[0] \in 0 .. Length(op) /\ at[0] \in Nat /\ Link(op, rest, Len(got), at[0])
    <3>1. 0 \in 0 .. Len(queue) /\ 0 .. Length(op) \subseteq Nat
      BY <1>1, LengthType
    <3> QED
      BY <1>4, <1>5, <3>1 DEF Chain, Path
  <2>2. Head(rest).call = op.call
    BY <1>1, AtHand, NthMeans
  <2>3. Len(got) < at[0]
    BY <1>1, <2>1, <2>2, HeadLinks
  <2> QED
    BY <1>1, <1>3, <2>1, <2>3
<1>7. ASSUME NEW k \in 0 .. Len(queue) PROVE at[k] = Length(op)
  <2>1. 0 \in 0 .. Len(queue) /\ 0 <= k
    BY <1>1
  <2>2. at[0] <= at[k]
    BY <1>4, <2>1 DEF Chain, Path
  <2> QED
    BY <1>1, <1>3, <1>5, <1>6, <2>2
<1>8. ~MayFollow(op, Length(op))
  BY <1>1, <1>2, <1>3 DEF MayFollow
<1>9. dump = NoDump
  <2>1. Len(queue) \in 0 .. Len(queue)
    BY <1>1
  <2> QED
    BY <1>4, <1>7, <1>8, <2>1 DEF Chain, Remains
<1>10. ASSUME NEW k \in 1 .. Len(queue) PROVE queue[k] = <<Bad>>
  <2>1. k \in 0 .. Len(queue) /\ k - 1 \in 0 .. Len(queue)
    BY <1>1
  <2>2. Link(op, queue[k], Length(op), Length(op))
    BY <1>4, <1>7, <2>1 DEF Chain, Path
  <2>3. ~Part(op, queue[k], Length(op), Length(op))
    <3>1. queue[k] \in Seq(Message) /\ queue[k] # <<>>
      BY <1>1 DEF Datagram
    <3>2. Len(queue[k]) # 0
      BY <3>1, EmptySeq
    <3> QED
      BY <1>1, <1>3, <3>2 DEF Part
  <2> QED
    BY <1>8, <2>2, <2>3 DEF Link
<1> QED
  BY <1>2, <1>3, <1>9, <1>10

LEMMA EndStep ==
    ASSUME MaxSends < SeqMod, TypeInv, Numbers, DumpQueued, Status, Coming, Ends, [Next]_vars
    PROVE  Ends'
<1>1. ASSUME result' # "ok" PROVE Ends'
  BY <1>1 DEF Ends, DumpComplete, Resync, RequestSound
<1>2. ASSUME UNCHANGED <<queue, dump, op, got, result>> PROVE Ends'
  BY <1>2 DEF Ends, DumpComplete, Resync, RequestSound
<1>3. pc # "idle" => result = "none"
  BY DEF Status
<1>4. ASSUME NEW kind, SendFails(kind) PROVE Ends'
  BY <1>1, <1>4 DEF SendFails
<1>5. CASE Request \/ RequestMulti \/ RecvFails
  BY <1>1, <1>5 DEF Request, RequestMulti, RecvFails
<1>6. CASE Execute
  <2>1. op'.kind = "Execute"
    BY <1>6 DEF Execute, Call
  <2> QED
    BY <2>1 DEF Ends, DumpComplete, Resync, RequestSound
<1>7. CASE Recv
  BY <1>1, <1>3, <1>7 DEF Recv
<1>8. CASE OtherSend \/ UNCHANGED vars
  BY <1>2, <1>8 DEF OtherSend, vars
<1>9. CASE StrayDatagram
  <2>1. UNCHANGED <<dump, op, got, result>> /\ queue' = Append(queue, <<Bad>>)
    BY <1>9 DEF StrayDatagram
  <2>2. queue \in Seq(Datagram) /\ <<Bad>> \in Datagram
    BY AnswerType DEF TypeInv, TypeOK, Bad, Kinds
  <2>3. /\ Len(queue) \in Nat /\ Len(queue') = Len(queue) + 1 /\ queue'[Len(queue) + 1] = <<Bad>>
        /\ \A k \in 1 .. Len(queue) : queue'[k] = queue[k]
    BY <2>1, <2>2, AppendProperties
  <2>4. \A k \in 1 .. Len(queue) + 1 : k \in 1 .. Len(queue) \/ k = Len(queue) + 1
    BY <2>3
  <2>5. Resync'
    BY <2>1, <2>3, <2>4 DEF Ends, Resync
  <2> QED
    BY <2>1, <2>5 DEF Ends, DumpComplete, RequestSound
<1>10. CASE Process
  <2> DEFINE m == Head(rest)
  <2>1. pc = "msg" /\ UNCHANGED <<queue, dump, op>>
    BY <1>10 DEF Process
  <2>2. op \in Op /\ op.call \in 0 .. MaxSends /\ got \in Seq(Message) /\ Len(got) \in Nat
    BY LengthType DEF TypeInv, TypeOK
  <2>3. \A k \in 1 .. Len(got) : got[k] = Msg(op.call, "item", k)
    BY <2>1 DEF Coming
  <2> SUFFICES ASSUME result' = "ok" PROVE Ends'
    BY <1>1
  <2>4. Return("ok")
    BY <1>3, <1>10, <2>1 DEF Process, RequestMsg, RequestMultiMsg, Return, Proceed
  <2>5. CASE op.kind = "RequestMulti"
    <3>1. m.kind = "done" /\ Relevant(m) /\ got' = got
      BY <1>3, <1>10, <2>1, <2>5 DEF Process, RequestMultiMsg, Return, Proceed
    <3>2. /\ ~op.refused /\ Len(got) = op.total
          /\ dump = NoDump /\ \A k \in 1 .. Len(queue) : queue[k] = <<Bad>>
      BY <2>1, <2>5, <3>1, DoneLeavesNothing
    <3>3. got = Items(op.call, 0, op.total)
      BY <2>2, <2>3, <3>2, GotItems
    <3> QED
      BY <2>1, <2>5, <3>1, <3>2, <3>3 DEF Ends, DumpComplete, Resync, RequestSound
  <2>6. CASE op.kind = "Request"
    <3>1. Len(got) = 0 /\ Length(op) = 1
      BY <2>1, <2>2, <2>6 DEF Coming, Length
    <3>2. \/ m.kind # "bad" /\ ~Relevant(m)
          \/ m.kind \notin {"bad", "error"} /\ Relevant(m) /\ got' = Append(got, m)
      BY <1>10, <2>6 DEF Process, RequestMsg, Take, Return
    <3>3. CASE m.kind # "bad" /\ ~Relevant(m)
      <4>1. ~op.clean
        BY <2>1, <2>6, <3>3, AtHand DEF MayFollow
      <4> QED
        BY <2>1, <2>6, <4>1 DEF Ends, DumpComplete, Resync, RequestSound
    <3>4. CASE m.kind \notin {"bad", "error"} /\ Relevant(m) /\ got' = Append(got, m)
      <4>1. m \in Nth(op, 0 + 1) /\ m \in Message
        BY <2>1, <3>1, <3>4, AtHand
      <4>2. m = Msg(op.call, "item", 1) /\ ~op.refused
        BY <2>2, <2>6, <3>4, <4>1, NthMeans
      <4> HIDE DEF m
      <4>3. got' \in Seq(Message) /\ Len(got') = 1 /\ got'[1] = m
        BY <2>2, <3>1, <3>4, <4>1, AppendProperties
      <4>4. \A k \in 1 .. Len(got') : got'[k] = Msg(op.call, "item", k)
        BY <4>2, <4>3
      <4>5. got' = Items(op.call, 0, 1)
        BY <2>2, <4>3, <4>4, GotItems
      <4> QED
        BY <2>1, <2>6, <4>2, <4>5 DEF Ends, DumpComplete, Resync, RequestSound
    <3> QED
      BY <3>2, <3>3, <3>4
  <2> QED
    BY <1>10, <2>5, <2>6 DEF Process
<1> QED
  BY <1>4, <1>5, <1>6, <1>7, <1>8, <1>9, <1>10 DEF Next

-----------------------------------------------------------------------------
(* The theorems. All of them say what holds until the counter wraps: a     *)
(* leftover that is a whole turn old has the number of the call.           *)

\* IndInv is an inductive invariant: the messages of the call are on their way in order
\* and without a gap, whatever lies between them.
THEOREM Invariance ==
    ASSUME MaxSends < SeqMod
    PROVE  Spec => []IndInv
<1>1. Init => IndInv
  <2> SUFFICES ASSUME Init PROVE IndInv
    OBVIOUS
  <2>1. TypeInv
    BY DEF Init, TypeInv, TypeOK, DumpOK, NoDump, Dump, NoOp, Op
  <2>2. Numbers /\ DumpQueued
    BY DEF Init, Numbers, Within, DumpQueued, NoDump, NoOp
  <2>3. Status /\ Coming /\ Ends
    BY DEF Init, Status, Coming, Ends, DumpComplete, Resync, RequestSound, NoOp
  <2> QED
    BY <2>1, <2>2, <2>3 DEF IndInv
<1>2. IndInv /\ [Next]_vars => IndInv'
  BY TypeStep, NumbersStep, StatusStep, ComingStep, EndStep DEF IndInv
<1> QED
  BY <1>1, <1>2, PTL DEF Spec

\* netlink.go:573-603: a Receive that waits has something to read: the rest of the answer
\* is queued, or a datagram whose reading makes the kernel produce more of it.
THEOREM NeverLeftWaiting ==
    ASSUME MaxSends < SeqMod
    PROVE  Spec => []NeverBlocks
<1>1. IndInv => NeverBlocks
  <2> SUFFICES ASSUME IndInv, pc = "recv", queue = <<>> PROVE FALSE
    BY DEF NeverBlocks
  <2>1. /\ op \in Op /\ rest = <<>> /\ Len(got) \in Nat /\ Len(got) < Length(op) /\ Len(queue) = 0
        /\ op.call > 0
    BY DEF IndInv, TypeInv, TypeOK, Coming, Status
  <2>2. PICK at \in [0 .. Len(queue) -> 0 .. Length(op)] : Chain(op, <<>>, Len(got), queue, dump, at)
    BY <2>1 DEF IndInv, Coming, Chained
  <2>3. at[0] \in Nat /\ Link(op, <<>>, Len(got), at[0]) /\ Remains(op, dump, at[0])
    <3>1. 0 \in 0 .. Len(queue) /\ 0 .. Length(op) \subseteq Nat
      BY <2>1, LengthType
    <3> QED
      BY <2>1, <2>2, <3>1 DEF Chain, Path
  <2>4. at[0] = Len(got)
    BY <2>1, <2>3, NothingLinks
  <2>5. dump.call = op.call /\ NoDump.call = 0
    BY <2>1, <2>3, <2>4, LengthType DEF Remains, NoDump
  <2>6. dump = NoDump
    BY DEF IndInv, DumpQueued
  <2> QED
    BY <2>1, <2>5, <2>6
<1> QED
  BY Invariance, <1>1, PTL

\* netlink.go:629-653: a RequestMulti without error has handed over its whole dump, once
\* and in order, for dumps of any length cut into datagrams in any way.
THEOREM DumpsAreComplete ==
    ASSUME MaxSends < SeqMod
    PROVE  Spec => []DumpComplete
<1>1. IndInv => DumpComplete
  BY DEF IndInv, Ends
<1> QED
  BY Invariance, <1>1, PTL

\* netlink.go:298-308: after a RequestMulti without error the socket is clean but for strays.
THEOREM Resynchronises ==
    ASSUME MaxSends < SeqMod
    PROVE  Spec => []Resync
<1>1. IndInv => Resync
  BY DEF IndInv, Ends
<1> QED
  BY Invariance, <1>1, PTL

\* netlink.go:610-625: on a clean socket a Request without error has its own answer.
THEOREM RequestsAreSound ==
    ASSUME MaxSends < SeqMod
    PROVE  Spec => []RequestSound
<1>1. IndInv => RequestSound
  BY DEF IndInv, Ends
<1> QED
  BY Invariance, <1>1, PTL

\* The answers as the caller sees them.
Given(g) == [k \in 1 .. Len(g) |-> [call |-> g[k].call, item |-> g[k].idx]]

LEMMA GivenAppend ==
    ASSUME NEW g \in Seq(Message), NEW m \in Message
    PROVE  /\ Given(Append(g, m)) = Append(Given(g), [call |-> m.call, item |-> m.idx])
           /\ Len(Given(g)) = Len(g)
<1> DEFINE S == [call : 0 .. MaxSends, item : Nat]
<1> DEFINE e == [call |-> m.call, item |-> m.idx]
<1>1. ASSUME NEW h \in Seq(Message)
      PROVE  /\ Given(h) \in Seq(S) /\ Len(Given(h)) = Len(h)
             /\ \A k \in 1 .. Len(h) : Given(h)[k] = [call |-> h[k].call, item |-> h[k].idx]
  <2>1. Len(h) \in Nat /\ \A k \in 1 .. Len(h) : h[k] \in Message
    BY <1>1
  <2>2. Given(h) \in [1 .. Len(h) -> S]
    BY <2>1 DEF Given, Message
  <2> QED
    BY <2>1, <2>2, SeqDef DEF Given
<1>2. /\ Append(g, m) \in Seq(Message) /\ Len(Append(g, m)) = Len(g) + 1 /\ Append(g, m)[Len(g) + 1] = m
      /\ \A k \in 1 .. Len(g) : Append(g, m)[k] = g[k]
  BY AppendProperties
<1>3. e \in S
  BY DEF Message
<1> HIDE DEF S, e
<1>4. /\ Append(Given(g), e) \in Seq(S) /\ Len(Append(Given(g), e)) = Len(g) + 1
      /\ Append(Given(g), e)[Len(g) + 1] = e
      /\ \A k \in 1 .. Len(g) : Append(Given(g), e)[k] = Given(g)[k]
  BY <1>1, <1>3, AppendProperties
<1>5. \A k \in 1 .. Len(g) + 1 : k \in 1 .. Len(g) \/ k = Len(g) + 1
  OBVIOUS
<1>6. \A k \in 1 .. Len(g) + 1 : Given(Append(g, m))[k] = Append(Given(g), e)[k]
  <2> SUFFICES ASSUME NEW k \in 1 .. Len(g) + 1 PROVE Given(Append(g, m))[k] = Append(Given(g), e)[k]
    OBVIOUS
  <2>1. Given(Append(g, m))[k] = [call |-> Append(g, m)[k].call, item |-> Append(g, m)[k].idx]
    BY <1>1, <1>2
  <2>2. CASE k \in 1 .. Len(g)
    <3>1. Given(g)[k] = [call |-> g[k].call, item |-> g[k].idx] /\ Append(g, m)[k] = g[k]
      BY <1>1, <1>2, <2>2
    <3> QED
      BY <1>4, <2>1, <2>2, <3>1
  <2>3. CASE k = Len(g) + 1
    BY <1>2, <1>4, <2>1, <2>3 DEF e
  <2> QED
    BY <1>5, <2>2, <2>3
<1>7. Given(Append(g, m)) = Append(Given(g), e)
  BY <1>1, <1>2, <1>4, <1>6, SeqEqual
<1> QED
  BY <1>1, <1>7 DEF e

\* Every step of the socket is a step of what the caller is promised, or none.
LEMMA PromiseStep ==
    ASSUME MaxSends < SeqMod, IndInv, [Next]_vars
    PROVE  [Promise!Next]_(Promise!vars)
<1>1. /\ op \in Op /\ op.call \in 0 .. MaxSends /\ got \in Seq(Message) /\ Len(got) \in Nat
      /\ sent \in Nat /\ op.call <= sent /\ op.total \in Nat
      /\ TypeInv /\ Status /\ Coming
  BY LengthType DEF IndInv, TypeInv, TypeOK, Numbers
<1>2. ASSUME UNCHANGED <<op, got, result>> PROVE UNCHANGED Promise!vars
  BY <1>2 DEF Promise!vars
\* A call begins.
<1>3. ASSUME pc = "idle", op'.kind \in {"Request", "RequestMulti", "Execute"}, op'.call = sent + 1,
             op'.refused => op'.total = 0, got' = <<>>,
             result' \in IF op'.kind = "Execute" THEN {"ok", "io"} ELSE {"none", "io"}
      PROVE  Promise!Begin
  <2>1. Len(got') = 0 /\ Given(got') = <<>>
    BY <1>3 DEF Given
  <2>2. ~Promise!Active
    BY <1>1, <1>3 DEF Promise!Active, Status
  <2>3. op'.call > op.call
    BY <1>1, <1>3
  <2> QED
    BY <1>3, <2>1, <2>2, <2>3 DEF Promise!Begin, Given
<1>4. ASSUME NEW kind \in {"Request", "RequestMulti", "Execute"}, SendFails(kind) PROVE Promise!Begin
  <2>1. op'.kind = kind /\ op'.call = sent + 1 /\ (op'.refused => op'.total = 0)
    BY <1>4 DEF SendFails, Call
  <2> QED
    BY <1>3, <1>4, <2>1 DEF SendFails
<1>5. CASE Request
  <2>1. op'.kind = "Request" /\ op'.call = sent + 1 /\ (op'.refused => op'.total = 0)
    BY <1>5 DEF Request, Call
  <2> QED
    BY <1>3, <1>5, <2>1 DEF Request, Promise!Next
<1>6. CASE RequestMulti
  <2>1. op'.kind = "RequestMulti" /\ op'.call = sent + 1 /\ (op'.refused => op'.total = 0)
    <3>1. \E refused, total :
            Call("RequestMulti", refused, total) /\ (refused => total = 0)
      BY <1>6, Zenon DEF RequestMulti
    <3> QED
      BY <3>1 DEF Call
  <2> QED
    BY <1>3, <1>6, <2>1 DEF RequestMulti, Promise!Next
<1>7. CASE Execute
  <2>1. op'.kind = "Execute" /\ op'.call = sent + 1 /\ (op'.refused => op'.total = 0)
    BY <1>7 DEF Execute, Call
  <2> QED
    BY <1>3, <1>7, <2>1 DEF Execute, Promise!Next
<1>8. pc # "idle" => Promise!Active
  BY <1>1 DEF Status, Promise!Active
<1>9. CASE RecvFails
  BY <1>8, <1>9 DEF RecvFails, Promise!Next, Promise!Fail, Promise!End
<1>10. CASE Process
  <2> DEFINE m == Head(rest)
  <2>1. pc = "msg" /\ op' = op /\ Promise!Active
    BY <1>8, <1>10 DEF Process
  <2>2. /\ m.kind # "bad" /\ Relevant(m) => m \in Nth(op, Len(got) + 1)
        /\ m.kind # "bad" /\ ~Relevant(m) => MayFollow(op, Len(got))
        /\ m \in Message /\ Len(Given(got)) = Len(got) /\ Len(got) < Length(op)
    BY <1>1, <2>1, AtHand, GivenAppend DEF Coming
  <2>3. ASSUME m.kind # "bad", Relevant(m)
        PROVE  /\ m.call = op.call /\ m.kind \in {"error", "item", "done", "failed"}
               /\ m.kind = "error" => op.refused
               /\ m.kind = "item" => m = Msg(op.call, "item", Len(got) + 1) /\ ~op.refused
                                     /\ (op.kind = "Request" \/ Len(got) + 1 <= op.total)
               /\ m.kind \in {"done", "failed"} => ~op.refused /\ op.kind # "Request" /\ Len(got) + 1 > op.total
    BY <1>1, <2>2, <2>3, NthMeans
  <2> HIDE DEF m
  \* The answer is handed over.
  <2>4. ASSUME m.kind = "item", Relevant(m), got' = Append(got, m) PROVE Promise!Hand
    <3>1. m.call = op.call /\ m.idx = Len(got) + 1
      BY <2>3, <2>4 DEF Msg
    <3>2. Given(got') = Append(Given(got), [call |-> op.call, item |-> Len(Given(got)) + 1])
      BY <1>1, <2>2, <2>4, <3>1, GivenAppend
    <3> QED
      BY <3>2 DEF Promise!Hand, Given
  \* The call ends.
  <2>5. ASSUME NEW o, Return(o), UNCHANGED got PROVE Promise!End(o)
    BY <2>1, <2>5 DEF Return, Promise!End
  <2>6. m.kind = "bad" /\ Return("io") /\ UNCHANGED got => Promise!Fail
    BY <2>1, <2>5 DEF Promise!Fail
  <2>7. CASE op.kind = "Request" /\ RequestMsg(m)
    <3>1. CASE m.kind # "bad" /\ ~Relevant(m) /\ Return("ok") /\ UNCHANGED got
      <4>1. ~op.clean
        BY <2>2, <2>7, <3>1 DEF MayFollow
      <4> QED
        BY <2>1, <2>5, <2>7, <3>1, <4>1 DEF Promise!Next, Promise!NoAnswer
    <3>2. CASE m.kind = "error" /\ Relevant(m) /\ Return("errno") /\ UNCHANGED got
      BY <2>1, <2>3, <2>5, <3>2 DEF Promise!Next, Promise!Errno
    <3>3. CASE m.kind \notin {"bad", "error"} /\ Relevant(m) /\ Return("ok") /\ Take(m)
      <4>1. m.kind = "item" /\ ~op.refused
        BY <2>3, <2>7, <3>3
      <4> QED
        BY <2>1, <2>4, <2>7, <3>3, <4>1 DEF Promise!Next, Promise!Answer, Take, Return
    <3> QED
      BY <2>6, <2>7, <3>1, <3>2, <3>3 DEF RequestMsg, Promise!Next
  <2>8. CASE op.kind = "RequestMulti" /\ RequestMultiMsg(m)
    <3>1. ~op.refused => Length(op) = op.total + 1
      BY <2>8 DEF Length
    <3>2. CASE m.kind # "bad" /\ ~Relevant(m) /\ Proceed /\ UNCHANGED got
      BY <1>2, <2>1, <3>2 DEF Proceed
    <3>3. CASE m.kind = "error" /\ Relevant(m) /\ Return("errno") /\ UNCHANGED got
      BY <2>1, <2>3, <2>5, <3>3 DEF Promise!Next, Promise!Errno
    <3>4. CASE m.kind \in {"done", "failed"} /\ Relevant(m) /\ UNCHANGED got
               /\ ((m.kind = "done" /\ Return("ok")) \/ (m.kind = "failed" /\ Return("errno")))
      <4>1. ~op.refused /\ Len(got) = op.total
        BY <1>1, <2>2, <2>3, <3>1, <3>4
      <4>2. Len(Given(got)) = op.total
        BY <2>2, <4>1
      <4> QED
        BY <2>1, <2>5, <2>8, <3>4, <4>1, <4>2 DEF Promise!Next, Promise!Complete, Promise!Errno, Given
    <3>5. CASE m.kind = "item" /\ Relevant(m) /\ Proceed /\ Take(m)
      <4>1. ~op.refused /\ Len(Given(got)) < op.total
        BY <1>1, <2>2, <2>3, <2>8, <3>5
      <4> QED
        BY <2>1, <2>4, <2>8, <3>5, <4>1 DEF Promise!Next, Promise!Item, Take, Proceed, Given
    <3>6. CASE m.kind = "item" /\ Relevant(m) /\ Return("abort") /\ UNCHANGED got
      <4>1. ~op.refused /\ Len(Given(got)) < op.total
        BY <1>1, <2>2, <2>3, <2>8, <3>6
      <4> QED
        BY <2>1, <2>5, <2>8, <3>6, <4>1 DEF Promise!Next, Promise!Abort, Given
    <3> QED
      <4>1. CASE m.kind = "bad" /\ Return("io") /\ UNCHANGED got
        BY <2>6, <4>1 DEF Promise!Next
      <4>2. \/ m.kind = "bad" /\ Return("io") /\ UNCHANGED got
            \/ m.kind # "bad" /\ ~Relevant(m) /\ Proceed /\ UNCHANGED got
            \/ m.kind = "error" /\ Relevant(m) /\ Return("errno") /\ UNCHANGED got
            \/ m.kind \in {"done", "failed"} /\ Relevant(m) /\ UNCHANGED got
               /\ ((m.kind = "done" /\ Return("ok")) \/ (m.kind = "failed" /\ Return("errno")))
            \/ m.kind = "item" /\ Relevant(m) /\ Proceed /\ Take(m)
            \/ m.kind = "item" /\ Relevant(m) /\ Return("abort") /\ UNCHANGED got
        BY <2>8 DEF RequestMultiMsg
      <4> QED
        BY <3>2, <3>3, <3>4, <3>5, <3>6, <4>1, <4>2
  <2> QED
    BY <1>10, <2>7, <2>8 DEF Process, m
<1>11. CASE OtherSend \/ StrayDatagram \/ Recv \/ UNCHANGED vars
  BY <1>2, <1>11 DEF OtherSend, StrayDatagram, Recv, vars
<1> QED
  BY <1>4, <1>5, <1>6, <1>7, <1>9, <1>10, <1>11 DEF Next, Promise!Next

\* netlink.go:573-672: the socket implements the safety part of Requests: with sequence
\* numbers, datagrams and leftovers hidden, every step is one a caller was promised.
THEOREM ImplementsSafety ==
    ASSUME MaxSends < SeqMod
    PROVE  Spec => Promise!Safety
<1>1. Init => Promise!Init
  <2> SUFFICES ASSUME Init PROVE Promise!Init
    OBVIOUS
  <2>1. op = Promise!NoCall /\ result = "none"
    BY DEF Init, NoOp, Promise!NoCall
  <2>2. Given(got) = <<>>
    BY DEF Init, Given
  <2> QED
    BY <2>1, <2>2 DEF Promise!Init, Given
<1>2. IndInv /\ [Next]_vars => [Promise!Next]_(Promise!vars)
  BY PromiseStep
<1> QED
  BY Invariance, <1>1, <1>2, PTL DEF Spec, Promise!Safety
=============================================================================
