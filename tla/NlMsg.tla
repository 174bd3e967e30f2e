------------------------------- MODULE NlMsg -------------------------------
(* NlMsgBuilder and NlMsgParser (odp/netlink.go): messages with nested     *)
(* attributes put into a growing buffer, sent in a datagram, cut to the    *)
(* receiver's buffer by recvfrom, and taken apart again.                   *)
(*                                                                         *)
(* A buffer is a sequence of bytes.  Of a header only the fields that      *)
(* steer the parser are kept, each in one cell: the length of a message in *)
(* its first one; the length and the type of an attribute in its first and *)
(* third one.  Positions start at 0, as in the code.                       *)
(*                                                                         *)
(* The kernel builds its messages by the same rules; here one builder      *)
(* fills a datagram and one parser reads it.                               *)
EXTENDS Naturals, Sequences, SequencesExt

CONSTANTS
    SizeofNlMsghdr,
    SizeofHeader,   \* SizeofGenlMsghdr and SizeofOvsHeader
    SizeofNlAttr,
    AlignTo,        \* NLMSG_ALIGNTO and NLA_ALIGNTO
    LenMod,         \* nla.Len is a number modulo this, 2^16
    BytesTypes,     \* attribute types put by PutSliceAttr, PutUint8Attr, PutEmptyAttr...
    StringTypes,    \* by PutStringAttr
    NestedTypes,    \* by PutNestedAttrs
    Values,         \* the values put
    Slack,          \* what an allocation may have beyond the capacity asked for
    BufSize,        \* size of the receiver's buffer
    Error,          \* result of a parser that returns an error, or panics
    MaxBytes,       \* bound on a message
    MaxDepth,       \* bound on nesting
    MaxMsgs         \* bound on messages in a datagram

Types == BytesTypes \cup StringTypes \cup NestedTypes

ASSUME SizesAssumption ==
    /\ {SizeofNlMsghdr, SizeofHeader, SizeofNlAttr, AlignTo, LenMod, BufSize} \subseteq Nat \ {0}
    /\ SizeofNlAttr >= 3 /\ SizeofNlAttr % AlignTo = 0
    /\ StringTypes \cap NestedTypes = {}
    /\ Types \subseteq Nat /\ Values \subseteq Seq(Nat) /\ Slack \subseteq Nat /\ Slack # {}

VARIABLES
    buf, cap,       \* the builder's buffer and its capacity
    open,           \* the message being built and the attributes open in it, outermost first
    fits,           \* history: the lengths of all attributes are less than LenMod
    sent, datagram, \* the messages sent, as attributes and as bytes
    resp, pos,      \* the parser of the datagram received
    got,            \* the messages parsed
    phase           \* build, parse; done, failed: the result of Receive

vars == <<buf, cap, open, fits, sent, datagram, resp, pos, got, phase>>

-----------------------------------------------------------------------------
(* The builder.                                                            *)

\* align
Align(n) == ((n + AlignTo - 1) \div AlignTo) * AlignTo

Zeros(n) == [i \in 1 .. n |-> 0]
PaddedTo(b, n) == b \o Zeros(n - Len(b))

\* expand: the new capacity
Expanded(c, l) ==
    LET enough[d \in Nat] == IF l > d THEN enough[((d + 1) * 3) \div 2] ELSE d
    IN  enough[((c + 1) * 3) \div 2]

\* Room for l bytes, in a larger buffer if need be. MakeAlignedByteSliceCap allocates a few
\* bytes more than asked for, and how many it needs for alignment depends on the address.
Room(l) ==
    IF l > cap THEN \E s \in Slack : cap' = Expanded(cap, l) + s ELSE UNCHANGED cap

Init ==
    /\ buf = <<>> /\ cap = 0 /\ open = <<>> /\ fits = TRUE
    /\ sent = <<>> /\ datagram = <<>>
    /\ resp = <<>> /\ pos = 0 /\ got = <<>> /\ phase = "build"

NewNlMsgBuilder ==
    /\ phase = "build" /\ open = <<>> /\ Len(sent) < MaxMsgs
    /\ buf' = Zeros(SizeofNlMsghdr)
    /\ \E s \in Slack : cap' = SizeofNlMsghdr + s
    /\ open' = <<[pos |-> 0, typ |-> 0, content |-> <<>>, full |-> FALSE]>>
    /\ UNCHANGED <<fits, sent, datagram, resp, pos, got, phase>>

AllHeaders == Align(Align(SizeofNlMsghdr) + SizeofHeader) + SizeofHeader

\* PutGenlMsghdr, then putOvsHeader
PutHeader ==
    LET l == Align(Len(buf)) + SizeofHeader
    IN  /\ open # <<>> /\ Len(buf) < AllHeaders
        /\ buf' = PaddedTo(buf, l)
        /\ Room(l)
        /\ UNCHANGED <<open, fits, sent, datagram, resp, pos, got, phase>>

InMessage == open # <<>> /\ Len(buf) >= AllHeaders
InAttr(types) == Len(open) > 1 /\ Last(open).typ \in types

\* PutAttr before it calls gen: room for the header
PutAttr(typ) ==
    LET p == Align(Len(buf))
        l == p + SizeofNlAttr
    IN  /\ InMessage /\ (Len(open) = 1 \/ InAttr(NestedTypes))
        /\ Len(open) <= MaxDepth /\ l <= MaxBytes
        /\ buf' = PaddedTo(buf, l)
        /\ Room(l)
        /\ open' = Append(open, [pos |-> p, typ |-> typ, content |-> <<>>, full |-> FALSE])
        /\ UNCHANGED <<fits, sent, datagram, resp, pos, got, phase>>

\* gen of an attribute that is not nested. putStringZ adds a nul byte.
PutValue(val) ==
    LET bytes == IF Last(open).typ \in StringTypes THEN Append(val, 0) ELSE val
        l     == Len(buf) + Len(bytes)
    IN  /\ InAttr(Types \ NestedTypes) /\ ~Last(open).full /\ l <= MaxBytes
        /\ buf' = buf \o bytes
        /\ Room(l)
        /\ open' = Append(Front(open), [Last(open) EXCEPT !.content = val, !.full = TRUE])
        /\ UNCHANGED <<fits, sent, datagram, resp, pos, got, phase>>

\* PutAttr after gen: the header is written, in whatever buffer there is now.
WithHeader(b, attr) ==
    [b EXCEPT ![attr.pos + 1] = (Len(b) - attr.pos) % LenMod, ![attr.pos + 3] = attr.typ]

\* The innermost attribute becomes part of the one around it.
Closed(b) ==
    LET attr  == Last(open)
        outer == Front(open)
    IN  /\ open' = [outer EXCEPT ![Len(outer)].content =
                       Append(@, [typ |-> attr.typ, val |-> attr.content])]
        /\ fits' = (fits /\ Len(b) - attr.pos < LenMod)
        /\ UNCHANGED <<sent, datagram, resp, pos, got, phase>>

EndAttrPadded ==
    LET b == PaddedTo(buf, Align(Len(buf)))
    IN  /\ InAttr(Types \ NestedTypes) /\ Last(open).full
        /\ buf' = WithHeader(b, Last(open))
        /\ Room(Len(b))
        /\ Closed(b)

EndAttr ==
    /\ InAttr(Types \ NestedTypes) /\ Last(open).full
    /\ buf' = WithHeader(buf, Last(open))
    /\ Closed(buf)
    /\ UNCHANGED cap

EndNestedAttrsNoRoom ==
    LET b == PaddedTo(buf, Align(Len(buf)))
    IN  /\ InAttr(NestedTypes)
        /\ buf' = WithHeader(b, Last(open))
        /\ Closed(b)
        /\ UNCHANGED cap

\* PutNestedAttrs: the padding is part of the value.
EndNestedAttrs ==
    LET b == PaddedTo(buf, Align(Len(buf)))
    IN  /\ InAttr(NestedTypes)
        /\ buf' = WithHeader(b, Last(open))
        /\ Room(Len(b))
        /\ Closed(b)

\* Finish, and the place of the message in the datagram
Finish ==
    /\ InMessage /\ Len(open) = 1
    /\ datagram' = PaddedTo(datagram, Align(Len(datagram))) \o [buf EXCEPT ![1] = Len(buf)]
    /\ sent' = Append(sent, open[1].content)
    /\ buf' = <<>> /\ cap' = 0 /\ open' = <<>>
    /\ UNCHANGED <<fits, resp, pos, got, phase>>

-----------------------------------------------------------------------------
(* The parser.                                                             *)

\* parseAttrs from position p to the end of data. A length that is less than the header's
\* is not checked: the slice expression panics.
ParseAttrs(data, p) ==
    LET from[q \in Nat] ==
            LET apos == Align(q)
                len  == data[apos + 1]
                rest == from[apos + len]
            IN  IF Len(data) <= apos THEN <<>>
                ELSE IF \/ apos + SizeofNlAttr > Len(data)
                        \/ apos + len > Len(data)
                        \/ len < SizeofNlAttr
                        \/ rest = Error
                THEN Error
                ELSE <<[typ |-> data[apos + 3],
                        val |-> SubSeq(data, apos + SizeofNlAttr + 1, apos + len)]>> \o rest
    IN  from[p]

\* GetString
GetString(val) == IF val = <<>> \/ Last(val) # 0 THEN Error ELSE Front(val)

AttrSeq == Seq([typ : Nat, val : Seq(Nat)])

\* The attributes as their types ask for: GetString, GetNestedAttrs or GetOrderedAttrs, or
\* the bytes as they are.
Taken[attrs \in AttrSeq] ==
    [i \in DOMAIN attrs |->
        LET a      == attrs[i]
            nested == ParseAttrs(a.val, 0)
        IN  [typ |-> a.typ,
             val |-> IF a.typ \in StringTypes THEN GetString(a.val)
                     ELSE IF a.typ \notin NestedTypes THEN a.val
                     ELSE IF nested = Error THEN Error ELSE Taken[nested]]]

\* ExpectNlMsghdr, CheckGenlMsghdr, takeOvsHeader and TakeAttrs of the message at p
TakeMessage(data, p) ==
    LET attrs == ParseAttrs(data, p + AllHeaders)
    IN  IF p + AllHeaders > Len(data) \/ attrs = Error THEN Error ELSE Taken[attrs]

\* recv: recvfrom drops what does not fit the buffer.
Recv ==
    /\ phase = "build" /\ open = <<>> /\ sent # <<>>
    /\ resp' = SubSeq(datagram, 1, IF Len(datagram) < BufSize THEN Len(datagram) ELSE BufSize)
    /\ phase' = "parse"
    /\ UNCHANGED <<buf, cap, open, fits, sent, datagram, pos, got>>

\* nextNlMsg: what it finds at its position
Avail == Len(resp) - pos
AtEnd == pos >= Len(resp)
Truncated == ~AtEnd /\ (Avail < SizeofNlMsghdr \/ Avail < resp[pos + 1])

NextPosAsIs(end) == end
NextPos(end) == Align(end)

\* The next message, which Receive hands to its callback
NextNlMsg ==
    LET end == pos + resp[pos + 1]
        msg == TakeMessage(SubSeq(resp, 1, end), pos)
    IN  /\ phase = "parse" /\ ~AtEnd /\ ~Truncated
        /\ pos' = NextPos(end)
        /\ IF msg = Error
           THEN phase' = "failed" /\ UNCHANGED got
           ELSE got' = Append(got, msg) /\ UNCHANGED phase
        /\ UNCHANGED <<buf, cap, open, fits, sent, datagram, resp>>

NoNlMsg ==
    /\ phase = "parse" /\ (AtEnd \/ Truncated)
    /\ phase' = IF AtEnd THEN "done" ELSE "failed"
    /\ UNCHANGED <<buf, cap, open, fits, sent, datagram, resp, pos, got>>

-----------------------------------------------------------------------------
Build ==
    \/ NewNlMsgBuilder \/ PutHeader \/ EndAttr \/ EndNestedAttrs \/ Finish
    \/ \E typ \in Types : PutAttr(typ)
    \/ \E val \in Values : PutValue(val)

Next == Build \/ Recv \/ NextNlMsg \/ NoNlMsg

Spec == Init /\ [][Next]_vars

-----------------------------------------------------------------------------
(* Properties.                                                             *)

\* The slice never exceeds its array (netlink.go:97-133: the slice expressions would
\* panic), and the headers still to be written are inside it.
TypeOK ==
    /\ buf \in Seq(Nat) /\ cap \in Nat /\ Len(buf) <= cap
    /\ \A i \in 2 .. Len(open) :
          open[i].typ \in Types /\ open[i].pos + SizeofNlAttr <= Len(buf)
    /\ fits \in BOOLEAN /\ datagram \in Seq(Nat) /\ resp \in Seq(Nat)
    /\ pos \in Nat /\ phase \in {"build", "parse", "done", "failed"}

\* netlink.go:244-263, 469-493: what is parsed is what was put, message by message, whatever
\* the values and the nesting, however the buffer had to grow, and however recvfrom cut the
\* datagram: a message that is not there as a whole is not there at all.
NothingInvented == fits => IsPrefix(got, sent)

\* netlink.go:573-603: a datagram that fits the receiver's buffer is parsed to its end.
AllParsed ==
    fits /\ Len(datagram) <= BufSize =>
        phase # "failed" /\ (phase = "done" => Len(got) = Len(sent))
=============================================================================
