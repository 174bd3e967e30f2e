----------------------------- MODULE NlMsgProofs -----------------------------
(***************************************************************************)
(* Proofs about NlMsg, for any sizes of headers, any alignment, any        *)
(* values, types and nesting, and whatever allocations leave beyond what   *)
(* was asked for: the builder's buffer (TypeOK), and that the parser gets  *)
(* back what the builder was given (NothingInvented, AllParsed).           *)
(*                                                                         *)
(* The second part goes by three invariants: the open attributes are       *)
(* nested in each other (StackInv), what is in the buffer means the tree   *)
(* that has been built (ContentInv), and the messages follow each other in *)
(* the datagram, with the parser at the one after those it has parsed      *)
(* (ParserInv).                                                            *)
(***************************************************************************)
EXTENDS NlMsg, SequenceTheorems, WellFoundedInduction, TLAPS

-----------------------------------------------------------------------------
(* What the code's constants are.                                          *)

\* SizesAssumption, fact by fact.
LEMMA Sizes ==
    /\ AlignTo \in Nat /\ AlignTo > 0 /\ LenMod \in Nat /\ LenMod > 0
    /\ SizeofNlMsghdr \in Nat /\ SizeofHeader \in Nat
    /\ SizeofNlAttr \in Nat /\ BufSize \in Nat
    /\ Types \subseteq Nat /\ Values \subseteq Seq(Nat) /\ Slack \subseteq Nat
BY SizesAssumption

-----------------------------------------------------------------------------
(* Numbers.                                                                *)

\* Natural numbers, one after the other.
LEMMA SetInduction ==
    ASSUME NEW S, 0 \in S, \A n \in Nat : n \in S => n + 1 \in S
    PROVE  Nat \subseteq S
<1> SUFFICES ASSUME Nat \ S # {} PROVE FALSE
  OBVIOUS
<1> DEFINE R == OpToRel(<, Nat)
<1>1. IsWellFoundedOn(R, Nat)
  BY NatLessThanWellFounded
<1>2. \A x, y \in Nat : x < y => <<x, y>> \in R
  BY DEF OpToRel
<1> HIDE DEF R
<1>3. PICK x \in Nat \ S : \A y \in Nat \ S : ~ (<<y, x>> \in R)
  BY <1>1, WFMin
<1>4. x # 0 /\ x - 1 \in Nat /\ x - 1 < x /\ (x - 1) + 1 = x
  OBVIOUS
<1>5. x - 1 \in S
  BY <1>2, <1>3, <1>4
<1> QED
  BY <1>3, <1>4, <1>5

\* align (netlink.go:10-12) rounds up.
LEMMA AlignBound ==
    ASSUME NEW n \in Nat
    PROVE  Align(n) \in Nat /\ Align(n) >= n
<1> DEFINE k == n + AlignTo - 1
<1>1. AlignTo \in Nat /\ AlignTo > 0 /\ k \in Nat
  BY SizesAssumption
<1>2. Align(n) = (k \div AlignTo) * AlignTo
  BY DEF Align
<1> HIDE DEF k
<1>3. PICK q \in Nat, r \in 0 .. AlignTo - 1 : k = q * AlignTo + r /\ k \div AlignTo = q
  BY <1>1
<1>4. q * AlignTo \in Nat /\ r <= AlignTo - 1
  BY <1>1
<1> QED
  BY <1>1, <1>2, <1>3, <1>4 DEF k

-----------------------------------------------------------------------------
(* expand: however the capacity grows, it reaches what is needed.          *)

Grown(d) == ((d + 1) * 3) \div 2

\* One turn of the loop in expand raises the capacity.
LEMMA GrownMore == ASSUME NEW d \in Nat PROVE Grown(d) \in Nat /\ Grown(d) > d
BY DEF Grown

\* The loop ends: so its recursive definition defines a function.
LEMMA ExpandEnds ==
    ASSUME NEW l \in Nat
    PROVE  \E f : f = [d \in Nat |-> IF l > d THEN f[Grown(d)] ELSE d]
<1> DEFINE D(n) == {d \in Nat : d + n >= l}
           F(n, g) == g = [d \in D(n) |-> IF l > d THEN g[Grown(d)] ELSE d]
           S == {n \in Nat : \E g : F(n, g)}
<1>1. 0 \in S
  <2> DEFINE g == [d \in D(0) |-> d]
  <2>1. F(0, g)
    OBVIOUS
  <2> QED
    BY <2>1
<1>2. ASSUME NEW n \in Nat, n \in S PROVE n + 1 \in S
  <2>1. PICK g : F(n, g)
    BY <1>2
  <2> DEFINE h == [d \in D(n + 1) |-> IF l > d THEN g[Grown(d)] ELSE d]
  <2>2. \A d \in D(n) : d \in D(n + 1) /\ h[d] = g[d]
    BY <2>1
  <2>3. \A d \in D(n + 1) : Grown(d) \in D(n)
    BY GrownMore
  <2>4. F(n + 1, h)
    <3>1. \A d \in D(n + 1) : g[Grown(d)] = h[Grown(d)]
      BY <2>2, <2>3
    <3> HIDE DEF D
    <3>2. h = [d \in D(n + 1) |-> IF l > d THEN h[Grown(d)] ELSE d]
      BY <3>1
    <3> QED
      BY <3>2
  <2> HIDE DEF F, h
  <2> QED
    BY <2>4
<1> HIDE DEF S
<1>3. l \in S
  BY <1>1, <1>2, SetInduction
<1>4. D(l) = Nat
  OBVIOUS
<1> QED
  BY <1>3, <1>4 DEF S

\* expand returns a capacity that is enough (netlink.go:96-105).
LEMMA ExpandedEnough ==
    ASSUME NEW c \in Nat, NEW l \in Nat
    PROVE  Expanded(c, l) \in Nat /\ Expanded(c, l) >= l
<1> DEFINE e == CHOOSE f : f = [d \in Nat |-> IF l > d THEN f[Grown(d)] ELSE d]
<1>1. Expanded(c, l) = e[Grown(c)]
  BY DEF Expanded, Grown
<1>2. e = [d \in Nat |-> IF l > d THEN e[Grown(d)] ELSE d]
  BY ExpandEnds
<1> HIDE DEF e
<1> DEFINE S == {n \in Nat : \A d \in Nat : d + n >= l => e[d] \in Nat /\ e[d] >= l}
<1>3. 0 \in S
  BY <1>2
<1>4. ASSUME NEW n \in Nat, n \in S PROVE n + 1 \in S
  <2> SUFFICES ASSUME NEW d \in Nat, d + (n + 1) >= l PROVE e[d] \in Nat /\ e[d] >= l
    OBVIOUS
  <2>1. Grown(d) \in Nat /\ Grown(d) + n >= l
    BY GrownMore
  <2>2. e[Grown(d)] \in Nat /\ e[Grown(d)] >= l
    BY <1>4, <2>1
  <2> QED
    BY <1>2, <2>2
<1>5. l \in S
  <2> HIDE DEF S
  <2> QED
    BY <1>3, <1>4, SetInduction
<1>6. Grown(c) \in Nat /\ Grown(c) + l >= l
  BY GrownMore
<1> QED
  BY <1>1, <1>5, <1>6

\* Room leaves a capacity for the bytes asked for, whatever an allocation adds.
LEMMA RoomMade ==
    ASSUME cap \in Nat, NEW l \in Nat, Room(l)
    PROVE  cap' \in Nat /\ l <= cap'
<1>1. CASE l > cap
  <2>1. PICK s \in Slack : cap' = Expanded(cap, l) + s
    BY <1>1 DEF Room
  <2>2. s \in Nat
    BY Sizes
  <2> QED
    <3>1. Expanded(cap, l) \in Nat /\ Expanded(cap, l) >= l
      BY ExpandedEnough
    <3> QED
      BY <2>1, <2>2, <3>1
<1> QED
  BY <1>1 DEF Room

-----------------------------------------------------------------------------
(* Buffers.                                                                *)

\* Padding makes a buffer of bytes as long as asked for.
LEMMA PaddedBytes ==
    ASSUME NEW b \in Seq(Nat), NEW n \in Nat, n >= Len(b)
    PROVE  PaddedTo(b, n) \in Seq(Nat) /\ Len(PaddedTo(b, n)) = n
<1> DEFINE m == n - Len(b)
<1>1. m \in Nat /\ Len(b) + m = n
  OBVIOUS
<1> HIDE DEF m
<1>2. Zeros(m) \in Seq(Nat) /\ Len(Zeros(m)) = m
  BY <1>1 DEF Zeros
<1>3. b \o Zeros(m) \in Seq(Nat) /\ Len(b \o Zeros(m)) = Len(b) + m
  BY <1>1, <1>2
<1> QED
  BY <1>1, <1>3 DEF PaddedTo, m

\* Padding to an aligned position, and for n bytes after it.
LEMMA AlignedBytes ==
    ASSUME NEW b \in Seq(Nat), NEW n \in Nat, NEW l, l = Align(Len(b)) + n
    PROVE  /\ l \in Nat /\ l >= Len(b)
           /\ PaddedTo(b, l) \in Seq(Nat) /\ Len(PaddedTo(b, l)) = l
<1>1. Align(Len(b)) \in Nat /\ Align(Len(b)) >= Len(b)
  BY AlignBound
<1>2. l \in Nat /\ l >= Len(b)
  BY <1>1
<1> QED
  BY <1>2, PaddedBytes

\* Writing a byte keeps a buffer a buffer of its length.
LEMMA SetByte ==
    ASSUME NEW b \in Seq(Nat), NEW i \in Nat, NEW v \in Nat
    PROVE  [b EXCEPT ![i] = v] \in Seq(Nat) /\ Len([b EXCEPT ![i] = v]) = Len(b)
<1>1. CASE i \in 1 .. Len(b)
  BY <1>1, ExceptSeq
<1>2. CASE i \notin 1 .. Len(b)
  <2>1. b = [j \in 1 .. Len(b) |-> b[j]]
    OBVIOUS
  <2>2. [b EXCEPT ![i] = v] = b
    BY <1>2, <2>1
  <2> QED
    BY <2>2
<1> QED
  BY <1>1, <1>2

\* Writing an attribute's header keeps a buffer a buffer of its length.
LEMMA HeaderBytes ==
    ASSUME NEW b \in Seq(Nat), NEW attr, attr.pos \in Nat, attr.typ \in Nat
    PROVE  WithHeader(b, attr) \in Seq(Nat) /\ Len(WithHeader(b, attr)) = Len(b)
<1> DEFINE l == (Len(b) - attr.pos) % LenMod
           c == [b EXCEPT ![attr.pos + 1] = l]
<1>1. l \in Nat /\ attr.pos + 1 \in Nat /\ attr.pos + 3 \in Nat
  BY Sizes
<1>2. WithHeader(b, attr) = [c EXCEPT ![attr.pos + 3] = attr.typ]
  BY DEF WithHeader
<1> HIDE DEF l
<1>3. c \in Seq(Nat) /\ Len(c) = Len(b)
  BY <1>1, SetByte
<1> HIDE DEF c
<1> QED
  BY <1>1, <1>2, <1>3, SetByte, SMTT(30)

-----------------------------------------------------------------------------
(* The attributes that are open.                                           *)

Attrs(contents) == [pos : Nat, typ : Nat, content : contents, full : BOOLEAN]
OpenOK == open \in Seq(Attrs({open[i].content : i \in DOMAIN open}))

\* It does not matter which values the contents are taken from.
LEMMA AnyContents ==
    ASSUME NEW o, NEW S, o \in Seq(Attrs(S))
    PROVE  o \in Seq(Attrs({o[i].content : i \in DOMAIN o}))
<1> DEFINE T == {o[i].content : i \in DOMAIN o}
<1>1. DOMAIN o = 1 .. Len(o) /\ Len(o) \in Nat /\ \A i \in 1 .. Len(o) : o[i] \in Attrs(S)
  OBVIOUS
<1>2. \A i \in 1 .. Len(o) : o[i].content \in T
  BY <1>1
<1> HIDE DEF T
<1>3. \A i \in 1 .. Len(o) : o[i] \in Attrs(T)
  BY <1>1, <1>2 DEF Attrs
<1>4. o = [i \in 1 .. Len(o) |-> o[i]]
  BY <1>1
<1> QED
  BY <1>1, <1>3, <1>4 DEF T

\* A list of attributes followed by one more.
OneMore(n, o, e) ==
    Len(n) = Len(o) + 1 /\ (\A i \in 1 .. Len(o) : n[i] = o[i]) /\ n[Len(n)] = e

\* Appending an attribute to the list of the open ones.
LEMMA Opened ==
    ASSUME NEW S, NEW o \in Seq(Attrs(S)), NEW T, S \subseteq T, NEW e \in Attrs(T),
           NEW n, n = Append(o, e)
    PROVE  n \in Seq(Attrs(T)) /\ OneMore(n, o, e)
<1>1. Attrs(S) \subseteq Attrs(T)
  BY DEF Attrs
<1>2. o \in Seq(Attrs(T))
  BY <1>1, SeqMonotonic
<1>3. /\ Append(o, e) \in Seq(Attrs(T)) /\ Len(Append(o, e)) = Len(o) + 1
      /\ \A i \in 1 .. Len(o) : Append(o, e)[i] = o[i]
      /\ Append(o, e)[Len(o) + 1] = e
  BY <1>2, AppendProperties
<1> QED
  BY <1>3 DEF OneMore

\* All open attributes but the innermost.
LEMMA OuterAttrs ==
    ASSUME NEW S, NEW o \in Seq(Attrs(S)), o # <<>>
    PROVE  /\ Front(o) \in Seq(Attrs(S)) /\ Len(Front(o)) = Len(o) - 1
           /\ \A i \in 1 .. Len(o) - 1 : Front(o)[i] = o[i]
           /\ Last(o) = o[Len(o)] /\ Len(o) \in 1 .. Len(o)
<1> DEFINE n == Len(o) - 1
<1>1. Len(o) \in Nat /\ n \in Nat /\ n + 1 = Len(o)
  BY EmptySeq
<1> HIDE DEF n
<1>2. \A i \in 1 .. n : o[i] \in Attrs(S)
  BY <1>1, ElementOfSeq
<1>3. /\ SubSeq(o, 1, n) \in Seq(Attrs(S))
      /\ Len(SubSeq(o, 1, n)) = IF 1 <= n THEN n - 1 + 1 ELSE 0
      /\ \A i \in 1 .. n - 1 + 1 : SubSeq(o, 1, n)[i] = o[1 + i - 1]
  BY <1>1, <1>2, SubSeqProperties
<1>4. Len(SubSeq(o, 1, n)) = n /\ \A i \in 1 .. n : SubSeq(o, 1, n)[i] = o[i]
  BY <1>1, <1>3
<1> QED
  BY <1>1, <1>3, <1>4 DEF Front, Last, n

\* An attribute whose content changes.
Fill(o, i, c) == [o EXCEPT ![i].content = c]
Alike(n, o) ==
    /\ Len(n) = Len(o)
    /\ \A j \in 1 .. Len(o) : n[j].pos = o[j].pos /\ n[j].typ = o[j].typ

\* A list with one content changed has the positions and types it had.
LEMMA Filled ==
    ASSUME NEW S, NEW o \in Seq(Attrs(S)), NEW i \in 1 .. Len(o), NEW c,
           NEW n, n = Fill(o, i, c)
    PROVE  n \in Seq(Attrs(S \cup {c})) /\ Alike(n, o)
<1> DEFINE e == [o[i] EXCEPT !.content = c]
<1>1. o[i] \in Attrs(S)
  BY ElementOfSeq
<1>2. e \in Attrs(S \cup {c}) /\ e.pos = o[i].pos /\ e.typ = o[i].typ
  BY <1>1 DEF Attrs
<1>3. Attrs(S) \subseteq Attrs(S \cup {c})
  BY DEF Attrs
<1>4. o \in Seq(Attrs(S \cup {c}))
  BY <1>3, SeqMonotonic
<1>5. n = [o EXCEPT ![i] = e]
  BY DEF Fill
<1> HIDE DEF e
<1>6. /\ [o EXCEPT ![i] = e] \in Seq(Attrs(S \cup {c}))
      /\ Len([o EXCEPT ![i] = e]) = Len(o)
      /\ \A j \in 1 .. Len(o) : [o EXCEPT ![i] = e][j] = IF j = i THEN e ELSE o[j]
  BY <1>2, <1>4, ExceptSeq
<1> QED
  BY <1>2, <1>5, <1>6 DEF Alike

\* PutAttr after gen: the innermost attribute goes into the one around it.
LEMMA Closes ==
    ASSUME OpenOK, NEW b, Len(open) > 1, Closed(b)
    PROVE  /\ OpenOK' /\ Len(open') = Len(open) - 1
           /\ \A i \in 1 .. Len(open') : open'[i].typ = open[i].typ /\ open'[i].pos = open[i].pos
<1> DEFINE S == {open[i].content : i \in DOMAIN open}
<1>1. open \in Seq(Attrs(S)) /\ open # <<>>
  BY EmptySeq DEF OpenOK
<1> HIDE DEF S
<1> DEFINE outer == Front(open)
           n == Len(outer)
           c == Append(outer[n].content, [typ |-> Last(open).typ, val |-> Last(open).content])
<1>2. open' = Fill(outer, n, c)
  BY DEF Closed, Fill
<1>3. /\ outer \in Seq(Attrs(S)) /\ n = Len(open) - 1
      /\ \A i \in 1 .. n : outer[i] = open[i]
      /\ n \in 1 .. n
  BY <1>1, OuterAttrs
<1>6. n \in 1 .. Len(outer) /\ Len(outer) = n
  BY <1>3
<1> HIDE DEF outer, n, c
<1>4. open' \in Seq(Attrs(S \cup {c})) /\ Alike(open', outer)
  BY <1>2, <1>3, <1>6, Filled
<1>5. open' \in Seq(Attrs({open'[i].content : i \in DOMAIN open'}))
  BY <1>4, AnyContents
<1> QED
  BY <1>3, <1>4, <1>5, <1>6 DEF OpenOK, Alike

-----------------------------------------------------------------------------
(* Every step keeps the invariant.                                         *)

IndInv == TypeOK /\ OpenOK

\* The attributes that are open are inside the buffer, which is inside its array.
Inside(b, o) ==
    \A i \in 2 .. Len(o) : o[i].typ \in Types /\ o[i].pos + SizeofNlAttr <= Len(b)

\* What a step of the builder has to keep of TypeOK.
LEMMA BuilderTypeOK ==
    ASSUME TypeOK, buf' \in Seq(Nat), cap' \in Nat, Len(buf') <= cap', Inside(buf', open'),
           fits' \in BOOLEAN, UNCHANGED <<datagram, resp, pos, phase>>
    PROVE  TypeOK'
BY DEF TypeOK, Inside

\* The invariant holds at the start.
LEMMA InitOK == Init => IndInv
<1> SUFFICES ASSUME Init PROVE IndInv
  OBVIOUS
<1>1. open = <<>> /\ Len(open) = 0 /\ open \in Seq(Attrs({open[i].content : i \in DOMAIN open}))
  BY EmptySeq DEF Init
<1> QED
  BY <1>1 DEF Init, IndInv, TypeOK, OpenOK

\* The innermost attribute, and where it is.
LEMMA Innermost ==
    ASSUME IndInv, Len(open) > 1
    PROVE  Last(open) = open[Len(open)] /\ Len(open) \in 2 .. Len(open)
           /\ Last(open).pos \in Nat /\ Last(open).typ \in Nat
<1>1. open # <<>> /\ Len(open) \in Nat
  BY EmptySeq DEF IndInv, OpenOK
<1>2. Last(open) = open[Len(open)] /\ Len(open) \in 2 .. Len(open)
  BY <1>1 DEF Last
<1>3. open[Len(open)] \in Attrs({open[i].content : i \in DOMAIN open})
  BY <1>1, <1>2, ElementOfSeq DEF IndInv, OpenOK
<1> QED
  BY <1>2, <1>3 DEF Attrs

\* NewNlMsgBuilder keeps the invariant.
LEMMA NewNlMsgBuilderOK ==
    ASSUME IndInv, NewNlMsgBuilder
    PROVE  IndInv'
<1>1. PICK s \in Slack : cap' = SizeofNlMsghdr + s
  BY DEF NewNlMsgBuilder
<1>2. s \in Nat /\ SizeofNlMsghdr \in Nat
  BY Sizes
<1>3. buf' \in Seq(Nat) /\ Len(buf') = SizeofNlMsghdr
  BY <1>2 DEF NewNlMsgBuilder, Zeros
<1> DEFINE e == [pos |-> 0, typ |-> 0, content |-> <<>>, full |-> FALSE]
<1>4. open' = <<e>> /\ e \in Attrs({<<>>})
  BY DEF NewNlMsgBuilder, Attrs
<1> HIDE DEF e
<1>5. open' \in Seq(Attrs({<<>>})) /\ Len(open') = 1
  BY <1>4
<1>6. OpenOK'
  BY <1>5, AnyContents DEF OpenOK
<1>7. Inside(buf', open')
  BY <1>5 DEF Inside
<1>8. TypeOK'
  BY <1>1, <1>2, <1>3, <1>7, BuilderTypeOK DEF IndInv, NewNlMsgBuilder, TypeOK
<1> QED
  BY <1>6, <1>8 DEF IndInv

\* A longer buffer has the attributes inside it as well.
LEMMA InsideMore ==
    ASSUME IndInv, NEW b \in Seq(Nat), Len(b) >= Len(buf)
    PROVE  Inside(b, open)
<1> SUFFICES ASSUME NEW i \in 2 .. Len(open)
             PROVE  open[i].typ \in Types /\ open[i].pos + SizeofNlAttr <= Len(b)
  BY DEF Inside
<1>1. i \in 1 .. Len(open)
  BY EmptySeq DEF IndInv, OpenOK
<1>2. open[i] \in Attrs({open[j].content : j \in DOMAIN open})
  BY <1>1, ElementOfSeq DEF IndInv, OpenOK
<1>3. open[i].pos \in Nat
  BY <1>2 DEF Attrs
<1>4. Len(b) \in Nat /\ Len(buf) \in Nat
  BY DEF IndInv, TypeOK
<1>5. open[i].typ \in Types /\ open[i].pos + SizeofNlAttr <= Len(buf)
  BY DEF IndInv, TypeOK
<1> QED
  BY <1>3, <1>4, <1>5, Sizes

\* PutGenlMsghdr and putOvsHeader keep it.
LEMMA PutHeaderOK ==
    ASSUME IndInv, PutHeader
    PROVE  IndInv'
<1> DEFINE l == Align(Len(buf)) + SizeofHeader
<1>1. buf' = PaddedTo(buf, l) /\ Room(l) /\ UNCHANGED <<open, fits, datagram, resp, pos, phase>>
  BY DEF PutHeader
<1>2. SizeofHeader \in Nat /\ buf \in Seq(Nat)
  BY Sizes DEF IndInv, TypeOK
<1>3. buf' \in Seq(Nat) /\ Len(buf') = l /\ l >= Len(buf) /\ l \in Nat
  BY <1>1, <1>2, AlignedBytes
<1> HIDE DEF l
<1>4. cap' \in Nat /\ l <= cap'
  BY <1>1, <1>3, RoomMade DEF IndInv, TypeOK
<1>5. Inside(buf', open')
  BY <1>1, <1>3, InsideMore
<1>6. TypeOK'
  BY <1>1, <1>3, <1>4, <1>5, BuilderTypeOK DEF IndInv, TypeOK
<1> QED
  BY <1>1, <1>6 DEF IndInv, OpenOK

\* PutAttr keeps it: the new header is inside the buffer.
LEMMA PutAttrOK ==
    ASSUME IndInv, NEW typ \in Types, PutAttr(typ)
    PROVE  IndInv'
<1> DEFINE p == Align(Len(buf))
           l == p + SizeofNlAttr
           S == {open[i].content : i \in DOMAIN open}
           T == S \cup {<<>>}
           e == [pos |-> p, typ |-> typ, content |-> <<>>, full |-> FALSE]
<1>1. /\ buf' = PaddedTo(buf, l) /\ Room(l) /\ open' = Append(open, e)
      /\ UNCHANGED <<fits, datagram, resp, pos, phase>>
  BY DEF PutAttr
<1>2. SizeofNlAttr \in Nat /\ buf \in Seq(Nat) /\ typ \in Nat
  BY Sizes DEF IndInv, TypeOK
<1>3. buf' \in Seq(Nat) /\ Len(buf') = l /\ l >= Len(buf) /\ l \in Nat
  BY <1>1, <1>2, AlignedBytes
<1>4. p \in Nat /\ l = p + SizeofNlAttr
  BY <1>2, AlignBound
<1> HIDE DEF p, l
<1>5. cap' \in Nat /\ l <= cap'
  BY <1>1, <1>3, RoomMade DEF IndInv, TypeOK
<1>6. open \in Seq(Attrs(S)) /\ Len(open) \in Nat
  BY EmptySeq DEF IndInv, OpenOK
<1>11. e \in Attrs(T) /\ e.pos = p /\ e.typ = typ /\ S \subseteq T
  BY <1>2, <1>4 DEF Attrs
<1> HIDE DEF e, S, T
<1>7. open' \in Seq(Attrs(T)) /\ OneMore(open', open, e)
  BY <1>1, <1>6, <1>11, Opened
<1>8. OpenOK'
  BY <1>7, AnyContents DEF OpenOK
<1>9. Inside(buf', open')
  <2> SUFFICES ASSUME NEW i \in 2 .. Len(open')
               PROVE  open'[i].typ \in Types /\ open'[i].pos + SizeofNlAttr <= Len(buf')
    BY DEF Inside
  <2>1. Inside(buf', open)
    BY <1>3, InsideMore
  <2>2. CASE i = Len(open')
    BY <2>2, <1>2, <1>3, <1>4, <1>7, <1>11 DEF OneMore
  <2>3. CASE i # Len(open')
    <3>1. i \in 2 .. Len(open) /\ i \in 1 .. Len(open)
      BY <2>3, <1>6, <1>7 DEF OneMore
    <3> QED
      BY <2>1, <3>1, <1>7 DEF Inside, OneMore
  <2> QED
    BY <2>2, <2>3
<1>10. TypeOK'
  BY <1>1, <1>3, <1>5, <1>9, BuilderTypeOK DEF IndInv, TypeOK
<1> QED
  BY <1>8, <1>10 DEF IndInv

\* The put functions of values keep it.
LEMMA PutValueOK ==
    ASSUME IndInv, NEW val \in Values, PutValue(val)
    PROVE  IndInv'
<1> DEFINE bytes == IF Last(open).typ \in StringTypes THEN Append(val, 0) ELSE val
           l == Len(buf) + Len(bytes)
           S == {open[i].content : i \in DOMAIN open}
           e == Last(open)
           T == S \cup {val}
           w == [e EXCEPT !.content = val, !.full = TRUE]
<1>1. /\ Len(open) > 1 /\ buf' = buf \o bytes /\ Room(l)
      /\ open' = Append(Front(open), w)
      /\ UNCHANGED <<fits, datagram, resp, pos, phase>>
  BY DEF PutValue, InAttr
<1>2. val \in Seq(Nat) /\ buf \in Seq(Nat)
  BY Sizes DEF IndInv, TypeOK
<1>3. bytes \in Seq(Nat)
  BY <1>2, AppendProperties
<1> HIDE DEF bytes
<1>4. buf' \in Seq(Nat) /\ Len(buf') = l /\ l >= Len(buf) /\ l \in Nat
  BY <1>1, <1>2, <1>3
<1> HIDE DEF l
<1>5. cap' \in Nat /\ l <= cap'
  BY <1>1, <1>4, RoomMade DEF IndInv, TypeOK
<1>6. open \in Seq(Attrs(S)) /\ Len(open) \in Nat /\ open # <<>>
  BY <1>1, EmptySeq DEF IndInv, OpenOK
<1> HIDE DEF S, T, w
<1>7. /\ Front(open) \in Seq(Attrs(S)) /\ Len(Front(open)) = Len(open) - 1
      /\ \A i \in 1 .. Len(open) - 1 : Front(open)[i] = open[i]
      /\ e = open[Len(open)] /\ Len(open) \in 1 .. Len(open)
  BY <1>6, OuterAttrs
<1> HIDE DEF e
<1>8. e \in Attrs(S)
  BY <1>6, <1>7, ElementOfSeq
<1>9. w \in Attrs(T) /\ w.pos = e.pos /\ w.typ = e.typ /\ S \subseteq T
  BY <1>8 DEF Attrs, w, T
<1>10. open' \in Seq(Attrs(T)) /\ OneMore(open', Front(open), w)
  BY <1>1, <1>7, <1>9, Opened
<1>12. OpenOK'
  BY <1>10, AnyContents DEF OpenOK
<1>13. Inside(buf', open')
  <2> SUFFICES ASSUME NEW i \in 2 .. Len(open')
               PROVE  open'[i].typ \in Types /\ open'[i].pos + SizeofNlAttr <= Len(buf')
    BY DEF Inside
  <2>1. Inside(buf', open)
    BY <1>4, InsideMore
  <2>2. i \in 2 .. Len(open) /\ Len(open') = Len(open)
    BY <1>6, <1>7, <1>10 DEF OneMore
  <2>3. open'[i].pos = open[i].pos /\ open'[i].typ = open[i].typ
    <3>1. CASE i = Len(open)
      BY <3>1, <2>2, <1>7, <1>9, <1>10 DEF OneMore
    <3>2. CASE i # Len(open)
      <4>1. i \in 1 .. Len(open) - 1 /\ i \in 1 .. Len(Front(open))
        BY <3>2, <2>2, <1>6, <1>7
      <4> QED
        BY <4>1, <1>7, <1>10 DEF OneMore
    <3> QED
      BY <3>1, <3>2
  <2> QED
    BY <2>1, <2>2, <2>3 DEF Inside
<1>14. TypeOK'
  BY <1>1, <1>4, <1>5, <1>13, BuilderTypeOK DEF IndInv, TypeOK
<1> QED
  BY <1>12, <1>14 DEF IndInv

\* What the two ways of closing an attribute share: c is the buffer, padded or not.
LEMMA CloseOK ==
    ASSUME IndInv, Len(open) > 1, NEW c \in Seq(Nat), Len(c) >= Len(buf), Closed(c),
           buf' = WithHeader(c, Last(open)), cap' \in Nat, Len(c) <= cap'
    PROVE  IndInv'
<1>1. buf' \in Seq(Nat) /\ Len(buf') = Len(c)
  BY Innermost, HeaderBytes
<1>2. /\ OpenOK' /\ Len(open') = Len(open) - 1
      /\ \A i \in 1 .. Len(open') : open'[i].typ = open[i].typ /\ open'[i].pos = open[i].pos
  BY Closes DEF IndInv
<1>3. Inside(buf', open)
  BY <1>1, InsideMore
<1>4. Len(open) \in Nat
  BY EmptySeq DEF IndInv, OpenOK
<1>5. Inside(buf', open')
  <2> SUFFICES ASSUME NEW i \in 2 .. Len(open')
               PROVE  open'[i].typ \in Types /\ open'[i].pos + SizeofNlAttr <= Len(buf')
    BY DEF Inside
  <2>1. i \in 2 .. Len(open) /\ i \in 1 .. Len(open')
    BY <1>2, <1>4
  <2> QED
    BY <1>2, <1>3, <2>1 DEF Inside
<1>6. UNCHANGED <<datagram, resp, pos, phase>> /\ fits' \in BOOLEAN
  BY DEF Closed, IndInv, TypeOK
<1>7. TypeOK'
  BY <1>1, <1>5, <1>6, BuilderTypeOK DEF IndInv
<1> QED
  BY <1>2, <1>7 DEF IndInv

\* The end of PutAttr keeps it: the buffer stays as long as it is.
LEMMA EndAttrOK ==
    ASSUME IndInv, EndAttr
    PROVE  IndInv'
<1>1. buf \in Seq(Nat) /\ cap' \in Nat /\ Len(buf) <= cap' /\ Len(buf) >= Len(buf)
  BY DEF EndAttr, IndInv, TypeOK
<1>2. Len(open) > 1 /\ Closed(buf) /\ buf' = WithHeader(buf, Last(open))
  BY DEF EndAttr, InAttr
<1> QED
  BY <1>1, <1>2, CloseOK

\* The end of PutNestedAttrs keeps it: the padding may move the buffer.
LEMMA EndNestedAttrsOK ==
    ASSUME IndInv, EndNestedAttrs
    PROVE  IndInv'
<1> DEFINE l == Align(Len(buf))
           c == PaddedTo(buf, l)
<1>1. Len(open) > 1 /\ Closed(c) /\ buf' = WithHeader(c, Last(open)) /\ Room(Len(c))
  BY DEF EndNestedAttrs, InAttr
<1>2. buf \in Seq(Nat) /\ 0 \in Nat /\ Len(buf) \in Nat
  BY DEF IndInv, TypeOK
<1>3. l \in Nat /\ l >= Len(buf)
  BY <1>2, AlignBound
<1> HIDE DEF l
<1>4. c \in Seq(Nat) /\ Len(c) = l
  BY <1>2, <1>3, PaddedBytes
<1> HIDE DEF c
<1>5. cap' \in Nat /\ Len(c) <= cap'
  BY <1>1, <1>3, <1>4, RoomMade DEF IndInv, TypeOK
<1> QED
  BY <1>1, <1>3, <1>4, <1>5, CloseOK

\* A finished message has no open attributes.
LEMMA NothingOpen ==
    ASSUME open' = <<>>
    PROVE  OpenOK' /\ Len(open') = 0
BY EmptySeq DEF OpenOK

\* Finish keeps it, and the datagram stays a sequence of bytes.
LEMMA FinishOK ==
    ASSUME IndInv, Finish
    PROVE  IndInv'
<1> DEFINE b == [buf EXCEPT ![1] = Len(buf)]
           d == PaddedTo(datagram, Align(Len(datagram)))
<1>1. datagram' = d \o b
  BY DEF Finish
<1>2. buf \in Seq(Nat) /\ Len(buf) \in Nat /\ datagram \in Seq(Nat) /\ Len(datagram) \in Nat
  BY DEF IndInv, TypeOK
<1>3. b \in Seq(Nat)
  BY <1>2, SetByte
<1>4. d \in Seq(Nat)
  BY <1>2, AlignBound, PaddedBytes
<1> HIDE DEF b, d
<1>5. datagram' \in Seq(Nat)
  BY <1>1, <1>3, <1>4
<1>6. open' = <<>> /\ buf' = <<>> /\ cap' = 0 /\ UNCHANGED <<fits, resp, pos, phase>>
  BY DEF Finish
<1>7. OpenOK' /\ Len(open') = 0
  BY <1>6, NothingOpen
<1>8. buf' \in Seq(Nat) /\ Len(buf') = 0
  BY <1>6
<1> QED
  BY <1>5, <1>6, <1>7, <1>8 DEF IndInv, TypeOK

\* recvfrom keeps it.
LEMMA RecvOK ==
    ASSUME IndInv, Recv
    PROVE  IndInv'
<1> DEFINE n == IF Len(datagram) < BufSize THEN Len(datagram) ELSE BufSize
<1>1. datagram \in Seq(Nat) /\ n \in Nat /\ n <= Len(datagram)
  BY Sizes DEF IndInv, TypeOK
<1>2. resp' = SubSeq(datagram, 1, n) /\ phase' = "parse"
      /\ UNCHANGED <<buf, cap, open, fits, datagram, pos>>
  BY DEF Recv
<1> HIDE DEF n
<1>3. \A i \in 1 .. n : datagram[i] \in Nat
  BY <1>1, ElementOfSeq
<1>4. resp' \in Seq(Nat)
  BY <1>1, <1>2, <1>3, SubSeqProperties
<1> QED
  BY <1>2, <1>4 DEF IndInv, TypeOK, OpenOK

\* nextNlMsg keeps it: its position stays a natural number.
LEMMA NextNlMsgOK ==
    ASSUME IndInv, NextNlMsg
    PROVE  IndInv'
<1> DEFINE end == pos + resp[pos + 1]
<1>1. pos \in Nat /\ resp \in Seq(Nat) /\ pos < Len(resp)
  BY DEF IndInv, TypeOK, NextNlMsg, AtEnd
<1>2. end \in Nat
  BY <1>1, ElementOfSeq
<1>3. pos' = Align(end)
  BY DEF NextNlMsg, NextPos
<1> HIDE DEF end
<1>4. pos' \in Nat
  BY <1>2, <1>3, AlignBound
<1>5. phase' \in {"build", "parse", "done", "failed"}
      /\ UNCHANGED <<buf, cap, open, fits, datagram, resp>>
  BY DEF NextNlMsg, IndInv, TypeOK
<1> QED
  BY <1>4, <1>5 DEF IndInv, TypeOK, OpenOK

\* The end of the messages keeps it.
LEMMA NoNlMsgOK ==
    ASSUME IndInv, NoNlMsg
    PROVE  IndInv'
BY DEF NoNlMsg, IndInv, TypeOK, OpenOK

\* The invariant holds always.
LEMMA Invariance == Spec => []IndInv
<1>1. IndInv /\ [Next]_vars => IndInv'
  <2> SUFFICES ASSUME IndInv, [Next]_vars PROVE IndInv'
    OBVIOUS
  <2>1. CASE Build
    BY <2>1, NewNlMsgBuilderOK, PutHeaderOK, EndAttrOK, EndNestedAttrsOK, FinishOK,
       PutAttrOK, PutValueOK DEF Build
  <2>2. CASE Recv
    BY <2>2, RecvOK
  <2>3. CASE NextNlMsg
    BY <2>3, NextNlMsgOK
  <2>4. CASE NoNlMsg
    BY <2>4, NoNlMsgOK
  <2>5. CASE UNCHANGED vars
    BY <2>5 DEF vars, IndInv, TypeOK, OpenOK
  <2> QED
    BY <2>1, <2>2, <2>3, <2>4, <2>5 DEF Next
<1> QED
  BY InitOK, <1>1, PTL DEF Spec

\* TypeOK (netlink.go:97-133): however the array of a buffer is allocated and grown, the buffer
\* is never longer than it, and every attribute whose header is still to be written is inside
\* the buffer: the slice expressions of the builder do not panic, for headers of any size, any
\* alignment, and attributes of any number, depth and length.
THEOREM TypeCorrectness == Spec => []TypeOK
<1>1. IndInv => TypeOK
  BY DEF IndInv
<1> QED
  BY Invariance, <1>1, PTL

-----------------------------------------------------------------------------
(* align: the multiples of AlignTo.                                        *)

\* Products by AlignTo grow with the number.
LEMMA Multiples ==
    ASSUME NEW a \in Nat, NEW b \in Nat
    PROVE  /\ a * AlignTo \in Nat
           /\ (a + b) * AlignTo = a * AlignTo + b * AlignTo
           /\ a <= b => a * AlignTo <= b * AlignTo
           /\ a < b => a * AlignTo + AlignTo <= b * AlignTo
<1>1. AlignTo \in Nat /\ AlignTo > 0
  BY Sizes
<1>2. a * AlignTo \in Nat
  BY <1>1
<1>3. \A i, j \in Nat : (i + j) * AlignTo = i * AlignTo + j * AlignTo /\ j * AlignTo \in Nat
  BY <1>1
<1>4. a <= b => a * AlignTo <= b * AlignTo
  <2> SUFFICES ASSUME a <= b PROVE a * AlignTo <= b * AlignTo
    OBVIOUS
  <2>1. PICK j \in Nat : b = a + j
    <3>1. b - a \in Nat /\ b = a + (b - a)
      OBVIOUS
    <3> QED
      BY <3>1
  <2>2. b * AlignTo = a * AlignTo + j * AlignTo /\ j * AlignTo \in Nat
    BY <1>3, <2>1
  <2> QED
    BY <1>2, <2>2
<1>5. a < b => a * AlignTo + AlignTo <= b * AlignTo
  <2> SUFFICES ASSUME a < b PROVE a * AlignTo + AlignTo <= b * AlignTo
    OBVIOUS
  <2>1. PICK j \in Nat : b = (a + 1) + j
    <3>1. b - (a + 1) \in Nat /\ b = (a + 1) + (b - (a + 1))
      OBVIOUS
    <3> QED
      BY <3>1
  <2>2. b * AlignTo = (a + 1) * AlignTo + j * AlignTo /\ j * AlignTo \in Nat
    BY <1>3, <2>1
  <2>3. (a + 1) * AlignTo = a * AlignTo + AlignTo
    BY <1>1, <1>3
  <2> QED
    BY <1>1, <1>2, <2>2, <2>3
<1> QED
  BY <1>2, <1>3, <1>4, <1>5

\* align returns a multiple of AlignTo.
LEMMA AlignMultiple ==
    ASSUME NEW n \in Nat
    PROVE  \E k \in Nat : Align(n) = k * AlignTo /\ n <= k * AlignTo /\ k * AlignTo < n + AlignTo
<1> DEFINE m == n + AlignTo - 1
<1>1. AlignTo \in Nat /\ AlignTo > 0 /\ m \in Nat
  BY SizesAssumption
<1>2. Align(n) = (m \div AlignTo) * AlignTo
  BY DEF Align
<1>3. m = n + AlignTo - 1
  OBVIOUS
<1> HIDE DEF m
<1>4. PICK q \in Nat, r \in 0 .. AlignTo - 1 : m = q * AlignTo + r /\ m \div AlignTo = q
  BY <1>1
<1>5. q * AlignTo \in Nat
  BY <1>1
<1> QED
  BY <1>1, <1>2, <1>3, <1>4, <1>5

\* It returns the only one that is near.
LEMMA AlignIs ==
    ASSUME NEW n \in Nat, NEW k \in Nat, n <= k * AlignTo, k * AlignTo < n + AlignTo
    PROVE  Align(n) = k * AlignTo
<1>1. PICK j \in Nat : Align(n) = j * AlignTo /\ n <= j * AlignTo /\ j * AlignTo < n + AlignTo
  BY AlignMultiple
<1>2. AlignTo \in Nat
  BY Sizes
<1>3. ~ (j < k)
  <2> SUFFICES ASSUME j < k PROVE FALSE
    OBVIOUS
  <2>1. j * AlignTo + AlignTo <= k * AlignTo /\ j * AlignTo \in Nat /\ k * AlignTo \in Nat
    BY Multiples
  <2> QED
    BY <1>1, <1>2, <2>1
<1>4. ~ (k < j)
  <2> SUFFICES ASSUME k < j PROVE FALSE
    OBVIOUS
  <2>1. k * AlignTo + AlignTo <= j * AlignTo /\ j * AlignTo \in Nat /\ k * AlignTo \in Nat
    BY Multiples
  <2> QED
    BY <1>1, <1>2, <2>1
<1>5. j = k
  BY <1>3, <1>4
<1> QED
  BY <1>1, <1>5

Aligned(n) == n \in Nat /\ Align(n) = n

\* An aligned position is a multiple.
LEMMA AlignedMultiple ==
    ASSUME NEW k \in Nat
    PROVE  Aligned(k * AlignTo)
<1>1. k * AlignTo \in Nat /\ AlignTo > 0 /\ AlignTo \in Nat
  BY Sizes, Multiples
<1>2. Align(k * AlignTo) = k * AlignTo
  BY <1>1, AlignIs
<1> QED
  BY <1>1, <1>2 DEF Aligned

\* align returns aligned positions.
LEMMA AlignAligned ==
    ASSUME NEW n \in Nat
    PROVE  Aligned(Align(n))
BY AlignMultiple, AlignedMultiple

\* It returns the first one.
LEMMA AlignLeast ==
    ASSUME NEW n \in Nat, NEW m, Aligned(m), n <= m
    PROVE  Align(n) <= m
<1>1. m \in Nat /\ Align(m) = m
  BY DEF Aligned
<1>2. PICK i \in Nat : Align(n) = i * AlignTo /\ i * AlignTo < n + AlignTo
  BY AlignMultiple
<1>3. PICK j \in Nat : m = j * AlignTo
  BY <1>1, AlignMultiple
<1>4. AlignTo \in Nat
  BY Sizes
<1>5. ~ (j < i)
  <2> SUFFICES ASSUME j < i PROVE FALSE
    OBVIOUS
  <2>1. j * AlignTo + AlignTo <= i * AlignTo /\ i * AlignTo \in Nat
    BY Multiples
  <2> QED
    BY <1>1, <1>2, <1>3, <1>4, <2>1
<1>6. i * AlignTo <= j * AlignTo
  BY <1>5, Multiples
<1> QED
  BY <1>2, <1>3, <1>6

\* Positions between here and an aligned one have that as their next.
LEMMA AlignBetween ==
    ASSUME NEW q \in Nat, NEW n \in Nat, q <= n, n <= Align(q)
    PROVE  Align(n) = Align(q)
<1>1. Align(n) <= Align(q)
  BY AlignAligned, AlignLeast
<1>2. Align(n) \in Nat /\ Align(n) >= n /\ Align(q) \in Nat
  BY AlignBound
<1>3. Align(q) <= Align(n)
  BY <1>2, AlignAligned, AlignLeast
<1> QED
  BY <1>1, <1>2, <1>3

\* Positions relative to an aligned one are aligned like the others.
LEMMA AlignShift ==
    ASSUME NEW k, Aligned(k), NEW n \in Nat
    PROVE  Align(k + n) = k + Align(n)
<1>1. k \in Nat /\ Align(k) = k
  BY DEF Aligned
<1>2. PICK i \in Nat : Align(n) = i * AlignTo /\ n <= i * AlignTo /\ i * AlignTo < n + AlignTo
  BY AlignMultiple
<1>3. PICK j \in Nat : k = j * AlignTo
  BY <1>1, AlignMultiple
<1>4. (j + i) * AlignTo = k + Align(n) /\ i * AlignTo \in Nat
  BY <1>2, <1>3, Multiples
<1>5. j + i \in Nat /\ k + n \in Nat /\ AlignTo \in Nat
  BY <1>1, Sizes
<1>6. k + n <= (j + i) * AlignTo /\ (j + i) * AlignTo < (k + n) + AlignTo
  BY <1>1, <1>2, <1>4, <1>5
<1> QED
  BY <1>4, <1>5, <1>6, AlignIs

\* A header keeps alignment.
LEMMA AlignedHeader ==
    ASSUME NEW k, Aligned(k)
    PROVE  Aligned(k + SizeofNlAttr)
<1>1. k \in Nat /\ SizeofNlAttr \in Nat /\ SizeofNlAttr % AlignTo = 0 /\ AlignTo \in Nat /\ AlignTo > 0
  BY SizesAssumption DEF Aligned
<1>2. PICK j \in Nat : SizeofNlAttr = j * AlignTo
  BY <1>1
<1>3. Aligned(SizeofNlAttr)
  BY <1>2, AlignedMultiple
<1> QED
  BY <1>1, <1>3, AlignShift DEF Aligned

-----------------------------------------------------------------------------
(* parseAttrs: one attribute after the other.                              *)

\* The attribute that the parser finds from position q on, whether it is one, and where it ends.
Whole(data, q) ==
    LET len == data[Align(q) + 1]
    IN  ~ (\/ Align(q) + SizeofNlAttr > Len(data)
           \/ Align(q) + len > Len(data)
           \/ len < SizeofNlAttr)
After(data, q) == Align(q) + data[Align(q) + 1]
AttrAt(data, q) ==
    [typ |-> data[Align(q) + 3], val |-> SubSeq(data, Align(q) + SizeofNlAttr + 1, After(data, q))]

\* What parseAttrs returns, if it returns r from there on.
ParseStep(data, q, r) ==
    IF Len(data) <= Align(q) THEN <<>>
    ELSE IF ~Whole(data, q) \/ r = Error THEN Error
    ELSE <<AttrAt(data, q)>> \o r

\* A whole attribute is inside the data, and parsing goes on behind it.
LEMMA WholeInside ==
    ASSUME NEW data \in Seq(Nat), NEW q \in Nat, Len(data) > Align(q), Whole(data, q)
    PROVE  /\ Align(q) \in Nat /\ Align(q) >= q /\ data[Align(q) + 1] \in Nat /\ data[Align(q) + 3] \in Nat
           /\ Align(q) + SizeofNlAttr <= After(data, q)
           /\ After(data, q) \in Nat /\ After(data, q) > q /\ After(data, q) <= Len(data)
<1>1. Align(q) \in Nat /\ Align(q) >= q
  BY AlignBound
<1>2. SizeofNlAttr \in Nat /\ SizeofNlAttr >= 3
  BY SizesAssumption
<1> DEFINE a == Align(q)
<1>3. Align(q) = a
  OBVIOUS
<1> HIDE DEF a
<1>4. /\ a + SizeofNlAttr <= Len(data)
      /\ a \in Nat /\ a >= q /\ Len(data) \in Nat
      /\ a + 1 \in 1 .. Len(data) /\ a + 3 \in 1 .. Len(data)
  <2>1. ~ (a + SizeofNlAttr > Len(data))
    BY <1>3 DEF Whole
  <2> QED
    BY <1>1, <1>2, <1>3, <2>1
<1>5. data[a + 1] \in Nat /\ data[a + 3] \in Nat
  BY <1>4, ElementOfSeq
<1> DEFINE len == data[a + 1]
<1>6. ~ (a + len > Len(data)) /\ ~ (len < SizeofNlAttr)
  BY <1>3 DEF Whole
<1>7. After(data, q) = a + len /\ len \in Nat
  BY <1>3, <1>5 DEF After
<1> HIDE DEF len
<1>8. a + SizeofNlAttr <= a + len /\ a + len > q /\ a + len <= Len(data) /\ a + len \in Nat
  BY <1>2, <1>4, <1>6, <1>7
<1> QED
  BY <1>3, <1>4, <1>5, <1>7, <1>8

\* Only after a whole attribute does it matter what comes next.
LEMMA StepOnly ==
    ASSUME NEW data \in Seq(Nat), NEW q \in Nat, NEW r, NEW s,
           Len(data) > Align(q) /\ Whole(data, q) => r = s
    PROVE  ParseStep(data, q, r) = ParseStep(data, q, s)
<1>1. Align(q) \in Nat /\ Len(data) \in Nat
  BY AlignBound
<1>2. CASE Len(data) <= Align(q)
  BY <1>2 DEF ParseStep
<1>3. CASE ~Whole(data, q)
  BY <1>3 DEF ParseStep
<1>4. CASE Len(data) > Align(q) /\ Whole(data, q)
  BY <1>4
<1> QED
  BY <1>1, <1>2, <1>3, <1>4

\* The loop of parseAttrs ends: its definition defines a function.
LEMMA ParseEnds ==
    ASSUME NEW data \in Seq(Nat)
    PROVE  \E f : f = [q \in Nat |-> ParseStep(data, q, f[After(data, q)])]
<1> DEFINE l == Len(data)
           D(n) == {q \in Nat : q + n >= l}
           F(n, g) == g = [q \in D(n) |-> ParseStep(data, q, g[After(data, q)])]
           S == {n \in Nat : \E g : F(n, g)}
<1>1. l \in Nat
  OBVIOUS
<1>2. 0 \in S
  <2> DEFINE g == [q \in D(0) |-> <<>>]
  <2>1. \A q \in D(0) : q \in Nat /\ l <= Align(q)
    BY <1>1, AlignBound
  <2>2. \A q \in D(0) : \A r : ParseStep(data, q, r) = <<>>
    BY <2>1 DEF ParseStep
  <2> HIDE DEF D
  <2>3. F(0, g)
    BY <2>2
  <2> HIDE DEF F
  <2> QED
    BY <2>3
<1>3. ASSUME NEW n \in Nat, n \in S PROVE n + 1 \in S
  <2>1. PICK g : F(n, g)
    BY <1>3
  <2> DEFINE h == [q \in D(n + 1) |-> ParseStep(data, q, g[After(data, q)])]
  <2>2. \A q \in D(n) : q \in D(n + 1) /\ q \in Nat
    BY <1>1
  <2>3. \A q \in D(n + 1) : q \in Nat
    OBVIOUS
  <2>4. \A q \in D(n + 1) : l > Align(q) /\ Whole(data, q) => After(data, q) \in D(n)
    BY <1>1, WholeInside
  <2> HIDE DEF D, l
  <2>5. \A q \in D(n) : h[q] = g[q]
    BY <2>1, <2>2
  <2>6. F(n + 1, h)
    <3>1. ASSUME NEW q \in D(n + 1)
          PROVE  ParseStep(data, q, g[After(data, q)]) = ParseStep(data, q, h[After(data, q)])
      <4>1. l > Align(q) /\ Whole(data, q) => g[After(data, q)] = h[After(data, q)]
        BY <2>4, <2>5
      <4> QED
        BY <2>3, <4>1, StepOnly DEF l
    <3>2. h = [q \in D(n + 1) |-> ParseStep(data, q, h[After(data, q)])]
      BY <3>1
    <3> QED
      BY <3>2
  <2> HIDE DEF F, h
  <2> QED
    BY <2>6
<1> HIDE DEF S
<1>4. l \in S
  BY <1>1, <1>2, <1>3, SetInduction
<1>5. D(l) = Nat
  BY <1>1
<1> QED
  BY <1>4, <1>5 DEF S

\* parseAttrs, one attribute at a time.
LEMMA ParseAttrsStep ==
    ASSUME NEW data \in Seq(Nat), NEW p \in Nat
    PROVE  ParseAttrs(data, p) = ParseStep(data, p, ParseAttrs(data, After(data, p)))
<1> DEFINE f == CHOOSE g : g = [q \in Nat |-> ParseStep(data, q, g[After(data, q)])]
<1>1. \A q : ParseAttrs(data, q) = f[q]
  BY DEF ParseAttrs, ParseStep, Whole, After, AttrAt
<1>2. f = [q \in Nat |-> ParseStep(data, q, f[After(data, q)])]
  BY ParseEnds
<1> HIDE DEF f
<1> QED
  BY <1>1, <1>2

\* Behind the last attribute there is none.
LEMMA ParseNone ==
    ASSUME NEW data \in Seq(Nat), NEW p \in Nat, Len(data) <= Align(p)
    PROVE  ParseAttrs(data, p) = <<>>
BY ParseAttrsStep DEF ParseStep

\* What is parsed begins with the first attribute.
LEMMA ParseOne ==
    ASSUME NEW data \in Seq(Nat), NEW p \in Nat, Len(data) > Align(p), ParseAttrs(data, p) # Error
    PROVE  /\ Whole(data, p) /\ ParseAttrs(data, After(data, p)) # Error
           /\ ParseAttrs(data, p) = <<AttrAt(data, p)>> \o ParseAttrs(data, After(data, p))
<1>1. ~ (Len(data) <= Align(p))
  BY AlignBound
<1> QED
  BY <1>1, ParseAttrsStep DEF ParseStep

\* Attributes whose values have less than n bytes.
Below(n) == Seq([typ : Nat, val : {v \in Seq(Nat) : Len(v) < n}])

\* One attribute before others.
LEMMA OneBefore ==
    ASSUME NEW T, NEW a \in T, NEW r \in Seq(T)
    PROVE  <<a>> \o r \in Seq(T)
<1>1. <<a>> \in Seq(T)
  OBVIOUS
<1> QED
  BY <1>1, ConcatProperties

\* What is parsed are attributes, with less bytes than there were.
LEMMA ParseTyped ==
    ASSUME NEW data \in Seq(Nat), NEW p \in Nat, ParseAttrs(data, p) # Error
    PROVE  ParseAttrs(data, p) \in Below(Len(data))
<1> DEFINE l == Len(data)
           S == {n \in Nat : \A q \in Nat : q + n >= l /\ ParseAttrs(data, q) # Error =>
                                               ParseAttrs(data, q) \in Below(l)}
<1>1. l \in Nat
  OBVIOUS
<1>2. ASSUME NEW q \in Nat, l <= Align(q)
      PROVE  ParseAttrs(data, q) \in Below(l)
  <2>1. ParseAttrs(data, q) = <<>>
    BY <1>2, ParseNone
  <2> QED
    BY <2>1, EmptySeq DEF Below
<1>3. 0 \in S
  <2>1. \A q \in Nat : q + 0 >= l => l <= Align(q)
    BY <1>1, AlignBound
  <2> QED
    BY <1>2, <2>1
<1>4. ASSUME NEW n \in Nat, n \in S PROVE n + 1 \in S
  <2> SUFFICES ASSUME NEW q \in Nat, q + (n + 1) >= l, ParseAttrs(data, q) # Error
               PROVE  ParseAttrs(data, q) \in Below(l)
    OBVIOUS
  <2>1. CASE l <= Align(q)
    BY <1>2, <2>1
  <2>2. CASE l > Align(q)
    <3> DEFINE e == After(data, q)
               T == [typ : Nat, val : {v \in Seq(Nat) : Len(v) < l}]
               a == AttrAt(data, q)
    <3>1. /\ Whole(data, q) /\ ParseAttrs(data, e) # Error
          /\ ParseAttrs(data, q) = <<a>> \o ParseAttrs(data, e)
      BY <2>2, ParseOne
    <3>2. /\ Align(q) \in Nat /\ data[Align(q) + 3] \in Nat
          /\ Align(q) + SizeofNlAttr <= e /\ e \in Nat /\ e > q /\ e <= l
      BY <2>2, <3>1, WholeInside
    <3>3. e + n >= l
      BY <1>1, <3>2
    <3>4. ParseAttrs(data, e) \in Seq(T)
      BY <1>4, <3>1, <3>2, <3>3 DEF Below
    <3>5. SubSeq(data, Align(q) + SizeofNlAttr + 1, e) \in {v \in Seq(Nat) : Len(v) < l}
      <4> DEFINE m == Align(q) + SizeofNlAttr + 1
      <4> HIDE DEF e
      <4>1. m \in Nat /\ m >= 1 /\ m <= e + 1 /\ SizeofNlAttr \in Nat /\ SizeofNlAttr >= 3 /\ m >= 4
        <5>1. SizeofNlAttr \in Nat /\ SizeofNlAttr >= 3
          BY SizesAssumption
        <5>2. Align(q) \in Nat /\ Align(q) + SizeofNlAttr <= e /\ e \in Nat
          BY <3>2
        <5> DEFINE x == Align(q)
        <5>3. x \in Nat /\ x + SizeofNlAttr <= e /\ e \in Nat /\ m = x + SizeofNlAttr + 1
          BY <5>2
        <5> HIDE DEF x, m
        <5> QED
          BY <5>1, <5>3
      <4> HIDE DEF m, e
      <4>2. \A i \in m .. e : data[i] \in Nat
        <5>1. \A i \in m .. e : i \in 1 .. Len(data)
          BY <3>2, <4>1
        <5> QED
          BY <5>1, ElementOfSeq
      <4>3. SubSeq(data, m, e) \in Seq(Nat) /\ Len(SubSeq(data, m, e)) = IF m <= e THEN e - m + 1 ELSE 0
        BY <3>2, <4>1, <4>2, SubSeqProperties
      <4>4. Len(SubSeq(data, m, e)) < l
        <5> DEFINE w == Len(SubSeq(data, m, e))
        <5>1. w = (IF m <= e THEN e - m + 1 ELSE 0) /\ e \in Nat /\ e <= l /\ m \in Nat /\ m >= 4
          BY <3>2, <4>1, <4>3
        <5>2. l >= 3 /\ m - 1 <= e
          BY <1>1, <3>2, <4>1
        <5> HIDE DEF w, l
        <5> QED
          BY ONLY <1>1, <5>1, <5>2
      <4> QED
        BY <4>3, <4>4 DEF m
    <3>6. a \in T
      BY <3>2, <3>5 DEF AttrAt
    <3> HIDE DEF a, T, e
    <3>7. ParseAttrs(data, q) \in Seq(T)
      BY <3>1, <3>4, <3>6, OneBefore
    <3> QED
      BY <3>7 DEF Below, T
  <2> QED
    BY <1>1, <2>1, <2>2, AlignBound
<1> HIDE DEF S
<1>5. l \in S
  BY <1>1, <1>3, <1>4, SetInduction
<1> QED
  BY <1>1, <1>5 DEF S

\* The larger the bound, the more attributes.
LEMMA BelowMore ==
    ASSUME NEW m \in Nat, NEW n \in Nat, m <= n
    PROVE  Below(m) \subseteq Below(n) /\ Below(n) \subseteq AttrSeq
<1> DEFINE T(k) == [typ : Nat, val : {v \in Seq(Nat) : Len(v) < k}]
<1>1. T(m) \subseteq T(n) /\ T(n) \subseteq [typ : Nat, val : Seq(Nat)]
  OBVIOUS
<1>2. Below(m) = Seq(T(m)) /\ Below(n) = Seq(T(n)) /\ AttrSeq = Seq([typ : Nat, val : Seq(Nat)])
  BY DEF Below, AttrSeq
<1> HIDE DEF T
<1> QED
  BY <1>1, <1>2, SeqMonotonic

\* All attributes are below some bound.
LEMMA AllBelow ==
    ASSUME NEW s \in AttrSeq
    PROVE  \E n \in Nat : s \in Below(n)
<1> DEFINE S == {k \in Nat : k <= Len(s) => \E m \in Nat : \A i \in 1 .. k : Len(s[i].val) < m}
<1>1. Len(s) \in Nat /\ \A i \in 1 .. Len(s) : s[i].val \in Seq(Nat) /\ s[i].typ \in Nat
        /\ s[i] \in [typ : Nat, val : Seq(Nat)]
  <2> DEFINE T == [typ : Nat, val : Seq(Nat)]
  <2>1. s \in Seq(T)
    BY DEF AttrSeq
  <2>2. \A x \in T : x.val \in Seq(Nat) /\ x.typ \in Nat
    OBVIOUS
  <2> HIDE DEF T
  <2>3. Len(s) \in Nat /\ \A i \in 1 .. Len(s) : s[i] \in T
    BY <2>1, ElementOfSeq
  <2> QED
    BY <2>2, <2>3 DEF T
<1>2. 0 \in S
  OBVIOUS
<1>3. ASSUME NEW k \in Nat, k \in S PROVE k + 1 \in S
  <2> SUFFICES ASSUME k + 1 <= Len(s) PROVE \E m \in Nat : \A i \in 1 .. k + 1 : Len(s[i].val) < m
    OBVIOUS
  <2>1. k <= Len(s) /\ k + 1 \in 1 .. Len(s)
    BY <1>1
  <2>2. PICK m \in Nat : \A i \in 1 .. k : Len(s[i].val) < m
    BY <1>3, <2>1
  <2> DEFINE w == Len(s[k + 1].val)
  <2>3. w \in Nat
    BY <1>1, <2>1
  <2>4. \A i \in 1 .. k + 1 : i \in 1 .. k \/ i = k + 1
    OBVIOUS
  <2>5. \A i \in 1 .. k + 1 : Len(s[i].val) \in Nat
    BY <1>1, <2>1
  <2>6. \A i \in 1 .. k + 1 : Len(s[i].val) < m + w + 1
    BY <2>2, <2>3, <2>4, <2>5
  <2> HIDE DEF w
  <2>7. m + w + 1 \in Nat
    BY <2>3
  <2> QED
    BY <2>6, <2>7
<1> HIDE DEF S
<1>4. Len(s) \in S
  BY <1>1, <1>2, <1>3, SetInduction
<1>5. PICK m \in Nat : \A i \in 1 .. Len(s) : Len(s[i].val) < m
  BY <1>1, <1>4 DEF S
<1> DEFINE T == [typ : Nat, val : {v \in Seq(Nat) : Len(v) < m}]
<1>6. \A i \in 1 .. Len(s) : s[i] \in T
  BY <1>1, <1>5
<1>7. s = [i \in 1 .. Len(s) |-> s[i]]
  BY DEF AttrSeq
<1> HIDE DEF T
<1>8. s \in Seq(T)
  BY <1>1, <1>6, <1>7
<1>9. s \in Below(m)
  BY <1>8 DEF Below, T
<1> QED
  BY <1>9

-----------------------------------------------------------------------------
(* What the attributes mean.                                               *)

\* The value of one attribute, if f is the meaning of those in it.
Meant(a, f) ==
    IF a.typ \in StringTypes THEN GetString(a.val)
    ELSE IF a.typ \notin NestedTypes THEN a.val
    ELSE IF ParseAttrs(a.val, 0) = Error THEN Error ELSE f[ParseAttrs(a.val, 0)]
TakenBy(attrs, f) == [i \in DOMAIN attrs |-> [typ |-> attrs[i].typ, val |-> Meant(attrs[i], f)]]

\* Only the meaning of shorter attributes counts.
LEMMA MeantAgree ==
    ASSUME NEW n \in Nat, NEW s \in Below(n + 1), NEW f, NEW g, \A x \in Below(n) : f[x] = g[x]
    PROVE  TakenBy(s, f) = TakenBy(s, g)
<1> DEFINE T == [typ : Nat, val : {v \in Seq(Nat) : Len(v) < n + 1}]
<1>1. s \in Seq(T)
  BY DEF Below
<1>2. \A a \in T : a.val \in Seq(Nat) /\ Len(a.val) <= n
  OBVIOUS
<1> HIDE DEF T
<1>3. \A i \in DOMAIN s : s[i] \in T
  BY <1>1
<1>4. ASSUME NEW i \in DOMAIN s PROVE Meant(s[i], f) = Meant(s[i], g)
  <2> DEFINE v == s[i].val
             ps == ParseAttrs(v, 0)
  <2>1. v \in Seq(Nat) /\ Len(v) <= n
    BY <1>2, <1>3
  <2>2. ps # Error => ps \in Below(n)
    <3> HIDE DEF v
    <3> SUFFICES ASSUME ps # Error PROVE ps \in Below(n)
      OBVIOUS
    <3>1. ps \in Below(Len(v)) /\ Len(v) \in Nat
      BY <2>1, ParseTyped
    <3> HIDE DEF ps
    <3> QED
      BY <2>1, <3>1, BelowMore
  <2>3. ps # Error => f[ps] = g[ps]
    BY <2>2
  <2> QED
    BY <2>3 DEF Meant
<1> QED
  BY <1>4 DEF TakenBy

\* No attributes, no meaning needed.
LEMMA MeantNone ==
    ASSUME NEW s \in Below(0), NEW f, NEW g
    PROVE  TakenBy(s, f) = TakenBy(s, g)
<1>1. {v \in Seq(Nat) : Len(v) < 0} = {}
  OBVIOUS
<1>2. [typ : Nat, val : {v \in Seq(Nat) : Len(v) < 0}] = {}
  BY <1>1
<1>3. s \in Seq({})
  BY <1>2 DEF Below
<1>4. DOMAIN s = {}
  BY <1>3
<1> QED
  BY <1>4 DEF TakenBy

\* g is the meaning of the attributes below n.
MeaningBelow(n, g) == g = [s \in Below(n) |-> TakenBy(s, g)]

\* There is a meaning below every bound.
LEMMA MeaningExists ==
    ASSUME NEW n \in Nat
    PROVE  \E g : MeaningBelow(n, g)
<1> DEFINE S == {k \in Nat : \E g : MeaningBelow(k, g)}
<1>1. 0 \in S
  <2> DEFINE g == [s \in Below(0) |-> TakenBy(s, 0)]
  <2>1. \A s \in Below(0) : TakenBy(s, 0) = TakenBy(s, g)
    BY MeantNone
  <2>2. g = [s \in Below(0) |-> TakenBy(s, g)]
    BY <2>1
  <2> HIDE DEF g
  <2>3. MeaningBelow(0, g)
    BY <2>2 DEF MeaningBelow
  <2> QED
    BY <2>3
<1>2. ASSUME NEW k \in Nat, k \in S PROVE k + 1 \in S
  <2>1. PICK g : MeaningBelow(k, g)
    BY <1>2
  <2> DEFINE h == [s \in Below(k + 1) |-> TakenBy(s, g)]
  <2>2. Below(k) \subseteq Below(k + 1)
    BY BelowMore
  <2>3. \A x \in Below(k) : g[x] = h[x]
    BY <2>1, <2>2 DEF MeaningBelow
  <2>4. \A s \in Below(k + 1) : TakenBy(s, g) = TakenBy(s, h)
    BY <2>3, MeantAgree
  <2>5. h = [s \in Below(k + 1) |-> TakenBy(s, h)]
    BY <2>4
  <2> HIDE DEF h
  <2>6. MeaningBelow(k + 1, h)
    BY <2>5 DEF MeaningBelow
  <2> QED
    BY <2>6
<1> HIDE DEF S
<1>3. n \in S
  BY <1>1, <1>2, SetInduction
<1> QED
  BY <1>3 DEF S

\* Meanings below different bounds agree.
LEMMA MeaningUnique ==
    ASSUME NEW m \in Nat, NEW n \in Nat, m <= n, NEW k, NEW g,
           MeaningBelow(m, k), MeaningBelow(n, g)
    PROVE  \A x \in Below(m) : g[x] = k[x]
<1> DEFINE S == {j \in Nat : j <= m => \A x \in Below(j) : g[x] = k[x]}
<1>1. 0 \in S
  <2>1. Below(0) \subseteq Below(m) /\ Below(0) \subseteq Below(n)
    BY BelowMore
  <2>2. \A x \in Below(0) : g[x] = TakenBy(x, g) /\ k[x] = TakenBy(x, k)
    BY <2>1 DEF MeaningBelow
  <2>3. \A x \in Below(0) : TakenBy(x, g) = TakenBy(x, k)
    BY MeantNone
  <2> QED
    BY <2>2, <2>3
<1>2. ASSUME NEW j \in Nat, j \in S PROVE j + 1 \in S
  <2> SUFFICES ASSUME j + 1 <= m PROVE \A x \in Below(j + 1) : g[x] = k[x]
    OBVIOUS
  <2>1. \A x \in Below(j) : g[x] = k[x]
    BY <1>2
  <2>2. Below(j + 1) \subseteq Below(m) /\ Below(j + 1) \subseteq Below(n)
    BY BelowMore
  <2>3. \A x \in Below(j + 1) : g[x] = TakenBy(x, g) /\ k[x] = TakenBy(x, k)
    BY <2>2 DEF MeaningBelow
  <2>4. \A x \in Below(j + 1) : TakenBy(x, g) = TakenBy(x, k)
    BY <2>1, MeantAgree
  <2> QED
    BY <2>3, <2>4
<1> HIDE DEF S
<1>3. m \in S
  BY <1>1, <1>2, SetInduction
<1> QED
  BY <1>3 DEF S

\* The definition of Taken defines a function: values are shorter than what they are in.
LEMMA TakenExists ==
    \E f : f = [s \in AttrSeq |-> TakenBy(s, f)]
<1> DEFINE N(s) == CHOOSE n \in Nat : s \in Below(n)
           G(n) == CHOOSE g : MeaningBelow(n, g)
           f == [s \in AttrSeq |-> G(N(s) + 1)[s]]
<1>1. \A s \in AttrSeq : N(s) \in Nat /\ s \in Below(N(s))
  BY AllBelow
<1>2. \A n \in Nat : MeaningBelow(n, G(n))
  BY MeaningExists
<1> HIDE DEF N, G
<1>3. ASSUME NEW n \in Nat, NEW s \in Below(n) PROVE f[s] = G(n)[s]
  <2>1. s \in AttrSeq
    BY BelowMore
  <2> DEFINE m == N(s) + 1
  <2>2. m \in Nat /\ s \in Below(m) /\ f[s] = G(m)[s]
    <3>1. N(s) \in Nat /\ s \in Below(N(s)) /\ m \in Nat /\ N(s) <= m
      BY <1>1, <2>1
    <3>2. s \in Below(m)
      BY <3>1, BelowMore
    <3> QED
      BY <2>1, <3>1, <3>2
  <2> HIDE DEF m, f
  <2>3. MeaningBelow(m, G(m)) /\ MeaningBelow(n, G(n))
    BY <1>2, <2>2
  <2>4. CASE m <= n
    BY <2>2, <2>3, <2>4, MeaningUnique
  <2>5. CASE n <= m
    BY <2>2, <2>3, <2>5, MeaningUnique
  <2> QED
    BY <2>2, <2>4, <2>5
<1>4. ASSUME NEW s \in AttrSeq PROVE G(N(s) + 1)[s] = TakenBy(s, f)
  <2> DEFINE n == N(s)
  <2>1. n \in Nat /\ n + 1 \in Nat /\ n <= n + 1 /\ s \in Below(n)
    BY <1>1
  <2> HIDE DEF n, f
  <2>2. s \in Below(n + 1) /\ Below(n) \subseteq Below(n + 1)
    BY <2>1, BelowMore
  <2>3. G(n + 1)[s] = TakenBy(s, G(n + 1))
    BY <1>2, <2>1, <2>2 DEF MeaningBelow
  <2>4. \A x \in Below(n) : G(n + 1)[x] = f[x]
    BY <1>3, <2>1, <2>2
  <2>5. TakenBy(s, G(n + 1)) = TakenBy(s, f)
    BY <2>1, <2>2, <2>4, MeantAgree
  <2> QED
    BY <2>3, <2>5 DEF n
<1>5. f = [s \in AttrSeq |-> TakenBy(s, f)]
  BY <1>4
<1> HIDE DEF f
<1> QED
  BY <1>5

\* Taken, attribute by attribute.
LEMMA TakenIs ==
    ASSUME NEW s \in AttrSeq
    PROVE  Taken[s] = TakenBy(s, Taken)
<1>1. Taken = CHOOSE f : f = [t \in AttrSeq |-> TakenBy(t, f)]
  BY DEF Taken, TakenBy, Meant
<1>2. Taken = [t \in AttrSeq |-> TakenBy(t, Taken)]
  BY <1>1, TakenExists
<1> QED
  BY <1>2

-----------------------------------------------------------------------------
(* Attributes in other buffers.                                            *)

\* The bytes from m to n, when they are k further on in another buffer.
LEMMA SamePart ==
    ASSUME NEW u \in Seq(Nat), NEW v \in Seq(Nat), NEW k \in Nat, NEW m \in Nat, NEW n \in Nat, m >= 1,
           n <= Len(v), \A i \in m .. n : u[k + i] = v[i]
    PROVE  SubSeq(u, k + m, k + n) = SubSeq(v, m, n)
<1>1. \A i \in m .. n : v[i] \in Nat
  BY ElementOfSeq
<1>2. \A i \in k + m .. k + n : u[i] \in Nat
  <2> SUFFICES ASSUME NEW i \in k + m .. k + n PROVE u[i] \in Nat
    OBVIOUS
  <2>1. i - k \in m .. n /\ k + (i - k) = i
    OBVIOUS
  <2>2. u[k + (i - k)] = v[i - k]
    BY <2>1
  <2> QED
    BY <1>1, <2>1, <2>2
<1> DEFINE a == SubSeq(u, k + m, k + n)
           b == SubSeq(v, m, n)
           l == IF m <= n THEN n - m + 1 ELSE 0
<1>3. b \in Seq(Nat) /\ Len(b) = l /\ \A i \in 1 .. n - m + 1 : b[i] = v[m + i - 1]
  BY <1>1, SubSeqProperties
<1>4. /\ a \in Seq(Nat) /\ Len(a) = IF k + m <= k + n THEN (k + n) - (k + m) + 1 ELSE 0
      /\ \A i \in 1 .. (k + n) - (k + m) + 1 : a[i] = u[(k + m) + i - 1]
  BY <1>2, SubSeqProperties
<1> HIDE DEF a, b
<1>5. Len(a) = l /\ \A i \in 1 .. n - m + 1 : a[i] = u[k + (m + i - 1)]
  <2>1. Len(a) = l
    BY <1>4
  <2>2. ASSUME NEW i \in 1 .. n - m + 1 PROVE a[i] = u[k + (m + i - 1)]
    <3>1. i \in 1 .. (k + n) - (k + m) + 1 /\ (k + m) + i - 1 = k + (m + i - 1)
      OBVIOUS
    <3> QED
      BY <1>4, <3>1
  <2> QED
    BY <2>1, <2>2
<1>6. ASSUME NEW i \in 1 .. l PROVE a[i] = b[i]
  <2>1. i \in 1 .. n - m + 1 /\ m + i - 1 \in m .. n
    OBVIOUS
  <2>2. a[i] = u[k + (m + i - 1)] /\ b[i] = v[m + i - 1]
    BY <1>3, <1>5, <2>1
  <2> QED
    BY <2>1, <2>2
<1>7. a = b
  BY <1>3, <1>4, <1>5, <1>6, SeqEqual
<1> QED
  BY <1>7 DEF a, b

\* An attribute that is k further on in another buffer.
LEMMA AttrCopied ==
    ASSUME NEW u \in Seq(Nat), NEW v \in Seq(Nat), NEW k, Aligned(k), NEW q \in Nat,
           Len(v) > Align(q), Whole(v, q), \A i \in Align(q) + 1 .. After(v, q) : u[k + i] = v[i]
    PROVE  AttrAt(u, k + q) = AttrAt(v, q) /\ After(u, k + q) = k + After(v, q)
<1>1. Align(k + q) = k + Align(q) /\ k \in Nat
  BY AlignShift DEF Aligned
<1> DEFINE a == Align(q)
           e == After(v, q)
<1>2. SizeofNlAttr \in Nat /\ SizeofNlAttr >= 3
  BY SizesAssumption
<1>3. a \in Nat /\ a + SizeofNlAttr <= e /\ e \in Nat /\ e <= Len(v) /\ v[a + 1] \in Nat
  BY WholeInside
<1>4. \A i \in a + 1 .. e : u[k + i] = v[i]
  OBVIOUS
<1>5. e = a + v[a + 1]
  BY DEF After
<1>6. Align(k + q) = k + a
  BY <1>1
<1>7. /\ AttrAt(v, q) = [typ |-> v[a + 3], val |-> SubSeq(v, a + SizeofNlAttr + 1, e)]
       /\ AttrAt(u, k + q) = [typ |-> u[Align(k + q) + 3],
                              val |-> SubSeq(u, Align(k + q) + SizeofNlAttr + 1, After(u, k + q))]
       /\ After(u, k + q) = Align(k + q) + u[Align(k + q) + 1]
  BY DEF AttrAt, After
<1> HIDE DEF a, e
<1>8. /\ (k + a) + 1 = k + (a + 1) /\ (k + a) + 3 = k + (a + 3)
      /\ (k + a) + SizeofNlAttr + 1 = k + (a + SizeofNlAttr + 1)
      /\ a + 1 \in a + 1 .. e /\ a + 3 \in a + 1 .. e
  BY <1>1, <1>2, <1>3
<1>9. u[(k + a) + 1] = v[a + 1] /\ u[(k + a) + 3] = v[a + 3]
  BY <1>4, <1>8
<1>10. After(u, k + q) = k + e
  <2>1. After(u, k + q) = (k + a) + v[a + 1]
    BY <1>6, <1>7, <1>9
  <2> QED
    BY <1>1, <1>3, <1>5, <2>1
<1>11. SubSeq(u, k + (a + SizeofNlAttr + 1), k + e) = SubSeq(v, a + SizeofNlAttr + 1, e)
  <2> DEFINE m == a + SizeofNlAttr + 1
  <2>1. m \in Nat /\ m >= 1 /\ \A i \in m .. e : i \in a + 1 .. e
    BY <1>2, <1>3
  <2>2. \A i \in m .. e : u[k + i] = v[i]
    BY <1>4, <2>1
  <2> HIDE DEF m
  <2>3. SubSeq(u, k + m, k + e) = SubSeq(v, m, e)
    BY <1>1, <1>3, <2>1, <2>2, SamePart
  <2> QED
    BY <2>3 DEF m
<1>12. AttrAt(u, k + q) = AttrAt(v, q)
  BY <1>6, <1>7, <1>8, <1>9, <1>10, <1>11
<1> QED
  BY <1>10, <1>12 DEF e

\* v is the end of u, from position k on, as far as it is behind p.
EndOf(u, k, v, p) == Len(u) = k + Len(v) /\ \A i \in p + 1 .. Len(v) : u[k + i] = v[i]

\* The same of an attribute that may not be whole.
LEMMA WholeMoved ==
    ASSUME NEW u \in Seq(Nat), NEW v \in Seq(Nat), NEW k, Aligned(k), NEW q \in Nat, NEW p \in Nat, p <= q,
           EndOf(u, k, v, p), Len(v) > Align(q)
    PROVE  Len(u) > Align(k + q) /\ (Whole(u, k + q) <=> Whole(v, q))
<1>1. Align(k + q) = k + Align(q) /\ k \in Nat
  BY AlignShift DEF Aligned
<1>2. Align(q) \in Nat /\ Align(q) >= q
  BY AlignBound
<1> DEFINE a == Align(q)
<1>3. Align(k + q) = k + a
  BY <1>1
<1>4. a \in Nat /\ a >= q /\ Len(v) > a /\ Len(v) \in Nat /\ Len(u) \in Nat
  BY <1>2
<1>5. Whole(v, q) <=> ~ (\/ a + SizeofNlAttr > Len(v)
                         \/ a + v[a + 1] > Len(v)
                         \/ v[a + 1] < SizeofNlAttr)
  BY DEF Whole
<1>6. Whole(u, k + q) <=> ~ (\/ (k + a) + SizeofNlAttr > Len(u)
                             \/ (k + a) + u[(k + a) + 1] > Len(u)
                             \/ u[(k + a) + 1] < SizeofNlAttr)
  BY <1>3 DEF Whole
<1> HIDE DEF a
<1>7. a + 1 \in p + 1 .. Len(v) /\ (k + a) + 1 = k + (a + 1) /\ a + 1 \in 1 .. Len(v)
  BY <1>1, <1>4
<1>8. u[(k + a) + 1] = v[a + 1] /\ Len(u) = k + Len(v)
  BY <1>7 DEF EndOf
<1>9. v[a + 1] \in Nat /\ SizeofNlAttr \in Nat
  BY <1>7, ElementOfSeq, Sizes
<1> DEFINE x == v[a + 1]
<1>10. /\ x \in Nat
       /\ Whole(v, q) <=> ~ (a + SizeofNlAttr > Len(v) \/ a + x > Len(v) \/ x < SizeofNlAttr)
       /\ Whole(u, k + q) <=> ~ ((k + a) + SizeofNlAttr > Len(u) \/ (k + a) + x > Len(u) \/ x < SizeofNlAttr)
  BY <1>5, <1>6, <1>8, <1>9
<1>11. k \in Nat /\ SizeofNlAttr \in Nat /\ Len(u) = k + Len(v)
  BY <1>1, <1>8, <1>9
<1> HIDE DEF x
<1> DEFINE lu == Len(u)
           lv == Len(v)
<1>12. /\ lu = k + lv /\ lv \in Nat /\ lv > a
       /\ Whole(v, q) <=> ~ (a + SizeofNlAttr > lv \/ a + x > lv \/ x < SizeofNlAttr)
       /\ Whole(u, k + q) <=> ~ ((k + a) + SizeofNlAttr > lu \/ (k + a) + x > lu \/ x < SizeofNlAttr)
  BY <1>4, <1>10, <1>11
<1> HIDE DEF lu, lv
<1>13. lu > k + a /\ (Whole(u, k + q) <=> Whole(v, q))
  BY <1>4, <1>10, <1>11, <1>12
<1> QED
  BY <1>3, <1>13 DEF lu

\* Bytes in front, a multiple of the alignment, do not matter, nor do those that are skipped.
LEMMA ParseMoved ==
    ASSUME NEW u \in Seq(Nat), NEW v \in Seq(Nat), NEW k, Aligned(k), NEW p \in Nat, EndOf(u, k, v, p)
    PROVE  ParseAttrs(u, k + p) = ParseAttrs(v, p)
<1> DEFINE S == {n \in Nat : \A q \in Nat : q >= p /\ q + n >= Len(v) =>
                                               ParseAttrs(u, k + q) = ParseAttrs(v, q)}
<1>1. k \in Nat /\ Len(v) \in Nat /\ Len(u) = k + Len(v)
  BY DEF Aligned, EndOf
<1>2. ASSUME NEW q \in Nat, Len(v) <= Align(q)
      PROVE  ParseAttrs(u, k + q) = ParseAttrs(v, q)
  <2>1. ParseAttrs(v, q) = <<>>
    BY <1>2, ParseNone
  <2>2. Align(q) \in Nat
    BY AlignBound
  <2>3. Align(k + q) = k + Align(q)
    BY AlignShift
  <2>4. Align(q) \in Nat /\ Align(k + q) = k + Align(q) /\ k + q \in Nat
    BY <1>1, <2>2, <2>3
  <2>5. Len(u) <= Align(k + q)
    BY <1>1, <1>2, <2>4
  <2>6. ParseAttrs(u, k + q) = <<>>
    BY <2>4, <2>5, ParseNone
  <2> QED
    BY <2>1, <2>6
<1>3. 0 \in S
  <2>1. \A q \in Nat : q + 0 >= Len(v) => Len(v) <= Align(q)
    BY <1>1, AlignBound
  <2> QED
    BY <1>2, <2>1
<1>4. ASSUME NEW n \in Nat, n \in S PROVE n + 1 \in S
  <2> SUFFICES ASSUME NEW q \in Nat, q >= p, q + (n + 1) >= Len(v)
               PROVE  ParseAttrs(u, k + q) = ParseAttrs(v, q)
    OBVIOUS
  <2>1. CASE Len(v) > Align(q) /\ Whole(v, q)
    <3> DEFINE e == After(v, q)
           a == Align(q)
           l == Len(v)
    <3>1. e \in Nat /\ e > q /\ a \in Nat /\ a >= q /\ e <= l /\ l \in Nat /\ q + (n + 1) >= l
      BY <1>1, <2>1, WholeInside
    <3>2. e >= p /\ e + n >= Len(v)
      <4> HIDE DEF e, l, a
      <4>1. e >= p /\ e + n >= l
        BY <3>1
      <4> QED
        BY <4>1 DEF l
    <3>3. \A i \in Align(q) + 1 .. After(v, q) : u[k + i] = v[i]
      <4>1. \A i \in a + 1 .. e : i \in p + 1 .. l
        <5> HIDE DEF e, l, a
        <5> QED
          BY <3>1
      <4> QED
        BY <4>1 DEF EndOf
    <3>4. AttrAt(u, k + q) = AttrAt(v, q) /\ After(u, k + q) = k + e
      BY <2>1, <3>3, AttrCopied
    <3>5. Len(u) > Align(k + q) /\ Whole(u, k + q)
      BY <2>1, WholeMoved
    <3>6. ParseAttrs(u, k + e) = ParseAttrs(v, e)
      BY <1>4, <3>1, <3>2
    <3> HIDE DEF e, a, l
    <3>7. k + q \in Nat /\ Align(k + q) \in Nat /\ Len(u) \in Nat
      <4>1. k + q \in Nat /\ Len(u) \in Nat
        BY <1>1
      <4> QED
        BY <4>1, AlignBound
    <3>8. ~ (Len(u) <= Align(k + q)) /\ ~ (Len(v) <= Align(q))
      <4>1. ~ (Len(u) <= Align(k + q))
        BY <3>5, <3>7
      <4>2. ~ (Len(v) <= Align(q))
        BY <1>1, <2>1, <3>1 DEF a
      <4> QED
        BY <4>1, <4>2
    <3>9. ParseAttrs(u, k + q) = ParseStep(u, k + q, ParseAttrs(u, k + e))
      BY <3>4, <3>7, ParseAttrsStep
    <3>10. ParseAttrs(v, q) = ParseStep(v, q, ParseAttrs(v, e))
      BY ParseAttrsStep DEF e
    <3> QED
      BY <2>1, <3>4, <3>5, <3>6, <3>8, <3>9, <3>10 DEF ParseStep
  <2>2. CASE Len(v) > Align(q) /\ ~Whole(v, q)
    <3>1. Len(u) > Align(k + q) /\ ~Whole(u, k + q)
      BY <2>2, WholeMoved
    <3>2. k + q \in Nat
      BY <1>1
    <3>3. k + q \in Nat /\ Align(k + q) \in Nat /\ Align(q) \in Nat
      BY <3>2, AlignBound
    <3>4. ~ (Len(u) <= Align(k + q)) /\ ~ (Len(v) <= Align(q))
      BY <1>1, <2>2, <3>1, <3>3
    <3> QED
      BY <2>2, <3>1, <3>3, <3>4, ParseAttrsStep DEF ParseStep
  <2>3. CASE Len(v) <= Align(q)
    BY <1>2, <2>3
  <2>4. Align(q) \in Nat
    BY AlignBound
  <2>5. Len(v) > Align(q) \/ Len(v) <= Align(q)
    BY <1>1, <2>4
  <2> QED
    BY <2>1, <2>2, <2>3, <2>5
<1> HIDE DEF S
<1>5. Len(v) \in S
  BY <1>1, <1>3, <1>4, SetInduction
<1>6. p >= p /\ p + Len(v) >= Len(v)
  BY <1>1
<1> QED
  BY <1>5, <1>6 DEF S

\* The beginning is aligned.
LEMMA ZeroAligned == Aligned(0)
<1>1. 0 * AlignTo = 0
  BY Sizes
<1> QED
  BY <1>1, AlignedMultiple

\* Only the aligned position counts.
LEMMA ParseAligned ==
    ASSUME NEW data \in Seq(Nat), NEW p \in Nat, NEW q \in Nat, Align(p) = Align(q)
    PROVE  ParseAttrs(data, p) = ParseAttrs(data, q)
<1>1. /\ After(data, p) = After(data, q) /\ AttrAt(data, p) = AttrAt(data, q)
      /\ Whole(data, p) <=> Whole(data, q)
  BY DEF After, AttrAt, Whole
<1>2. ParseStep(data, p, ParseAttrs(data, After(data, p))) =
      ParseStep(data, q, ParseAttrs(data, After(data, q)))
  BY <1>1 DEF ParseStep
<1> QED
  BY <1>2, ParseAttrsStep

\* t begins with s.
Begins(t, s) == Len(s) <= Len(t) /\ \A i \in 1 .. Len(s) : t[i] = s[i]

\* An error is told from what a parser returns otherwise.
ErrorApart == \A S : Error \notin Seq(S)

\* A parser that is given more parses the same, and then what is behind it.
LEMMA ParseLonger ==
    ASSUME ErrorApart, NEW s \in Seq(Nat), NEW t \in Seq(Nat), Begins(t, s),
           NEW p \in Nat, p <= Len(s), ParseAttrs(s, p) # Error, ParseAttrs(t, Len(s)) # Error
    PROVE  ParseAttrs(t, p) = ParseAttrs(s, p) \o ParseAttrs(t, Len(s))
<1> DEFINE l == Len(s)
           r == ParseAttrs(t, l)
           S == {n \in Nat : \A q \in Nat : q + n >= l /\ q <= l /\ ParseAttrs(s, q) # Error =>
                                               ParseAttrs(t, q) = ParseAttrs(s, q) \o r}
           T == [typ : Nat, val : Seq(Nat)]
<1>1. l \in Nat /\ Len(t) \in Nat /\ l <= Len(t)
  BY DEF Begins
<1>2. ASSUME NEW d \in Seq(Nat), NEW q \in Nat, ParseAttrs(d, q) # Error
      PROVE  ParseAttrs(d, q) \in Seq(T)
  <2>1. ParseAttrs(d, q) \in Below(Len(d)) /\ Len(d) \in Nat
    BY <1>2, ParseTyped
  <2> QED
    BY <2>1, BelowMore DEF AttrSeq
<1>3. r \in Seq(T)
  BY <1>1, <1>2
<1>4. Error \notin Seq(T)
  BY DEF ErrorApart
<1> HIDE DEF T
<1>5. ASSUME NEW q \in Nat, q <= l, l <= Align(q)
      PROVE  ParseAttrs(t, q) = ParseAttrs(s, q) \o r
  <2>1. ParseAttrs(s, q) = <<>>
    BY <1>5, ParseNone
  <2>2. Align(l) = Align(q)
    BY <1>1, <1>5, AlignBetween
  <2>3. ParseAttrs(t, q) = r
    BY <1>1, <2>2, ParseAligned
  <2> HIDE DEF r
  <2> QED
    BY <1>3, <2>1, <2>3, ConcatEmptySeq
<1>6. 0 \in S
  <2>1. \A q \in Nat : q + 0 >= l => l <= Align(q)
    BY <1>1, AlignBound
  <2> QED
    BY <1>5, <2>1
<1>7. ASSUME NEW n \in Nat, n \in S PROVE n + 1 \in S
  <2> SUFFICES ASSUME NEW q \in Nat, q + (n + 1) >= l, q <= l, ParseAttrs(s, q) # Error
               PROVE  ParseAttrs(t, q) = ParseAttrs(s, q) \o r
    OBVIOUS
  <2>1. CASE l <= Align(q)
    BY <1>5, <2>1
  <2>2. CASE l > Align(q)
    <3> DEFINE e == After(s, q)
               a == AttrAt(s, q)
               x == ParseAttrs(s, e)
    <3>1. Whole(s, q) /\ x # Error /\ ParseAttrs(s, q) = <<a>> \o x
      BY <2>2, ParseOne
    <3>2. /\ Align(q) \in Nat /\ Align(q) + SizeofNlAttr <= e
          /\ e \in Nat /\ e > q /\ e <= l
      BY <2>2, <3>1, WholeInside
    <3>3. e + n >= l
      <4> HIDE DEF e, l
      <4> QED
        BY <1>1, <3>2
    <3>4. ParseAttrs(t, e) = x \o r
      BY <1>7, <3>1, <3>2, <3>3
    <3>5. x \in Seq(T) /\ x \o r \in Seq(T)
      <4>1. x \in Seq(T)
        BY <1>2, <3>1, <3>2
      <4> HIDE DEF x, r
      <4> QED
        BY <1>3, <4>1, ConcatProperties
    <3>6. ParseAttrs(t, e) # Error
      BY <1>4, <3>4, <3>5
    <3> DEFINE z == 0
    <3>7. Aligned(z) /\ z + q = q /\ z + e = e
      BY <3>2, ZeroAligned
    <3>8. \A i \in Align(q) + 1 .. After(s, q) : t[z + i] = s[i]
      <4> DEFINE b == Align(q)
      <4>1. b \in Nat /\ e \in Nat /\ e <= l
        BY <3>2
      <4>2. \A i \in b + 1 .. e : i \in 1 .. l /\ z + i = i
        <5> HIDE DEF b, e, l
        <5> QED
          BY <1>1, <4>1
      <4> QED
        BY <4>2 DEF Begins
    <3>9. AttrAt(t, q) = a /\ After(t, q) = e
      <4> HIDE DEF z
      <4>1. AttrAt(t, z + q) = AttrAt(s, q) /\ After(t, z + q) = z + After(s, q)
        BY <2>2, <3>1, <3>7, <3>8, AttrCopied
      <4> QED
        BY <3>7, <4>1
    <3>10. Whole(t, q) /\ Len(t) > Align(q)
      <4> DEFINE b == Align(q)
      <4>1. b \in Nat /\ s[b + 1] \in Nat /\ b < l
        BY <2>2, <3>1, <3>2, WholeInside
      <4>2. b \in Nat /\ s[b + 1] \in Nat /\ b + 1 \in 1 .. l
        <5> HIDE DEF b, l
        <5> QED
          BY <1>1, <4>1
      <4>3. t[b + 1] = s[b + 1]
        BY <4>2 DEF Begins
      <4>4. /\ ~ (b + SizeofNlAttr > l \/ b + s[b + 1] > l \/ s[b + 1] < SizeofNlAttr)
            /\ SizeofNlAttr \in Nat /\ b < l
        BY <2>2, <3>1, Sizes DEF Whole
      <4> DEFINE y == s[b + 1]
                 m == Len(t)
      <4>5. /\ ~ (b + SizeofNlAttr > l \/ b + y > l \/ y < SizeofNlAttr)
            /\ SizeofNlAttr \in Nat /\ b < l /\ y \in Nat /\ b \in Nat /\ m \in Nat /\ l \in Nat /\ l <= m
        BY <1>1, <4>2, <4>4
      <4>6. /\ ~ (b + SizeofNlAttr > m \/ b + y > m \/ y < SizeofNlAttr) /\ m > b
        <5> HIDE DEF b, y, m, l
        <5> QED
          BY <4>5
      <4> QED
        BY <4>3, <4>6 DEF Whole
    <3>11. ~ (Len(t) <= Align(q))
      BY <1>1, <3>2, <3>10
    <3>12. ParseAttrs(t, q) = <<a>> \o (x \o r)
      <4>1. ParseAttrs(t, q) = ParseStep(t, q, ParseAttrs(t, e))
        BY <3>9, ParseAttrsStep
      <4> HIDE DEF a, x, r, e
      <4> QED
        BY <3>4, <3>6, <3>9, <3>10, <3>11, <4>1 DEF ParseStep
    <3>13. <<a>> \in Seq(T)
      <4>1. a \in T
        <5>1. <<a>> \o x \in Seq(T)
          BY <1>2, <3>1
        <5>2. (<<a>> \o x)[1] = a /\ 1 \in 1 .. Len(<<a>> \o x)
          <6> HIDE DEF a, x
          <6> QED
            BY <3>5
        <5> HIDE DEF a, x
        <5> QED
          BY <5>1, <5>2, ElementOfSeq
      <4> QED
        BY <4>1
    <3> HIDE DEF a, x, r
    <3> DEFINE w == <<a>>
    <3>14. (w \o x) \o r = w \o (x \o r)
      <4>1. w \in Seq(T) /\ x \in Seq(T) /\ r \in Seq(T)
        BY <1>3, <3>5, <3>13
      <4> HIDE DEF w
      <4> QED
        BY ONLY <4>1
    <3> QED
      BY <3>1, <3>12, <3>14
  <2>3. Align(q) \in Nat
    BY AlignBound
  <2>4. l <= Align(q) \/ l > Align(q)
    BY <1>1, <2>3
  <2> QED
    BY <2>1, <2>2, <2>4
<1> HIDE DEF S
<1>8. l \in S
  BY <1>1, <1>6, <1>7, SetInduction
<1>9. p + l >= l
  BY <1>1
<1> QED
  BY <1>8, <1>9 DEF S

-----------------------------------------------------------------------------
(* Buffers and the trees they stand for.                                   *)

\* From position p on, the data holds the attributes c, as their types ask for.
Holds(data, p, c) == ParseAttrs(data, p) # Error /\ Taken[ParseAttrs(data, p)] = c

\* What is parsed is a list of attributes.
LEMMA ParsedAttrs ==
    ASSUME NEW data \in Seq(Nat), NEW p \in Nat, ParseAttrs(data, p) # Error
    PROVE  ParseAttrs(data, p) \in AttrSeq
<1>1. ParseAttrs(data, p) \in Below(Len(data)) /\ Len(data) \in Nat
  BY ParseTyped
<1> QED
  BY <1>1, BelowMore

\* Nothing is behind the end.
LEMMA HoldsNone ==
    ASSUME ErrorApart, NEW data \in Seq(Nat), NEW p \in Nat, Len(data) <= Align(p)
    PROVE  Holds(data, p, <<>>)
<1>1. ParseAttrs(data, p) = <<>>
  BY ParseNone
<1>2. <<>> # Error
  BY EmptySeq DEF ErrorApart
<1>3. <<>> \in AttrSeq
  BY EmptySeq DEF AttrSeq
<1>4. TakenBy(<<>>, Taken) = <<>>
  BY DEF TakenBy
<1>5. Taken[<<>>] = <<>>
  BY <1>3, <1>4, TakenIs
<1> QED
  BY <1>1, <1>2, <1>5 DEF Holds

\* The same bytes hold the same attributes, whatever is before them.
LEMMA HoldsMoved ==
    ASSUME NEW u \in Seq(Nat), NEW v \in Seq(Nat), NEW k, Aligned(k), NEW p \in Nat, EndOf(u, k, v, p),
           NEW c
    PROVE  Holds(u, k + p, c) <=> Holds(v, p, c)
BY ParseMoved DEF Holds

\* Padding holds nothing.
LEMMA HoldsPadded ==
    ASSUME ErrorApart, NEW s \in Seq(Nat), NEW t \in Seq(Nat), Begins(t, s), Len(t) <= Align(Len(s)),
           NEW p \in Nat, p <= Len(s), NEW c, Holds(s, p, c)
    PROVE  Holds(t, p, c)
<1> DEFINE ps == ParseAttrs(s, p)
<1>1. ps # Error /\ Len(s) \in Nat
  BY DEF Holds
<1>2. ParseAttrs(t, Len(s)) = <<>>
  BY <1>1, ParseNone
<1>3. <<>> # Error
  BY EmptySeq DEF ErrorApart
<1>4. ParseAttrs(t, p) = ps \o <<>>
  BY <1>1, <1>2, <1>3, ParseLonger
<1>5. ps \in AttrSeq
  BY <1>1, ParsedAttrs
<1> HIDE DEF ps
<1>6. ps \o <<>> = ps
  BY <1>5, ConcatEmptySeq DEF AttrSeq
<1> QED
  BY <1>4, <1>6 DEF Holds, ps

\* A function on 1 .. n is a list.
LEMMA ListOf ==
    ASSUME NEW R, NEW n \in Nat, NEW m, m \in [1 .. n -> R]
    PROVE  m \in Seq(R) /\ Len(m) = n
OBVIOUS

\* One attribute more.
LEMMA TakenOneMore ==
    ASSUME NEW ps \in AttrSeq, NEW a \in [typ : Nat, val : Seq(Nat)]
    PROVE  /\ ps \o <<a>> \in AttrSeq
           /\ Taken[ps \o <<a>>] = Append(Taken[ps], [typ |-> a.typ, val |-> Meant(a, Taken)])
<1> DEFINE T == [typ : Nat, val : Seq(Nat)]
           w == <<a>>
           n == Len(ps)
           l == TakenBy(ps \o w, Taken)
           m == TakenBy(ps, Taken)
           e == [typ |-> a.typ, val |-> Meant(a, Taken)]
           R == {l[i] : i \in 1 .. n + 1} \cup {m[i] : i \in 1 .. n} \cup {e}
<1>1. ps \in Seq(T) /\ w \in Seq(T) /\ Len(w) = 1 /\ w[1] = a /\ n \in Nat
  BY DEF AttrSeq
<1> HIDE DEF w
<1>2. /\ ps \o w \in Seq(T) /\ Len(ps \o w) = n + 1
      /\ \A i \in 1 .. n : (ps \o w)[i] = ps[i]
      /\ (ps \o w)[n + 1] = a
  <2> HIDE DEF T
  <2>1. /\ ps \o w \in Seq(T) /\ Len(ps \o w) = Len(ps) + Len(w)
        /\ \A i \in 1 .. Len(ps) + Len(w) : (ps \o w)[i] = IF i <= Len(ps) THEN ps[i] ELSE w[i - Len(ps)]
    BY <1>1, ConcatProperties
  <2>2. \A i \in 1 .. n + 1 : (ps \o w)[i] = IF i <= n THEN ps[i] ELSE w[i - n]
    BY <1>1, <2>1
  <2>3. n + 1 \in 1 .. n + 1 /\ ~ (n + 1 <= n) /\ (n + 1) - n = 1
        /\ \A i \in 1 .. n : i \in 1 .. n + 1 /\ i <= n
    BY <1>1
  <2> HIDE DEF n
  <2>4. (ps \o w)[n + 1] = w[1]
    BY <2>2, <2>3
  <2> QED
    BY <1>1, <2>1, <2>2, <2>3, <2>4 DEF n
<1>3. ps \o w \in AttrSeq
  BY <1>2 DEF AttrSeq
<1>4. Taken[ps \o w] = l /\ Taken[ps] = m
  BY <1>3, TakenIs
<1>5. DOMAIN (ps \o w) = 1 .. n + 1 /\ DOMAIN ps = 1 .. n
  BY <1>1, <1>2
<1> DEFINE M(x) == [typ |-> x.typ, val |-> Meant(x, Taken)]
<1>6. l = [i \in 1 .. n + 1 |-> M((ps \o w)[i])] /\ m = [i \in 1 .. n |-> M(ps[i])] /\ e = M(a)
  BY <1>5 DEF TakenBy
<1> HIDE DEF l, m, e, M, n
<1>7. \A i \in 1 .. n : l[i] = m[i]
  <2>1. \A i \in 1 .. n : i \in 1 .. n + 1
    BY <1>1 DEF n
  <2> QED
    BY <1>2, <1>6, <2>1
<1>8. l[n + 1] = e
  <2>1. n + 1 \in 1 .. n + 1
    BY <1>1
  <2> QED
    BY <1>2, <1>6, <2>1
<1>9. l \in Seq(R) /\ m \in Seq(R) /\ e \in R /\ Len(l) = n + 1 /\ Len(m) = n
  <2>1. \A i \in 1 .. n + 1 : l[i] \in R
    OBVIOUS
  <2>2. \A i \in 1 .. n : m[i] \in R
    OBVIOUS
  <2>3. e \in R
    OBVIOUS
  <2>4. l = [i \in 1 .. n + 1 |-> l[i]] /\ m = [i \in 1 .. n |-> m[i]]
    BY <1>6
  <2> HIDE DEF R
  <2>5. n \in Nat /\ n + 1 \in Nat
    BY <1>1
  <2>6. m \in Seq(R) /\ Len(m) = n
    <3>1. m \in [1 .. n -> R]
      BY <2>2, <2>4
    <3> QED
      BY <2>5, <3>1, ListOf
  <2> DEFINE k == n + 1
  <2>7. l \in Seq(R) /\ Len(l) = k
    <3>1. k \in Nat /\ l \in [1 .. k -> R]
      BY <2>1, <2>4, <2>5
    <3> HIDE DEF k
    <3> QED
      BY <3>1, ListOf
  <2> QED
    BY <2>3, <2>6, <2>7
<1> HIDE DEF R
<1>10. /\ Append(m, e) \in Seq(R) /\ Len(Append(m, e)) = n + 1
       /\ \A i \in 1 .. n : Append(m, e)[i] = m[i]
       /\ Append(m, e)[n + 1] = e
  BY <1>9, AppendProperties
<1>11. \A i \in 1 .. Len(l) : l[i] = Append(m, e)[i]
  <2>1. \A i \in 1 .. n + 1 : i \in 1 .. n \/ i = n + 1
    BY <1>1
  <2> QED
    BY <1>7, <1>8, <1>9, <1>10, <2>1
<1>12. l = Append(m, e)
  BY <1>9, <1>10, <1>11, SeqEqual
<1> QED
  BY <1>3, <1>4, <1>12 DEF w, e

\* A whole attribute behind the others.
LEMMA HoldsAppended ==
    ASSUME ErrorApart, NEW s \in Seq(Nat), NEW t \in Seq(Nat), Begins(t, s), Aligned(Len(s)),
           Len(s) + SizeofNlAttr <= Len(t), t[Len(s) + 1] = Len(t) - Len(s),
           NEW p \in Nat, p <= Len(s), NEW c, Holds(s, p, c),
           NEW a, a = [typ |-> t[Len(s) + 3], val |-> SubSeq(t, Len(s) + SizeofNlAttr + 1, Len(t))]
    PROVE  Holds(t, p, Append(c, [typ |-> a.typ, val |-> Meant(a, Taken)]))
<1> DEFINE ps == ParseAttrs(s, p)
           l == Len(s)
           m == Len(t)
           x == t[l + 1]
<1>1. l \in Nat /\ m \in Nat /\ Align(l) = l /\ x = m - l /\ l + SizeofNlAttr <= m
      /\ SizeofNlAttr \in Nat /\ SizeofNlAttr >= 3
  BY SizesAssumption DEF Aligned
<1>2. ps # Error /\ Taken[ps] = c
  BY DEF Holds
<1>3. After(t, l) = m /\ Whole(t, l) /\ Len(t) > Align(l) /\ ~ (Len(t) <= Align(l))
  <2>1. After(t, l) = l + x /\ (Whole(t, l) <=> ~ (l + SizeofNlAttr > m \/ l + x > m \/ x < SizeofNlAttr))
    BY <1>1 DEF After, Whole
  <2> HIDE DEF l, m, x
  <2>2. l + x = m /\ ~ (l + SizeofNlAttr > m \/ l + x > m \/ x < SizeofNlAttr) /\ m > l /\ ~ (m <= l)
    BY <1>1
  <2> QED
    BY <1>1, <2>1, <2>2 DEF m
<1>4. AttrAt(t, l) = a
  BY <1>1, <1>3 DEF AttrAt
<1>5. ParseAttrs(t, m) = <<>>
  <2>1. m <= Align(m)
    BY <1>1, AlignBound
  <2> QED
    BY <1>1, <2>1, ParseNone
<1>6. <<>> # Error
  BY EmptySeq DEF ErrorApart
<1>7. a \in [typ : Nat, val : Seq(Nat)]
  <2>1. l + 3 \in 1 .. m /\ l + SizeofNlAttr + 1 \in Nat /\ l + SizeofNlAttr + 1 >= 1
    <3> HIDE DEF l, m
    <3> QED
      BY <1>1
  <2>2. t[l + 3] \in Nat
    BY <2>1, ElementOfSeq
  <2> DEFINE k == l + SizeofNlAttr + 1
  <2>3. \A i \in k .. m : t[i] \in Nat
    <3>1. \A i \in k .. m : i \in 1 .. m
      <4> HIDE DEF k, m
      <4> QED
        BY <2>1 DEF k
    <3> QED
      BY <3>1, ElementOfSeq
  <2>4. SubSeq(t, k, m) \in Seq(Nat)
    <3> HIDE DEF k, m
    <3> QED
      BY <1>1, <2>1, <2>3, SubSeqProperties DEF k
  <2> QED
    BY <2>2, <2>4
<1>8. ParseAttrs(t, l) = <<a>> \o <<>>
  BY <1>1, <1>3, <1>4, <1>5, <1>6, ParseAttrsStep DEF ParseStep
<1> DEFINE T == [typ : Nat, val : Seq(Nat)]
<1>9. <<a>> \o <<>> = <<a>> /\ <<a>> # Error
  <2>1. <<a>> \in Seq(T)
    BY <1>7
  <2> HIDE DEF T
  <2> QED
    BY <2>1, ConcatEmptySeq DEF ErrorApart
<1>10. ParseAttrs(t, p) = ps \o <<a>>
  BY <1>1, <1>2, <1>8, <1>9, ParseLonger
<1>11. ps \in AttrSeq
  BY <1>2, ParsedAttrs
<1> HIDE DEF ps
<1>12. /\ ps \o <<a>> \in AttrSeq
       /\ Taken[ps \o <<a>>] = Append(Taken[ps], [typ |-> a.typ, val |-> Meant(a, Taken)])
  BY <1>7, <1>11, TakenOneMore
<1>13. ps \o <<a>> # Error
  BY <1>12 DEF ErrorApart, AttrSeq
<1> QED
  BY <1>2, <1>10, <1>12, <1>13 DEF Holds

-----------------------------------------------------------------------------
(* The builder's stack, the datagram and the receiver.                     *)

\* Where the attributes in the i-th open one begin, and where they end.
Start(o, i) == IF i = 1 THEN AllHeaders ELSE o[i].pos + SizeofNlAttr
End(b, o, i) == IF i = Len(o) THEN Len(b) ELSE o[i + 1].pos

\* The open attributes o are nested in each other, behind the headers of the message b.
Stacked(b, o) ==
    /\ Len(b) < AllHeaders =>
          /\ Len(o) = 1 /\ o[1].content = <<>>
          /\ Len(b) \in {SizeofNlMsghdr, Align(SizeofNlMsghdr) + SizeofHeader}
    /\ \A i \in 2 .. Len(o) :
          Aligned(o[i].pos) /\ \A j \in 1 .. i - 1 : Start(o, j) <= o[i].pos
    /\ \A i \in 2 .. Len(o) - 1 : o[i].typ \in NestedTypes
StackInv == open # <<>> => phase = "build" /\ Stacked(buf, open)

\* Each of them holds what has been closed in it; a value is where it has been put.
Nesting(o, i) == i = 1 \/ o[i].typ \in NestedTypes
Bytes(typ, val) == IF typ \in StringTypes THEN Append(val, 0) ELSE val
ValueIn(b, o, i) ==
    IF o[i].full
    THEN /\ o[i].content \in Seq(Nat)
         /\ SubSeq(b, Start(o, i) + 1, Len(b)) = Bytes(o[i].typ, o[i].content)
    ELSE Len(b) = Start(o, i)
HoldsOpen(b, o, i) == Holds(SubSeq(b, 1, End(b, o, i)), Start(o, i), o[i].content)
Held(b, o) ==
    \A i \in 1 .. Len(o) : IF Nesting(o, i) THEN HoldsOpen(b, o, i) ELSE ValueIn(b, o, i)
ContentInv == fits => Held(buf, open)

\* The i-th message sent is in the datagram from st on.
MsgEnd(d, st) == st + d[st + 1]
MsgAt(d, st, msg) ==
    /\ Aligned(st) /\ st < Len(d) /\ AllHeaders <= d[st + 1] /\ MsgEnd(d, st) <= Len(d)
    /\ Holds(SubSeq(d, 1, MsgEnd(d, st)), st + AllHeaders, msg)

\* The messages follow each other, from one aligned position to the next.
Laid(d, msgs, st) ==
    /\ st \in [1 .. Len(msgs) + 1 -> Nat]
    /\ st[1] = 0 /\ st[Len(msgs) + 1] = Align(Len(d))
    /\ \A i \in 1 .. Len(msgs) : MsgAt(d, st[i], msgs[i]) /\ st[i + 1] = Align(MsgEnd(d, st[i]))

Msgs == {Taken[attrs] : attrs \in AttrSeq}
Received == SubSeq(datagram, 1, IF Len(datagram) < BufSize THEN Len(datagram) ELSE BufSize)

\* The parser is at the message that follows those it has parsed.
ParserInv ==
    /\ phase = "build" => got = <<>> /\ pos = 0
    /\ phase # "build" => resp = Received
    /\ fits =>
          /\ sent \in Seq(Msgs) /\ got \in Seq(Msgs) /\ Len(got) <= Len(sent)
          /\ \A i \in 1 .. Len(got) : got[i] = sent[i]
          /\ \E st : Laid(datagram, sent, st) /\ (phase # "failed" => pos = st[Len(got) + 1])

AllInv == IndInv /\ StackInv /\ ContentInv /\ ParserInv /\ AllParsed

\* What the headers take.
LEMMA HeadersNat ==
    /\ AllHeaders \in Nat /\ AllHeaders > 0 /\ SizeofNlMsghdr > 0
    /\ SizeofNlMsghdr <= AllHeaders
    /\ Align(SizeofNlMsghdr) + SizeofHeader <= AllHeaders
    /\ Align(Align(SizeofNlMsghdr) + SizeofHeader) + SizeofHeader = AllHeaders
<1>1. SizeofNlMsghdr \in Nat /\ SizeofNlMsghdr > 0 /\ SizeofHeader \in Nat /\ SizeofHeader > 0
  BY SizesAssumption
<1> DEFINE a == Align(SizeofNlMsghdr)
           b == Align(a + SizeofHeader)
<1>2. a \in Nat /\ a >= SizeofNlMsghdr
  BY <1>1, AlignBound
<1>3. a + SizeofHeader \in Nat
  BY <1>1, <1>2
<1>4. b \in Nat /\ b >= a + SizeofHeader
  <2> HIDE DEF a
  <2> QED
    BY <1>3, AlignBound
<1>5. AllHeaders = b + SizeofHeader
  BY DEF AllHeaders
<1> HIDE DEF a, b
<1>6. AllHeaders \in Nat /\ AllHeaders > 0 /\ SizeofNlMsghdr <= AllHeaders /\ a + SizeofHeader <= AllHeaders
  BY <1>1, <1>2, <1>4, <1>5
<1> QED
  BY <1>1, <1>5, <1>6 DEF a, b

\* What the invariant of the buffer says of the attributes that are open.
Placed(b, o) ==
    /\ b \in Seq(Nat) /\ Len(o) \in Nat
    /\ \A i \in 1 .. Len(o) : o[i].pos \in Nat /\ o[i].typ \in Nat
    /\ \A i \in 2 .. Len(o) : o[i].pos + SizeofNlAttr <= Len(b)

LEMMA OpenTypes ==
    ASSUME IndInv
    PROVE  Placed(buf, open) /\ (open = <<>> <=> Len(open) = 0)
<1> DEFINE S == {open[i].content : i \in DOMAIN open}
<1>1. open \in Seq(Attrs(S))
  BY DEF IndInv, OpenOK
<1>2. \A a \in Attrs(S) : a.pos \in Nat /\ a.typ \in Nat
  BY DEF Attrs
<1> HIDE DEF S
<1>3. Len(open) \in Nat /\ (open = <<>> <=> Len(open) = 0)
  BY <1>1, EmptySeq
<1>4. \A i \in 1 .. Len(open) : open[i].pos \in Nat /\ open[i].typ \in Nat
  BY <1>1, <1>2, ElementOfSeq
<1>5. buf \in Seq(Nat) /\ \A i \in 2 .. Len(open) : open[i].pos + SizeofNlAttr <= Len(buf)
  BY DEF IndInv, TypeOK
<1> QED
  BY <1>3, <1>4, <1>5 DEF Placed

\* Inside the message, the attributes of each level begin before they end.
LEMMA StartEnd ==
    ASSUME NEW b, NEW o, Placed(b, o), Stacked(b, o), Len(b) >= AllHeaders, NEW i \in 1 .. Len(o)
    PROVE  /\ Start(o, i) \in Nat /\ End(b, o, i) \in Nat
           /\ Start(o, i) <= End(b, o, i) /\ End(b, o, i) <= Len(b)
           /\ i < Len(o) => End(b, o, i) = o[i + 1].pos /\ End(b, o, i) + SizeofNlAttr <= Len(b)
<1>1. Len(o) \in Nat /\ i \in Nat /\ Len(b) \in Nat /\ SizeofNlAttr \in Nat /\ AllHeaders \in Nat
  BY Sizes, HeadersNat DEF Placed
<1>2. i = 1 \/ i \in 2 .. Len(o)
  BY <1>1
<1>3. Start(o, i) \in Nat /\ Start(o, i) <= Len(b)
  <2>1. CASE i = 1
    BY <1>1, <2>1 DEF Start
  <2>2. CASE i # 1
    <3>1. Start(o, i) = o[i].pos + SizeofNlAttr /\ o[i].pos \in Nat
      BY <2>2 DEF Start, Placed
    <3> QED
      BY <1>1, <1>2, <2>2, <3>1 DEF Placed
  <2> QED
    BY <2>1, <2>2
<1>4. CASE i = Len(o)
  <2>1. End(b, o, i) = Len(b)
    BY <1>4 DEF End
  <2> QED
    BY <1>1, <1>3, <1>4, <2>1
<1>5. CASE i # Len(o)
  <2>1. i + 1 \in 2 .. Len(o) /\ i + 1 \in 1 .. Len(o) /\ (i + 1) - 1 = i
    BY <1>1, <1>5
  <2> DEFINE x == o[i + 1].pos
  <2>2. End(b, o, i) = x
    BY <1>5 DEF End
  <2>3. x \in Nat /\ x + SizeofNlAttr <= Len(b)
    BY <2>1 DEF Placed
  <2>4. i \in 1 .. (i + 1) - 1
    BY <1>1
  <2>5. Start(o, i) <= x
    BY <2>1, <2>4 DEF Stacked
  <2> HIDE DEF x
  <2>6. x <= Len(b)
    BY <1>1, <2>3
  <2> QED
    BY <1>3, <2>2, <2>3, <2>5, <2>6 DEF x
<1> QED
  BY <1>4, <1>5

-----------------------------------------------------------------------------
(* Parts of buffers.                                                       *)

\* The first bytes of a buffer.
LEMMA FirstPart ==
    ASSUME NEW b \in Seq(Nat), NEW n \in Nat, n <= Len(b)
    PROVE  /\ SubSeq(b, 1, n) \in Seq(Nat) /\ Len(SubSeq(b, 1, n)) = n
           /\ \A i \in 1 .. n : SubSeq(b, 1, n)[i] = b[i]
<1>1. \A i \in 1 .. n : b[i] \in Nat
  BY ElementOfSeq
<1>2. /\ SubSeq(b, 1, n) \in Seq(Nat)
      /\ Len(SubSeq(b, 1, n)) = IF 1 <= n THEN n - 1 + 1 ELSE 0
      /\ \A i \in 1 .. n - 1 + 1 : SubSeq(b, 1, n)[i] = b[1 + i - 1]
  BY <1>1, SubSeqProperties
<1>3. \A i \in 1 .. n : i \in 1 .. n - 1 + 1 /\ 1 + i - 1 = i
  OBVIOUS
<1>4. \A i \in 1 .. n : SubSeq(b, 1, n)[i] = b[i]
  BY <1>2, <1>3
<1> QED
  BY <1>2, <1>4

\* They are the same in a buffer with the same bytes.
LEMMA SameFirst ==
    ASSUME NEW b \in Seq(Nat), NEW c \in Seq(Nat), NEW n \in Nat, n <= Len(b), n <= Len(c),
           \A i \in 1 .. n : b[i] = c[i]
    PROVE  SubSeq(b, 1, n) = SubSeq(c, 1, n)
<1> DEFINE x == SubSeq(b, 1, n)
           y == SubSeq(c, 1, n)
<1>1. /\ x \in Seq(Nat) /\ Len(x) = n /\ \A i \in 1 .. n : x[i] = b[i]
      /\ y \in Seq(Nat) /\ Len(y) = n /\ \A i \in 1 .. n : y[i] = c[i]
  BY FirstPart
<1> HIDE DEF x, y
<1>2. x = y
  BY <1>1, SeqEqual
<1> QED
  BY <1>2 DEF x, y

\* Padding leaves what was there.
LEMMA PaddedBegins ==
    ASSUME NEW b \in Seq(Nat), NEW n \in Nat, n >= Len(b)
    PROVE  Begins(PaddedTo(b, n), b)
<1> DEFINE m == n - Len(b)
<1>1. m \in Nat /\ Len(b) + m = n
  OBVIOUS
<1> HIDE DEF m
<1>2. Zeros(m) \in Seq(Nat) /\ Len(Zeros(m)) = m
  BY <1>1 DEF Zeros
<1>3. /\ Len(b \o Zeros(m)) = Len(b) + Len(Zeros(m))
      /\ \A i \in 1 .. Len(b) + Len(Zeros(m)) : (b \o Zeros(m))[i] =
            IF i <= Len(b) THEN b[i] ELSE Zeros(m)[i - Len(b)]
  BY <1>2, ConcatProperties
<1>4. \A i \in 1 .. Len(b) : i \in 1 .. Len(b) + m /\ i <= Len(b)
  BY <1>1
<1>5. \A i \in 1 .. Len(b) : (b \o Zeros(m))[i] = b[i]
  BY <1>2, <1>3, <1>4
<1>6. Len(b \o Zeros(m)) = n /\ Len(b) <= n
  BY <1>1, <1>2, <1>3
<1> QED
  BY <1>5, <1>6 DEF PaddedTo, Begins, m

\* What is closed in the i-th open attribute stays if the bytes do.
LEMMA HoldsStays ==
    ASSUME NEW b, NEW o, Placed(b, o), Stacked(b, o), Len(b) >= AllHeaders,
           NEW c \in Seq(Nat), NEW n, NEW i \in 1 .. Len(o),
           End(b, o, i) <= Len(c), \A j \in 1 .. End(b, o, i) : b[j] = c[j],
           End(c, n, i) = End(b, o, i), Start(n, i) = Start(o, i), n[i].content = o[i].content,
           HoldsOpen(b, o, i)
    PROVE  HoldsOpen(c, n, i)
<1>1. End(b, o, i) \in Nat /\ End(b, o, i) <= Len(b) /\ b \in Seq(Nat)
  BY StartEnd DEF Placed
<1>2. SubSeq(b, 1, End(b, o, i)) = SubSeq(c, 1, End(b, o, i))
  BY <1>1, SameFirst
<1> QED
  BY <1>2 DEF HoldsOpen

-----------------------------------------------------------------------------
(* Opening an attribute and putting a value.                               *)

\* What PutAttr does to the buffer b and the stack o.
Pushed(b, o, c, n, e) ==
    /\ Len(b) >= AllHeaders /\ (Len(o) = 1 \/ o[Len(o)].typ \in NestedTypes)
    /\ e.pos = Align(Len(b)) /\ e.content = <<>> /\ e.full = FALSE
    /\ Len(c) = e.pos + SizeofNlAttr /\ Begins(c, b)
    /\ OneMore(n, o, e)

\* Its numbers.
LEMMA PushedSizes ==
    ASSUME NEW b, NEW o, NEW c, NEW n, NEW e, Placed(b, o), Len(o) > 0, Pushed(b, o, c, n, e)
    PROVE  /\ Len(o) \in 1 .. Len(o) /\ Len(o) \in Nat /\ Len(n) = Len(o) + 1
           /\ \A i \in 1 .. Len(o) : n[i] = o[i] /\ Start(n, i) = Start(o, i) /\ i # Len(n)
           /\ n[Len(n)] = e
           /\ Len(b) \in Nat /\ e.pos \in Nat /\ e.pos >= Len(b) /\ Len(c) = e.pos + SizeofNlAttr
           /\ SizeofNlAttr \in Nat
<1>1. Len(o) \in Nat /\ Len(b) \in Nat
  BY DEF Placed
<1>2. e.pos \in Nat /\ e.pos >= Len(b)
  BY <1>1, AlignBound DEF Pushed
<1>3. Len(n) = Len(o) + 1 /\ (\A i \in 1 .. Len(o) : n[i] = o[i]) /\ n[Len(n)] = e
  BY DEF Pushed, OneMore
<1>4. \A i \in 1 .. Len(o) : Start(n, i) = Start(o, i)
  BY <1>3 DEF Start
<1>5. \A i \in 1 .. Len(o) : i # Len(n)
  BY <1>1, <1>3
<1> QED
  BY <1>1, <1>2, <1>3, <1>4, <1>5, Sizes DEF Pushed

\* The new attribute is nested in the others.
LEMMA PushedStacked ==
    ASSUME NEW b, NEW o, NEW c, NEW n, NEW e, Placed(b, o), Stacked(b, o), Len(o) > 0,
           Pushed(b, o, c, n, e)
    PROVE  Len(c) >= AllHeaders /\ Stacked(c, n)
<1>1. /\ Len(o) \in 1 .. Len(o) /\ Len(o) \in Nat /\ Len(n) = Len(o) + 1
      /\ \A i \in 1 .. Len(o) : n[i] = o[i] /\ Start(n, i) = Start(o, i) /\ i # Len(n)
      /\ n[Len(n)] = e
      /\ Len(b) \in Nat /\ e.pos \in Nat /\ e.pos >= Len(b) /\ Len(c) = e.pos + SizeofNlAttr
      /\ SizeofNlAttr \in Nat
  BY PushedSizes
<1>2. Len(b) >= AllHeaders /\ AllHeaders \in Nat
  BY HeadersNat DEF Pushed
<1>3. Len(c) >= AllHeaders /\ ~ (Len(c) < AllHeaders)
  BY <1>1, <1>2
<1>4. ASSUME NEW i \in 2 .. Len(n)
      PROVE  Aligned(n[i].pos) /\ \A j \in 1 .. i - 1 : Start(n, j) <= n[i].pos
  <2>1. CASE i = Len(n)
    <3>1. i - 1 = Len(o) /\ n[i] = e
      BY <1>1, <2>1
    <3>2. Aligned(e.pos)
      BY <1>1, AlignAligned DEF Pushed
    <3>3. ASSUME NEW j \in 1 .. Len(o) PROVE Start(n, j) <= e.pos
      <4>1. /\ Start(o, j) \in Nat /\ End(b, o, j) \in Nat
            /\ Start(o, j) <= End(b, o, j) /\ End(b, o, j) <= Len(b)
        BY <1>2, StartEnd
      <4>2. Start(n, j) = Start(o, j)
        BY <1>1
      <4> QED
        BY <1>1, <4>1, <4>2
    <3> QED
      BY <3>1, <3>2, <3>3
  <2>2. CASE i # Len(n)
    <3>1. i \in 2 .. Len(o) /\ i \in 1 .. Len(o) /\ \A j \in 1 .. i - 1 : j \in 1 .. Len(o)
      BY <1>1, <2>2
    <3>2. n[i] = o[i] /\ \A j \in 1 .. i - 1 : Start(n, j) = Start(o, j)
      BY <1>1, <3>1
    <3> QED
      BY <3>1, <3>2 DEF Stacked
  <2> QED
    BY <2>1, <2>2
<1>5. ASSUME NEW i \in 2 .. Len(n) - 1 PROVE n[i].typ \in NestedTypes
  <2>1. i \in 1 .. Len(o) /\ n[i] = o[i]
    BY <1>1
  <2>2. CASE i = Len(o)
    BY <1>1, <2>1, <2>2 DEF Pushed
  <2>3. CASE i # Len(o)
    <3>1. i \in 2 .. Len(o) - 1
      BY <1>1, <2>3
    <3> QED
      BY <2>1, <3>1 DEF Stacked
  <2> QED
    BY <2>2, <2>3
<1> QED
  BY <1>3, <1>4, <1>5 DEF Stacked

\* It holds nothing yet, the others what they did.
LEMMA PushedHeld ==
    ASSUME ErrorApart, NEW b, NEW o, NEW c \in Seq(Nat), NEW n, NEW e, Placed(b, o), Stacked(b, o),
           Len(o) > 0, Pushed(b, o, c, n, e), Held(b, o)
    PROVE  Held(c, n)
<1>1. /\ Len(o) \in 1 .. Len(o) /\ Len(o) \in Nat /\ Len(n) = Len(o) + 1
      /\ \A i \in 1 .. Len(o) : n[i] = o[i] /\ Start(n, i) = Start(o, i) /\ i # Len(n)
      /\ n[Len(n)] = e
      /\ Len(b) \in Nat /\ e.pos \in Nat /\ e.pos >= Len(b) /\ Len(c) = e.pos + SizeofNlAttr
      /\ SizeofNlAttr \in Nat
  BY PushedSizes
<1>2. Len(b) >= AllHeaders /\ b \in Seq(Nat) /\ Begins(c, b)
  BY DEF Pushed, Placed
<1>3. \A i \in 1 .. Len(o) : Nesting(o, i) /\ Nesting(n, i)
  <2> SUFFICES ASSUME NEW i \in 1 .. Len(o) PROVE Nesting(o, i) /\ Nesting(n, i)
    OBVIOUS
  <2>1. i = 1 \/ i = Len(o) \/ i \in 2 .. Len(o) - 1
    BY <1>1
  <2>2. Nesting(o, i)
    BY <1>1, <2>1 DEF Nesting, Stacked, Pushed
  <2> QED
    BY <1>1, <2>2 DEF Nesting
<1>4. ASSUME NEW i \in 1 .. Len(o), i # Len(o) PROVE HoldsOpen(c, n, i)
  <2>1. HoldsOpen(b, o, i)
    BY <1>3 DEF Held
  <2>2. /\ End(b, o, i) \in Nat /\ End(b, o, i) <= Len(b) /\ i < Len(o) /\ End(b, o, i) = o[i + 1].pos
    BY <1>1, <1>2, <1>4, StartEnd
  <2>3. i + 1 \in 1 .. Len(o)
    BY <1>1, <1>4
  <2>4. End(c, n, i) = End(b, o, i)
    BY <1>1, <2>2, <2>3 DEF End
  <2>5. End(b, o, i) <= Len(c) /\ \A j \in 1 .. End(b, o, i) : b[j] = c[j]
    <3>1. \A j \in 1 .. End(b, o, i) : j \in 1 .. Len(b)
      BY <1>1, <2>2
    <3>2. \A j \in 1 .. End(b, o, i) : b[j] = c[j]
      BY <1>2, <3>1 DEF Begins
    <3>3. End(b, o, i) <= Len(c)
      BY <1>1, <2>2
    <3> QED
      BY <3>2, <3>3
  <2>6. Start(n, i) = Start(o, i) /\ n[i].content = o[i].content
    BY <1>1
  <2> QED
    BY <1>2, <2>1, <2>4, <2>5, <2>6, HoldsStays
<1>5. HoldsOpen(c, n, Len(o))
  <2> DEFINE k == Len(o)
             s == SubSeq(c, 1, e.pos)
  <2>1. Holds(SubSeq(b, 1, Len(b)), Start(o, k), o[k].content)
    BY <1>1, <1>3 DEF Held, HoldsOpen, End
  <2>2. Holds(b, Start(o, k), o[k].content)
    BY <1>2, <2>1, SubSeqFull
  <2>3. s \in Seq(Nat) /\ Len(s) = e.pos /\ \A i \in 1 .. e.pos : s[i] = c[i]
    <3>1. e.pos <= Len(c)
      BY <1>1
    <3> QED
      BY <1>1, <3>1, FirstPart
  <2>4. End(c, n, k) = e.pos
    <3>1. k + 1 = Len(n) /\ k # Len(n)
      BY <1>1
    <3> QED
      BY <1>1, <3>1 DEF End
  <2>5. Begins(s, b)
    <3>1. \A i \in 1 .. Len(b) : i \in 1 .. e.pos
      BY <1>1
    <3> HIDE DEF s
    <3> QED
      BY <1>1, <1>2, <2>3, <3>1 DEF Begins
  <2>6. Len(s) <= Align(Len(b))
    <3>1. e.pos = Align(Len(b)) /\ e.pos \in Nat
      BY <1>1 DEF Pushed
    <3> HIDE DEF s
    <3> QED
      BY <2>3, <3>1
  <2>7. Start(o, k) \in Nat /\ Start(o, k) <= Len(b)
    <3>1. Start(o, k) \in Nat /\ End(b, o, k) \in Nat /\ Start(o, k) <= End(b, o, k) /\ End(b, o, k) <= Len(b)
      BY <1>1, <1>2, StartEnd
    <3> QED
      BY <1>1, <3>1
  <2>8. Holds(s, Start(o, k), o[k].content)
    <3> HIDE DEF s
    <3> QED
      BY <1>2, <2>2, <2>3, <2>5, <2>6, <2>7, HoldsPadded
  <2>9. Start(n, k) = Start(o, k) /\ n[k].content = o[k].content
    BY <1>1
  <2> QED
    BY <2>4, <2>8, <2>9 DEF HoldsOpen
<1>6. IF Nesting(n, Len(n)) THEN HoldsOpen(c, n, Len(n)) ELSE ValueIn(c, n, Len(n))
  <2>1. Start(n, Len(n)) = Len(c) /\ Len(c) \in Nat
    <3>1. Len(n) # 1
      BY <1>1
    <3> QED
      BY <1>1, <3>1 DEF Start
  <2>2. HoldsOpen(c, n, Len(n))
    <3>1. SubSeq(c, 1, Len(c)) = c
      BY SubSeqFull
    <3>2. Len(c) <= Align(Len(c))
      BY <2>1, AlignBound
    <3>3. Holds(c, Len(c), <<>>)
      BY <2>1, <3>2, HoldsNone
    <3> QED
      BY <1>1, <2>1, <3>1, <3>3 DEF HoldsOpen, End, Pushed
  <2>3. ValueIn(c, n, Len(n))
    BY <1>1, <2>1 DEF ValueIn, Pushed
  <2> QED
    BY <2>2, <2>3
<1>7. \A i \in 1 .. Len(n) : i \in 1 .. Len(o) \/ i = Len(n)
  BY <1>1
<1> QED
  BY <1>3, <1>4, <1>5, <1>6, <1>7 DEF Held

\* What the put functions do: the bytes go to the end of b, into the innermost attribute.
Put(b, o, c, n, bytes) ==
    /\ Len(o) > 1 /\ ~Nesting(o, Len(o)) /\ ~o[Len(o)].full
    /\ c = b \o bytes
    /\ Len(n) = Len(o) /\ n[Len(o)].full
    /\ \A i \in 1 .. Len(o) : n[i].pos = o[i].pos /\ n[i].typ = o[i].typ
    /\ \A i \in 1 .. Len(o) : i # Len(o) => n[i] = o[i]
    /\ bytes = Bytes(o[Len(o)].typ, n[Len(o)].content) /\ n[Len(o)].content \in Seq(Nat)

\* The attributes stay nested.
LEMMA PutStacked ==
    ASSUME NEW b, NEW o, NEW c \in Seq(Nat), NEW n, NEW bytes \in Seq(Nat), Placed(b, o), Stacked(b, o),
           Put(b, o, c, n, bytes)
    PROVE  Stacked(c, n) /\ Len(c) >= AllHeaders
<1>1. Len(o) \in Nat /\ Len(b) \in Nat /\ b \in Seq(Nat) /\ Len(o) > 1 /\ Len(n) = Len(o)
  BY DEF Placed, Put
<1>2. ~ (Len(o) = 1)
  <2> DEFINE k == Len(o)
  <2>1. k \in Nat /\ k > 1
    BY <1>1
  <2> HIDE DEF k
  <2>2. ~ (k = 1)
    BY <2>1
  <2> QED
    BY <2>2 DEF k
<1>3. Len(b) >= AllHeaders /\ AllHeaders \in Nat
  BY <1>1, <1>2, HeadersNat DEF Stacked
<1>4. Len(c) = Len(b) + Len(bytes) /\ Len(bytes) \in Nat
  BY <1>1 DEF Put
<1>5. Len(c) >= AllHeaders /\ ~ (Len(c) < AllHeaders)
  BY <1>1, <1>3, <1>4
<1>6. \A i \in 1 .. Len(o) : Start(n, i) = Start(o, i) /\ n[i].pos = o[i].pos /\ n[i].typ = o[i].typ
  BY DEF Start, Put
<1>7. \A i \in 2 .. Len(o) : i \in 1 .. Len(o) /\ \A j \in 1 .. i - 1 : j \in 1 .. Len(o)
  BY <1>1
<1>8. \A i \in 2 .. Len(o) - 1 : i \in 1 .. Len(o)
  BY <1>1
<1> QED
  BY <1>1, <1>5, <1>6, <1>7, <1>8 DEF Stacked

\* The value is where it has been put, the others hold what they did.
LEMMA PutHeld ==
    ASSUME NEW b, NEW o, NEW c \in Seq(Nat), NEW n, NEW bytes \in Seq(Nat), Placed(b, o), Stacked(b, o),
           Put(b, o, c, n, bytes), Held(b, o)
    PROVE  Held(c, n)
<1>1. Len(o) \in Nat /\ Len(b) \in Nat /\ b \in Seq(Nat) /\ Len(o) > 1 /\ Len(n) = Len(o)
  BY DEF Placed, Put
<1>2. ~ (Len(o) = 1) /\ Len(o) \in 1 .. Len(o)
  <2> DEFINE k == Len(o)
  <2>1. k \in Nat /\ k > 1
    BY <1>1
  <2> HIDE DEF k
  <2>2. ~ (k = 1) /\ k \in 1 .. k
    BY <2>1
  <2> QED
    BY <2>2 DEF k
<1>3. Len(b) >= AllHeaders /\ AllHeaders \in Nat
  BY <1>1, <1>2, HeadersNat DEF Stacked
<1>4. Len(c) = Len(b) + Len(bytes) /\ \A j \in 1 .. Len(b) : c[j] = b[j]
  <2>1. /\ Len(b \o bytes) = Len(b) + Len(bytes)
        /\ \A j \in 1 .. Len(b) + Len(bytes) : (b \o bytes)[j] =
              IF j <= Len(b) THEN b[j] ELSE bytes[j - Len(b)]
    BY <1>1, ConcatProperties
  <2>2. \A j \in 1 .. Len(b) : j \in 1 .. Len(b) + Len(bytes) /\ j <= Len(b)
    BY <1>1
  <2> QED
    BY <2>1, <2>2 DEF Put
<1>5. \A i \in 1 .. Len(o) : Start(n, i) = Start(o, i) /\ (Nesting(n, i) <=> Nesting(o, i))
  BY DEF Start, Put, Nesting
<1>6. ASSUME NEW i \in 1 .. Len(o), i # Len(o) PROVE Nesting(n, i) /\ HoldsOpen(c, n, i)
  <2>1. Nesting(o, i)
    <3>1. i = 1 \/ i \in 2 .. Len(o) - 1
      BY <1>1, <1>6
    <3> QED
      BY <3>1 DEF Nesting, Stacked
  <2>2. HoldsOpen(b, o, i)
    BY <2>1 DEF Held
  <2>3. /\ End(b, o, i) \in Nat /\ End(b, o, i) <= Len(b) /\ i < Len(o) /\ End(b, o, i) = o[i + 1].pos
    BY <1>1, <1>3, <1>6, StartEnd
  <2>4. i + 1 \in 1 .. Len(o)
    BY <1>1, <1>6
  <2>5. End(c, n, i) = End(b, o, i)
    BY <1>1, <1>6, <2>3, <2>4 DEF End, Put
  <2>6. End(b, o, i) <= Len(c) /\ \A j \in 1 .. End(b, o, i) : b[j] = c[j]
    <3>1. \A j \in 1 .. End(b, o, i) : j \in 1 .. Len(b)
      BY <1>1, <2>3
    <3>2. End(b, o, i) <= Len(c)
      BY <1>1, <1>4, <2>3
    <3> QED
      BY <1>4, <3>1, <3>2
  <2>7. Start(n, i) = Start(o, i) /\ n[i].content = o[i].content
    BY <1>5, <1>6 DEF Put
  <2>8. HoldsOpen(c, n, i)
    BY <1>3, <2>2, <2>5, <2>6, <2>7, HoldsStays
  <2> QED
    BY <1>5, <2>1, <2>8
<1>7. ~Nesting(n, Len(n)) /\ ValueIn(c, n, Len(n))
  <2> DEFINE k == Len(o)
             x == Start(o, k)
             m == Len(b)
             w == Len(bytes)
  <2>1. ~Nesting(o, k) /\ ~o[k].full /\ n[k].full
    BY DEF Put
  <2>2. x = m
    BY <1>2, <2>1 DEF Held, ValueIn
  <2>3. \A j \in m + 1 .. m + w : c[j] = bytes[j - m] /\ j - m \in 1 .. w
    <3>1. \A j \in 1 .. m + w : (b \o bytes)[j] = IF j <= m THEN b[j] ELSE bytes[j - m]
      BY <1>1, ConcatProperties
    <3>2. \A j \in m + 1 .. m + w : j \in 1 .. m + w /\ ~ (j <= m) /\ j - m \in 1 .. w
      BY <1>1
    <3> QED
      BY <3>1, <3>2 DEF Put
  <2> DEFINE y == SubSeq(c, m + 1, m + w)
  <2>4. m \in Nat /\ w \in Nat
    BY <1>1
  <2>5. /\ y \in Seq(Nat) /\ Len(y) = w
        /\ \A j \in 1 .. w : y[j] = bytes[j]
    <3>1. \A j \in m + 1 .. m + w : c[j] \in Nat
      BY <2>3, ElementOfSeq
    <3>2. m + 1 \in Int /\ m + w \in Int
      BY <2>4
    <3>3. /\ y \in Seq(Nat) /\ Len(y) = IF m + 1 <= m + w THEN (m + w) - (m + 1) + 1 ELSE 0
          /\ \A j \in 1 .. (m + w) - (m + 1) + 1 : y[j] = c[(m + 1) + j - 1]
      BY <3>1, <3>2, SubSeqProperties
    <3> HIDE DEF y, m, w
    <3>4. Len(y) = w
      BY <2>4, <3>3
    <3>5. \A j \in 1 .. w : y[j] = bytes[j]
      <4> SUFFICES ASSUME NEW j \in 1 .. w PROVE y[j] = bytes[j]
        OBVIOUS
      <4>1. j \in 1 .. (m + w) - (m + 1) + 1 /\ (m + 1) + j - 1 = m + j /\ m + j \in m + 1 .. m + w
            /\ (m + j) - m = j
        BY <2>4
      <4>2. y[j] = c[m + j]
        BY <3>3, <4>1
      <4>3. c[m + j] = bytes[(m + j) - m]
        BY <2>3, <4>1
      <4> QED
        BY <4>1, <4>2, <4>3
    <3> QED
      BY <3>3, <3>4, <3>5
  <2>6. y = bytes
    <3> HIDE DEF y
    <3> QED
      BY <2>5, SeqEqual
  <2>7. SubSeq(c, Start(n, k) + 1, Len(c)) = Bytes(n[k].typ, n[k].content)
    <3>1. Start(n, k) = m
      BY <1>2, <1>5, <2>2
    <3>2. bytes = Bytes(n[k].typ, n[k].content)
      BY <1>2 DEF Put
    <3> QED
      BY <1>4, <2>6, <3>1, <3>2
  <2>8. ~Nesting(n, k)
    BY <1>2, <1>5, <2>1
  <2>9. n[k].content \in Seq(Nat)
    BY <1>2 DEF Put
  <2> QED
    BY <1>1, <2>1, <2>7, <2>8, <2>9 DEF ValueIn
<1>8. \A i \in 1 .. Len(n) : (i \in 1 .. Len(o) /\ i # Len(o)) \/ i = Len(n)
  BY <1>1
<1> QED
  BY <1>6, <1>7, <1>8 DEF Held

-----------------------------------------------------------------------------
(* Closing an attribute.                                                   *)

\* A length that fits its field is what the field says.
LEMMA FitsField ==
    ASSUME NEW x \in Nat, x < LenMod
    PROVE  x % LenMod = x
<1>1. LenMod \in Nat /\ LenMod > 0
  BY Sizes
<1>2. PICK q \in Nat, r \in 0 .. LenMod - 1 : x = q * LenMod + r /\ x % LenMod = r
  BY <1>1
<1>3. CASE q = 0
  BY <1>1, <1>2, <1>3
<1>4. CASE q # 0
  <2>1. PICK j \in Nat : q = j + 1
    <3>1. q - 1 \in Nat /\ q = (q - 1) + 1
      BY <1>4
    <3> QED
      BY <3>1
  <2>2. q * LenMod = j * LenMod + LenMod /\ j * LenMod \in Nat
    BY <1>1, <2>1
  <2> QED
    BY <1>1, <1>2, <2>2
<1> QED
  BY <1>3, <1>4

\* One byte of a buffer is written.
LEMMA ByteWritten ==
    ASSUME NEW b \in Seq(Nat), NEW i \in 1 .. Len(b), NEW v \in Nat, NEW c, c = [b EXCEPT ![i] = v]
    PROVE  /\ c \in Seq(Nat) /\ Len(c) = Len(b) /\ c[i] = v
           /\ \A j \in 1 .. Len(b) : j # i => c[j] = b[j]
BY ExceptSeq

\* c is b with the header of an attribute.
Headed(c, b, a) ==
    /\ c \in Seq(Nat) /\ Len(c) = Len(b)
    /\ c[a.pos + 1] = (Len(b) - a.pos) % LenMod /\ c[a.pos + 3] = a.typ
    /\ \A j \in 1 .. Len(b) : j # a.pos + 1 /\ j # a.pos + 3 => c[j] = b[j]

\* What PutAttr writes into a buffer.
LEMMA HeaderWritten ==
    ASSUME NEW b \in Seq(Nat), NEW a, a.pos \in Nat, a.typ \in Nat, a.pos + SizeofNlAttr <= Len(b),
           NEW c, c = WithHeader(b, a)
    PROVE  Headed(c, b, a)
<1> DEFINE p == a.pos
           t == a.typ
           m == Len(b)
           x == (m - p) % LenMod
           d == [b EXCEPT ![p + 1] = x]
<1>1. SizeofNlAttr \in Nat /\ SizeofNlAttr >= 3 /\ LenMod \in Nat /\ LenMod > 0
  BY SizesAssumption
<1>2. p \in Nat /\ t \in Nat /\ m \in Nat /\ p + SizeofNlAttr <= m
  OBVIOUS
<1>3. c = [d EXCEPT ![p + 3] = t]
  BY DEF WithHeader
<1> HIDE DEF p, t, m
<1>4. p + 1 \in 1 .. m /\ p + 3 \in 1 .. m /\ p + 1 # p + 3 /\ m - p \in Nat
  BY ONLY <1>1, <1>2
<1>5. x \in Nat
  BY <1>1, <1>4
<1> HIDE DEF x
<1>6. d \in Seq(Nat) /\ Len(d) = m /\ d[p + 1] = x /\ \A j \in 1 .. m : j # p + 1 => d[j] = b[j]
  BY <1>4, <1>5, ByteWritten DEF m
<1> HIDE DEF d
<1>7. c \in Seq(Nat) /\ Len(c) = m /\ c[p + 3] = t /\ \A j \in 1 .. m : j # p + 3 => c[j] = d[j]
  <2>1. p + 3 \in 1 .. Len(d)
    BY <1>4, <1>6
  <2>2. c \in Seq(Nat) /\ Len(c) = Len(d) /\ c[p + 3] = t /\ \A j \in 1 .. Len(d) : j # p + 3 => c[j] = d[j]
    BY <1>2, <1>3, <1>6, <2>1, ByteWritten
  <2> QED
    BY <1>6, <2>2
<1>8. c[p + 1] = x
  BY <1>4, <1>6, <1>7
<1>9. \A j \in 1 .. m : j # p + 1 /\ j # p + 3 => c[j] = b[j]
  BY <1>6, <1>7
<1> QED
  BY <1>7, <1>8, <1>9 DEF Headed, p, t, m, x

\* What the end of PutAttr and PutNestedAttrs does; d is the buffer before the header is written.
Shut(b, o, d, c, n) ==
    /\ Len(o) > 1 /\ d \in Seq(Nat) /\ Begins(d, b) /\ c = WithHeader(d, o[Len(o)])
    /\ Len(n) = Len(o) - 1
    /\ \A i \in 1 .. Len(o) - 1 : n[i].pos = o[i].pos /\ n[i].typ = o[i].typ
    /\ \A i \in 1 .. Len(o) - 2 : n[i].content = o[i].content
    /\ n[Len(o) - 1].content =
          Append(o[Len(o) - 1].content, [typ |-> o[Len(o)].typ, val |-> o[Len(o)].content])

\* Its numbers: p is where the attribute begins.
LEMMA ShutSizes ==
    ASSUME NEW b, NEW o, NEW d, NEW c, NEW n, Placed(b, o), Stacked(b, o), Shut(b, o, d, c, n),
           NEW k, k = Len(o), NEW p, p = o[k].pos
    PROVE  /\ k \in Nat /\ k > 1 /\ k \in 2 .. k /\ k \in 1 .. k
           /\ k - 1 \in 1 .. k - 1 /\ k - 1 \in 1 .. k
           /\ p \in Nat /\ Aligned(p) /\ o[k].typ \in Nat /\ p + SizeofNlAttr <= Len(b)
           /\ Len(b) \in Nat /\ Len(b) >= AllHeaders /\ AllHeaders \in Nat
           /\ Len(d) \in Nat /\ Len(b) <= Len(d)
           /\ SizeofNlAttr \in Nat /\ SizeofNlAttr >= 3
           /\ End(b, o, k - 1) = p /\ Start(o, k) = p + SizeofNlAttr
           /\ Start(o, k - 1) \in Nat /\ Start(o, k - 1) <= p
<1>1. k \in Nat /\ k > 1
  BY DEF Placed, Shut
<1>2. k \in 2 .. k /\ k \in 1 .. k /\ k - 1 \in 1 .. k - 1 /\ k - 1 \in 1 .. k /\ k - 1 < k /\ (k - 1) + 1 = k
      /\ ~ (k = 1) /\ k - 1 # k
  BY <1>1
<1>3. p \in Nat /\ o[k].typ \in Nat /\ p + SizeofNlAttr <= Len(b)
  BY <1>2 DEF Placed
<1>4. Aligned(p)
  BY <1>2 DEF Stacked
<1>5. Len(b) \in Nat /\ AllHeaders \in Nat /\ Len(d) \in Nat /\ Len(b) <= Len(d)
  BY HeadersNat DEF Placed, Shut, Begins
<1>6. Len(b) >= AllHeaders
  <2>1. ~ (Len(b) < AllHeaders)
    BY <1>2 DEF Stacked
  <2> QED
    BY <1>5, <2>1
<1>7. SizeofNlAttr \in Nat /\ SizeofNlAttr >= 3
  BY SizesAssumption
<1>8. End(b, o, k - 1) = p /\ Start(o, k) = p + SizeofNlAttr
  BY <1>2 DEF End, Start
<1>9. Start(o, k - 1) \in Nat /\ Start(o, k - 1) <= End(b, o, k - 1)
  BY <1>2, <1>6, StartEnd
<1> QED
  BY <1>1, <1>2, <1>3, <1>4, <1>5, <1>6, <1>7, <1>8, <1>9

\* The attributes stay nested.
LEMMA ShutStacked ==
    ASSUME NEW b, NEW o, NEW d, NEW c, NEW n, Placed(b, o), Stacked(b, o), Shut(b, o, d, c, n)
    PROVE  Stacked(c, n) /\ Len(c) >= AllHeaders
<1> DEFINE k == Len(o)
           p == o[k].pos
<1>1. /\ k \in Nat /\ k > 1 /\ p \in Nat /\ o[k].typ \in Nat /\ p + SizeofNlAttr <= Len(b)
      /\ Len(b) \in Nat /\ Len(b) >= AllHeaders /\ AllHeaders \in Nat /\ Len(d) \in Nat /\ Len(b) <= Len(d)
      /\ SizeofNlAttr \in Nat
  BY ShutSizes
<1>2. c = WithHeader(d, o[k]) /\ d \in Seq(Nat)
  BY DEF Shut
<1>3. p + SizeofNlAttr <= Len(d)
  BY <1>1
<1>4. Len(c) = Len(d)
  BY <1>1, <1>2, <1>3, HeaderWritten DEF Headed
<1>5. Len(c) >= AllHeaders /\ ~ (Len(c) < AllHeaders)
  BY <1>1, <1>4
<1>6. \A i \in 1 .. k - 1 : n[i].pos = o[i].pos /\ n[i].typ = o[i].typ /\ Start(n, i) = Start(o, i)
  BY DEF Shut, Start
<1>7. Len(n) = k - 1
  BY DEF Shut
<1> HIDE DEF k
<1>8. \A i \in 2 .. Len(n) : i \in 1 .. k - 1 /\ i \in 2 .. k /\ \A j \in 1 .. i - 1 : j \in 1 .. k - 1
  BY <1>1, <1>7
<1>9. \A i \in 2 .. Len(n) - 1 : i \in 1 .. k - 1 /\ i \in 2 .. k - 1
  BY <1>1, <1>7
<1> QED
  BY <1>5, <1>6, <1>8, <1>9 DEF Stacked, k

\* The length of the innermost attribute fits its field, and its bytes mean what it holds.
Whence(o, d) ==
    LET a == o[Len(o)]
    IN  /\ Len(d) - a.pos < LenMod
        /\ Meant([typ |-> a.typ, val |-> SubSeq(d, a.pos + SizeofNlAttr + 1, Len(d))], Taken) = a.content

\* The attribute is whole, and part of the one around it; the others hold what they did.
LEMMA ShutHeld ==
    ASSUME ErrorApart, NEW b, NEW o, NEW d, NEW c, NEW n, Placed(b, o), Stacked(b, o), Shut(b, o, d, c, n),
           Held(b, o), Whence(o, d)
    PROVE  Held(c, n)
<1> DEFINE k == Len(o)
           p == o[k].pos
           q == k - 1
           m == Len(d)
           r == p + SizeofNlAttr + 1
<1>1. /\ k \in Nat /\ k > 1 /\ k \in 2 .. k /\ k \in 1 .. k
      /\ k - 1 \in 1 .. k - 1 /\ k - 1 \in 1 .. k
      /\ p \in Nat /\ Aligned(p) /\ o[k].typ \in Nat /\ p + SizeofNlAttr <= Len(b)
      /\ Len(b) \in Nat /\ Len(b) >= AllHeaders /\ AllHeaders \in Nat
      /\ Len(d) \in Nat /\ Len(b) <= Len(d)
      /\ SizeofNlAttr \in Nat /\ SizeofNlAttr >= 3
      /\ End(b, o, k - 1) = p /\ Start(o, k) = p + SizeofNlAttr
      /\ Start(o, k - 1) \in Nat /\ Start(o, k - 1) <= p
  BY ShutSizes
<1>2. q = k - 1 /\ m = Len(d) /\ r = p + SizeofNlAttr + 1 /\ k = Len(o) /\ p = o[k].pos
  OBVIOUS
<1>3. q = k - 1
  OBVIOUS
<1>4. r = p + SizeofNlAttr + 1
  OBVIOUS
<1>5. m = Len(d) /\ p = o[k].pos
  OBVIOUS
<1>6. /\ m - p < LenMod
      /\ Meant([typ |-> o[k].typ, val |-> SubSeq(d, p + SizeofNlAttr + 1, Len(d))], Taken) = o[k].content
  BY DEF Whence
<1> HIDE DEF q, m, r, k, p
<1>7. /\ k \in Nat /\ k > 1 /\ q \in 1 .. q /\ q \in 1 .. k
      /\ p \in Nat /\ Aligned(p) /\ o[k].typ \in Nat /\ p + SizeofNlAttr <= Len(b)
      /\ Len(b) \in Nat /\ Len(b) >= AllHeaders /\ AllHeaders \in Nat /\ m \in Nat /\ Len(b) <= m
      /\ SizeofNlAttr \in Nat /\ SizeofNlAttr >= 3 /\ End(b, o, q) = p
      /\ Start(o, q) \in Nat /\ Start(o, q) <= p
  BY <1>1 DEF q, m
<1>8. b \in Seq(Nat) /\ d \in Seq(Nat) /\ c = WithHeader(d, o[k]) /\ (\A j \in 1 .. Len(b) : d[j] = b[j])
  BY <1>2 DEF Shut, Begins, Placed
<1>9. p + SizeofNlAttr <= m
  BY <1>7
<1>10. /\ c \in Seq(Nat) /\ Len(c) = m /\ c[p + 1] = (m - p) % LenMod /\ c[p + 3] = o[k].typ
      /\ \A j \in 1 .. m : j # p + 1 /\ j # p + 3 => c[j] = d[j]
  <2> DEFINE e == o[k]
  <2>1. /\ d \in Seq(Nat) /\ e.pos \in Nat /\ e.typ \in Nat /\ e.pos + SizeofNlAttr <= Len(d)
        /\ c = WithHeader(d, e)
    <3>1. e.pos = p /\ Len(d) = m
      BY <1>5
    <3>2. d \in Seq(Nat) /\ c = WithHeader(d, e)
      BY <1>8
    <3>3. e.typ \in Nat /\ p \in Nat
      BY <1>7
    <3> HIDE DEF e
    <3> QED
      BY <1>9, <3>1, <3>2, <3>3
  <2> HIDE DEF e
  <2>2. /\ c \in Seq(Nat) /\ Len(c) = Len(d)
        /\ c[e.pos + 1] = (Len(d) - e.pos) % LenMod /\ c[e.pos + 3] = e.typ
        /\ \A j \in 1 .. Len(d) : j # e.pos + 1 /\ j # e.pos + 3 => c[j] = d[j]
    <3>1. Headed(c, d, e)
      BY ONLY <2>1, HeaderWritten
    <3> QED
      BY <3>1 DEF Headed
  <2>3. e.pos = p
    BY <1>2 DEF e
  <2> QED
    BY <1>5, <2>2, <2>3 DEF e
<1>11. Len(c) = m /\ p <= m /\ p <= Len(b)
  <2>1. Len(c) = m
    BY <1>10
  <2>2. p <= m
    BY <1>7, <1>9
  <2>3. p <= Len(b)
    BY <1>7, <1>8
  <2> QED
    BY <2>1, <2>2, <2>3
<1>12. \A j \in 1 .. p : c[j] = b[j]
  <2>1. \A j \in 1 .. p : j \in 1 .. m /\ j \in 1 .. Len(b) /\ j # p + 1 /\ j # p + 3
    BY <1>7, <1>9
  <2> QED
    BY <1>8, <1>10, <2>1
<1>13. \A i \in 1 .. q : /\ n[i].pos = o[i].pos /\ n[i].typ = o[i].typ /\ Start(n, i) = Start(o, i)
                        /\ i \in 1 .. k /\ Nesting(o, i) /\ Nesting(n, i)
  <2> SUFFICES ASSUME NEW i \in 1 .. q
               PROVE  /\ n[i].pos = o[i].pos /\ n[i].typ = o[i].typ /\ Start(n, i) = Start(o, i)
                      /\ i \in 1 .. k /\ Nesting(o, i) /\ Nesting(n, i)
    OBVIOUS
  <2>1. n[i].pos = o[i].pos /\ n[i].typ = o[i].typ /\ Start(n, i) = Start(o, i)
    BY <1>2 DEF Shut, Start
  <2>2. i \in 1 .. k /\ (i = 1 \/ i \in 2 .. k - 1)
    BY <1>3, <1>7
  <2>3. Nesting(o, i)
    BY <1>2, <2>2 DEF Nesting, Stacked
  <2> QED
    BY <2>1, <2>2, <2>3 DEF Nesting
<1>14. ASSUME NEW i \in 1 .. q, i # q PROVE HoldsOpen(c, n, i)
  <2>1. HoldsOpen(b, o, i)
    BY <1>2, <1>7, <1>13 DEF Held
  <2>2. i \in 1 .. k - 2 /\ i + 1 \in 1 .. q /\ i < k /\ i # k /\ i + 1 \in 2 .. k /\ i \in 1 .. (i + 1) - 1
        /\ i + 1 \in 1 .. k /\ i + 1 # 1
    BY <1>3, <1>7, <1>14
  <2>3. End(b, o, i) = o[i + 1].pos
    BY <1>2, <2>2 DEF End
  <2>4. End(c, n, i) = End(b, o, i)
    BY <1>2, <1>13, <1>14, <2>2, <2>3 DEF End, Shut
  <2> DEFINE x == o[i + 1].pos
  <2>5. x \in Nat /\ x <= p
    <3>1. x \in Nat
      BY <1>2, <2>2 DEF Placed
    <3>2. Start(o, i + 1) = x + SizeofNlAttr
      BY <2>2 DEF Start
    <3>3. Start(o, i + 1) <= p
      <4>1. CASE i + 1 = q
        BY <1>7, <4>1
      <4>2. CASE i + 1 # q
        <5>1. k \in 2 .. k /\ i + 1 \in 1 .. k - 1
          BY <1>2, <1>7, <2>2
        <5> QED
          BY <1>2, <5>1 DEF Stacked
      <4> QED
        BY <4>1, <4>2
    <3> HIDE DEF x
    <3> QED
      BY <1>7, <3>1, <3>2, <3>3
  <2>6. x <= Len(c) /\ \A j \in 1 .. x : b[j] = c[j]
    <3> HIDE DEF x
    <3>1. \A j \in 1 .. x : j \in 1 .. p
      BY <1>7, <2>5
    <3>2. x <= Len(c)
      BY <1>7, <1>11, <2>5
    <3> QED
      BY <1>12, <3>1, <3>2
  <2>7. n[i].content = o[i].content /\ Start(n, i) = Start(o, i) /\ i \in 1 .. Len(o)
    BY <1>2, <1>13, <2>2 DEF Shut
  <2>8. End(b, o, i) <= Len(c) /\ \A j \in 1 .. End(b, o, i) : b[j] = c[j]
    BY <2>3, <2>6
  <2> QED
    BY <1>7, <1>10, <2>1, <2>4, <2>7, <2>8, HoldsStays
<1>15. HoldsOpen(c, n, q)
  <2> DEFINE s == SubSeq(c, 1, p)
             v == o[q].content
             a == [typ |-> c[p + 3], val |-> SubSeq(c, r, Len(c))]
             a2 == [typ |-> c[Len(s) + 3], val |-> SubSeq(c, Len(s) + SizeofNlAttr + 1, Len(c))]
  <2>1. s = SubSeq(b, 1, p) /\ s \in Seq(Nat) /\ Len(s) = p /\ \A i \in 1 .. p : s[i] = c[i]
    <3>1. p <= Len(c) /\ p <= Len(b) /\ p \in Nat
      BY <1>7, <1>11
    <3>2. s \in Seq(Nat) /\ Len(s) = p /\ \A i \in 1 .. p : s[i] = c[i]
      BY <1>10, <3>1, FirstPart
    <3>3. SubSeq(b, 1, p) = SubSeq(c, 1, p)
      BY <1>8, <1>10, <1>12, <3>1, SameFirst
    <3> HIDE DEF s
    <3> QED
      BY <3>2, <3>3 DEF s
  <2>2. Holds(s, Start(o, q), v)
    <3>1. HoldsOpen(b, o, q)
      BY <1>2, <1>7, <1>13 DEF Held
    <3> QED
      BY <1>7, <2>1, <3>1 DEF HoldsOpen
  <2>3. SubSeq(c, r, m) = SubSeq(d, r, m)
    <3> DEFINE z == 0
    <3>1. \A i \in r .. m : c[z + i] = d[i]
      <4> SUFFICES ASSUME NEW i \in r .. m PROVE c[i] = d[i]
        BY <1>7
      <4>1. i \in 1 .. m /\ i # p + 1 /\ i # p + 3
        <5>1. i \in r .. m /\ r = p + SizeofNlAttr + 1
          BY <1>4
        <5>2. p \in Nat /\ m \in Nat /\ SizeofNlAttr \in Nat /\ SizeofNlAttr >= 3
          BY <1>7
        <5> QED
          BY ONLY <5>1, <5>2
      <4> QED
        BY <1>10, <4>1
    <3>2. z \in Nat /\ r \in Nat /\ r >= 1 /\ z + r = r /\ z + m = m
      <4>1. r = p + SizeofNlAttr + 1 /\ p \in Nat /\ SizeofNlAttr \in Nat /\ m \in Nat
        BY <1>4, <1>7
      <4> QED
        BY ONLY <4>1
    <3> HIDE DEF z
    <3>3. r \in Nat /\ m \in Nat /\ m <= Len(d)
      BY <1>2, <1>7, <3>2
    <3>4. SubSeq(c, z + r, z + m) = SubSeq(d, r, m)
      <4>1. c \in Seq(Nat) /\ d \in Seq(Nat)
        BY <1>8, <1>10
      <4> QED
        BY ONLY <3>1, <3>2, <3>3, <4>1, SamePart
    <3> QED
      BY <3>2, <3>4
  <2>4. a = a2
    BY <1>2, <2>1
  <2>5. c[p + 1] = m - p /\ p + SizeofNlAttr <= Len(c)
    <3>1. m - p \in Nat
      BY <1>7, <1>9
    <3>2. m - p < LenMod
      BY <1>6
    <3>3. (m - p) % LenMod = m - p
      BY <3>1, <3>2, FitsField
    <3>4. c[p + 1] = (m - p) % LenMod /\ Len(c) = m
      BY <1>10
    <3> QED
      BY <1>9, <3>3, <3>4
  <2>6. Begins(c, s)
    <3> HIDE DEF s
    <3>1. Len(s) <= Len(c)
      BY <1>7, <1>9, <1>10, <2>1
    <3>2. \A i \in 1 .. Len(s) : c[i] = s[i]
      BY <2>1
    <3> QED
      BY <3>1, <3>2 DEF Begins
  <2>7. Aligned(Len(s)) /\ Len(s) + SizeofNlAttr <= Len(c) /\ c[Len(s) + 1] = Len(c) - Len(s)
        /\ Start(o, q) <= Len(s)
    <3> HIDE DEF s
    <3>1. Len(s) = p /\ Len(c) = m
      BY <1>10, <2>1
    <3>2. Aligned(p) /\ Start(o, q) <= p
      BY <1>7
    <3> QED
      BY ONLY <2>5, <3>1, <3>2
  <2>8. Holds(c, Start(o, q), Append(v, [typ |-> a2.typ, val |-> Meant(a2, Taken)]))
    <3> HIDE DEF s
    <3> QED
      BY <1>7, <1>10, <2>1, <2>2, <2>6, <2>7, HoldsAppended
  <2>9. a2.typ = o[k].typ /\ Meant(a2, Taken) = o[k].content
    <3>1. a = [typ |-> o[k].typ, val |-> SubSeq(d, p + SizeofNlAttr + 1, Len(d))]
      BY <1>2, <1>10, <2>3
    <3> QED
      BY <1>6, <1>10, <2>4, <3>1
  <2>10. n[q].content = Append(v, [typ |-> a2.typ, val |-> Meant(a2, Taken)])
    BY <1>2, <2>9 DEF Shut
  <2>11. End(c, n, q) = Len(c) /\ Start(n, q) = Start(o, q) /\ SubSeq(c, 1, Len(c)) = c
    BY <1>2, <1>7, <1>10, <1>13, SubSeqFull DEF End, Shut
  <2> QED
    BY <2>8, <2>10, <2>11 DEF HoldsOpen
<1>16. Len(n) = q
  BY <1>2 DEF Shut
<1> QED
  BY <1>13, <1>14, <1>15, <1>16 DEF Held

\* GetString takes off the nul byte that putStringZ has added.
LEMMA StringBack ==
    ASSUME NEW val \in Seq(Nat)
    PROVE  GetString(Append(val, 0)) = val
<1> DEFINE w == Append(val, 0)
           n == Len(val)
           f == SubSeq(w, 1, n)
<1>1. n \in Nat /\ w \in Seq(Nat) /\ Len(w) = n + 1 /\ (\A i \in 1 .. n : w[i] = val[i]) /\ w[n + 1] = 0
  BY AppendProperties
<1> HIDE DEF w, n
<1>2. w # <<>> /\ Last(w) = 0
  <2>1. Len(w) # 0
    BY <1>1
  <2> QED
    BY <1>1, <2>1, EmptySeq DEF Last
<1>3. Front(w) = f
  <2>1. Len(w) - 1 = n
    BY <1>1
  <2> QED
    BY <2>1 DEF Front
<1>4. n <= Len(w)
  BY <1>1
<1>5. f \in Seq(Nat) /\ Len(f) = n /\ \A i \in 1 .. n : f[i] = w[i]
  BY <1>1, <1>4, FirstPart
<1> HIDE DEF f
<1>6. f = val
  <2>1. Len(f) = Len(val) /\ \A i \in 1 .. Len(f) : f[i] = val[i]
    BY <1>1, <1>5 DEF n
  <2> QED
    BY <1>5, <2>1, SeqEqual
<1> QED
  BY <1>2, <1>3, <1>6 DEF GetString, w

\* A value that has been put means what was put.
LEMMA ValueMeant ==
    ASSUME NEW typ, typ \notin NestedTypes, NEW val \in Seq(Nat),
           NEW a, a = [typ |-> typ, val |-> Bytes(typ, val)]
    PROVE  Meant(a, Taken) = val
BY StringBack DEF Meant, Bytes

\* The bytes of nested attributes mean these.
LEMMA NestedMeant ==
    ASSUME ErrorApart, NEW d \in Seq(Nat), NEW k, Aligned(k), k <= Len(d), NEW c, Holds(d, k, c),
           NEW typ \in NestedTypes, NEW a, a = [typ |-> typ, val |-> SubSeq(d, k + 1, Len(d))]
    PROVE  Meant(a, Taken) = c
<1> DEFINE v == SubSeq(d, k + 1, Len(d))
           m == Len(d)
<1>1. k \in Nat /\ m \in Nat /\ k <= m
  BY DEF Aligned
<1>2. v \in Seq(Nat) /\ Len(v) = m - k /\ \A i \in 1 .. m - k : v[i] = d[k + i]
  <2> HIDE DEF m
  <2>1. \A i \in k + 1 .. m : i \in 1 .. m
    BY <1>1
  <2>2. \A i \in k + 1 .. m : d[i] \in Nat
    BY <2>1, ElementOfSeq DEF m
  <2>3. k + 1 \in Int /\ m \in Int
    BY <1>1
  <2>4. /\ v \in Seq(Nat) /\ Len(v) = IF k + 1 <= m THEN m - (k + 1) + 1 ELSE 0
        /\ \A i \in 1 .. m - (k + 1) + 1 : v[i] = d[(k + 1) + i - 1]
    BY <2>2, <2>3, SubSeqProperties DEF m
  <2> HIDE DEF v
  <2>5. Len(v) = m - k
    BY <1>1, <2>4
  <2>6. ASSUME NEW i \in 1 .. m - k PROVE v[i] = d[k + i]
    <3>1. i \in 1 .. m - (k + 1) + 1 /\ (k + 1) + i - 1 = k + i
      BY <1>1
    <3> QED
      BY <2>4, <3>1
  <2> QED
    BY <2>4, <2>5, <2>6
<1> DEFINE z == 0
<1>3. EndOf(d, k, v, z)
  <2> HIDE DEF v, m
  <2>1. m = k + (m - k) /\ z + 1 = 1
    BY <1>1
  <2> QED
    BY <1>2, <2>1 DEF EndOf, m
<1>4. z \in Nat /\ k + z = k
  BY <1>1
<1> HIDE DEF z, v
<1>5. Holds(v, z, c)
  BY <1>2, <1>3, <1>4, HoldsMoved
<1>6. ParseAttrs(v, 0) # Error /\ Taken[ParseAttrs(v, 0)] = c
  BY <1>5 DEF Holds, z
<1>7. a.val = v /\ a.typ = typ /\ typ \notin StringTypes
  <2>1. StringTypes \cap NestedTypes = {}
    BY SizesAssumption
  <2> QED
    BY <2>1 DEF v
<1> QED
  BY <1>6, <1>7 DEF Meant

\* The innermost attribute, with what it holds or is, and padded if it is nested.
LEMMA Meaning ==
    ASSUME ErrorApart, NEW b, NEW o, NEW d \in Seq(Nat), Placed(b, o), Stacked(b, o), Held(b, o),
           Len(o) > 1, Len(d) - o[Len(o)].pos < LenMod,
           \/ ~Nesting(o, Len(o)) /\ o[Len(o)].full /\ d = b
           \/ Nesting(o, Len(o)) /\ Begins(d, b) /\ Len(d) <= Align(Len(b))
    PROVE  Whence(o, d)
<1> DEFINE k == Len(o)
           p == o[k].pos
           x == p + SizeofNlAttr
<1>1. k \in Nat /\ k > 1 /\ b \in Seq(Nat) /\ Len(b) \in Nat
  BY DEF Placed
<1>2. k \in 2 .. k /\ k \in 1 .. k /\ ~ (k = 1)
  <2> HIDE DEF k
  <2> QED
    BY <1>1
<1>3. p \in Nat /\ x <= Len(b) /\ Aligned(p)
  BY <1>2 DEF Placed, Stacked
<1>4. Start(o, k) = x
  BY <1>2 DEF Start
<1>5. x \in Nat /\ Aligned(x)
  <2> HIDE DEF p
  <2>1. x \in Nat
    BY <1>3, Sizes
  <2> QED
    BY <1>3, <2>1, AlignedHeader
<1> DEFINE a == [typ |-> o[k].typ, val |-> SubSeq(d, x + 1, Len(d))]
<1>6. CASE ~Nesting(o, k) /\ o[k].full /\ d = b
  <2>1. ValueIn(b, o, k)
    BY <1>2, <1>6 DEF Held
  <2>2. o[k].content \in Seq(Nat) /\ SubSeq(d, x + 1, Len(d)) = Bytes(o[k].typ, o[k].content)
    BY <1>4, <1>6, <2>1 DEF ValueIn
  <2>3. o[k].typ \notin NestedTypes
    BY <1>6 DEF Nesting
  <2>4. a = [typ |-> o[k].typ, val |-> Bytes(o[k].typ, o[k].content)]
    BY <2>2
  <2> HIDE DEF a
  <2>5. Meant(a, Taken) = o[k].content
    BY <2>2, <2>3, <2>4, ValueMeant
  <2> QED
    BY <2>5 DEF Whence, a
<1>7. CASE Nesting(o, k) /\ Begins(d, b) /\ Len(d) <= Align(Len(b))
  <2>1. HoldsOpen(b, o, k)
    BY <1>2, <1>7 DEF Held
  <2>2. Holds(SubSeq(b, 1, Len(b)), x, o[k].content)
    BY <1>4, <2>1 DEF HoldsOpen, End
  <2>3. Holds(b, x, o[k].content)
    BY <1>1, <2>2, SubSeqFull
  <2>4. o[k].typ \in NestedTypes
    BY <1>2, <1>7 DEF Nesting
  <2> HIDE DEF x, p, k
  <2>5. Holds(d, x, o[k].content)
    BY <1>1, <1>3, <1>5, <1>7, <2>3, HoldsPadded
  <2>6. x <= Len(d)
    <3>1. Len(b) <= Len(d) /\ Len(d) \in Nat
      BY <1>7 DEF Begins
    <3>2. x <= Len(b) /\ x \in Nat /\ Len(b) \in Nat
      BY <1>1, <1>3, <1>5
    <3> QED
      BY ONLY <3>1, <3>2
  <2> DEFINE t == o[k].typ
             v == o[k].content
  <2>7. t \in NestedTypes /\ Holds(d, x, v) /\ a = [typ |-> t, val |-> SubSeq(d, x + 1, Len(d))]
    BY <2>4, <2>5
  <2> HIDE DEF a, t, v
  <2>8. Meant(a, Taken) = v
    <3>1. d \in Seq(Nat) /\ Aligned(x) /\ x <= Len(d) /\ ErrorApart
      BY <1>5, <2>6
    <3> QED
      BY ONLY <2>7, <3>1, NestedMeant
  <2> QED
    BY <2>8 DEF Whence, a, v, x, p, k
<1> QED
  BY <1>6, <1>7

-----------------------------------------------------------------------------
(* Every step of the builder keeps what is said of its buffer.             *)

\* A message of which only headers are there holds nothing.
LEMMA HeadersHeld ==
    ASSUME ErrorApart, NEW b \in Seq(Nat), Len(b) <= AllHeaders, NEW o, Len(o) = 1, o[1].content = <<>>
    PROVE  Held(b, o)
<1> DEFINE l == Len(b)
           s == SubSeq(b, 1, l)
<1>1. l \in Nat /\ AllHeaders \in Nat /\ AllHeaders <= Align(AllHeaders) /\ Align(AllHeaders) \in Nat
  BY HeadersNat, AlignBound
<1>2. s = b
  BY SubSeqFull
<1>3. l <= Align(AllHeaders)
  <2>1. l <= AllHeaders
    OBVIOUS
  <2> HIDE DEF l
  <2> QED
    BY <1>1, <2>1
<1>4. Holds(b, AllHeaders, <<>>)
  BY <1>1, <1>3, HoldsNone
<1>5. End(b, o, 1) = l /\ Start(o, 1) = AllHeaders
  BY DEF End, Start
<1>6. HoldsOpen(b, o, 1)
  BY <1>2, <1>4, <1>5 DEF HoldsOpen
<1>7. \A i \in 1 .. Len(o) : i = 1
  OBVIOUS
<1> QED
  BY <1>6, <1>7 DEF Held, Nesting

\* The new message.
LEMMA NewNlMsgBuilderKeeps ==
    ASSUME ErrorApart, IndInv, NewNlMsgBuilder
    PROVE  StackInv' /\ ContentInv'
<1> DEFINE e == [pos |-> 0, typ |-> 0, content |-> <<>>, full |-> FALSE]
           b == buf'
           o == open'
<1>1. SizeofNlMsghdr \in Nat /\ SizeofNlMsghdr <= AllHeaders /\ AllHeaders \in Nat
  BY Sizes, HeadersNat
<1>2. b \in Seq(Nat) /\ Len(b) = SizeofNlMsghdr
  BY <1>1 DEF NewNlMsgBuilder, Zeros
<1>3. o = <<e>> /\ phase' = "build"
  BY DEF NewNlMsgBuilder
<1>4. Len(o) = 1 /\ o[1].content = <<>>
  BY <1>3
<1> HIDE DEF b, o, e
<1>5. Len(b) <= AllHeaders
  BY <1>1, <1>2
<1>6. Held(b, o)
  BY <1>2, <1>4, <1>5, HeadersHeld
<1>7. Stacked(b, o)
  <2>1. 2 .. Len(o) = {} /\ 2 .. Len(o) - 1 = {}
    BY <1>4
  <2> QED
    BY <1>2, <1>4, <2>1 DEF Stacked
<1> QED
  BY <1>3, <1>6, <1>7 DEF b, o, StackInv, ContentInv

\* Its further headers.
LEMMA PutHeaderKeeps ==
    ASSUME ErrorApart, IndInv, StackInv, PutHeader
    PROVE  StackInv' /\ ContentInv'
<1> DEFINE l == Align(Len(buf)) + SizeofHeader
           b == buf'
<1>1. /\ b = PaddedTo(buf, l) /\ open' = open /\ phase' = phase /\ open # <<>> /\ Len(buf) < AllHeaders
  BY DEF PutHeader
<1>2. SizeofHeader \in Nat /\ buf \in Seq(Nat)
  BY Sizes DEF IndInv, TypeOK
<1>3. b \in Seq(Nat) /\ Len(b) = l /\ l \in Nat
  BY <1>1, <1>2, AlignedBytes
<1>4. /\ phase = "build" /\ Len(open) = 1 /\ open[1].content = <<>>
      /\ Len(buf) \in {SizeofNlMsghdr, Align(SizeofNlMsghdr) + SizeofHeader}
  BY <1>1 DEF StackInv, Stacked
<1>5. l = Align(SizeofNlMsghdr) + SizeofHeader \/ l = AllHeaders
  BY <1>4, HeadersNat
<1> HIDE DEF l, b
<1>6. l <= AllHeaders
  BY <1>5, HeadersNat
<1>7. Held(b, open)
  BY <1>3, <1>4, <1>6, HeadersHeld
<1>8. Stacked(b, open)
  <2>1. 2 .. Len(open) = {} /\ 2 .. Len(open) - 1 = {}
    BY <1>4
  <2>2. Len(b) < AllHeaders => Len(b) \in {SizeofNlMsghdr, Align(SizeofNlMsghdr) + SizeofHeader}
    BY <1>3, <1>5, HeadersNat
  <2> QED
    BY <1>4, <2>1, <2>2 DEF Stacked
<1> QED
  BY <1>1, <1>4, <1>7, <1>8 DEF b, StackInv, ContentInv

\* PutAttr opens an attribute.
LEMMA PutAttrKeeps ==
    ASSUME ErrorApart, IndInv, StackInv, ContentInv, NEW typ \in Types, PutAttr(typ)
    PROVE  StackInv' /\ ContentInv'
<1> DEFINE p == Align(Len(buf))
           l == p + SizeofNlAttr
           S == {open[i].content : i \in DOMAIN open}
           T == S \cup {<<>>}
           e == [pos |-> p, typ |-> typ, content |-> <<>>, full |-> FALSE]
           b == buf'
           o == open'
<1>1. /\ b = PaddedTo(buf, l) /\ o = Append(open, e) /\ fits' = fits /\ phase' = phase
      /\ open # <<>> /\ Len(buf) >= AllHeaders
      /\ Len(open) = 1 \/ (Len(open) > 1 /\ Last(open).typ \in NestedTypes)
  BY DEF PutAttr, InMessage, InAttr
<1>2. SizeofNlAttr \in Nat /\ buf \in Seq(Nat) /\ typ \in Nat
  BY Sizes DEF IndInv, TypeOK
<1>3. b \in Seq(Nat) /\ Len(b) = l /\ l >= Len(buf) /\ l \in Nat
  BY <1>1, <1>2, AlignedBytes
<1>4. p \in Nat /\ l = p + SizeofNlAttr
  BY <1>2, AlignBound
<1>5. Begins(b, buf)
  BY <1>1, <1>2, <1>3, PaddedBegins
<1>6. open \in Seq(Attrs(S)) /\ Len(open) \in Nat /\ Len(open) > 0
  BY <1>1, EmptySeq DEF IndInv, OpenOK
<1>7. e \in Attrs(T) /\ S \subseteq T /\ e.pos = p /\ e.content = <<>> /\ e.full = FALSE
  BY <1>2, <1>4 DEF Attrs
<1>8. p = Align(Len(buf))
  OBVIOUS
<1> HIDE DEF p, l, b, o, e, S, T
<1>9. OneMore(o, open, e)
  BY <1>1, <1>6, <1>7, Opened
<1>10. Len(open) = 1 \/ open[Len(open)].typ \in NestedTypes
  BY <1>1, Innermost
<1>11. Pushed(buf, open, b, o, e)
  BY <1>1, <1>3, <1>4, <1>5, <1>7, <1>8, <1>9, <1>10 DEF Pushed
<1>12. Placed(buf, open) /\ phase = "build" /\ Stacked(buf, open)
  BY <1>1, OpenTypes DEF StackInv
<1>13. Stacked(b, o)
  BY <1>6, <1>11, <1>12, PushedStacked
<1>14. Held(buf, open) => Held(b, o)
  BY <1>3, <1>6, <1>11, <1>12, PushedHeld
<1> QED
  BY <1>1, <1>12, <1>13, <1>14 DEF b, o, StackInv, ContentInv

\* The put functions of values.
LEMMA PutValueKeeps ==
    ASSUME IndInv, StackInv, ContentInv, NEW val \in Values, PutValue(val)
    PROVE  StackInv' /\ ContentInv'
<1> DEFINE k == Len(open)
           f == Front(open)
           e == Last(open)
           bytes == Bytes(e.typ, val)
           S == {open[i].content : i \in DOMAIN open}
           T == S \cup {val}
           w == [e EXCEPT !.content = val, !.full = TRUE]
           b == buf'
           o == open'
<1>1. /\ k > 1 /\ e.typ \notin NestedTypes /\ ~e.full /\ b = buf \o bytes
      /\ o = Append(f, w) /\ fits' = fits /\ phase' = phase
  BY DEF PutValue, InAttr, Bytes
<1>2. val \in Seq(Nat) /\ buf \in Seq(Nat)
  BY Sizes DEF IndInv, TypeOK
<1>3. bytes \in Seq(Nat)
  BY <1>2, AppendProperties DEF Bytes
<1>4. open \in Seq(Attrs(S)) /\ k \in Nat /\ open # <<>> /\ open[k] \in Attrs(S) /\ k \in 1 .. k
  <2>1. open \in Seq(Attrs(S)) /\ k \in Nat /\ open # <<>>
    BY <1>1, EmptySeq DEF IndInv, OpenOK
  <2> HIDE DEF S
  <2>2. k \in 1 .. k
    <3> HIDE DEF k
    <3> QED
      BY <1>1, <2>1
  <2> QED
    BY <2>1, <2>2, ElementOfSeq
<1>5. /\ f \in Seq(Attrs(S)) /\ Len(f) = k - 1
      /\ \A i \in 1 .. k - 1 : f[i] = open[i]
      /\ e = open[k]
  <2> HIDE DEF S
  <2> QED
    BY <1>4, OuterAttrs
<1>6. w \in Attrs(T) /\ w.pos = e.pos /\ w.typ = e.typ /\ w.content = val /\ w.full = TRUE /\ S \subseteq T
  <2> HIDE DEF e, S
  <2>1. e \in Attrs(S)
    BY <1>4, <1>5
  <2> QED
    BY <2>1 DEF Attrs
<1>7. bytes = Bytes(e.typ, val)
  OBVIOUS
<1>8. k = Len(open)
  OBVIOUS
<1> HIDE DEF k, f, e, bytes, S, T, w, b, o
<1>9. OneMore(o, f, w)
  BY <1>1, <1>5, <1>6, Opened
<1>10. Len(o) = k /\ o[k] = w /\ \A i \in 1 .. k - 1 : o[i] = open[i]
  <2>1. Len(o) = Len(f) + 1
    BY <1>9 DEF OneMore
  <2>2. Len(o) = k
    BY <1>4, <1>5, <2>1
  <2> QED
    BY <1>5, <1>9, <2>2 DEF OneMore
<1>11. \A i \in 1 .. k : i = k \/ i \in 1 .. k - 1
  BY <1>4
<1>12. Placed(buf, open) /\ phase = "build" /\ Stacked(buf, open)
  BY <1>4, OpenTypes DEF StackInv
<1>13. b \in Seq(Nat)
  BY <1>1, <1>2, <1>3
<1>14. Put(buf, open, b, o, bytes)
  <2>1. ~Nesting(open, k)
    BY <1>1, <1>4, <1>5 DEF Nesting
  <2>2. \A i \in 1 .. k : o[i].pos = open[i].pos /\ o[i].typ = open[i].typ
    BY <1>5, <1>6, <1>10, <1>11
  <2>3. \A i \in 1 .. k : i # k => o[i] = open[i]
    BY <1>10, <1>11
  <2>4. bytes = Bytes(open[k].typ, o[k].content) /\ o[k].content \in Seq(Nat) /\ o[k].full
    BY <1>2, <1>5, <1>6, <1>7, <1>10
  <2>5. ~open[k].full
    BY <1>1, <1>5
  <2> QED
    BY <1>1, <1>8, <1>10, <2>1, <2>2, <2>3, <2>4, <2>5 DEF Put
<1>15. Stacked(b, o)
  BY <1>3, <1>12, <1>13, <1>14, PutStacked
<1>16. Held(buf, open) => Held(b, o)
  BY <1>3, <1>12, <1>13, <1>14, PutHeld
<1> QED
  BY <1>1, <1>12, <1>15, <1>16 DEF b, o, StackInv, ContentInv

\* The content that PutAttr adds to the attribute around the one it closes.
LEMMA ClosesContent ==
    ASSUME IndInv, NEW c, Len(open) > 1, Closed(c)
    PROVE  /\ Len(open') = Len(open) - 1
           /\ \A i \in 1 .. Len(open) - 1 : open'[i].pos = open[i].pos /\ open'[i].typ = open[i].typ
           /\ \A i \in 1 .. Len(open) - 2 : open'[i].content = open[i].content
           /\ open'[Len(open) - 1].content =
                 Append(open[Len(open) - 1].content,
                        [typ |-> open[Len(open)].typ, val |-> open[Len(open)].content])
<1> DEFINE k == Len(open)
           q == k - 1
           S == {open[i].content : i \in DOMAIN open}
           outer == Front(open)
           last == Last(open)
           n == Len(outer)
           v == Append(outer[n].content, [typ |-> last.typ, val |-> last.content])
           e == [outer[n] EXCEPT !.content = v]
           o == open'
<1>1. k \in Nat /\ k > 1 /\ open \in Seq(Attrs(S)) /\ open # <<>>
  BY EmptySeq DEF IndInv, OpenOK
<1>2. /\ Len(o) = k - 1 /\ \A i \in 1 .. Len(o) : o[i].typ = open[i].typ /\ o[i].pos = open[i].pos
  BY Closes DEF IndInv
<1>3. o = [outer EXCEPT ![n] = e]
  BY DEF Closed
<1>4. /\ outer \in Seq(Attrs(S)) /\ Len(outer) = k - 1
      /\ \A i \in 1 .. k - 1 : outer[i] = open[i]
      /\ last = open[k]
  <2> HIDE DEF S
  <2> QED
    BY <1>1, OuterAttrs
<1>5. q = k - 1 /\ n = Len(outer) /\ k = Len(open)
      /\ v = Append(outer[n].content, [typ |-> last.typ, val |-> last.content])
  OBVIOUS
<1>6. e.content = v
  <2>1. outer[n] \in Attrs(S)
    <3> HIDE DEF S, outer, k
    <3>1. n \in 1 .. Len(outer)
      BY <1>1, <1>4
    <3> QED
      BY <1>4, <3>1, ElementOfSeq
  <2> DEFINE x == outer[n]
  <2> HIDE DEF x, v, S
  <2>2. x \in Attrs(S)
    BY <2>1 DEF x
  <2>3. [x EXCEPT !.content = v].content = v
    BY <2>2 DEF Attrs
  <2> QED
    BY <2>3 DEF x
<1> HIDE DEF e, v, n, outer, last, S, q, k, o
<1>7. n = q /\ q \in 1 .. q /\ q = k - 1 /\ 1 .. Len(o) = 1 .. k - 1 /\ q \in Nat
  BY <1>1, <1>2, <1>4, <1>5
<1>8. o[n] = e /\ \A i \in 1 .. k - 2 : o[i] = outer[i]
  <2>1. DOMAIN outer = 1 .. k - 1
    BY <1>4
  <2>2. n \in DOMAIN outer /\ \A i \in 1 .. k - 2 : i \in DOMAIN outer /\ i # n
    BY <1>1, <1>7, <2>1
  <2> QED
    BY <1>3, <2>2
<1>9. \A i \in 1 .. k - 2 : i \in 1 .. k - 1
  BY <1>1
<1>10. \A i \in 1 .. k - 2 : o[i].content = open[i].content
  BY <1>4, <1>8, <1>9
<1>11. o[q].content = Append(open[q].content, [typ |-> open[k].typ, val |-> open[k].content])
  BY <1>4, <1>5, <1>6, <1>7, <1>8
<1>12. k - 1 = q /\ Len(o) = k - 1
  BY <1>2, <1>7
<1>13. \A i \in 1 .. k - 1 : o[i].pos = open[i].pos /\ o[i].typ = open[i].typ
  BY <1>2, <1>7
<1>14. o[k - 1].content = Append(open[k - 1].content, [typ |-> open[k].typ, val |-> open[k].content])
  BY <1>7, <1>11
<1> QED
  BY <1>10, <1>12, <1>13, <1>14 DEF k, o

\* What the two ways of closing an attribute share: d is the buffer, padded or not.
LEMMA CloseKeeps ==
    ASSUME ErrorApart, IndInv, StackInv, ContentInv, Len(open) > 1, NEW d \in Seq(Nat), Closed(d),
           buf' = WithHeader(d, Last(open)), Begins(d, buf),
           \/ Last(open).typ \notin NestedTypes /\ Last(open).full /\ d = buf
           \/ Last(open).typ \in NestedTypes /\ Len(d) <= Align(Len(buf))
    PROVE  StackInv' /\ ContentInv'
<1> DEFINE k == Len(open)
           b == buf'
           o == open'
<1>1. Last(open) = open[k] /\ k \in Nat /\ k > 1 /\ k # 1 /\ open # <<>>
  <2>1. Last(open) = open[k] /\ k \in 2 .. k
    BY Innermost
  <2>2. k \in Nat /\ open # <<>>
    BY EmptySeq DEF IndInv, OpenOK
  <2>3. k # 1
    <3>1. k > 1
      OBVIOUS
    <3> HIDE DEF k
    <3> QED
      BY <2>2, <3>1
  <2> QED
    BY <2>1, <2>2, <2>3
<1>2. Placed(buf, open) /\ phase = "build" /\ Stacked(buf, open)
  BY <1>1, OpenTypes DEF StackInv
<1>3. phase' = phase /\ (fits' <=> fits /\ Len(d) - open[k].pos < LenMod)
  <2>1. phase' = phase /\ fits' = (fits /\ Len(d) - Last(open).pos < LenMod)
    BY DEF Closed
  <2> HIDE DEF k
  <2> QED
    BY <1>1, <2>1
<1>4. Shut(buf, open, d, b, o)
  BY <1>1, ClosesContent DEF Shut
<1>5. Stacked(b, o)
  BY <1>2, <1>4, ShutStacked
<1>6. ASSUME fits' PROVE Held(b, o)
  <2>1. fits /\ Held(buf, open) /\ Len(d) - open[k].pos < LenMod
    BY <1>3, <1>6 DEF ContentInv
  <2>2. \/ ~Nesting(open, k) /\ open[k].full /\ d = buf
        \/ Nesting(open, k) /\ Begins(d, buf) /\ Len(d) <= Align(Len(buf))
    BY <1>1 DEF Nesting
  <2>3. Whence(open, d)
    BY <1>2, <2>1, <2>2, Meaning
  <2> QED
    BY <1>2, <1>4, <2>1, <2>3, ShutHeld
<1> HIDE DEF b, o
<1> QED
  BY <1>2, <1>3, <1>5, <1>6 DEF b, o, StackInv, ContentInv

\* The end of PutAttr.
LEMMA EndAttrKeeps ==
    ASSUME ErrorApart, IndInv, StackInv, ContentInv, EndAttr
    PROVE  StackInv' /\ ContentInv'
<1>1. /\ Len(open) > 1 /\ Closed(buf) /\ buf' = WithHeader(buf, Last(open))
      /\ Last(open).typ \notin NestedTypes /\ Last(open).full
  BY DEF EndAttr, InAttr
<1>2. buf \in Seq(Nat)
  BY DEF IndInv, TypeOK
<1>3. Begins(buf, buf)
  <2>1. Len(buf) \in Nat
    BY <1>2
  <2> QED
    BY <2>1 DEF Begins
<1> QED
  BY <1>1, <1>2, <1>3, CloseKeeps

\* The end of PutNestedAttrs, which pads.
LEMMA EndNestedAttrsKeeps ==
    ASSUME ErrorApart, IndInv, StackInv, ContentInv, EndNestedAttrs
    PROVE  StackInv' /\ ContentInv'
<1> DEFINE l == Align(Len(buf))
           d == PaddedTo(buf, l)
<1>1. /\ Len(open) > 1 /\ Closed(d) /\ buf' = WithHeader(d, Last(open))
      /\ Last(open).typ \in NestedTypes
  BY DEF EndNestedAttrs, InAttr
<1>2. buf \in Seq(Nat) /\ Len(buf) \in Nat
  BY DEF IndInv, TypeOK
<1>3. l \in Nat /\ l >= Len(buf)
  BY <1>2, AlignBound
<1>4. d \in Seq(Nat) /\ Len(d) = l /\ Begins(d, buf)
  <2> HIDE DEF l
  <2> QED
    BY <1>2, <1>3, PaddedBytes, PaddedBegins
<1>5. Len(d) <= Align(Len(buf))
  BY <1>3, <1>4
<1> HIDE DEF d, l
<1> QED
  BY <1>1, <1>4, <1>5, CloseKeeps

-----------------------------------------------------------------------------
(* The datagram.                                                           *)

\* The numbers of a message in a datagram.
LEMMA MsgSizes ==
    ASSUME NEW d \in Seq(Nat), NEW st \in Nat, NEW msg, MsgAt(d, st, msg)
    PROVE  /\ st + 1 \in 1 .. Len(d) /\ d[st + 1] \in Nat /\ d[st + 1] >= AllHeaders
           /\ MsgEnd(d, st) = st + d[st + 1] /\ MsgEnd(d, st) \in Nat /\ MsgEnd(d, st) <= Len(d)
           /\ st + AllHeaders \in Nat /\ st + AllHeaders <= MsgEnd(d, st)
           /\ st < MsgEnd(d, st)
<1> DEFINE x == d[st + 1]
           m == Len(d)
           e == MsgEnd(d, st)
<1>1. AllHeaders <= x /\ e <= m /\ e = st + x
  BY DEF MsgAt, MsgEnd
<1>2. AllHeaders \in Nat /\ AllHeaders > 0 /\ m \in Nat
  BY HeadersNat
<1>3. x \in Nat
  <2>1. st < m
    BY DEF MsgAt
  <2>2. st + 1 \in 1 .. m
    <3> HIDE DEF m
    <3> QED
      BY <1>2, <2>1
  <2> QED
    BY <2>2, ElementOfSeq
<1> HIDE DEF x, m, e
<1>4. /\ st + 1 \in 1 .. m /\ x >= AllHeaders /\ e \in Nat /\ st + AllHeaders \in Nat
      /\ st + AllHeaders <= e /\ st < e
  BY <1>1, <1>2, <1>3
<1> QED
  BY <1>1, <1>3, <1>4 DEF x, m, e

\* A message stays where it is when more follows.
LEMMA MsgStays ==
    ASSUME NEW d \in Seq(Nat), NEW t \in Seq(Nat), Begins(t, d), NEW st \in Nat, NEW msg, MsgAt(d, st, msg)
    PROVE  MsgAt(t, st, msg) /\ MsgEnd(t, st) = MsgEnd(d, st)
<1> DEFINE e == MsgEnd(d, st)
<1>1. /\ st + 1 \in 1 .. Len(d) /\ e = st + d[st + 1] /\ e \in Nat /\ e <= Len(d)
  BY MsgSizes
<1>2. t[st + 1] = d[st + 1]
  BY <1>1 DEF Begins
<1>3. MsgEnd(t, st) = e
  BY <1>2 DEF MsgEnd
<1> HIDE DEF e
<1>4. e <= Len(t)
  <2>1. Len(d) <= Len(t) /\ Len(d) \in Nat /\ Len(t) \in Nat
    BY DEF Begins
  <2>2. e \in Nat /\ e <= Len(d)
    BY <1>1
  <2> QED
    BY ONLY <2>1, <2>2
<1>5. \A i \in 1 .. e : d[i] = t[i]
  <2>1. \A i \in 1 .. e : i \in 1 .. Len(d)
    BY <1>1
  <2> QED
    BY <2>1 DEF Begins
<1>6. SubSeq(t, 1, e) = SubSeq(d, 1, e)
  BY <1>1, <1>4, <1>5, SameFirst
<1>7. Aligned(st) /\ st < Len(t) /\ AllHeaders <= d[st + 1] /\ Holds(SubSeq(d, 1, e), st + AllHeaders, msg)
  <2>1. Aligned(st) /\ st < Len(d) /\ AllHeaders <= d[st + 1] /\ Holds(SubSeq(d, 1, e), st + AllHeaders, msg)
    BY DEF MsgAt, e
  <2>2. Len(d) <= Len(t) /\ Len(d) \in Nat /\ Len(t) \in Nat
    BY DEF Begins
  <2>3. st < Len(t)
    BY ONLY <2>1, <2>2, st \in Nat
  <2> QED
    BY <2>1, <2>3
<1> QED
  BY <1>2, <1>3, <1>4, <1>6, <1>7 DEF MsgAt, e

\* Finish and Receive's append: the message, its length written, behind the datagram.
Sending(d, b, t) == t = PaddedTo(d, Align(Len(d))) \o [b EXCEPT ![1] = Len(b)]

\* What is in the datagram then.
LEMMA Sent ==
    ASSUME NEW d \in Seq(Nat), NEW b \in Seq(Nat), Len(b) >= AllHeaders, NEW t, Sending(d, b, t),
           NEW a, a = Align(Len(d))
    PROVE  /\ t \in Seq(Nat) /\ Begins(t, d) /\ Aligned(a) /\ Len(t) = a + Len(b)
           /\ t[a + 1] = Len(b)
           /\ \A i \in 2 .. Len(b) : t[a + i] = b[i]
<1> DEFINE l == Len(d)
           m == Len(b)
           u == PaddedTo(d, a)
           v == [b EXCEPT ![1] = m]
<1>1. l \in Nat /\ m \in Nat /\ a \in Nat /\ a >= l /\ Aligned(a)
  <2>1. l \in Nat /\ m \in Nat /\ a = Align(l)
    OBVIOUS
  <2> HIDE DEF l, m
  <2> QED
    BY <2>1, AlignBound, AlignAligned
<1>2. 1 \in 1 .. m
  <2>1. m >= AllHeaders
    OBVIOUS
  <2> HIDE DEF m
  <2> QED
    BY <1>1, <2>1, HeadersNat
<1>3. v \in Seq(Nat) /\ Len(v) = m /\ v[1] = m /\ \A j \in 1 .. m : j # 1 => v[j] = b[j]
  BY <1>1, <1>2, ByteWritten
<1>4. u \in Seq(Nat) /\ Len(u) = a /\ Begins(u, d)
  BY <1>1, PaddedBytes, PaddedBegins
<1>5. t = u \o v
  BY DEF Sending
<1> HIDE DEF u, v, l, m
<1>6. /\ t \in Seq(Nat) /\ Len(t) = a + m
      /\ \A i \in 1 .. a + m : t[i] = IF i <= a THEN u[i] ELSE v[i - a]
  <2>1. /\ u \o v \in Seq(Nat) /\ Len(u \o v) = Len(u) + Len(v)
        /\ \A i \in 1 .. Len(u) + Len(v) : (u \o v)[i] = IF i <= Len(u) THEN u[i] ELSE v[i - Len(u)]
    BY <1>3, <1>4, ConcatProperties
  <2> QED
    BY <1>3, <1>4, <1>5, <2>1
<1>7. Begins(t, d)
  <2>1. \A i \in 1 .. l : i \in 1 .. a + m /\ i <= a
    BY <1>1
  <2>2. \A i \in 1 .. l : t[i] = d[i]
    BY <1>4, <1>6, <2>1 DEF Begins, l
  <2>3. l <= Len(t)
    BY <1>1, <1>6
  <2> QED
    BY <2>2, <2>3 DEF Begins, l
<1>8. \A i \in 1 .. m : t[a + i] = v[i]
  <2> SUFFICES ASSUME NEW i \in 1 .. m PROVE t[a + i] = v[i]
    OBVIOUS
  <2>1. a + i \in 1 .. a + m /\ ~ (a + i <= a) /\ (a + i) - a = i
    BY <1>1
  <2> QED
    BY <1>6, <2>1
<1>9. t[a + 1] = m
  BY <1>2, <1>3, <1>8
<1>10. \A i \in 2 .. m : t[a + i] = b[i]
  <2>1. \A i \in 2 .. m : i \in 1 .. m /\ i # 1
    BY <1>1
  <2> QED
    BY <1>3, <1>8, <2>1
<1> QED
  BY <1>1, <1>6, <1>7, <1>9, <1>10 DEF m

\* It is there as it was built.
LEMMA SentThere ==
    ASSUME NEW d \in Seq(Nat), NEW b \in Seq(Nat), Len(b) >= AllHeaders, NEW t, Sending(d, b, t),
           NEW a, a = Align(Len(d)), NEW msg, Holds(b, AllHeaders, msg)
    PROVE  MsgAt(t, a, msg) /\ MsgEnd(t, a) = Len(t)
<1> DEFINE m == Len(b)
<1>1. /\ t \in Seq(Nat) /\ Begins(t, d) /\ Aligned(a) /\ Len(t) = a + m
      /\ t[a + 1] = m
      /\ \A i \in 2 .. m : t[a + i] = b[i]
  <2>1. Len(b) >= AllHeaders /\ a = Align(Len(d)) /\ m = Len(b)
    OBVIOUS
  <2> HIDE DEF m
  <2> QED
    BY ONLY Sent, <2>1, d \in Seq(Nat), b \in Seq(Nat), Sending(d, b, t)
<1>2. AllHeaders \in Nat /\ AllHeaders > 0 /\ m \in Nat /\ m >= AllHeaders
  BY HeadersNat
<1>3. EndOf(t, a, b, AllHeaders)
  <2>1. \A i \in AllHeaders + 1 .. m : i \in 2 .. m
    <3> HIDE DEF m
    <3> QED
      BY <1>2
  <2>2. \A i \in AllHeaders + 1 .. m : t[a + i] = b[i]
    BY <1>1, <2>1
  <2> QED
    BY <1>1, <2>2 DEF EndOf
<1>4. Holds(t, a + AllHeaders, msg)
  BY <1>1, <1>2, <1>3, HoldsMoved
<1>5. MsgEnd(t, a) = Len(t)
  BY <1>1 DEF MsgEnd
<1>6. SubSeq(t, 1, Len(t)) = t /\ Len(t) \in Nat /\ Len(t) <= Len(t)
  BY <1>1, SubSeqFull
<1> HIDE DEF m
<1>7. a \in Nat /\ a < Len(t)
  BY <1>1, <1>2 DEF Aligned
<1> QED
  BY <1>1, <1>2, <1>4, <1>5, <1>6, <1>7 DEF MsgAt

\* The messages before it stay, and it follows them.
LEMMA LaidMore ==
    ASSUME NEW d \in Seq(Nat), NEW msgs, Len(msgs) \in Nat, NEW st, Laid(d, msgs, st),
           NEW t \in Seq(Nat), Begins(t, d), NEW more, NEW msg,
           OneMore(more, msgs, msg), MsgAt(t, Align(Len(d)), msg), MsgEnd(t, Align(Len(d))) = Len(t)
    PROVE  \E to : Laid(t, more, to) /\ \A i \in 1 .. Len(msgs) + 1 : to[i] = st[i]
<1> DEFINE n == Len(msgs)
           a == Align(Len(d))
           z == Align(Len(t))
           to == [i \in 1 .. (n + 1) + 1 |-> IF i \in 1 .. n + 1 THEN st[i] ELSE z]
<1>1. n \in Nat /\ a \in Nat /\ z \in Nat
  <2>1. Len(d) \in Nat /\ Len(t) \in Nat
    OBVIOUS
  <2> QED
    BY <2>1, AlignBound
<1>2. /\ st \in [1 .. n + 1 -> Nat] /\ st[1] = 0 /\ st[n + 1] = a
      /\ \A i \in 1 .. n : MsgAt(d, st[i], msgs[i]) /\ st[i + 1] = Align(MsgEnd(d, st[i]))
  BY DEF Laid
<1>3. Len(more) = n + 1 /\ (\A i \in 1 .. n : more[i] = msgs[i]) /\ more[n + 1] = msg
  BY DEF OneMore
<1>4. MsgAt(t, a, msg) /\ MsgEnd(t, a) = Len(t)
  OBVIOUS
<1>5. /\ to = [i \in 1 .. (n + 1) + 1 |-> IF i \in 1 .. n + 1 THEN st[i] ELSE z]
      /\ z = Align(Len(t)) /\ n = Len(msgs)
  OBVIOUS
<1> HIDE DEF n, a, z, to
<1>6. /\ \A i \in 1 .. n + 1 : i \in 1 .. (n + 1) + 1
      /\ \A i \in 1 .. n : i \in 1 .. n + 1 /\ i + 1 \in 1 .. n + 1
      /\ \A i \in 1 .. n + 1 : i \in 1 .. n \/ i = n + 1
      /\ 1 \in 1 .. n + 1 /\ n + 1 \in 1 .. n + 1
      /\ (n + 1) + 1 \in 1 .. (n + 1) + 1 /\ (n + 1) + 1 \notin 1 .. n + 1
  BY <1>1
<1>7. (\A i \in 1 .. n + 1 : to[i] = st[i]) /\ to[(n + 1) + 1] = z
  BY <1>5, <1>6
<1>8. to \in [1 .. (n + 1) + 1 -> Nat]
  <2>1. \A i \in 1 .. n + 1 : st[i] \in Nat
    BY <1>2
  <2> QED
    BY <1>1, <1>5, <2>1
<1>9. ASSUME NEW i \in 1 .. n + 1
      PROVE  MsgAt(t, to[i], more[i]) /\ to[i + 1] = Align(MsgEnd(t, to[i]))
  <2>1. CASE i \in 1 .. n
    <3>1. MsgAt(d, st[i], msgs[i]) /\ st[i + 1] = Align(MsgEnd(d, st[i])) /\ st[i] \in Nat
      BY <1>2, <1>6, <2>1
    <3>2. MsgAt(t, st[i], msgs[i]) /\ MsgEnd(t, st[i]) = MsgEnd(d, st[i])
      BY <3>1, MsgStays
    <3>3. to[i] = st[i] /\ to[i + 1] = st[i + 1] /\ more[i] = msgs[i]
      BY <1>3, <1>6, <1>7, <2>1
    <3> QED
      BY <3>1, <3>2, <3>3
  <2>2. CASE i = n + 1
    <3>1. to[i] = a /\ more[i] = msg /\ to[i + 1] = z
      BY <1>2, <1>3, <1>6, <1>7, <2>2
    <3> QED
      BY <1>4, <1>5, <3>1
  <2> QED
    BY <1>6, <2>1, <2>2
<1>10. to[1] = 0
  BY <1>2, <1>6, <1>7
<1>11. Laid(t, more, to)
  BY <1>3, <1>5, <1>7, <1>8, <1>9, <1>10 DEF Laid
<1> QED
  BY <1>5, <1>7, <1>11

\* What has been taken is a message.
LEMMA HeldMsg ==
    ASSUME NEW data \in Seq(Nat), NEW p \in Nat, NEW c, Holds(data, p, c)
    PROVE  c \in Msgs
BY ParsedAttrs DEF Holds, Msgs

\* A message is not an error.
LEMMA MsgNoError ==
    ASSUME ErrorApart, NEW c \in Msgs
    PROVE  c # Error
<1>1. PICK attrs \in AttrSeq : c = Taken[attrs]
  BY DEF Msgs
<1>2. c = TakenBy(attrs, Taken)
  BY <1>1, TakenIs
<1>3. DOMAIN attrs = 1 .. Len(attrs) /\ Len(attrs) \in Nat
  BY DEF AttrSeq
<1> DEFINE n == Len(attrs)
           R == {c[i] : i \in 1 .. n}
<1>4. c = [i \in 1 .. n |-> c[i]]
  BY <1>2, <1>3 DEF TakenBy
<1> HIDE DEF n
<1>5. n \in Nat /\ \A i \in 1 .. n : c[i] \in R
  BY <1>3 DEF n
<1> HIDE DEF R
<1>6. c \in [1 .. n -> R]
  BY <1>4, <1>5
<1>7. c \in Seq(R)
  BY <1>5, <1>6, ListOf
<1> QED
  BY <1>7 DEF ErrorApart

\* The message goes to the end of the datagram.
LEMMA FinishKeeps ==
    ASSUME ErrorApart, IndInv, StackInv, ContentInv, ParserInv, Finish
    PROVE  ParserInv'
<1> DEFINE a == Align(Len(datagram))
           msg == open[1].content
           n == Len(sent)
<1>1. /\ Sending(datagram, buf, datagram') /\ sent' = Append(sent, msg)
      /\ open # <<>> /\ Len(buf) >= AllHeaders /\ Len(open) = 1
      /\ UNCHANGED <<fits, resp, pos, got, phase>>
  BY DEF Finish, InMessage, Sending
<1>2. buf \in Seq(Nat) /\ datagram \in Seq(Nat) /\ phase = "build" /\ got = <<>> /\ pos = 0
  BY <1>1 DEF IndInv, TypeOK, StackInv, ParserInv
<1>3. phase' = "build" /\ got' = <<>> /\ pos' = 0
  BY <1>1, <1>2
<1>4. ASSUME fits'
      PROVE  /\ sent' \in Seq(Msgs) /\ got' \in Seq(Msgs) /\ Len(got') <= Len(sent')
             /\ \A i \in 1 .. Len(got') : got'[i] = sent'[i]
             /\ \E st : Laid(datagram', sent', st) /\ (phase' # "failed" => pos' = st[Len(got') + 1])
  <2>1. fits /\ sent \in Seq(Msgs) /\ got \in Seq(Msgs)
    BY <1>1, <1>4 DEF ParserInv
  <2>2. PICK st : Laid(datagram, sent, st)
    BY <2>1 DEF ParserInv
  <2>3. Holds(buf, AllHeaders, msg)
    <3>1. HoldsOpen(buf, open, 1)
      BY <1>1, <2>1 DEF ContentInv, Held, Nesting
    <3>2. End(buf, open, 1) = Len(buf) /\ Start(open, 1) = AllHeaders
      BY <1>1 DEF End, Start
    <3>3. SubSeq(buf, 1, Len(buf)) = buf
      BY <1>2, SubSeqFull
    <3> QED
      BY <3>1, <3>2, <3>3 DEF HoldsOpen
  <2>4. msg \in Msgs
    BY <1>2, <2>3, HeadersNat, HeldMsg
  <2>5. datagram' \in Seq(Nat) /\ Begins(datagram', datagram)
    BY <1>1, <1>2, Sent
  <2>6. MsgAt(datagram', a, msg) /\ MsgEnd(datagram', a) = Len(datagram')
    BY <1>1, <1>2, <2>3, SentThere
  <2> HIDE DEF msg
  <2>7. /\ sent' \in Seq(Msgs) /\ Len(sent') = n + 1 /\ n \in Nat
        /\ \A i \in 1 .. n : sent'[i] = sent[i]
        /\ sent'[n + 1] = msg
    BY <1>1, <2>1, <2>4, AppendProperties
  <2> DEFINE more == sent'
             t == datagram'
  <2>8. more \in Seq(Msgs) /\ Len(more) = n + 1 /\ (\A i \in 1 .. n : more[i] = sent[i]) /\ more[n + 1] = msg
    BY <2>7
  <2>9. OneMore(more, sent, msg)
    BY <2>8 DEF OneMore
  <2>10. t \in Seq(Nat) /\ Begins(t, datagram) /\ MsgAt(t, a, msg) /\ MsgEnd(t, a) = Len(t)
    BY <2>5, <2>6
  <2> HIDE DEF more, t
  <2>11. PICK to : Laid(t, more, to) /\ \A i \in 1 .. n + 1 : to[i] = st[i]
    <3>1. datagram \in Seq(Nat) /\ Len(sent) \in Nat
      BY <1>2, <2>7
    <3>2. \E to : Laid(t, more, to) /\ \A i \in 1 .. n + 1 : to[i] = st[i]
      BY ONLY <2>2, <2>9, <2>10, <3>1, LaidMore
    <3> QED
      BY <3>2
  <2>12. to[1] = 0
    BY <2>11 DEF Laid
  <2>13. got' \in Seq(Msgs) /\ Len(got') = 0
    BY <1>3, EmptySeq
  <2>14. Len(got') <= Len(sent') /\ (\A i \in 1 .. Len(got') : got'[i] = sent'[i]) /\ pos' = to[Len(got') + 1]
    BY <1>3, <2>7, <2>12, <2>13
  <2> QED
    BY <2>7, <2>11, <2>13, <2>14 DEF more, t
<1> HIDE DEF a, msg, n
<1> QED
  BY <1>3, <1>4 DEF ParserInv

-----------------------------------------------------------------------------
(* The receiver.                                                           *)

\* What recvfrom leaves of the datagram is its beginning.
LEMMA ReceivedPart ==
    ASSUME IndInv
    PROVE  /\ datagram \in Seq(Nat) /\ Received \in Seq(Nat) /\ Begins(datagram, Received)
           /\ Len(datagram) <= BufSize => Received = datagram
<1> DEFINE l == Len(datagram)
           n == IF l < BufSize THEN l ELSE BufSize
           r == SubSeq(datagram, 1, n)
<1>1. datagram \in Seq(Nat) /\ l \in Nat /\ BufSize \in Nat
  BY Sizes DEF IndInv, TypeOK
<1>2. Received = r
  BY DEF Received
<1>3. n \in Nat /\ n <= l
  <2> HIDE DEF l
  <2> QED
    BY <1>1
<1> HIDE DEF n
<1>4. r \in Seq(Nat) /\ Len(r) = n /\ \A i \in 1 .. n : r[i] = datagram[i]
  BY <1>1, <1>3, FirstPart
<1>5. Begins(datagram, r)
  <2> HIDE DEF r, l
  <2> QED
    BY <1>3, <1>4 DEF Begins, l
<1>6. l <= BufSize => r = datagram
  <2>1. l <= BufSize => n = l
    <3> HIDE DEF l, r
    <3> QED
      BY <1>1 DEF n
  <2>2. SubSeq(datagram, 1, l) = datagram
    BY <1>1, SubSeqFull
  <2> QED
    BY <2>1, <2>2
<1> QED
  BY <1>1, <1>2, <1>4, <1>5, <1>6

\* recvfrom puts the receiver at the first message.
LEMMA RecvKeeps ==
    ASSUME ParserInv, Recv
    PROVE  ParserInv'
<1>1. /\ phase = "build" /\ phase' = "parse" /\ resp' = Received
      /\ UNCHANGED <<fits, sent, datagram, pos, got>>
  BY DEF Recv, Received
<1>2. Received' = Received
  BY <1>1 DEF Received
<1>3. fits => /\ sent \in Seq(Msgs) /\ got \in Seq(Msgs) /\ Len(got) <= Len(sent)
              /\ \A i \in 1 .. Len(got) : got[i] = sent[i]
              /\ \E st : Laid(datagram, sent, st) /\ pos = st[Len(got) + 1]
  BY <1>1 DEF ParserInv
<1> QED
  BY <1>1, <1>2, <1>3 DEF ParserInv

\* Where the receiver is: at the end of the datagram, or at the message to be parsed next.
LEMMA AtMessage ==
    ASSUME IndInv, ParserInv, phase = "parse", fits, NEW st, Laid(datagram, sent, st),
           pos = st[Len(got) + 1], ~AtEnd
    PROVE  /\ Len(got) \in Nat /\ Len(got) + 1 \in 1 .. Len(sent)
           /\ MsgAt(datagram, pos, sent[Len(got) + 1])
           /\ st[(Len(got) + 1) + 1] = Align(MsgEnd(datagram, pos))
           /\ pos + 1 \in 1 .. Len(resp) /\ resp[pos + 1] = datagram[pos + 1]
           /\ resp = Received
<1> DEFINE k == Len(got)
           n == Len(sent)
           l == Len(datagram)
           m == Len(resp)
           z == Align(l)
<1>1. resp = Received /\ k \in Nat /\ n \in Nat /\ k <= n
  <2>1. got \in Seq(Msgs) /\ sent \in Seq(Msgs) /\ k <= n /\ resp = Received
    BY DEF ParserInv
  <2> HIDE DEF Msgs
  <2> QED
    BY <2>1
<1>2. Begins(datagram, resp) /\ resp \in Seq(Nat) /\ datagram \in Seq(Nat) /\ pos \in Nat
  BY <1>1, ReceivedPart DEF IndInv, TypeOK
<1>3. l \in Nat /\ m \in Nat /\ m <= l
  BY <1>2 DEF Begins
<1>4. z \in Nat /\ z >= l
  BY <1>3, AlignBound
<1>5. ~ (pos >= m)
  BY DEF AtEnd
<1>6. st[n + 1] = z /\ pos = st[k + 1]
  BY DEF Laid
<1>7. \A i \in 1 .. n : MsgAt(datagram, st[i], sent[i]) /\ st[i + 1] = Align(MsgEnd(datagram, st[i]))
  BY DEF Laid
<1>8. \A i \in 1 .. m : datagram[i] = resp[i]
  BY <1>2 DEF Begins
<1> HIDE DEF k, n, l, m, z
<1>9. k # n
  <2> SUFFICES ASSUME k = n PROVE FALSE
    OBVIOUS
  <2>1. pos = z
    BY <1>6
  <2> QED
    BY <1>2, <1>3, <1>4, <1>5, <2>1
<1>10. k + 1 \in 1 .. n
  BY <1>1, <1>9
<1>11. pos + 1 \in 1 .. m
  BY <1>2, <1>3, <1>5
<1>12. MsgAt(datagram, pos, sent[k + 1]) /\ st[(k + 1) + 1] = Align(MsgEnd(datagram, pos))
  BY <1>6, <1>7, <1>10
<1>13. resp[pos + 1] = datagram[pos + 1]
  BY <1>8, <1>11
<1> QED
  BY <1>1, <1>10, <1>11, <1>12, <1>13 DEF k, n, m

\* nextNlMsg finds that message there.
LEMMA NextNlMsgKeeps ==
    ASSUME ErrorApart, IndInv, ParserInv, NextNlMsg
    PROVE  ParserInv' /\ (fits => phase' = "parse")
<1> DEFINE end == pos + resp[pos + 1]
           data == SubSeq(resp, 1, end)
           k == Len(got)
           msg == sent[k + 1]
<1>1. /\ phase = "parse" /\ ~AtEnd /\ ~Truncated /\ pos' = Align(end)
      /\ IF TakeMessage(data, pos) = Error
         THEN phase' = "failed" /\ UNCHANGED got
         ELSE got' = Append(got, TakeMessage(data, pos)) /\ UNCHANGED phase
      /\ UNCHANGED <<fits, sent, datagram, resp>>
  BY DEF NextNlMsg, NextPos
<1>2. phase' # "build" /\ resp' = Received' /\ fits' = fits
  BY <1>1 DEF ParserInv, Received
<1>3. ASSUME fits
      PROVE  /\ phase' = "parse" /\ sent \in Seq(Msgs) /\ got' \in Seq(Msgs) /\ Len(got') <= Len(sent)
             /\ \A i \in 1 .. Len(got') : got'[i] = sent[i]
             /\ \E st : Laid(datagram, sent, st) /\ pos' = st[Len(got') + 1]
  <2>1. /\ sent \in Seq(Msgs) /\ got \in Seq(Msgs)
        /\ \A i \in 1 .. Len(got) : got[i] = sent[i]
    BY <1>3 DEF ParserInv
  <2>2. PICK st : Laid(datagram, sent, st) /\ pos = st[k + 1]
    BY <1>1, <1>3 DEF ParserInv
  <2>3. /\ k \in Nat /\ k + 1 \in 1 .. Len(sent) /\ MsgAt(datagram, pos, msg)
        /\ st[(k + 1) + 1] = Align(MsgEnd(datagram, pos))
        /\ pos + 1 \in 1 .. Len(resp) /\ resp[pos + 1] = datagram[pos + 1] /\ resp = Received
    BY <1>1, <1>3, <2>2, AtMessage
  <2>4. datagram \in Seq(Nat) /\ resp \in Seq(Nat) /\ Begins(datagram, resp) /\ pos \in Nat
    BY <2>3, ReceivedPart DEF IndInv, TypeOK
  <2>5. end = MsgEnd(datagram, pos)
    BY <2>3 DEF MsgEnd
  <2>6. /\ end \in Nat /\ pos + AllHeaders \in Nat /\ pos + AllHeaders <= end /\ end <= Len(datagram)
        /\ resp[pos + 1] \in Nat
    BY <2>3, <2>4, <2>5, MsgSizes
  <2>7. end <= Len(resp)
    <3>1. ~ (Len(resp) - pos < resp[pos + 1])
      BY <1>1 DEF Truncated, Avail
    <3> DEFINE x == resp[pos + 1]
               m == Len(resp)
    <3>2. x \in Nat /\ m \in Nat /\ ~ (m - pos < x) /\ end = pos + x
      BY <2>4, <2>6, <3>1
    <3> HIDE DEF x, m, end
    <3>3. end <= m
      BY <2>4, <3>2
    <3> QED
      BY <3>3 DEF m
  <2> HIDE DEF end
  <2>8. data = SubSeq(datagram, 1, end)
    <3>1. \A i \in 1 .. end : i \in 1 .. Len(resp)
      BY <2>4, <2>6, <2>7
    <3>2. \A i \in 1 .. end : resp[i] = datagram[i]
      BY <2>4, <3>1 DEF Begins
    <3> QED
      BY <2>4, <2>6, <2>7, <3>2, SameFirst
  <2>9. Len(data) = end
    BY <2>4, <2>6, <2>7, FirstPart
  <2>10. Holds(data, pos + AllHeaders, msg)
    BY <2>3, <2>5, <2>8 DEF MsgAt
  <2> HIDE DEF data, msg
  <2>11. TakeMessage(data, pos) = msg
    <3>1. ~ (pos + AllHeaders > Len(data))
      BY <2>6, <2>9
    <3> QED
      BY <2>10, <3>1 DEF TakeMessage, Holds
  <2>12. msg \in Msgs
    BY <2>1, <2>3, ElementOfSeq DEF msg
  <2>13. msg # Error
    BY <2>12, MsgNoError
  <2>14. got' = Append(got, msg) /\ phase' = "parse"
    BY <1>1, <2>11, <2>13
  <2> HIDE DEF Msgs
  <2>15. /\ got' \in Seq(Msgs) /\ Len(got') = k + 1
         /\ \A i \in 1 .. k : got'[i] = got[i]
         /\ got'[k + 1] = msg
    BY <2>1, <2>12, <2>14, AppendProperties
  <2>16. pos' = st[Len(got') + 1]
    BY <1>1, <2>3, <2>5, <2>15
  <2>17. \A i \in 1 .. Len(got') : got'[i] = sent[i]
    <3> DEFINE g == got'
               j == k + 1
    <3>1. Len(g) = j /\ (\A i \in 1 .. k : g[i] = sent[i]) /\ g[j] = sent[j]
      BY <2>1, <2>15 DEF msg
    <3>2. \A i \in 1 .. j : i \in 1 .. k \/ i = j
      BY <2>3
    <3> HIDE DEF g, j
    <3>3. \A i \in 1 .. Len(g) : g[i] = sent[i]
      BY <3>1, <3>2
    <3> QED
      BY <3>3 DEF g
  <2>18. Len(got') <= Len(sent)
    <3>1. Len(sent) \in Nat
      BY <2>1
    <3> QED
      BY <2>3, <2>15, <3>1
  <2> QED
    BY <2>1, <2>2, <2>14, <2>15, <2>16, <2>17, <2>18
<1> HIDE DEF end, data, k, msg
<1> QED
  BY <1>1, <1>2, <1>3 DEF ParserInv

\* It ends where the messages do, if all of them are there.
LEMMA NoNlMsgKeeps ==
    ASSUME IndInv, ParserInv, NoNlMsg
    PROVE  ParserInv' /\ AllParsed'
<1>1. /\ phase = "parse" /\ (AtEnd \/ Truncated) /\ phase' = (IF AtEnd THEN "done" ELSE "failed")
      /\ UNCHANGED <<fits, sent, datagram, resp, pos, got>>
  BY DEF NoNlMsg
<1>2. phase' # "build" /\ resp' = Received'
  BY <1>1 DEF ParserInv, Received
<1>3. fits => /\ sent \in Seq(Msgs) /\ got \in Seq(Msgs) /\ Len(got) <= Len(sent)
              /\ \A i \in 1 .. Len(got) : got[i] = sent[i]
              /\ \E st : Laid(datagram, sent, st) /\ pos = st[Len(got) + 1]
  BY <1>1 DEF ParserInv
<1>4. ParserInv'
  BY <1>1, <1>2, <1>3 DEF ParserInv
<1>5. ASSUME fits, Len(datagram) <= BufSize PROVE AtEnd /\ Len(got) = Len(sent)
  <2>1. PICK st : Laid(datagram, sent, st) /\ pos = st[Len(got) + 1]
    BY <1>3, <1>5
  <2>2. resp = datagram /\ datagram \in Seq(Nat) /\ pos \in Nat
    BY <1>1, <1>5, ReceivedPart DEF ParserInv, IndInv, TypeOK
  <2>3. AtEnd
    <3> SUFFICES ASSUME ~AtEnd PROVE FALSE
      OBVIOUS
    <3>1. MsgAt(datagram, pos, sent[Len(got) + 1])
      BY <1>1, <1>5, <2>1, AtMessage
    <3> DEFINE x == datagram[pos + 1]
               m == Len(datagram)
    <3>2. x \in Nat /\ x >= AllHeaders /\ pos + x <= m /\ m \in Nat
      BY <2>2, <3>1, MsgSizes
    <3>3. m - pos < SizeofNlMsghdr \/ m - pos < x
      BY <1>1, <2>2 DEF Truncated, Avail
    <3>4. SizeofNlMsghdr \in Nat /\ AllHeaders \in Nat /\ SizeofNlMsghdr <= AllHeaders
      BY Sizes, HeadersNat
    <3> HIDE DEF x, m
    <3> QED
      BY <2>2, <3>2, <3>3, <3>4
  <2>4. Len(got) = Len(sent)
    <3> DEFINE k == Len(got)
               n == Len(sent)
               l == Len(datagram)
    <3>1. k \in Nat /\ n \in Nat /\ k <= n /\ l \in Nat /\ pos >= l
      <4>1. got \in Seq(Msgs) /\ sent \in Seq(Msgs) /\ k <= n
        BY <1>3, <1>5
      <4>2. pos >= l
        BY <2>2, <2>3 DEF AtEnd
      <4> HIDE DEF Msgs
      <4> QED
        BY <2>2, <4>1, <4>2
    <3> SUFFICES ASSUME k # n PROVE FALSE
      OBVIOUS
    <3>2. \A i \in 1 .. n : MsgAt(datagram, st[i], sent[i])
      BY <2>1 DEF Laid
    <3> HIDE DEF k, n, l
    <3>3. k + 1 \in 1 .. n
      BY <3>1
    <3>4. MsgAt(datagram, pos, sent[k + 1])
      BY <2>1, <3>2, <3>3 DEF k
    <3>5. pos < l
      BY <3>4 DEF MsgAt, l
    <3> QED
      BY <2>2, <3>1, <3>5
  <2> QED
    BY <2>3, <2>4
<1>6. AllParsed'
  BY <1>1, <1>5 DEF AllParsed
<1> QED
  BY <1>4, <1>6

-----------------------------------------------------------------------------
(* What is parsed is what was put.                                         *)

\* There is a value that is no list: ErrorApart can be met.
LEMMA NoList == \A S : [i \in {0} |-> 0] \notin Seq(S)
<1> SUFFICES ASSUME NEW S, [i \in {0} |-> 0] \in Seq(S) PROVE FALSE
  OBVIOUS
<1> DEFINE s == [i \in {0} |-> 0]
<1>1. DOMAIN s = {0}
  OBVIOUS
<1>2. s \in Seq(S)
  OBVIOUS
<1> HIDE DEF s
<1>3. DOMAIN s = 1 .. Len(s)
  BY <1>2
<1>4. 0 \notin 1 .. Len(s)
  BY <1>2
<1> QED
  BY <1>1, <1>3, <1>4

\* It holds at the start.
LEMMA InitAll == ErrorApart /\ Init => AllInv
<1> SUFFICES ASSUME ErrorApart, Init PROVE AllInv
  OBVIOUS
<1>1. /\ open = <<>> /\ sent = <<>> /\ datagram = <<>> /\ got = <<>> /\ pos = 0 /\ phase = "build"
  BY DEF Init
<1>2. Len(open) = 0 /\ Len(sent) = 0 /\ Len(got) = 0 /\ Len(datagram) = 0
      /\ sent \in Seq(Msgs) /\ got \in Seq(Msgs)
  BY <1>1, EmptySeq
<1>3. StackInv
  BY <1>1 DEF StackInv
<1>4. ContentInv
  <2>1. 1 .. Len(open) = {}
    BY <1>2
  <2> QED
    BY <2>1 DEF ContentInv, Held
<1>5. Align(0) = 0
  <2>1. 0 \in Nat /\ 0 * AlignTo = 0 /\ AlignTo \in Nat
    BY Sizes
  <2> QED
    BY <2>1, AlignedMultiple DEF Aligned
<1>6. Laid(datagram, sent, [i \in {1} |-> 0])
  <2>1. 1 .. Len(sent) = {} /\ 1 .. Len(sent) + 1 = {1} /\ Len(sent) + 1 = 1
    BY <1>2
  <2> QED
    BY <1>2, <1>5, <2>1 DEF Laid
<1>7. ParserInv
  <2> DEFINE st == [i \in {1} |-> 0]
  <2>1. pos = st[Len(got) + 1]
    BY <1>1, <1>2
  <2>2. \A i \in 1 .. Len(got) : got[i] = sent[i]
    BY <1>2
  <2>3. Len(got) <= Len(sent)
    BY <1>2
  <2> QED
    BY <1>1, <1>2, <1>6, <2>1, <2>2, <2>3 DEF ParserInv
<1>8. AllParsed
  BY <1>1 DEF AllParsed
<1> QED
  BY <1>3, <1>4, <1>7, <1>8, InitOK DEF AllInv

\* A step of the builder that sends nothing leaves the datagram and the receiver.
LEMMA ReceiverStays ==
    ASSUME ParserInv, fits' => fits, phase = "build", UNCHANGED <<sent, datagram, resp, pos, got, phase>>
    PROVE  ParserInv' /\ AllParsed'
<1>1. Received' = Received
  BY DEF Received
<1>2. ParserInv'
  BY <1>1 DEF ParserInv
<1> QED
  BY <1>2 DEF AllParsed

\* A step of the receiver leaves the builder, and so does one that begins or ends a message.
LEMMA NothingBuilt ==
    ASSUME open' = <<>>
    PROVE  StackInv' /\ ContentInv'
<1>1. 1 .. Len(open') = {}
  <2>1. Len(open') = 0
    BY EmptySeq
  <2> QED
    BY <2>1
<1> QED
  BY <1>1 DEF StackInv, ContentInv, Held

\* Every step of the builder keeps it.
LEMMA BuildKeeps ==
    ASSUME ErrorApart, AllInv, Build
    PROVE  StackInv' /\ ContentInv' /\ ParserInv' /\ AllParsed'
<1>1. IndInv /\ StackInv /\ ContentInv /\ ParserInv
  BY DEF AllInv
<1>2. CASE NewNlMsgBuilder
  <2>1. StackInv' /\ ContentInv'
    BY <1>1, <1>2, NewNlMsgBuilderKeeps
  <2>2. fits' = fits /\ phase = "build" /\ UNCHANGED <<sent, datagram, resp, pos, got, phase>>
    BY <1>2 DEF NewNlMsgBuilder
  <2> QED
    BY <1>1, <2>1, <2>2, ReceiverStays
<1>3. CASE PutHeader
  <2>1. StackInv' /\ ContentInv'
    BY <1>1, <1>3, PutHeaderKeeps
  <2>2. fits' = fits /\ phase = "build" /\ UNCHANGED <<sent, datagram, resp, pos, got, phase>>
    BY <1>1, <1>3 DEF PutHeader, StackInv
  <2> QED
    BY <1>1, <2>1, <2>2, ReceiverStays
<1>4. CASE EndAttr
  <2>1. StackInv' /\ ContentInv'
    BY <1>1, <1>4, EndAttrKeeps
  <2>2. Len(open) > 1 /\ fits' = (fits /\ Len(buf) - Last(open).pos < LenMod)
        /\ UNCHANGED <<sent, datagram, resp, pos, got, phase>>
    BY <1>4 DEF EndAttr, Closed, InAttr
  <2>3. phase = "build"
    BY <1>1, <2>2, EmptySeq DEF StackInv
  <2> QED
    BY <1>1, <2>1, <2>2, <2>3, ReceiverStays
<1>5. CASE EndNestedAttrs
  <2> DEFINE d == PaddedTo(buf, Align(Len(buf)))
  <2>1. StackInv' /\ ContentInv'
    BY <1>1, <1>5, EndNestedAttrsKeeps
  <2>2. Len(open) > 1 /\ fits' = (fits /\ Len(d) - Last(open).pos < LenMod)
        /\ UNCHANGED <<sent, datagram, resp, pos, got, phase>>
    BY <1>5 DEF EndNestedAttrs, Closed, InAttr
  <2> HIDE DEF d
  <2>3. phase = "build"
    BY <1>1, <2>2, EmptySeq DEF StackInv
  <2> QED
    BY <1>1, <2>1, <2>2, <2>3, ReceiverStays
<1>6. CASE Finish
  <2>1. open' = <<>> /\ open # <<>> /\ phase' = phase
    BY <1>6 DEF Finish, InMessage
  <2>2. StackInv' /\ ContentInv'
    BY <2>1, NothingBuilt
  <2>3. ParserInv'
    BY <1>1, <1>6, FinishKeeps
  <2>4. phase = "build"
    BY <1>1, <2>1 DEF StackInv
  <2>5. AllParsed'
    BY <2>1, <2>4 DEF AllParsed
  <2> QED
    BY <2>2, <2>3, <2>5
<1>7. ASSUME NEW typ \in Types, PutAttr(typ) PROVE StackInv' /\ ContentInv' /\ ParserInv' /\ AllParsed'
  <2>1. StackInv' /\ ContentInv'
    BY <1>1, <1>7, PutAttrKeeps
  <2>2. fits' = fits /\ phase = "build" /\ UNCHANGED <<sent, datagram, resp, pos, got, phase>>
    BY <1>1, <1>7 DEF PutAttr, InMessage, StackInv
  <2> QED
    BY <1>1, <2>1, <2>2, ReceiverStays
<1>8. ASSUME NEW val \in Values, PutValue(val) PROVE StackInv' /\ ContentInv' /\ ParserInv' /\ AllParsed'
  <2>1. StackInv' /\ ContentInv'
    BY <1>1, <1>8, PutValueKeeps
  <2>2. Len(open) > 1 /\ fits' = fits /\ UNCHANGED <<sent, datagram, resp, pos, got, phase>>
    BY <1>8 DEF PutValue, InAttr
  <2>3. phase = "build"
    BY <1>1, <2>2, EmptySeq DEF StackInv
  <2> QED
    BY <1>1, <2>1, <2>2, <2>3, ReceiverStays
<1> QED
  BY <1>2, <1>3, <1>4, <1>5, <1>6, <1>7, <1>8 DEF Build

\* Every step of the receiver keeps it.
LEMMA ReceiverKeeps ==
    ASSUME ErrorApart, AllInv, Recv \/ NextNlMsg \/ NoNlMsg
    PROVE  StackInv' /\ ContentInv' /\ ParserInv' /\ AllParsed'
<1>1. IndInv /\ StackInv /\ ContentInv /\ ParserInv /\ AllParsed
  BY DEF AllInv
<1>2. open' = <<>>
  BY <1>1 DEF Recv, NextNlMsg, NoNlMsg, StackInv
<1>3. StackInv' /\ ContentInv'
  BY <1>2, NothingBuilt
<1>4. CASE Recv
  <2>1. AllParsed'
    BY <1>4 DEF Recv, AllParsed
  <2> QED
    BY <1>1, <1>3, <1>4, <2>1, RecvKeeps
<1>5. CASE NextNlMsg
  <2>1. ParserInv' /\ (fits => phase' = "parse") /\ fits' = fits
    BY <1>1, <1>5, NextNlMsgKeeps DEF NextNlMsg
  <2>2. AllParsed'
    BY <2>1 DEF AllParsed
  <2> QED
    BY <1>3, <2>1, <2>2
<1>6. CASE NoNlMsg
  BY <1>1, <1>3, <1>6, NoNlMsgKeeps
<1> QED
  BY <1>4, <1>5, <1>6

\* All that is said of the builder, the datagram and the receiver holds always.
LEMMA AllInvariance == ASSUME ErrorApart PROVE Spec => []AllInv
<1>1. Init => AllInv
  BY InitAll
<1>2. AllInv /\ IndInv' /\ [Next]_vars => AllInv'
  <2> SUFFICES ASSUME AllInv, IndInv', [Next]_vars PROVE AllInv'
    OBVIOUS
  <2>1. CASE Build
    BY <2>1, BuildKeeps DEF AllInv
  <2>2. CASE Recv \/ NextNlMsg \/ NoNlMsg
    BY <2>2, ReceiverKeeps DEF AllInv
  <2>3. CASE UNCHANGED vars
    <3>1. Received' = Received
      BY <2>3 DEF vars, Received
    <3> QED
      BY <2>3, <3>1 DEF AllInv, vars, StackInv, ContentInv, ParserInv, AllParsed
  <2> QED
    BY <2>1, <2>2, <2>3 DEF Next
<1> QED
  BY Invariance, <1>1, <1>2, PTL DEF Spec

\* NothingInvented (netlink.go:244-263, 469-493): whatever the sizes of headers, the alignment,
\* the values, the nesting, the allocations and the receiver's buffer, what is parsed of a
\* datagram is what was put into it, message by message from the first one, and a message
\* that recvfrom has cut is not taken for another.
THEOREM NothingIsInvented ==
    ASSUME ErrorApart
    PROVE  Spec => []NothingInvented
<1>1. AllInv => NothingInvented
  <2> SUFFICES ASSUME AllInv, fits PROVE IsPrefix(got, sent)
    BY DEF NothingInvented
  <2> DEFINE n == Len(got)
             x == SubSeq(got, 1, n)
             y == SubSeq(sent, 1, n)
  <2>1. /\ sent \in Seq(Msgs) /\ got \in Seq(Msgs) /\ n <= Len(sent)
        /\ \A i \in 1 .. n : got[i] = sent[i]
    BY DEF AllInv, ParserInv
  <2> HIDE DEF Msgs
  <2>2. n \in Nat /\ Len(sent) \in Nat
    BY <2>1
  <2>3. x = got
    BY <2>1, SubSeqFull
  <2>4. y \in Seq(Msgs) /\ Len(y) = n /\ \A i \in 1 .. n : y[i] = sent[i]
    <3> HIDE DEF n
    <3>1. \A i \in 1 .. n : i \in 1 .. Len(sent)
      BY <2>1, <2>2
    <3>2. \A i \in 1 .. n : sent[i] \in Msgs
      BY <2>1, <3>1, ElementOfSeq
    <3>3. /\ y \in Seq(Msgs) /\ Len(y) = IF 1 <= n THEN n - 1 + 1 ELSE 0
          /\ \A i \in 1 .. n - 1 + 1 : y[i] = sent[1 + i - 1]
      BY <2>1, <2>2, <3>2, SubSeqProperties
    <3>4. \A i \in 1 .. n : i \in 1 .. n - 1 + 1 /\ 1 + i - 1 = i
      BY <2>2
    <3>5. \A i \in 1 .. n : y[i] = sent[i]
      BY <3>3, <3>4
    <3> QED
      BY <2>2, <3>3, <3>5
  <2> HIDE DEF x, y
  <2>5. got = y
    BY <2>1, <2>4, SeqEqual
  <2> QED
    BY <2>1, <2>3, <2>5 DEF IsPrefix, x, y
<1> QED
  BY AllInvariance, <1>1, PTL

\* AllParsed (netlink.go:573-603): a datagram that fits the receiver's buffer is parsed
\* without an error, and up to its last message, for all these sizes, values and nestings.
THEOREM AllIsParsed ==
    ASSUME ErrorApart
    PROVE  Spec => []AllParsed
<1>1. AllInv => AllParsed
  BY DEF AllInv
<1> QED
  BY AllInvariance, <1>1, PTL

=============================================================================
