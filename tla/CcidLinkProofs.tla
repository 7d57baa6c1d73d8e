--------------------------- MODULE CcidLinkProofs ---------------------------
(***************************************************************************)
(* Proofs about the link to the reader (module CcidLink), for any number   *)
(* of commands, repetitions, damaged messages and interrupts.              *)
(***************************************************************************)
EXTENDS CcidLink, SequenceTheorems, TLAPS

Items == [type : {"msg", "rsp", "bad", "int", "ack", "nak", "torn", "none"}, seq : Nat, cmd : Nat]

\* Messages and responses, intact or not, belong to a command.
Carries(i) == i.type \in {"msg", "rsp", "bad"}

Contents(q) == {q[n] : n \in DOMAIN q}

\* x is not of a later command than y.
Earlier(x, y) == Carries(x) /\ Carries(y) => x.cmd <= y.cmd
AllEarlier(A, B) == \A x \in A, y \in B : Earlier(x, y)
Sorted(q) == \A m, n \in DOMAIN q : m < n => Earlier(q[m], q[n])

\* On its way from the host through the reader and back nothing overtakes
\* anything: h is on the line to the host, s was sent last, p comes next, r is on
\* the line to the reader.
Chain(h, s, p, r) ==
  /\ Sorted(h) /\ Sorted(r)
  /\ AllEarlier(Contents(h), {s, p} \cup Contents(r))
  /\ Earlier(s, p) /\ AllEarlier({s, p}, Contents(r))

InOrder == Chain(toHost, sent, pending, toReader)

\* s is the sequence number of the command that follows n others.
Counted(n, s) == s \in 0 .. SeqModulus - 1 /\ \E k \in Nat : n = k * SeqModulus + s

\* Commands that may still be under way: an answer is left behind only if an
\* interrupt message was taken for it, or its command is the last one.
Oldest ==
  IF mistaken < SeqModulus - 1 THEN calls - mistaken - (IF pc = "idle" THEN 0 ELSE 1) ELSE 0
Numbered(i, old, last) == Carries(i) => /\ i.cmd \in 1 .. last /\ i.cmd >= old
                                        /\ Counted(i.cmd - 1, i.seq)
Underway == Contents(toHost) \cup Contents(toReader) \cup {sent, pending}
AllNumbered == \A i \in Underway : Numbered(i, Oldest, calls)

SequenceOK ==
  /\ Counted(IF pc = "idle" THEN calls ELSE calls - 1, seq)
  /\ pc # "idle" => calls >= 1

TypesOK ==
  /\ link \in {"usb", "serial"} /\ pc \in {"idle", "send", "ack", "read", "failed"}
  /\ calls \in 0 .. MaxCalls /\ mistaken \in Nat /\ damaged \in Nat /\ interrupts \in Nat
  /\ toHost \in Seq(Items) /\ toReader \in Seq(Items)
  /\ pending \in Items /\ sent \in Items
  /\ pending = None \/ pending.type = "rsp"
  /\ sent = None \/ sent.type = "rsp"
  /\ executed \in [1 .. MaxCalls -> Nat]

IInv == TypesOK /\ SequenceOK /\ AllNumbered /\ InOrder /\ OwnAnswer

-----------------------------------------------------------------------------
(* Queues.                                                                 *)

LEMMA ConstantFacts ==
  /\ SeqModulus \in Nat /\ SeqModulus > 1 /\ MaxCalls \in Nat
  /\ Links \subseteq {"usb", "serial"}
BY CcidLinkAssumption

LEMMA ItemFacts ==
  /\ Torn \in Items /\ ~Carries(Torn)
  /\ None \in Items /\ ~Carries(None) /\ None.type = "none"
  /\ \A t \in {"ack", "nak"} : Byte(t) \in Items /\ ~Carries(Byte(t))
BY DEF Torn, None, Byte, Item, Items, Carries

LEMMA QueueTail ==
  ASSUME NEW q \in Seq(Items), q # <<>>, Sorted(q)
  PROVE  /\ Tail(q) \in Seq(Items) /\ Sorted(Tail(q))
         /\ Contents(Tail(q)) \subseteq Contents(q)
         /\ Head(q) \in Contents(q) /\ Head(q) \in Items
         /\ AllEarlier({Head(q)}, Contents(Tail(q)))
<1>1. Tail(q) \in Seq(Items) /\ Len(Tail(q)) = Len(q) - 1 /\ Len(q) \in Nat /\ Len(q) > 0
  OBVIOUS
<1>2. \A n \in DOMAIN Tail(q) : n + 1 \in DOMAIN q /\ Tail(q)[n] = q[n + 1] /\ n \in Nat /\ n > 0
  OBVIOUS
<1>3. 1 \in DOMAIN q /\ Head(q) = q[1]
  BY <1>1
<1>4. Sorted(Tail(q))
  BY <1>2 DEF Sorted
<1>5. Contents(Tail(q)) \subseteq Contents(q)
  BY <1>2 DEF Contents
<1>6. AllEarlier({Head(q)}, Contents(Tail(q)))
  <2> SUFFICES ASSUME NEW n \in DOMAIN Tail(q) PROVE Earlier(Head(q), Tail(q)[n])
    BY DEF AllEarlier, Contents
  <2>1. Earlier(q[1], q[n + 1])
    BY <1>2, <1>3 DEF Sorted
  <2>2. QED
    BY <1>2, <1>3, <2>1
<1>7. Head(q) \in Items /\ Head(q) \in Contents(q)
  BY <1>3 DEF Contents
<1>8. QED
  BY <1>1, <1>4, <1>5, <1>6, <1>7

LEMMA QueueAppend ==
  ASSUME NEW q \in Seq(Items), NEW x \in Items, Sorted(q), AllEarlier(Contents(q), {x})
  PROVE  /\ Append(q, x) \in Seq(Items) /\ Sorted(Append(q, x))
         /\ Contents(Append(q, x)) = Contents(q) \cup {x}
<1> DEFINE a == Append(q, x)
<1>1. a \in Seq(Items) /\ Len(a) = Len(q) + 1 /\ DOMAIN a = 1 .. Len(q) + 1 /\ Len(q) \in Nat
  OBVIOUS
<1>2. a[Len(q) + 1] = x /\ \A n \in DOMAIN q : n \in 1 .. Len(q) /\ a[n] = q[n]
  OBVIOUS
<1>3. DOMAIN q = 1 .. Len(q)
  OBVIOUS
<1> HIDE DEF a
<1>4. Contents(a) = Contents(q) \cup {x}
  BY <1>1, <1>2, <1>3 DEF Contents
<1>5. Sorted(a)
  <2> SUFFICES ASSUME NEW m \in DOMAIN a, NEW n \in DOMAIN a, m < n PROVE Earlier(a[m], a[n])
    BY DEF Sorted
  <2>1. m \in DOMAIN q
    BY <1>1, <1>3
  <2>2. CASE n \in DOMAIN q
    BY <1>2, <2>1, <2>2 DEF Sorted
  <2>3. CASE n = Len(q) + 1
    BY <1>2, <2>1, <2>3 DEF AllEarlier, Contents
  <2>4. QED
    BY <1>1, <1>3, <2>2, <2>3
<1>6. QED
  BY <1>1, <1>4, <1>5 DEF a

LEMMA QueueTorn ==
  ASSUME NEW q \in Seq(Items), Sorted(q)
  PROVE  /\ <<Torn>> \o q \in Seq(Items) /\ Sorted(<<Torn>> \o q)
         /\ Contents(<<Torn>> \o q) = Contents(q) \cup {Torn}
<1> DEFINE t == <<Torn>> \o q
<1>1. Torn \in Items /\ ~Carries(Torn)
  BY ItemFacts
<1>2. <<Torn>> \in Seq(Items) /\ Len(<<Torn>>) = 1 /\ <<Torn>>[1] = Torn
  BY <1>1
<1>3. t \in Seq(Items) /\ Len(t) = Len(q) + 1 /\ DOMAIN t = 1 .. Len(q) + 1 /\ Len(q) \in Nat
  BY <1>2
<1>4. t[1] = Torn /\ \A n \in 2 .. Len(q) + 1 : n - 1 \in DOMAIN q /\ t[n] = q[n - 1]
  BY <1>2
<1>5. DOMAIN q = 1 .. Len(q)
  OBVIOUS
<1> HIDE DEF t
<1>6. Contents(t) = Contents(q) \cup {Torn}
  <2>1. ASSUME NEW n \in DOMAIN t PROVE t[n] \in Contents(q) \cup {Torn}
    BY <1>3, <1>4 DEF Contents
  <2>2. ASSUME NEW n \in DOMAIN q PROVE q[n] \in Contents(t)
    <3>1. n + 1 \in DOMAIN t /\ t[n + 1] = q[n]
      BY <1>3, <1>4, <1>5
    <3>2. QED
      BY <3>1 DEF Contents
  <2>3. Torn \in Contents(t)
    BY <1>3, <1>4 DEF Contents
  <2>4. QED
    BY <2>1, <2>2, <2>3 DEF Contents
<1>7. Sorted(t)
  <2> SUFFICES ASSUME NEW m \in DOMAIN t, NEW n \in DOMAIN t, m < n PROVE Earlier(t[m], t[n])
    BY DEF Sorted
  <2>1. CASE m = 1
    BY <1>1, <1>4, <2>1 DEF Earlier
  <2>2. CASE m # 1
    <3>1. m - 1 \in DOMAIN q /\ n - 1 \in DOMAIN q /\ t[m] = q[m - 1] /\ t[n] = q[n - 1] /\ m - 1 < n - 1
      BY <1>3, <1>4, <2>2
    <3>2. QED
      BY <3>1 DEF Sorted
  <2>3. QED
    BY <2>1, <2>2
<1>8. QED
  BY <1>3, <1>6, <1>7 DEF t

LEMMA LongTail == ASSUME NEW q \in Seq(Items), Len(q) > 1 PROVE Tail(q) # <<>>
<1>1. q # <<>> /\ Len(q) \in Nat
  OBVIOUS
<1>2. Tail(q) \in Seq(Items) /\ Len(Tail(q)) = Len(q) - 1
  BY <1>1
<1>3. 1 \in DOMAIN Tail(q)
  BY <1>1, <1>2
<1>4. DOMAIN <<>> = {}
  OBVIOUS
<1>5. QED
  BY <1>3, <1>4, Zenon

\* What remains of a queue that was read, or flushed, or torn.
Remains(q, old) ==
  /\ q \in Seq(Items) /\ Sorted(q)
  /\ \A x \in Contents(q) : x \in Contents(old) \/ x = Torn

LEMMA RemainsFacts ==
  /\ \A q \in Seq(Items) : Remains(<<>>, q) /\ Remains(<<Torn>>, q)
  /\ \A q \in Seq(Items) : Sorted(q) => Remains(q, q)
  /\ \A q \in Seq(Items) : Sorted(q) /\ q # <<>> => Remains(Tail(q), q) /\ Remains(AfterByte(q), q)
<1>1. ASSUME NEW q \in Seq(Items) PROVE Remains(<<>>, q)
  <2>1. <<>> \in Seq(Items) /\ DOMAIN <<>> = {}
    OBVIOUS
  <2>2. QED
    BY <2>1 DEF Remains, Sorted, Contents
<1>2. ASSUME NEW q \in Seq(Items) PROVE Remains(<<Torn>>, q)
  <2>1. <<Torn>> \in Seq(Items) /\ DOMAIN <<Torn>> = {1} /\ <<Torn>>[1] = Torn
    BY ItemFacts
  <2>2. QED
    BY <2>1 DEF Remains, Sorted, Contents
<1>3. ASSUME NEW q \in Seq(Items), Sorted(q), q # <<>>
      PROVE  Remains(Tail(q), q) /\ Remains(AfterByte(q), q)
  <2>1. Remains(Tail(q), q)
    BY <1>3, QueueTail DEF Remains
  <2>2. Remains(<<Torn>> \o Tail(q), q)
    BY <1>3, <2>1, QueueTorn DEF Remains
  <2>3. QED
    BY <2>1, <2>2 DEF AfterByte
<1>4. QED
  BY <1>1, <1>2, <1>3 DEF Remains

LEMMA RemainsOfRemains ==
  ASSUME NEW a, NEW b, NEW c, Remains(a, b), Remains(b, c)
  PROVE  Remains(a, c)
BY DEF Remains

\* Fewer items are still in order.
LEMMA ChainThinner ==
  ASSUME NEW h, NEW s, NEW p, NEW r, Chain(h, s, p, r), NEW h1, Remains(h1, h),
         NEW s1, s1 = s \/ ~Carries(s1)
  PROVE  Chain(h1, s1, p, r)
<1>1. ~Carries(Torn)
  BY ItemFacts
<1>2. QED
  BY <1>1 DEF Chain, Remains, AllEarlier, Earlier

\* Acknowledgements and interrupt messages go anywhere.
LEMMA ChainByte ==
  ASSUME NEW h \in Seq(Items), NEW s, NEW p, NEW r \in Seq(Items), Chain(h, s, p, r),
         NEW b \in Items, ~Carries(b)
  PROVE  Chain(Append(h, b), s, p, r) /\ Chain(h, s, p, Append(r, b))
<1>1. /\ Sorted(Append(h, b)) /\ Contents(Append(h, b)) = Contents(h) \cup {b}
      /\ Sorted(Append(r, b)) /\ Contents(Append(r, b)) = Contents(r) \cup {b}
  BY QueueAppend DEF Chain, AllEarlier, Earlier
<1>2. QED
  BY <1>1 DEF Chain, AllEarlier, Earlier

\* The host sends a message of the last command.
LEMMA ChainMessage ==
  ASSUME NEW h \in Seq(Items), NEW s, NEW p, NEW r \in Seq(Items), Chain(h, s, p, r),
         NEW x \in Items, AllEarlier(Contents(h) \cup Contents(r) \cup {s, p}, {x})
  PROVE  Chain(h, s, p, Append(r, x))
<1>1. Sorted(Append(r, x)) /\ Contents(Append(r, x)) = Contents(r) \cup {x}
  BY QueueAppend DEF Chain, AllEarlier
<1>2. QED
  BY <1>1 DEF Chain, AllEarlier

\* The reader takes an item; if it is a message it will answer it.
LEMMA ChainTaken ==
  ASSUME NEW h, NEW s, NEW p, NEW r \in Seq(Items), Chain(h, s, p, r), r # <<>>, ~Carries(p),
         NEW p1, p1 = p \/ (Carries(Head(r)) /\ p1.cmd = Head(r).cmd)
  PROVE  Chain(h, s, p1, Tail(r))
<1>1. /\ Sorted(Tail(r)) /\ Contents(Tail(r)) \subseteq Contents(r) /\ Head(r) \in Contents(r)
      /\ AllEarlier({Head(r)}, Contents(Tail(r)))
  BY QueueTail DEF Chain
<1>2. QED
  BY <1>1 DEF Chain, AllEarlier, Earlier

\* The reader sends a response, for the first time or again.
LEMMA ChainResponse ==
  ASSUME NEW h \in Seq(Items), NEW s, NEW p, NEW r, Chain(h, s, p, r),
         NEW x \in Items, Carries(x)
  PROVE  /\ Carries(p) /\ x.cmd = p.cmd /\ p.cmd \in Nat => Chain(Append(h, x), p, None, r)
         /\ Carries(s) /\ x.cmd = s.cmd /\ s.cmd \in Nat /\ ~Carries(p) => Chain(Append(h, x), s, p, r)
<1>1. ~Carries(None)
  BY ItemFacts
<1>2. ASSUME Carries(p), x.cmd = p.cmd, p.cmd \in Nat PROVE Chain(Append(h, x), p, None, r)
  <2>1. AllEarlier(Contents(h), {x})
    BY <1>2 DEF Chain, AllEarlier, Earlier
  <2>2. Sorted(Append(h, x)) /\ Contents(Append(h, x)) = Contents(h) \cup {x}
    BY <2>1, QueueAppend DEF Chain
  <2>3. QED
    BY <1>1, <1>2, <2>2 DEF Chain, AllEarlier, Earlier
<1>3. ASSUME Carries(s), x.cmd = s.cmd, s.cmd \in Nat, ~Carries(p) PROVE Chain(Append(h, x), s, p, r)
  <2>1. AllEarlier(Contents(h), {x})
    BY <1>3 DEF Chain, AllEarlier, Earlier
  <2>2. Sorted(Append(h, x)) /\ Contents(Append(h, x)) = Contents(h) \cup {x}
    BY <2>1, QueueAppend DEF Chain
  <2>3. QED
    BY <1>3, <2>2 DEF Chain, AllEarlier, Earlier
<1>4. QED
  BY <1>2, <1>3

-----------------------------------------------------------------------------
(* Sequence numbers.                                                       *)

\* Two commands less than SeqModulus apart have different numbers.
LEMMA CountedApart ==
  ASSUME NEW a \in Nat, NEW b \in Nat, NEW s, Counted(a, s), Counted(b, s),
         a <= b, b - a < SeqModulus
  PROVE  a = b
<1>1. PICK k \in Nat, l \in Nat : a = k * SeqModulus + s /\ b = l * SeqModulus + s
  BY DEF Counted
<1>2. s \in Int /\ SeqModulus \in Nat /\ SeqModulus > 1
  BY ConstantFacts DEF Counted
<1>3. k = l
  <2>1. CASE k < l
    <3>1. l >= k + 1
      BY <2>1
    <3>2. l * SeqModulus >= (k + 1) * SeqModulus
      BY <1>2, <3>1
    <3>3. (k + 1) * SeqModulus = k * SeqModulus + SeqModulus
      BY <1>2
    <3>4. QED
      BY <1>1, <1>2, <3>2, <3>3
  <2>2. CASE k > l
    <3>1. k >= l + 1
      BY <2>2
    <3>2. k * SeqModulus >= (l + 1) * SeqModulus
      BY <1>2, <3>1
    <3>3. (l + 1) * SeqModulus = l * SeqModulus + SeqModulus
      BY <1>2
    <3>4. QED
      BY <1>1, <1>2, <3>2, <3>3
  <2>3. QED
    BY <2>1, <2>2
<1>4. QED
  BY <1>1, <1>3

\* seq' = (seq + 1) % SeqModulus
LEMMA CountedNext ==
  ASSUME NEW a \in Nat, NEW s, Counted(a, s)
  PROVE  Counted(a + 1, (s + 1) % SeqModulus)
<1>1. PICK k \in Nat : a = k * SeqModulus + s
  BY DEF Counted
<1>2. s \in 0 .. SeqModulus - 1 /\ SeqModulus \in Nat /\ SeqModulus > 1
  BY ConstantFacts DEF Counted
<1>3. CASE s + 1 < SeqModulus
  <2>1. (s + 1) % SeqModulus = s + 1
    BY <1>2, <1>3
  <2>2. a + 1 = k * SeqModulus + (s + 1)
    BY <1>1, <1>2
  <2>3. (s + 1) \in 0 .. SeqModulus - 1 /\ \E j \in Nat : a + 1 = j * SeqModulus + (s + 1)
    BY <1>2, <1>3, <2>2
  <2>4. QED
    BY <2>1, <2>3 DEF Counted
<1>4. CASE s + 1 = SeqModulus
  <2>1. (s + 1) % SeqModulus = 0
    BY <1>2, <1>4
  <2>2. a + 1 = (k + 1) * SeqModulus + 0
    BY <1>1, <1>2, <1>4
  <2>3. k + 1 \in Nat /\ 0 \in 0 .. SeqModulus - 1
    BY <1>2
  <2>4. \E j \in Nat : a + 1 = j * SeqModulus + 0
    BY <2>2, <2>3
  <2>5. QED
    BY <2>1, <2>3, <2>4 DEF Counted
<1>5. QED
  BY <1>2, <1>3, <1>4
-----------------------------------------------------------------------------
(* What the steps have in common.                                          *)

\* i says nothing new: what it belongs to was under way before.
Known(i) == ~Carries(i) \/ \E j \in Underway : Carries(j) /\ i.cmd = j.cmd /\ i.seq = j.seq

LEMMA KnownFacts ==
  /\ \A i \in Underway : Known(i)
  /\ \A i : ~Carries(i) => Known(i)
BY DEF Known

\* No transfer begins or ends.
LEMMA SameTransfer ==
  ASSUME IInv, UNCHANGED <<seq, calls, mistaken>>,
         UNCHANGED <<pc, result>> \/ (pc # "idle" /\ pc' # "idle"),
         TypesOK', InOrder', \A i \in Underway' : Known(i) \/ Numbered(i, Oldest, calls)
  PROVE  IInv'
<1>1. Oldest' = Oldest
  BY DEF Oldest
<1>2. ASSUME NEW i \in Underway' PROVE Numbered(i, Oldest, calls)
  BY DEF IInv, AllNumbered, Known, Numbered
<1>3. AllNumbered'
  BY <1>1, <1>2 DEF AllNumbered, Numbered
<1>4. SequenceOK'
  BY DEF IInv, SequenceOK
<1>5. OwnAnswer'
  BY DEF IInv, OwnAnswer
<1>6. QED
  BY <1>3, <1>4, <1>5 DEF IInv

LEMMA ByteToReader ==
  ASSUME NEW t \in {"ack", "nak"}, SendByte(toReader, t), damaged \in Nat
  PROVE  /\ damaged' \in Nat
         /\ \E b \in Items : ~Carries(b) /\ toReader' = Append(toReader, b)
<1>1. PICK u \in {"ack", "nak"} : toReader' = Append(toReader, Byte(u)) /\ damaged' \in Nat
  BY DEF SendByte
<1>2. QED
  BY <1>1, ItemFacts

LEMMA ByteToHost ==
  ASSUME NEW t \in {"ack", "nak"}, SendByte(toHost, t), damaged \in Nat
  PROVE  /\ damaged' \in Nat
         /\ \E b \in Items : ~Carries(b) /\ toHost' = Append(toHost, b)
<1>1. PICK u \in {"ack", "nak"} : toHost' = Append(toHost, Byte(u)) /\ damaged' \in Nat
  BY DEF SendByte
<1>2. QED
  BY <1>1, ItemFacts

\* x is message i as it arrives.
Arrives(x, i) == x \in Items /\ Carries(x) /\ x.cmd = i.cmd /\ x.seq = i.seq

LEMMA ArrivesFacts ==
  ASSUME NEW i \in Items, Carries(i)
  PROVE  Arrives(i, i) /\ Arrives([i EXCEPT !.type = "bad"], i)
BY DEF Arrives, Items, Carries

LEMMA MessageToReader ==
  ASSUME NEW i \in Items, Carries(i), SendMessage(toReader, i), damaged \in Nat
  PROVE  damaged' \in Nat /\ \E x : Arrives(x, i) /\ toReader' = Append(toReader, x)
<1>1. damaged' \in Nat
  BY DEF SendMessage
<1>2. toReader' = Append(toReader, i) \/ toReader' = Append(toReader, [i EXCEPT !.type = "bad"])
  BY DEF SendMessage
<1>3. QED
  BY <1>1, <1>2, ArrivesFacts

LEMMA MessageToHost ==
  ASSUME NEW i \in Items, Carries(i), SendMessage(toHost, i), damaged \in Nat
  PROVE  damaged' \in Nat /\ \E x : Arrives(x, i) /\ toHost' = Append(toHost, x)
<1>1. damaged' \in Nat
  BY DEF SendMessage
<1>2. toHost' = Append(toHost, i) \/ toHost' = Append(toHost, [i EXCEPT !.type = "bad"])
  BY DEF SendMessage
<1>3. QED
  BY <1>1, <1>2, ArrivesFacts

\* Some of the line to the host is read, and perhaps a byte sent.
LEMMA HostReads ==
  ASSUME IInv, Remains(toHost', toHost),
         \/ UNCHANGED toReader
         \/ \E b \in Items : ~Carries(b) /\ toReader' = Append(toReader, b),
         UNCHANGED <<sent, pending>>
  PROVE  /\ InOrder' /\ toHost' \in Seq(Items) /\ toReader' \in Seq(Items)
         /\ \A i \in Underway' : i \in Underway \/ ~Carries(i)
         /\ \A i \in Contents(toReader') : i \in Contents(toReader) \/ ~Carries(i)
<1>1. Chain(toHost, sent, pending, toReader) /\ toHost \in Seq(Items) /\ toReader \in Seq(Items)
  BY DEF IInv, InOrder, TypesOK
<1>2. Chain(toHost', sent, pending, toReader)
  BY <1>1, ChainThinner
<1>3. toHost' \in Seq(Items) /\ \A i \in Contents(toHost') : i \in Contents(toHost) \/ ~Carries(i)
  BY ItemFacts DEF Remains
<1>4. CASE UNCHANGED toReader
  BY <1>1, <1>2, <1>3, <1>4 DEF InOrder, Underway
<1>5. ASSUME NEW b \in Items, ~Carries(b), toReader' = Append(toReader, b)
      PROVE  /\ InOrder' /\ toHost' \in Seq(Items) /\ toReader' \in Seq(Items)
             /\ \A i \in Underway' : i \in Underway \/ ~Carries(i)
             /\ \A i \in Contents(toReader') : i \in Contents(toReader) \/ ~Carries(i)
  <2>1. Chain(toHost', sent, pending, Append(toReader, b))
    BY <1>1, <1>2, <1>3, <1>5, ChainByte
  <2>2. /\ Append(toReader, b) \in Seq(Items)
        /\ Contents(Append(toReader, b)) = Contents(toReader) \cup {b}
    BY <1>1, <1>5, QueueAppend DEF Chain, AllEarlier, Earlier
  <2>3. QED
    BY <1>3, <1>5, <2>1, <2>2 DEF InOrder, Underway
<1>6. QED
  BY <1>4, <1>5

-----------------------------------------------------------------------------
(* The host.                                                               *)

LEMMA TransferStep == ASSUME IInv, Transfer PROVE IInv'
<1>1. /\ pc = "idle" /\ pc' = "send" /\ calls < MaxCalls /\ calls' = calls + 1
      /\ UNCHANGED <<link, seq, toReader, toHost, pending, sent, executed, mistaken, interrupts, damaged>>
  BY DEF Transfer
<1>2. calls \in Nat /\ mistaken \in Nat /\ MaxCalls \in Nat /\ calls <= MaxCalls
  BY ConstantFacts DEF IInv, TypesOK
<1>3. TypesOK'
  BY <1>1, <1>2 DEF IInv, TypesOK
<1>4. SequenceOK'
  <2>1. calls' - 1 = calls /\ calls' >= 1
    BY <1>1, <1>2
  <2>2. QED
    BY <1>1, <2>1 DEF IInv, SequenceOK
<1>5. Oldest' = Oldest /\ calls' >= calls /\ calls' \in Nat
  BY <1>1, <1>2 DEF Oldest
<1>6. AllNumbered'
  <2> SUFFICES ASSUME NEW i \in Underway', Carries(i)
               PROVE  i.cmd \in 1 .. calls' /\ i.cmd >= Oldest' /\ Counted(i.cmd - 1, i.seq)
    BY DEF AllNumbered, Numbered
  <2>1. i \in Underway
    BY <1>1 DEF Underway
  <2>2. i.cmd \in 1 .. calls /\ i.cmd >= Oldest /\ Counted(i.cmd - 1, i.seq)
    BY <2>1 DEF IInv, AllNumbered, Numbered
  <2>3. QED
    BY <1>2, <1>5, <2>2
<1>7. InOrder' /\ OwnAnswer'
  BY <1>1 DEF IInv, InOrder, OwnAnswer
<1>8. QED
  BY <1>3, <1>4, <1>6, <1>7 DEF IInv

LEMMA WriteMessageStep == ASSUME IInv, WriteMessage PROVE IInv'
<1> DEFINE m == Item("msg", seq, calls)
<1>1. /\ pc = "send" /\ pc' \in {"read", "ack"}
      /\ SendMessage(toReader, m)
      /\ UNCHANGED <<link, seq, calls, result, toHost, pending, sent, executed, mistaken, interrupts>>
  BY DEF WriteMessage
<1>2. /\ calls \in Nat /\ calls >= 1 /\ mistaken \in Nat
      /\ seq \in 0 .. SeqModulus - 1 /\ Counted(calls - 1, seq)
  BY <1>1, ConstantFacts DEF IInv, TypesOK, SequenceOK, Counted
<1>3. m \in Items /\ Carries(m) /\ m.cmd = calls /\ m.seq = seq
  BY <1>2, ConstantFacts DEF Item, Items, Carries
<1> HIDE DEF m
<1>4. PICK x : Arrives(x, m) /\ toReader' = Append(toReader, x)
  BY <1>1, <1>3, MessageToReader DEF IInv, TypesOK
<1>5. damaged' \in Nat
  BY <1>1, <1>3, MessageToReader DEF IInv, TypesOK
<1>6. Numbered(x, Oldest, calls)
  <2>1. Oldest <= calls /\ calls \in 1 .. calls
    BY <1>2 DEF Oldest
  <2>2. QED
    BY <1>2, <1>3, <1>4, <2>1 DEF Arrives, Numbered
<1>7. AllEarlier(Contents(toHost) \cup Contents(toReader) \cup {sent, pending}, {x})
  <2> SUFFICES ASSUME NEW i \in Underway, Carries(i) PROVE i.cmd <= x.cmd
    BY DEF AllEarlier, Earlier, Underway
  <2>1. i.cmd \in 1 .. calls
    BY DEF IInv, AllNumbered, Numbered
  <2>2. QED
    BY <1>2, <1>3, <1>4, <2>1 DEF Arrives
<1>8. /\ Append(toReader, x) \in Seq(Items)
      /\ Contents(Append(toReader, x)) = Contents(toReader) \cup {x}
  BY <1>4, <1>7, QueueAppend DEF Arrives, IInv, TypesOK, InOrder, Chain, AllEarlier
<1>9. InOrder'
  BY <1>1, <1>4, <1>7, ChainMessage DEF Arrives, IInv, TypesOK, InOrder
<1>10. TypesOK'
  BY <1>1, <1>4, <1>5, <1>8 DEF IInv, TypesOK
<1>11. \A i \in Underway' : i \in Underway \/ i = x
  BY <1>1, <1>4, <1>8 DEF Underway
<1>12. QED
  BY <1>1, <1>6, <1>9, <1>10, <1>11, KnownFacts, SameTransfer

\* The steps that read something other than the response.
LEMMA ReadStep ==
  ASSUME IInv, Remains(toHost', toHost), damaged' \in Nat,
         \/ UNCHANGED toReader
         \/ \E b \in Items : ~Carries(b) /\ toReader' = Append(toReader, b),
         UNCHANGED <<link, seq, calls, pending, sent, executed, mistaken, interrupts>>,
         pc' \in {"send", "read", "failed"},
         UNCHANGED <<pc, result>> \/ (pc # "idle" /\ pc' # "idle")
  PROVE  IInv'
<1>1. /\ InOrder' /\ toHost' \in Seq(Items) /\ toReader' \in Seq(Items)
      /\ \A i \in Underway' : i \in Underway \/ ~Carries(i)
  BY HostReads
<1>2. TypesOK'
  BY <1>1 DEF IInv, TypesOK
<1>3. \A i \in Underway' : Known(i)
  BY <1>1, KnownFacts
<1>4. QED
  BY <1>1, <1>2, <1>3, SameTransfer

LEMMA ReadAckStep == ASSUME IInv, ReadAck PROVE IInv'
<1>1. /\ pc = "ack" /\ toHost # <<>> /\ pc' \in {"read", "send"}
      /\ UNCHANGED <<link, seq, calls, result, toReader, pending, sent, executed, mistaken, interrupts, damaged>>
      /\ toHost' \in {AfterByte(toHost), <<>>, <<Torn>>}
  BY DEF ReadAck, NotAck
<1>2. Remains(toHost', toHost)
  BY <1>1, RemainsFacts DEF IInv, TypesOK, InOrder, Chain
<1>3. QED
  BY <1>1, <1>2, ReadStep DEF IInv, TypesOK

LEMMA ReadCorruptStep == ASSUME IInv, ReadCorrupt PROVE IInv'
<1>1. /\ pc = "read" /\ toHost # <<>> /\ toHost' = Tail(toHost) /\ SendByte(toReader, "nak")
      /\ UNCHANGED <<pc, result, link, seq, calls, pending, sent, executed, mistaken, interrupts>>
  BY DEF ReadCorrupt, ReadOn
<1>2. Remains(toHost', toHost)
  BY <1>1, RemainsFacts DEF IInv, TypesOK, InOrder, Chain
<1>3. damaged' \in Nat /\ \E b \in Items : ~Carries(b) /\ toReader' = Append(toReader, b)
  BY <1>1, ByteToReader DEF IInv, TypesOK
<1>4. QED
  BY <1>1, <1>2, <1>3, ReadStep

LEMMA ReadStrayByteStep == ASSUME IInv, ReadStrayByte PROVE IInv'
<1> DEFINE rest == AfterByte(Tail(toHost))
<1>1. /\ pc = "read" /\ toHost # <<>> /\ Len(toHost) > 1 /\ SendByte(toReader, "nak")
      /\ UNCHANGED <<pc, result, link, seq, calls, pending, sent, executed, mistaken, interrupts>>
      /\ rest # <<>> /\ toHost' \in {rest, AfterByte(rest)}
  BY DEF ReadStrayByte, ReadOn
<1>2. Remains(Tail(toHost), toHost) /\ Tail(toHost) # <<>>
  BY <1>1, RemainsFacts, LongTail DEF IInv, TypesOK, InOrder, Chain
<1>3. Remains(rest, Tail(toHost))
  BY <1>2, RemainsFacts DEF Remains
<1> HIDE DEF rest
<1>4. Remains(AfterByte(rest), rest)
  BY <1>1, <1>3, RemainsFacts DEF Remains
<1>5. Remains(toHost', toHost)
  BY <1>1, <1>2, <1>3, <1>4, RemainsOfRemains
<1>6. damaged' \in Nat /\ \E b \in Items : ~Carries(b) /\ toReader' = Append(toReader, b)
  BY <1>1, ByteToReader DEF IInv, TypesOK
<1>7. QED
  BY <1>1, <1>5, <1>6, ReadStep

LEMMA ReadTornStep == ASSUME IInv, ReadTorn PROVE IInv'
<1>1. /\ pc = "read" /\ toHost # <<>>
      /\ UNCHANGED <<link, calls, pending, sent, executed, mistaken, interrupts>>
  BY DEF ReadTorn
<1>2. Remains(Tail(toHost), toHost) /\ Remains(<<>>, toHost)
  BY <1>1, RemainsFacts DEF IInv, TypesOK, InOrder, Chain
<1>3. CASE pc' = "failed" /\ toHost' = <<>> /\ UNCHANGED <<seq, result, toReader, damaged>>
  BY <1>1, <1>2, <1>3, ReadStep DEF IInv, TypesOK
<1>4. CASE /\ toHost' \in {Tail(toHost), IF Len(toHost) > 1 THEN <<Torn>> \o Tail(Tail(toHost)) ELSE <<>>}
           /\ SendByte(toReader, "nak")
           /\ ReadOn
  <2>1. ASSUME Len(toHost) > 1 PROVE Remains(<<Torn>> \o Tail(Tail(toHost)), toHost)
    <3>1. Tail(toHost) # <<>>
      BY <2>1, LongTail DEF IInv, TypesOK
    <3>2. Remains(Tail(Tail(toHost)), toHost)
      BY <1>2, <3>1, RemainsFacts, RemainsOfRemains DEF Remains
    <3> DEFINE t == Tail(Tail(toHost))
    <3> HIDE DEF t
    <3>3. t \in Seq(Items) /\ Sorted(t) /\ \A x \in Contents(t) : x \in Contents(toHost) \/ x = Torn
      BY <3>2 DEF Remains, t
    <3>4. Remains(<<Torn>> \o t, toHost)
      BY <3>3, QueueTorn DEF Remains
    <3>5. QED
      BY <3>4 DEF t
  <2>2. Remains(toHost', toHost)
    BY <1>2, <1>4, <2>1
  <2>3. damaged' \in Nat /\ \E b \in Items : ~Carries(b) /\ toReader' = Append(toReader, b)
    BY <1>4, ByteToReader DEF IInv, TypesOK
  <2>4. QED
    BY <1>1, <1>4, <2>2, <2>3, ReadStep DEF ReadOn
<1>5. QED
  BY <1>3, <1>4 DEF ReadTorn

LEMMA LineFailsStep == ASSUME IInv, LineFails PROVE IInv'
<1>1. /\ pc # "idle" /\ pc' = "failed"
      /\ UNCHANGED <<link, seq, calls, result, toReader, toHost, pending, sent, executed, mistaken,
                     interrupts, damaged>>
  BY DEF LineFails
<1>2. Remains(toHost', toHost)
  BY <1>1, RemainsFacts DEF IInv, TypesOK, InOrder, Chain
<1>3. QED
  BY <1>1, <1>2, ReadStep DEF IInv, TypesOK

\* The transfer ends, with its response or with an interrupt message.
LEMMA ReturnSequence ==
  ASSUME IInv, pc = "read", NEW r, Return(r), UNCHANGED calls
  PROVE  SequenceOK'
<1>1. Counted(calls - 1, seq) /\ calls \in Nat /\ calls >= 1
  BY DEF IInv, SequenceOK, TypesOK
<1>2. Counted((calls - 1) + 1, (seq + 1) % SeqModulus)
  BY <1>1, CountedNext
<1>3. (calls - 1) + 1 = calls
  BY <1>1
<1>4. QED
  BY <1>2, <1>3 DEF Return, SequenceOK

LEMMA ReadInterruptStep == ASSUME IInv, NEW match \in BOOLEAN, ReadInterrupt(match) PROVE IInv'
<1>1. /\ pc = "read" /\ toHost # <<>> /\ Head(toHost).type = "int" /\ toHost' = Tail(toHost)
      /\ UNCHANGED <<link, calls, toReader, pending, sent, executed, interrupts, damaged>>
      /\ mistaken' = IF match THEN mistaken + 1 ELSE mistaken
  BY DEF ReadInterrupt
<1>2. Remains(toHost', toHost)
  BY <1>1, RemainsFacts DEF IInv, TypesOK, InOrder, Chain
<1>3. CASE ~match
  <2>1. UNCHANGED <<pc, seq, result, mistaken>>
    BY <1>1, <1>3 DEF ReadInterrupt, ReadOn
  <2>2. QED
    BY <1>1, <1>2, <2>1, ReadStep DEF IInv, TypesOK
<1>4. CASE match
  <2>1. Return(Head(toHost)) /\ pc' = "idle" /\ result' = Head(toHost) /\ mistaken' = mistaken + 1
    BY <1>1, <1>4 DEF ReadInterrupt, Return
  <2>2. SequenceOK'
    BY <1>1, <2>1, ReturnSequence
  <2>3. InOrder' /\ toHost' \in Seq(Items) /\ \A i \in Underway' : i \in Underway \/ ~Carries(i)
    BY <1>1, <1>2, HostReads
  <2>4. TypesOK'
    BY <1>1, <2>1, <2>3 DEF IInv, TypesOK
  <2>5. Oldest' = Oldest \/ Oldest' = 0
    BY <1>1, <2>1, ConstantFacts DEF Oldest, IInv, TypesOK
  <2>6. AllNumbered'
    <3> SUFFICES ASSUME NEW i \in Underway', Carries(i)
                 PROVE  i.cmd \in 1 .. calls /\ i.cmd >= Oldest' /\ Counted(i.cmd - 1, i.seq)
      BY <1>1 DEF AllNumbered, Numbered
    <3>1. i.cmd \in 1 .. calls /\ i.cmd >= Oldest /\ Counted(i.cmd - 1, i.seq)
      BY <2>3 DEF IInv, AllNumbered, Numbered
    <3>2. QED
      BY <2>5, <3>1 DEF IInv, TypesOK
  <2>7. OwnAnswer'
    BY <1>1, <2>1 DEF OwnAnswer
  <2>8. QED
    BY <2>2, <2>3, <2>4, <2>6, <2>7 DEF IInv
<1>5. QED
  BY <1>3, <1>4

LEMMA ReadResponseStep == ASSUME IInv, ReadResponse PROVE IInv'
<1> DEFINE x == Head(toHost)
<1>1. /\ pc = "read" /\ toHost # <<>> /\ x.type = "rsp" /\ toHost' = Tail(toHost) /\ Accept(x)
      /\ UNCHANGED <<link, calls, pending, sent, executed, mistaken, interrupts>>
      /\ UNCHANGED <<toReader, damaged>> \/ SendByte(toReader, "ack")
  BY DEF ReadResponse
<1>2. /\ Remains(toHost', toHost) /\ x \in Contents(toHost) /\ x \in Items /\ x \in Underway
      /\ AllEarlier({x}, Contents(toHost'))
  BY <1>1, RemainsFacts, QueueTail DEF IInv, TypesOK, InOrder, Chain, Underway
<1>3. /\ damaged' \in Nat
      /\ UNCHANGED toReader \/ \E b \in Items : ~Carries(b) /\ toReader' = Append(toReader, b)
  BY <1>1, ByteToReader DEF IInv, TypesOK
<1>4. CASE x.seq # seq
  <2>1. UNCHANGED <<pc, seq, result>>
    BY <1>1, <1>4 DEF Accept, ReadOn
  <2>2. QED
    BY <1>1, <1>2, <1>3, <2>1, ReadStep
<1>5. CASE x.seq = seq
  <2>1. Return(x) /\ pc' = "idle" /\ result' = x
    BY <1>1, <1>5 DEF Accept, Return
  <2>2. SequenceOK'
    BY <1>1, <2>1, ReturnSequence
  <2>3. /\ InOrder' /\ toHost' \in Seq(Items) /\ toReader' \in Seq(Items)
        /\ \A i \in Underway' : i \in Underway \/ ~Carries(i)
    BY <1>1, <1>2, <1>3, HostReads
  <2>4. TypesOK'
    BY <1>1, <1>3, <2>1, <2>3 DEF IInv, TypesOK
  <2>5. /\ Carries(x) /\ x.cmd \in 1 .. calls
        /\ mistaken < SeqModulus - 1 => x.cmd >= calls - mistaken - 1
        /\ Counted(x.cmd - 1, x.seq)
        /\ calls \in Nat /\ mistaken \in Nat /\ calls >= 1 /\ Counted(calls - 1, seq)
    BY <1>1, <1>2 DEF IInv, AllNumbered, Numbered, Oldest, Carries, TypesOK, SequenceOK
  <2>6. mistaken < SeqModulus - 1 => x.cmd = calls
    <3>1. x.cmd - 1 \in Nat /\ calls - 1 \in Nat /\ x.cmd - 1 <= calls - 1
      BY <2>5
    <3>2. mistaken < SeqModulus - 1 => (calls - 1) - (x.cmd - 1) < SeqModulus
      BY <2>5, ConstantFacts
    <3>3. mistaken < SeqModulus - 1 => x.cmd - 1 = calls - 1
      BY <1>5, <2>5, <3>1, <3>2, CountedApart
    <3>4. QED
      BY <2>5, <3>3
  <2>7. OwnAnswer'
    BY <1>1, <2>1, <2>6 DEF OwnAnswer
  <2>8. ASSUME NEW i \in Underway', Carries(i) PROVE x.cmd <= i.cmd /\ i \in Underway
    <3>1. i \in Contents(toHost') \cup {sent, pending} \cup Contents(toReader)
      BY <1>1, <1>2, <1>3, <2>8, HostReads DEF Underway
    <3>2. Earlier(x, i)
      BY <1>2, <3>1 DEF IInv, InOrder, Chain, AllEarlier
    <3>3. QED
      BY <1>1, <2>3, <2>5, <2>8, <3>2 DEF Earlier
  <2>9. AllNumbered'
    <3> SUFFICES ASSUME NEW i \in Underway', Carries(i)
                 PROVE  i.cmd \in 1 .. calls /\ i.cmd >= Oldest' /\ Counted(i.cmd - 1, i.seq)
      BY <1>1 DEF AllNumbered, Numbered
    <3>1. i.cmd \in 1 .. calls /\ Counted(i.cmd - 1, i.seq)
      BY <2>8 DEF IInv, AllNumbered, Numbered
    <3>2. Oldest' = IF mistaken < SeqModulus - 1 THEN calls - mistaken ELSE 0
      BY <1>1, <2>1, <2>5 DEF Oldest
    <3>3. QED
      BY <2>5, <2>6, <2>8, <3>1, <3>2
  <2>10. QED
    BY <2>2, <2>3, <2>4, <2>7, <2>9 DEF IInv
<1>6. QED
  BY <1>4, <1>5

-----------------------------------------------------------------------------
(* The reader.                                                             *)

\* A message and the answer to it.
LEMMA AnswerFacts ==
  ASSUME NEW i \in Items, i.type = "msg"
  PROVE  LET a == [i EXCEPT !.type = "rsp"]
         IN  a \in Items /\ a.type = "rsp" /\ Carries(a) /\ a.cmd = i.cmd /\ a.seq = i.seq
BY DEF Items, Carries

\* The steps of the reader, which leave the host alone.
LEMMA ReaderStep ==
  ASSUME IInv, UNCHANGED <<link, pc, seq, calls, result, mistaken>>,
         interrupts' \in Nat, damaged' \in Nat, executed' \in [1 .. MaxCalls -> Nat],
         toHost' \in Seq(Items), toReader' \in Seq(Items), pending' \in Items, sent' \in Items,
         pending' = None \/ pending'.type = "rsp", sent' = None \/ sent'.type = "rsp",
         InOrder', \A i \in Underway' : Known(i)
  PROVE  IInv'
<1>1. TypesOK'
  BY DEF IInv, TypesOK
<1>2. QED
  BY <1>1, SameTransfer

\* The reader's acknowledgement comes behind everything on the line.
LEMMA ByteSent ==
  ASSUME IInv, NEW p, NEW r, Chain(toHost, sent, p, r), r \in Seq(Items),
         \/ UNCHANGED toHost
         \/ \E b \in Items : ~Carries(b) /\ toHost' = Append(toHost, b)
  PROVE  /\ Chain(toHost', sent, p, r) /\ toHost' \in Seq(Items)
         /\ \A i \in Contents(toHost') : i \in Contents(toHost) \/ ~Carries(i)
<1>1. toHost \in Seq(Items)
  BY DEF IInv, TypesOK
<1>2. CASE UNCHANGED toHost
  BY <1>1, <1>2
<1>3. ASSUME NEW b \in Items, ~Carries(b), toHost' = Append(toHost, b)
      PROVE  /\ Chain(toHost', sent, p, r) /\ toHost' \in Seq(Items)
             /\ \A i \in Contents(toHost') : i \in Contents(toHost) \/ ~Carries(i)
  <2>1. Chain(Append(toHost, b), sent, p, r)
    BY <1>1, <1>3, ChainByte
  <2>2. Append(toHost, b) \in Seq(Items) /\ Contents(Append(toHost, b)) = Contents(toHost) \cup {b}
    BY <1>1, <1>3, QueueAppend DEF Chain, AllEarlier, Earlier
  <2>3. QED
    BY <1>3, <2>1, <2>2
<1>4. QED
  BY <1>2, <1>3

LEMMA ReaderGetsStep == ASSUME IInv, ReaderGets PROVE IInv'
<1> DEFINE i == Head(toReader)
<1>1. /\ toReader # <<>> /\ pending = None /\ i.type \in {"msg", "bad"}
      /\ toReader' = Tail(toReader)
      /\ UNCHANGED <<link, pc, seq, calls, result, sent, mistaken, interrupts>>
  BY DEF ReaderGets
<1>2. \/ /\ i.type = "msg" /\ executed' = [executed EXCEPT ![i.cmd] = @ + 1]
         /\ pending' = [i EXCEPT !.type = "rsp"]
         /\ UNCHANGED <<toHost, damaged>> \/ SendByte(toHost, "ack")
      \/ i.type = "bad" /\ SendByte(toHost, "nak") /\ UNCHANGED <<executed, pending>>
  BY <1>1 DEF ReaderGets
<1>3. /\ toReader \in Seq(Items) /\ Chain(toHost, sent, pending, toReader) /\ ~Carries(pending)
      /\ sent \in Items /\ (sent = None \/ sent.type = "rsp") /\ damaged \in Nat
  BY <1>1, ItemFacts DEF IInv, TypesOK, InOrder
<1>4. /\ i \in Items /\ i \in Contents(toReader) /\ i \in Underway /\ Carries(i)
      /\ Tail(toReader) \in Seq(Items) /\ Contents(Tail(toReader)) \subseteq Contents(toReader)
  BY <1>1, <1>3, QueueTail DEF Chain, Underway, Carries
<1>5. i.cmd \in 1 .. MaxCalls
  <2>1. i.cmd \in 1 .. calls /\ calls \in 0 .. MaxCalls
    BY <1>4 DEF IInv, AllNumbered, Numbered, TypesOK
  <2>2. QED
    BY <2>1, ConstantFacts
<1> HIDE DEF i
<1>6. executed' \in [1 .. MaxCalls -> Nat]
  BY <1>2, <1>5 DEF IInv, TypesOK
<1>7. /\ pending' \in Items /\ (pending' = None \/ pending'.type = "rsp")
      /\ pending' = pending \/ (Carries(i) /\ pending'.cmd = i.cmd /\ pending'.seq = i.seq)
  BY <1>1, <1>2, <1>3, <1>4, AnswerFacts, ItemFacts
<1>8. Chain(toHost, sent, pending', Tail(toReader))
  BY <1>1, <1>3, <1>7, ChainTaken DEF i
<1>9. /\ damaged' \in Nat
      /\ UNCHANGED toHost \/ \E b \in Items : ~Carries(b) /\ toHost' = Append(toHost, b)
  BY <1>2, <1>3, ByteToHost
<1>10. /\ Chain(toHost', sent, pending', Tail(toReader)) /\ toHost' \in Seq(Items)
       /\ \A j \in Contents(toHost') : j \in Contents(toHost) \/ ~Carries(j)
  BY <1>4, <1>8, <1>9, ByteSent
<1>11. \A j \in Underway' : Known(j)
  <2> SUFFICES ASSUME NEW j \in Underway' PROVE Known(j)
    OBVIOUS
  <2>1. CASE j \in Contents(toHost')
    BY <1>10, <2>1, KnownFacts DEF Underway
  <2>2. CASE j \in Contents(toReader')
    BY <1>1, <1>4, <2>2, KnownFacts DEF Underway
  <2>3. CASE j = sent'
    BY <1>1, <2>3, KnownFacts DEF Underway
  <2>4. CASE j = pending'
    <3>1. CASE pending' = pending
      BY <2>4, <3>1, KnownFacts DEF Underway
    <3>2. CASE pending'.cmd = i.cmd /\ pending'.seq = i.seq
      BY <1>4, <2>4, <3>2 DEF Known
    <3>3. QED
      BY <1>7, <3>1, <3>2
  <2>5. QED
    BY <2>1, <2>2, <2>3, <2>4 DEF Underway
<1>12. InOrder'
  BY <1>1, <1>10 DEF InOrder
<1>13. interrupts' \in Nat /\ sent' \in Items /\ (sent' = None \/ sent'.type = "rsp")
       /\ toReader' \in Seq(Items)
  BY <1>1, <1>3, <1>4 DEF IInv, TypesOK
<1>14. QED
  BY <1>1, <1>6, <1>7, <1>9, <1>10, <1>11, <1>12, <1>13, ReaderStep

LEMMA ReaderAnswersStep == ASSUME IInv, ReaderAnswers PROVE IInv'
<1>1. /\ pending # None /\ SendMessage(toHost, pending) /\ sent' = pending /\ pending' = None
      /\ UNCHANGED <<link, pc, seq, calls, result, toReader, executed, mistaken, interrupts>>
  BY DEF ReaderAnswers
<1>2. /\ pending \in Items /\ pending.type = "rsp" /\ Carries(pending) /\ pending.cmd \in Nat
      /\ toHost \in Seq(Items) /\ Chain(toHost, sent, pending, toReader)
  BY <1>1 DEF IInv, TypesOK, InOrder, Carries, Items
<1>3. PICK x : Arrives(x, pending) /\ toHost' = Append(toHost, x)
  BY <1>1, <1>2, MessageToHost DEF IInv, TypesOK
<1>4. damaged' \in Nat
  BY <1>1, <1>2, MessageToHost DEF IInv, TypesOK
<1>5. Chain(Append(toHost, x), pending, None, toReader)
  BY <1>2, <1>3, ChainResponse DEF Arrives
<1>6. InOrder'
  BY <1>1, <1>3, <1>5 DEF InOrder
<1>7. AllEarlier(Contents(toHost), {x})
  BY <1>2, <1>3 DEF Chain, AllEarlier, Earlier, Arrives
<1>8. /\ Append(toHost, x) \in Seq(Items)
      /\ Contents(Append(toHost, x)) = Contents(toHost) \cup {x}
  BY <1>2, <1>3, <1>7, QueueAppend DEF Arrives, Chain
<1>9. pending \in Underway /\ Known(x)
  BY <1>2, <1>3 DEF Underway, Known, Arrives
<1>10. \A j \in Underway' : j \in Underway \/ j = x \/ j = None
  BY <1>1, <1>3, <1>8 DEF Underway
<1>11. \A j \in Underway' : Known(j)
  BY <1>9, <1>10, KnownFacts, ItemFacts
<1>12. toHost' \in Seq(Items) /\ toReader' \in Seq(Items) /\ interrupts' \in Nat
       /\ executed' \in [1 .. MaxCalls -> Nat]
  BY <1>1, <1>3, <1>8 DEF IInv, TypesOK
<1>13. pending' \in Items /\ sent' \in Items /\ pending' = None /\ sent'.type = "rsp"
  BY <1>1, <1>2, ItemFacts
<1>14. QED
  BY <1>1, <1>4, <1>6, <1>11, <1>12, <1>13, ReaderStep

LEMMA ReaderGetsByteStep == ASSUME IInv, ReaderGetsByte PROVE IInv'
<1>1. /\ toReader # <<>> /\ pending = None /\ toReader' = Tail(toReader)
      /\ UNCHANGED <<link, pc, seq, calls, result, pending, executed, mistaken, interrupts>>
  BY DEF ReaderGetsByte
<1>2. /\ toHost \in Seq(Items) /\ toReader \in Seq(Items) /\ sent \in Items /\ ~Carries(pending)
      /\ Chain(toHost, sent, pending, toReader) /\ damaged \in Nat
      /\ pending \in Items
  BY <1>1, ItemFacts DEF IInv, TypesOK, InOrder
<1>3. Tail(toReader) \in Seq(Items) /\ Contents(Tail(toReader)) \subseteq Contents(toReader)
  BY <1>1, <1>2, QueueTail DEF Chain
<1>4. Chain(toHost, sent, pending, Tail(toReader))
  BY <1>1, <1>2, ChainTaken
<1>5. interrupts' \in Nat /\ executed' \in [1 .. MaxCalls -> Nat] /\ toReader' \in Seq(Items)
      /\ pending' \in Items /\ pending' = None
  BY <1>1, <1>2, <1>3 DEF IInv, TypesOK
<1>6. CASE sent # None /\ SendMessage(toHost, sent) /\ UNCHANGED sent
  <2>1. sent.type = "rsp" /\ Carries(sent) /\ sent.cmd \in Nat
    BY <1>2, <1>6 DEF IInv, TypesOK, Items, Carries
  <2>2. PICK x : Arrives(x, sent) /\ toHost' = Append(toHost, x)
    BY <1>2, <1>6, <2>1, MessageToHost
  <2>3. damaged' \in Nat
    BY <1>2, <1>6, <2>1, MessageToHost
  <2>4. Chain(Append(toHost, x), sent, pending, Tail(toReader))
    BY <1>2, <1>4, <2>1, <2>2, ChainResponse DEF Arrives
  <2>5. InOrder'
    BY <1>1, <1>6, <2>2, <2>4 DEF InOrder
  <2>6. AllEarlier(Contents(toHost), {x})
    BY <1>2, <2>1, <2>2 DEF Chain, AllEarlier, Earlier, Arrives
  <2>7. /\ Append(toHost, x) \in Seq(Items)
        /\ Contents(Append(toHost, x)) = Contents(toHost) \cup {x}
    BY <1>2, <2>2, <2>6, QueueAppend DEF Arrives, Chain
  <2>8. sent \in Underway /\ Known(x)
    BY <2>1, <2>2 DEF Underway, Known, Arrives
  <2>9. \A j \in Underway' : j \in Underway \/ j = x
    BY <1>1, <1>3, <1>6, <2>2, <2>7 DEF Underway
  <2>10. \A j \in Underway' : Known(j)
    BY <2>8, <2>9, KnownFacts
  <2>11. toHost' \in Seq(Items) /\ sent' \in Items /\ sent'.type = "rsp"
    BY <1>2, <1>6, <2>1, <2>2, <2>7
  <2>12. QED
    BY <1>1, <1>5, <2>3, <2>5, <2>10, <2>11, ReaderStep
<1>7. CASE sent' = None /\ UNCHANGED <<toHost, damaged>>
  <2>1. Remains(toHost, toHost) /\ None \in Items /\ ~Carries(None)
    BY <1>2, RemainsFacts, ItemFacts DEF Chain
  <2>2. Chain(toHost, None, pending, Tail(toReader))
    BY <1>4, <2>1, ChainThinner
  <2>3. InOrder'
    BY <1>1, <1>7, <2>2 DEF InOrder
  <2>4. \A j \in Underway' : j \in Underway \/ j = None
    BY <1>1, <1>3, <1>7 DEF Underway
  <2>5. \A j \in Underway' : Known(j)
    BY <2>1, <2>4, KnownFacts
  <2>6. QED
    BY <1>1, <1>2, <1>5, <1>7, <2>1, <2>3, <2>5, ReaderStep
<1>8. QED
  BY <1>6, <1>7 DEF ReaderGetsByte

LEMMA InterruptStep == ASSUME IInv, Interrupt PROVE IInv'
<1> DEFINE b == Item("int", 0, 0)
<1>1. /\ interrupts' = interrupts + 1 /\ (UNCHANGED toHost \/ toHost' = Append(toHost, b))
      /\ UNCHANGED <<link, pc, seq, calls, result, toReader, pending, sent, executed, mistaken, damaged>>
  BY DEF Interrupt
<1>2. b \in Items /\ ~Carries(b)
  BY DEF Item, Items, Carries
<1> HIDE DEF b
<1>3. /\ Chain(toHost', sent, pending, toReader) /\ toHost' \in Seq(Items)
      /\ \A j \in Contents(toHost') : j \in Contents(toHost) \/ ~Carries(j)
  BY <1>1, <1>2, ByteSent DEF IInv, InOrder, TypesOK
<1>4. InOrder'
  BY <1>1, <1>3 DEF InOrder
<1>5. \A j \in Underway' : j \in Underway \/ ~Carries(j)
  BY <1>1, <1>3 DEF Underway
<1>6. \A j \in Underway' : Known(j)
  BY <1>5, KnownFacts
<1>7. QED
  BY <1>1, <1>3, <1>4, <1>6, ReaderStep DEF IInv, TypesOK

-----------------------------------------------------------------------------
LEMMA InvariantInit == ASSUME Init PROVE IInv
<1>1. /\ pc = "idle" /\ seq = 0 /\ calls = 0 /\ result = None /\ toReader = <<>> /\ toHost = <<>>
      /\ pending = None /\ sent = None /\ mistaken = 0 /\ interrupts = 0 /\ damaged = 0
      /\ executed = [c \in 1 .. MaxCalls |-> 0] /\ link \in {"usb", "serial"}
  BY ConstantFacts DEF Init
<1>2. <<>> \in Seq(Items) /\ DOMAIN <<>> = {}
  OBVIOUS
<1>3. Contents(<<>>) = {} /\ Sorted(<<>>)
  BY <1>2 DEF Contents, Sorted
<1>4. None \in Items /\ ~Carries(None)
  BY ItemFacts
<1>5. TypesOK
  BY <1>1, <1>2, <1>4, ConstantFacts DEF TypesOK
<1>6. Counted(0, 0)
  <2>1. 0 = 0 * SeqModulus + 0 /\ 0 \in 0 .. SeqModulus - 1
    BY ConstantFacts
  <2>2. QED
    BY <2>1 DEF Counted
<1>7. SequenceOK
  BY <1>1, <1>6 DEF SequenceOK
<1>8. Underway = {None}
  BY <1>1, <1>3 DEF Underway
<1>9. AllNumbered
  BY <1>4, <1>8 DEF AllNumbered, Numbered
<1>10. InOrder
  BY <1>1, <1>3, <1>4 DEF InOrder, Chain, AllEarlier, Earlier
<1>11. OwnAnswer
  BY <1>1 DEF OwnAnswer
<1>12. QED
  BY <1>5, <1>7, <1>9, <1>10, <1>11 DEF IInv

LEMMA InvariantStep == ASSUME IInv, [Next]_vars PROVE IInv'
<1>1. CASE UNCHANGED vars
  BY <1>1 DEF vars, IInv, TypesOK, SequenceOK, AllNumbered, Underway, Oldest, InOrder, OwnAnswer
<1>2. CASE Next
  <2>1. CASE Host
    BY <2>1, WriteMessageStep, ReadAckStep, ReadResponseStep, ReadCorruptStep, ReadStrayByteStep,
       ReadTornStep, ReadInterruptStep DEF Host
  <2>2. CASE Reader
    BY <2>2, ReaderGetsStep, ReaderAnswersStep, ReaderGetsByteStep DEF Reader
  <2>3. QED
    BY <1>2, <2>1, <2>2, TransferStep, LineFailsStep, InterruptStep DEF Next
<1>3. QED
  BY <1>1, <1>2

\* The commands under way are in order and numbered as they were sent, and
\* none of them is older than the transfers that an interrupt message ended.
THEOREM CcidLinkInvariant == Spec => []IInv
<1>1. Init => IInv
  BY InvariantInit
<1>2. IInv /\ [Next]_vars => IInv'
  BY InvariantStep
<1>3. QED
  BY <1>1, <1>2, PTL DEF Spec

\* CCCIDReader::Transfer returns the answer to its own command, over any number of
\* repetitions, damaged messages and answers left on the line, as long as fewer than
\* SeqModulus - 1 interrupt messages were taken for an answer.
THEOREM CcidOwnAnswer == Spec => []OwnAnswer
<1>1. IInv => OwnAnswer
  BY DEF IInv
<1>2. QED
  BY <1>1, CcidLinkInvariant, PTL

-----------------------------------------------------------------------------
(* The undisturbed link: a transfer goes through four phases.              *)

Ack == Byte("ack")
Message == Item("msg", seq, calls)
Answer == Item("rsp", seq, calls)

\* Nothing under way but the acknowledgement of the last response.
Quiet ==
  /\ pc \in {"idle", "send", "failed"} /\ (pc = "send" => executed[calls] = 0)
  /\ toHost = <<>> /\ pending = None /\ toReader \in {<<>>, <<Ack>>}

\* The message is on the line.
Sent ==
  /\ pc \in {"ack", "read", "failed"} /\ (pc = "read" => link = "usb") /\ (pc = "ack" => link # "usb")
  /\ executed[calls] = 0
  /\ toHost = <<>> /\ pending = None /\ toReader \in {<<Message>>, <<Ack, Message>>}

\* The reader has executed the command.
Executed ==
  /\ pc \in {"ack", "read", "failed"}
  /\ toReader = <<>> /\ pending = Answer /\ toHost \in {<<>>, <<Ack>>}
  /\ (pc = "read" => toHost = <<>>)
  /\ (pc = "ack" => toHost = <<Ack>>)

\* The response is on the line.
Answered ==
  /\ pc \in {"ack", "read", "failed"}
  /\ toReader = <<>> /\ pending = None /\ toHost \in {<<Answer>>, <<Ack, Answer>>}
  /\ (pc = "read" => toHost = <<Answer>>)
  /\ (pc = "ack" => toHost = <<Ack, Answer>>)

Once == \A c \in 1 .. MaxCalls : executed[c] <= 1 /\ (c > calls => executed[c] = 0)

Phases == Undisturbed => Once /\ (Quiet \/ Sent \/ Executed \/ Answered)

LEMMA Kinds ==
  /\ Ack.type = "ack" /\ Message.type = "msg" /\ Answer.type = "rsp" /\ Torn.type = "torn"
  /\ None.type = "none" /\ Message.cmd = calls /\ Answer.seq = seq
  /\ [Message EXCEPT !.type = "rsp"] = Answer
BY DEF Ack, Message, Answer, Torn, None, Byte, Item

LEMMA Short ==
  \A x, y : /\ Append(<<>>, x) = <<x>> /\ Append(<<x>>, y) = <<x, y>>
            /\ Head(<<x>>) = x /\ Tail(<<x>>) = <<>>
            /\ Head(<<x, y>>) = x /\ Tail(<<x, y>>) = <<y>>
            /\ <<x>> # <<>> /\ <<x, y>> # <<>>
<1> SUFFICES ASSUME NEW x, NEW y
             PROVE  /\ Append(<<>>, x) = <<x>> /\ Append(<<x>>, y) = <<x, y>>
                    /\ Head(<<x>>) = x /\ Tail(<<x>>) = <<>>
                    /\ Head(<<x, y>>) = x /\ Tail(<<x, y>>) = <<y>>
                    /\ <<x>> # <<>> /\ <<x, y>> # <<>>
  OBVIOUS
<1>1. Append(<<>>, x) = <<x>>
  OBVIOUS
<1>2. Append(<<x>>, y) = <<x, y>>
  <2>1. <<x>> \in Seq({x, y}) /\ Len(<<x>>) = 1
    OBVIOUS
  <2>2. Append(<<x>>, y) \in Seq({x, y}) /\ Len(Append(<<x>>, y)) = 2
    BY <2>1
  <2>3. Append(<<x>>, y)[1] = x /\ Append(<<x>>, y)[2] = y
    BY <2>1
  <2>4. <<x, y>> \in Seq({x, y}) /\ Len(<<x, y>>) = 2 /\ <<x, y>>[1] = x /\ <<x, y>>[2] = y
    OBVIOUS
  <2>5. \A n \in 1 .. 2 : Append(<<x>>, y)[n] = <<x, y>>[n]
    BY <2>3, <2>4
  <2>6. QED
    BY <2>2, <2>4, <2>5, SeqEqual
<1>3. Head(<<x>>) = x
  OBVIOUS
<1>4. Tail(<<x>>) = <<>>
  OBVIOUS
<1>5. Head(<<x, y>>) = x
  OBVIOUS
<1>6. Tail(<<x, y>>) = <<y>>
  OBVIOUS
<1>7. <<x>> # <<>>
  OBVIOUS
<1>8. <<x, y>> # <<>>
  OBVIOUS
<1>9. QED
  BY <1>1, <1>2, <1>3, <1>4, <1>5, <1>6, <1>7, <1>8, Zenon

\* Nothing is damaged: what is sent arrives.
LEMMA Undamaged ==
  ASSUME damaged \in Nat, damaged' = 0
  PROVE  /\ \A t : SendByte(toHost, t) => toHost' = Append(toHost, Byte(t))
         /\ \A t : SendByte(toReader, t) => toReader' = Append(toReader, Byte(t))
         /\ \A i : SendMessage(toHost, i) => toHost' = Append(toHost, i)
         /\ \A i : SendMessage(toReader, i) => toReader' = Append(toReader, i)
BY DEF SendByte, SendMessage

LEMMA StillUndisturbed ==
  ASSUME IInv, [Next]_vars, Undisturbed' PROVE Undisturbed /\ damaged' = 0 /\ link' = link
<1>1. damaged \in Nat /\ interrupts \in Nat /\ damaged' = 0 /\ (link' = "usb" \/ interrupts' = 0)
  BY DEF IInv, TypesOK, Undisturbed
<1>2. link' = link
  BY DEF Next, Host, Reader, vars, Transfer, WriteMessage, ReadAck, ReadResponse, ReadCorrupt,
         ReadStrayByte, ReadTorn, ReadInterrupt, LineFails, ReaderGets, ReaderAnswers,
         ReaderGetsByte, Interrupt
<1>3. interrupts' = interrupts \/ interrupts' = interrupts + 1
  BY DEF Next, Host, Reader, vars, Transfer, WriteMessage, ReadAck, ReadResponse, ReadCorrupt,
         ReadStrayByte, ReadTorn, ReadInterrupt, LineFails, ReaderGets, ReaderAnswers,
         ReaderGetsByte, Interrupt
<1>4. damaged' = damaged \/ damaged' = damaged + 1
  BY DEF Next, Host, Reader, vars, Transfer, WriteMessage, ReadAck, ReadResponse, ReadCorrupt,
         ReadStrayByte, ReadTorn, ReadInterrupt, LineFails, ReaderGets, ReaderAnswers,
         ReaderGetsByte, Interrupt, SendByte, SendMessage
<1>5. QED
  BY <1>1, <1>2, <1>3, <1>4 DEF Undisturbed

\* What a step may assume: nothing is disturbed, before or after it.
Steady == IInv /\ Undisturbed /\ damaged' = 0 /\ (link = "usb" \/ interrupts' = 0)
          /\ Once /\ (Quiet \/ Sent \/ Executed \/ Answered)
InPhase == Once /\ (Quiet \/ Sent \/ Executed \/ Answered)

\* Phases in which the host's state alone changes.
LEMMA PhaseTransfer == ASSUME Steady, Transfer PROVE InPhase'
<1>1. /\ pc = "idle" /\ pc' = "send" /\ calls' = calls + 1 /\ calls < MaxCalls
      /\ UNCHANGED <<toReader, toHost, pending, executed>>
  BY DEF Transfer
<1>2. calls \in Nat /\ MaxCalls \in Nat /\ executed \in [1 .. MaxCalls -> Nat]
  BY ConstantFacts DEF Steady, IInv, TypesOK
<1>3. Quiet /\ Once
  BY <1>1 DEF Steady, Sent, Executed, Answered
<1>4. executed[calls + 1] = 0
  BY <1>1, <1>2, <1>3 DEF Once
<1>5. Quiet'
  BY <1>1, <1>3, <1>4 DEF Quiet
<1>6. Once'
  BY <1>1, <1>2, <1>3 DEF Once
<1>7. QED
  BY <1>5, <1>6 DEF InPhase

LEMMA PhaseLineFails == ASSUME Steady, LineFails PROVE InPhase'
<1>1. /\ pc' = "failed"
      /\ UNCHANGED <<link, seq, calls, toReader, toHost, pending, executed>>
  BY DEF LineFails
<1>2. Message' = Message /\ Answer' = Answer
  BY <1>1 DEF Message, Answer
<1>3. Once'
  BY <1>1 DEF Steady, Once
<1>4. CASE Quiet
  BY <1>1, <1>3, <1>4 DEF Quiet, InPhase
<1>5. CASE Sent
  BY <1>1, <1>2, <1>3, <1>5 DEF Sent, InPhase
<1>6. CASE Executed
  BY <1>1, <1>2, <1>3, <1>6 DEF Executed, InPhase
<1>7. CASE Answered
  BY <1>1, <1>2, <1>3, <1>7 DEF Answered, InPhase
<1>8. QED
  BY <1>4, <1>5, <1>6, <1>7 DEF Steady

LEMMA PhaseInterrupt == ASSUME Steady, Interrupt PROVE InPhase'
<1>1. /\ interrupts' = interrupts + 1 /\ interrupts \in Nat
      /\ UNCHANGED <<link, pc, seq, calls, toReader, pending, executed>>
  BY DEF Interrupt, Steady, IInv, TypesOK
<1>2. UNCHANGED toHost
  BY <1>1 DEF Interrupt, Steady
<1>3. Message' = Message /\ Answer' = Answer
  BY <1>1 DEF Message, Answer
<1>4. Once'
  BY <1>1 DEF Steady, Once
<1>5. CASE Quiet
  BY <1>1, <1>2, <1>4, <1>5 DEF Quiet, InPhase
<1>6. CASE Sent
  BY <1>1, <1>2, <1>3, <1>4, <1>6 DEF Sent, InPhase
<1>7. CASE Executed
  BY <1>1, <1>2, <1>3, <1>4, <1>7 DEF Executed, InPhase
<1>8. CASE Answered
  BY <1>1, <1>2, <1>3, <1>4, <1>8 DEF Answered, InPhase
<1>9. QED
  BY <1>5, <1>6, <1>7, <1>8 DEF Steady

LEMMA PhaseWrite == ASSUME Steady, WriteMessage PROVE InPhase'
<1>1. /\ pc = "send" /\ pc' = (IF link = "usb" THEN "read" ELSE "ack")
      /\ SendMessage(toReader, Message)
      /\ UNCHANGED <<link, seq, calls, toHost, pending, executed>>
  BY DEF WriteMessage, Message
<1>2. Quiet /\ Once
  BY <1>1 DEF Steady, Sent, Executed, Answered
<1>3. toReader' = Append(toReader, Message)
  BY <1>1, Undamaged DEF Steady, IInv, TypesOK
<1>4. toReader' \in {<<Message>>, <<Ack, Message>>}
  BY <1>2, <1>3, Short, Zenon DEF Quiet
<1>5. Message' = Message
  BY <1>1 DEF Message
<1>6. Sent'
  BY <1>1, <1>2, <1>4, <1>5 DEF Quiet, Sent
<1>7. Once'
  BY <1>1, <1>2 DEF Once
<1>8. QED
  BY <1>6, <1>7 DEF InPhase

\* The host reads only when the acknowledgement or the response has come.
LEMMA PhaseReadAck == ASSUME Steady, ReadAck PROVE InPhase'
<1>1. /\ pc = "ack" /\ toHost # <<>>
      /\ UNCHANGED <<link, seq, calls, toReader, pending, executed>>
  BY DEF ReadAck
<1>2. Message' = Message /\ Answer' = Answer
  BY <1>1 DEF Message, Answer
<1>3. Once'
  BY <1>1 DEF Steady, Once
<1>4. (Executed /\ toHost = <<Ack>>) \/ (Answered /\ toHost = <<Ack, Answer>>)
  BY <1>1 DEF Steady, Quiet, Sent, Executed, Answered
<1>5. Head(toHost) = Ack
  BY <1>4, Short, Zenon
<1>6. IsByte(Ack)
  BY Kinds DEF IsByte
<1>7. pc' = "read" /\ toHost' = Tail(toHost)
  BY <1>5, <1>6, Kinds DEF ReadAck, AfterByte
<1>8. CASE Executed /\ toHost = <<Ack>>
  <2>1. toHost' = <<>>
    BY <1>7, <1>8, Short, Zenon
  <2>2. QED
    BY <1>1, <1>2, <1>3, <1>7, <1>8, <2>1 DEF Executed, InPhase
<1>9. CASE Answered /\ toHost = <<Ack, Answer>>
  <2>1. toHost' = <<Answer>>
    BY <1>7, <1>9, Short, Zenon
  <2>2. QED
    BY <1>1, <1>2, <1>3, <1>7, <1>9, <2>1 DEF Answered, InPhase
<1>10. QED
  BY <1>4, <1>8, <1>9

LEMMA PhaseRead == ASSUME Steady, pc = "read", toHost # <<>>
                   PROVE  Answered /\ toHost = <<Answer>> /\ Head(toHost) = Answer
<1>1. Answered /\ toHost = <<Answer>>
  BY DEF Steady, Quiet, Sent, Executed, Answered
<1>2. QED
  BY <1>1, Short, Zenon

LEMMA PhaseReadResponse == ASSUME Steady, ReadResponse PROVE InPhase'
<1>1. /\ pc = "read" /\ toHost # <<>> /\ toHost' = Tail(toHost) /\ Accept(Head(toHost))
      /\ UNCHANGED <<toReader, damaged>> \/ SendByte(toReader, "ack")
      /\ UNCHANGED <<link, calls, pending, executed>>
  BY DEF ReadResponse
<1>2. Answered /\ toHost = <<Answer>> /\ Head(toHost) = Answer
  BY <1>1, PhaseRead
<1>3. pc' = "idle"
  BY <1>1, <1>2, Kinds DEF Accept, Return
<1>4. toHost' = <<>>
  BY <1>1, <1>2, Short, Zenon
<1>5. toReader' = toReader \/ toReader' = Append(toReader, Ack)
  BY <1>1, Undamaged DEF Steady, IInv, TypesOK, Ack
<1>6. toReader' \in {<<>>, <<Ack>>}
  BY <1>2, <1>5, Short, Zenon DEF Answered
<1>7. Quiet'
  BY <1>1, <1>2, <1>3, <1>4, <1>6 DEF Quiet, Answered
<1>8. Once'
  BY <1>1 DEF Once, Steady
<1>9. QED
  BY <1>7, <1>8 DEF InPhase

LEMMA PhaseNothingElse ==
  ASSUME Steady
  PROVE  ~ReadCorrupt /\ ~ReadStrayByte /\ ~ReadTorn /\ ~\E match \in BOOLEAN : ReadInterrupt(match)
<1>1. ASSUME pc = "read", toHost # <<>> PROVE Head(toHost).type = "rsp"
  BY <1>1, PhaseRead, Kinds
<1>2. ~ReadCorrupt
  BY <1>1 DEF ReadCorrupt
<1>3. ~ReadStrayByte
  BY <1>1 DEF ReadStrayByte, IsByte
<1>4. ~ReadTorn
  BY <1>1, Kinds DEF ReadTorn
<1>5. ~\E match \in BOOLEAN : ReadInterrupt(match)
  BY <1>1 DEF ReadInterrupt
<1>6. QED
  BY <1>2, <1>3, <1>4, <1>5

LEMMA PhaseReaderGets == ASSUME Steady, ReaderGets PROVE InPhase'
<1> DEFINE i == Head(toReader)
<1>1. /\ toReader # <<>> /\ pending = None /\ i.type \in {"msg", "bad"}
      /\ toReader' = Tail(toReader)
      /\ UNCHANGED <<link, pc, seq, calls>>
  BY DEF ReaderGets
<1>2. Sent /\ toReader = <<Message>>
  <2>1. CASE toReader \in {<<Ack>>, <<Ack, Message>>}
    <3>1. i = Ack
      BY <2>1, Short, Zenon
    <3>2. QED
      BY <1>1, <3>1, Kinds
  <2>2. QED
    BY <1>1, <2>1 DEF Steady, Quiet, Sent, Executed, Answered
<1>3. i = Message
  BY <1>2, Short, Zenon
<1>4. /\ executed' = [executed EXCEPT ![calls] = @ + 1] /\ pending' = Answer
      /\ link = "usb" => toHost' = toHost
      /\ link # "usb" => SendByte(toHost, "ack")
  BY <1>3, Kinds DEF ReaderGets
<1>5. IF link = "usb" THEN toHost' = toHost ELSE toHost' = Append(toHost, Ack)
  BY <1>4, Undamaged DEF Steady, IInv, TypesOK, Ack
<1>6. /\ toHost' = toHost => toHost' = <<>>
      /\ toHost' = Append(toHost, Ack) => toHost' = <<Ack>>
  BY <1>2, Short, Zenon DEF Sent
<1>7. toReader' = <<>>
  BY <1>1, <1>2, Short, Zenon
<1>8. Answer' = Answer
  BY <1>1 DEF Answer
<1>9. Executed'
  BY <1>1, <1>2, <1>4, <1>5, <1>6, <1>7, <1>8 DEF Sent, Executed
<1>10. Once'
  <2>1. executed \in [1 .. MaxCalls -> Nat] /\ executed[calls] = 0 /\ calls \in Nat
    BY <1>2 DEF Sent, Steady, IInv, TypesOK
  <2>2. QED
    BY <1>1, <1>4, <2>1 DEF Steady, Once
<1>11. QED
  BY <1>9, <1>10 DEF InPhase

LEMMA PhaseReaderAnswers == ASSUME Steady, ReaderAnswers PROVE InPhase'
<1>1. /\ pending # None /\ SendMessage(toHost, pending) /\ pending' = None
      /\ UNCHANGED <<link, pc, seq, calls, toReader, executed>>
  BY DEF ReaderAnswers
<1>2. Executed
  BY <1>1 DEF Steady, Quiet, Sent, Answered
<1>3. toHost' = Append(toHost, Answer)
  BY <1>1, <1>2, Undamaged DEF Steady, IInv, TypesOK, Executed
<1>4. /\ toHost = <<>> => toHost' = <<Answer>>
      /\ toHost = <<Ack>> => toHost' = <<Ack, Answer>>
  BY <1>3, Short, Zenon
<1>5. Answer' = Answer
  BY <1>1 DEF Answer
<1>6. Answered'
  BY <1>1, <1>2, <1>4, <1>5 DEF Executed, Answered
<1>7. Once'
  BY <1>1 DEF Steady, Once
<1>8. QED
  BY <1>6, <1>7 DEF InPhase

LEMMA PhaseReaderGetsByte == ASSUME Steady, ReaderGetsByte PROVE InPhase'
<1>1. /\ toReader # <<>> /\ pending = None /\ IsByte(Head(toReader))
      /\ toReader' = Tail(toReader)
      /\ UNCHANGED <<link, pc, seq, calls, pending, executed>>
  BY DEF ReaderGetsByte
<1>2. (Quiet /\ toReader = <<Ack>>) \/ (Sent /\ toReader = <<Ack, Message>>)
  <2>1. CASE toReader = <<Message>>
    <3>1. Head(toReader) = Message
      BY <2>1, Short, Zenon
    <3>2. QED
      BY <1>1, <3>1, Kinds DEF IsByte
  <2>2. QED
    BY <1>1, <2>1 DEF Steady, Quiet, Sent, Executed, Answered
<1>3. Head(toReader) = Ack
  BY <1>2, Short, Zenon
<1>4. UNCHANGED toHost
  BY <1>3, Kinds DEF ReaderGetsByte
<1>5. Message' = Message
  BY <1>1 DEF Message
<1>6. Once'
  BY <1>1 DEF Steady, Once
<1>7. CASE Quiet /\ toReader = <<Ack>>
  <2>1. toReader' = <<>>
    BY <1>1, <1>7, Short, Zenon
  <2>2. QED
    BY <1>1, <1>4, <1>6, <1>7, <2>1 DEF Quiet, InPhase
<1>8. CASE Sent /\ toReader = <<Ack, Message>>
  <2>1. toReader' = <<Message>>
    BY <1>1, <1>8, Short, Zenon
  <2>2. QED
    BY <1>1, <1>4, <1>5, <1>6, <1>8, <2>1 DEF Sent, InPhase
<1>9. QED
  BY <1>2, <1>7, <1>8

LEMMA PhasesStep == ASSUME IInv, Phases, [Next]_vars PROVE Phases'
<1> SUFFICES ASSUME Undisturbed' PROVE InPhase'
  BY DEF Phases, InPhase
<1>1. Undisturbed /\ damaged' = 0 /\ link' = link
  BY StillUndisturbed
<1>2. Steady
  BY <1>1 DEF Phases, Steady, Undisturbed
<1>3. CASE UNCHANGED vars
  BY <1>2, <1>3
     DEF vars, Steady, InPhase, Once, Quiet, Sent, Executed, Answered, Message, Answer
<1>4. CASE Host
  BY <1>2, <1>4, PhaseWrite, PhaseReadAck, PhaseReadResponse, PhaseNothingElse DEF Host
<1>5. CASE Reader
  BY <1>2, <1>5, PhaseReaderGets, PhaseReaderAnswers, PhaseReaderGetsByte DEF Reader
<1>6. QED
  BY <1>2, <1>3, <1>4, <1>5, PhaseTransfer, PhaseLineFails, PhaseInterrupt DEF Next

LEMMA PhasesExecutedOnce == ASSUME Phases PROVE ExecutedOnce
<1> SUFFICES ASSUME Undisturbed
             PROVE  /\ \A c \in 1 .. MaxCalls : executed[c] <= 1
                    /\ pc = "idle" => toHost = <<>> /\ \A i \in 1 .. Len(toReader) : IsByte(toReader[i])
  BY DEF ExecutedOnce
<1>1. Once /\ (Quiet \/ Sent \/ Executed \/ Answered)
  BY DEF Phases
<1>2. IsByte(Ack)
  BY Kinds DEF IsByte
<1>3. \A b : Len(<<b>>) = 1 /\ <<b>>[1] = b
  OBVIOUS
<1>4. Len(<<>>) = 0
  OBVIOUS
<1>5. ASSUME pc = "idle" PROVE toHost = <<>> /\ \A i \in 1 .. Len(toReader) : IsByte(toReader[i])
  <2>1. toHost = <<>> /\ toReader \in {<<>>, <<Ack>>}
    BY <1>1, <1>5 DEF Quiet, Sent, Executed, Answered
  <2>2. CASE toReader = <<>>
    <3>1. Len(toReader) = 0
      BY <1>4, <2>2
    <3>2. QED
      BY <2>1, <3>1
  <2>3. CASE toReader = <<Ack>>
    <3>1. Len(toReader) = 1 /\ toReader[1] = Ack
      BY <1>3, <2>3, Zenon
    <3>2. QED
      BY <1>2, <2>1, <3>1
  <2>4. QED
    BY <2>1, <2>2, <2>3
<1>6. QED
  BY <1>1, <1>5 DEF Once

\* While nothing is damaged and no interrupt message comes down the serial line, a command
\* is executed at most once, and between two transfers nothing of the last one is left on
\* the line to the host: WriteMessage, ReadAck and the acknowledgement of the response
\* keep host and reader in step without a repetition.
THEOREM CcidExecutedOnce == Spec => []ExecutedOnce
<1>1. Init => Phases
  <2> SUFFICES ASSUME Init PROVE Once /\ Quiet
    BY DEF Phases
  <2>1. Quiet
    BY DEF Init, Quiet
  <2>2. Once
    BY DEF Init, Once
  <2>3. QED
    BY <2>1, <2>2
<1>2. IInv /\ Phases /\ [Next]_vars => Phases'
  BY PhasesStep
<1>3. Phases => ExecutedOnce
  BY PhasesExecutedOnce
<1>4. QED
  BY <1>1, <1>2, <1>3, CcidLinkInvariant, PTL DEF Spec

=============================================================================
