---------------------------- MODULE PpaT1Proofs ----------------------------
(***************************************************************************)
(* Proofs about a command for the card (module Transmit).                  *)
(*                                                                         *)
(* T=1 between the ppa driver and the card (module PpaT1), for commands    *)
(* and responses of any length, any block sizes, and any number of calls,  *)
(* faults and requests: the sequence numbers stay in step, and the         *)
(* exchange of blocks implements the exchange of APDUs (ApduExchange).     *)
(*                                                                         *)
(* T=0 in both drivers (module T0), for responses and buffers of any       *)
(* length: what is returned is what the card handed over.                  *)
(***************************************************************************)
EXTENDS Transmit, SequenceTheorems, TLAPS

Bit == {0, 1}
Units == Nat \X Nat
IBlocks == [type : {"I"}, n : Bit, more : BOOLEAN, data : Seq(Units)]
RBlocks == [type : {"R"}, n : Bit]
SBlocks == {SBlock("WTX", 0), SBlock("ABORT", 0)} \cup {SBlock("IFS", v) : v \in CardIfs}
Blocks == IBlocks \cup RBlocks \cup SBlocks
Cards == [nr : Bit, ns : Bit, got : Seq(Units), out : Seq(Units),
          last : Blocks \cup {NoBlock}, kept : IBlocks \cup SBlocks \cup {NoBlock}]

TypesOK ==
  /\ pc \in {"idle", "xfr", "recv"} /\ pin \in BOOLEAN /\ clean \in BOOLEAN
  /\ seqS \in Bit /\ seqR \in Bit /\ ifsc \in Nat \ {0}
  /\ cmd \in Seq(Units) /\ sbuffer \in IBlocks \cup {NoBlock}
  /\ sblock \in Blocks \cup {NoBlock}
  /\ lenr \in Nat /\ size \in Nat /\ room \in Nat
  /\ card \in Cards
  /\ calls \in Seq(Seq(Units))
  /\ executed \in Seq([cmd : Seq(Units), rsp : Seq(Units)])

-----------------------------------------------------------------------------
\* Units of the current command, and how many of them precede the I-block.
Call == Len(calls)
Pos == sbuffer.data[1][2] - 1
Numbered(s, from) == \A i \in 1 .. Len(s) : s[i] = <<Call, from + i>>

\* In every call: the I-block is the beginning of what is left of the command.
DriverOK ==
  pc # "idle" =>
    /\ calls # <<>> /\ Numbered(calls[Call], 0)
    /\ sbuffer \in IBlocks /\ sbuffer.data # <<>>
    /\ Pos \in Nat /\ Numbered(sbuffer.data, Pos)
    /\ IF cmd = <<>> THEN ~sbuffer.more /\ Pos + Len(sbuffer.data) = Len(calls[Call])
       ELSE /\ Numbered(cmd, Pos) /\ Pos + Len(cmd) = Len(calls[Call])
            /\ Len(sbuffer.data) <= Len(cmd)
            /\ sbuffer.more <=> Len(sbuffer.data) < Len(cmd)
    /\ sblock \in {sbuffer} \cup RBlocks \cup SBlocks
    /\ sblock \in RBlocks => sblock.n = seqR

\* What the card repeats, and what the driver receives.
CardOK ==
  /\ IF card.last.type = "R" THEN card.last.n = card.nr ELSE card.last = card.kept
  /\ pc = "recv" => rbuffer \in {Damaged, Mute, card.last} /\ card.last \in Blocks

-----------------------------------------------------------------------------
\* The card takes the units of the commands in their order, and executes none twice.
Last(s) == s[Len(s)]
Before(u, v) == u[1] < v[1] \/ (u[1] = v[1] /\ u[2] < v[2])
NotAfter(u, v) == u = v \/ Before(u, v)

\* What the I-block does not precede, and what it follows if the card waits for it.
Seen ==
  {u \in Units : /\ u[1] <= Call
                 /\ pc # "idle" => NotAfter(u, Last(sbuffer.data))
                 /\ pc # "idle" /\ sbuffer.n = card.nr => Before(u, Last(sbuffer.data))}

OrderOK ==
  /\ \A i \in 1 .. Len(executed) :
       LET c == executed[i].cmd
       IN  c # <<>> /\ Last(c) \in Seen /\ (card.got # <<>> => Before(Last(c), Last(card.got)))
  /\ card.got # <<>> => Last(card.got) \in Seen

-----------------------------------------------------------------------------
\* The phases of a call, as long as none has failed.

\* The card keeps nothing that could be taken for the next block of a response.
NothingKept == card.kept.type # "S" /\ (card.kept.type = "I" => card.kept.n # seqR)

Between == seqS = card.nr /\ seqR = card.ns /\ card.got = <<>> /\ card.out = <<>> /\ NothingKept

Unanswered == seqR = card.ns /\ card.out = <<>> /\ cmd # <<>> /\ sbuffer.n = seqS
              /\ lenr = 0 /\ rsp = <<>> /\ room = size

\* The card waits for the I-block.
Sending ==
  /\ Unanswered /\ seqS = card.nr /\ NothingKept
  /\ Len(card.got) = Pos /\ Numbered(card.got, 0)

\* The card has it, and wants the next one, or has a request.
Taken ==
  /\ Unanswered /\ seqS # card.nr
  /\ Len(card.got) = Pos + Len(sbuffer.data) /\ Numbered(card.got, 0)
  /\ IF sbuffer.more THEN NothingKept ELSE card.kept.type = "S"

\* What the driver has of the response.
Response == executed[Len(executed)].rsp
Received ==
  /\ ~sbuffer.more /\ sbuffer.n # card.nr /\ card.got = <<>> /\ card.kept \in IBlocks
  /\ executed # <<>> /\ executed[Len(executed)].cmd = calls[Call]
  /\ lenr <= size => /\ DOMAIN rsp = 1 .. lenr /\ room = size - lenr
                     /\ \A i \in 1 .. lenr : rsp[i] = Response[i]
FromResponse(s, from) == \A i \in 1 .. Len(s) : s[i] = Response[from + i]

\* The card has sent a block of the response.
Replying ==
  /\ Received /\ seqR # card.ns /\ card.kept.n = seqR
  /\ IF cmd = <<>> THEN seqS = card.nr ELSE seqS # card.nr /\ lenr = 0
  /\ card.kept.data # <<>> /\ (card.kept.more <=> card.out # <<>>)
  /\ FromResponse(card.kept.data, lenr) /\ FromResponse(card.out, lenr + Len(card.kept.data))
  /\ lenr + Len(card.kept.data) + Len(card.out) = Len(Response)
  /\ pin => cmd # <<>> /\ card.out = <<>>

\* The driver has it, and wants the next one.
Chained ==
  /\ Received /\ seqS = card.nr /\ seqR = card.ns /\ card.kept.n # seqR
  /\ cmd = <<>> /\ card.out # <<>> /\ ~pin
  /\ FromResponse(card.out, lenr) /\ lenr + Len(card.out) = Len(Response)

PhaseOK ==
  clean =>
    /\ pc = "idle" => Between
    /\ pc # "idle" => Sending \/ Taken \/ Replying \/ Chained
    /\ pc = "xfr" /\ pin => Sending /\ card.got = <<>>

IInv == TypesOK /\ DriverOK /\ CardOK /\ OrderOK /\ PhaseOK

-----------------------------------------------------------------------------
(* Blocks.                                                                 *)

LEMMA ConstantFacts ==
  /\ \A n \in CmdLens \cup RspLens \cup CardIfs \cup {FirstIfs, CardChunk} : n \in Nat /\ n > 0
  /\ Rooms \subseteq Nat
BY PpaT1Assumption

LEMMA BitFacts ==
  /\ \A b \in Bit : Flip(b) \in Bit /\ Flip(b) # b
  /\ \A a, b \in Bit : a # b <=> a = Flip(b)
BY DEF Bit, Flip

LEMMA BlockFacts ==
  /\ \A b \in IBlocks : b.type = "I" /\ b.n \in Bit /\ b.more \in BOOLEAN /\ b.data \in Seq(Units)
  /\ \A b \in RBlocks : b.type = "R" /\ b.n \in Bit /\ b = RBlock(b.n)
  /\ \A n \in Bit : RBlock(n) \in RBlocks /\ RBlock(n).n = n
  /\ NoBlock.type = "none" /\ Damaged.type = "damaged" /\ Mute.type = "mute"
<1>1. \A b \in IBlocks : b.type = "I" /\ b.n \in Bit /\ b.more \in BOOLEAN /\ b.data \in Seq(Units)
  BY DEF IBlocks
<1>2. \A b \in RBlocks : b.type = "R" /\ b.n \in Bit /\ b = RBlock(b.n)
  BY DEF RBlocks, RBlock
<1>3. \A n \in Bit : RBlock(n) \in RBlocks /\ RBlock(n).n = n
  BY DEF RBlocks, RBlock
<1>4. NoBlock.type = "none" /\ Damaged.type = "damaged" /\ Mute.type = "mute"
  BY DEF NoBlock, Damaged, Mute
<1>5. QED
  BY <1>1, <1>2, <1>3, <1>4

LEMMA RequestFacts ==
  \A b \in SBlocks : b.type = "S" /\ (b.kind = "IFS" => b.value \in Nat \ {0})
<1>1. SBlock("WTX", 0).type = "S" /\ SBlock("WTX", 0).kind = "WTX"
  BY DEF SBlock
<1>2. SBlock("ABORT", 0).type = "S" /\ SBlock("ABORT", 0).kind = "ABORT"
  BY DEF SBlock
<1>3. \A v \in CardIfs : SBlock("IFS", v).type = "S" /\ SBlock("IFS", v).value = v
  BY DEF SBlock
<1>4. QED
  BY <1>1, <1>2, <1>3, ConstantFacts DEF SBlocks

\* The type of a block tells its kind.
LEMMA KindFacts ==
  ASSUME NEW b \in Blocks \cup {NoBlock, Damaged, Mute}
  PROVE  /\ b.type = "I" <=> b \in IBlocks
         /\ b.type = "R" <=> b \in RBlocks
         /\ b.type = "S" <=> b \in SBlocks
         /\ b.type = "damaged" <=> b = Damaged
         /\ b.type = "mute" <=> b = Mute
<1>1. CASE b \in IBlocks
  BY <1>1, BlockFacts, RequestFacts
<1>2. CASE b \in RBlocks
  BY <1>2, BlockFacts, RequestFacts
<1>3. CASE b \in SBlocks
  BY <1>3, BlockFacts, RequestFacts
<1>4. CASE b \in {NoBlock, Damaged, Mute}
  BY <1>4, BlockFacts, RequestFacts
<1>5. QED
  BY <1>1, <1>2, <1>3, <1>4 DEF Blocks

LEMMA IBlockFacts ==
  ASSUME NEW n \in Bit, NEW m \in BOOLEAN, NEW d \in Seq(Units)
  PROVE  LET b == IBlock(n, m, d)
         IN  b \in IBlocks /\ b.n = n /\ b.more = m /\ b.data = d
BY DEF IBlocks, IBlock

LEMMA NextIBlockFacts ==
  ASSUME NEW c \in Seq(Units), c # <<>>, ifsc \in Nat \ {0}, NEW n \in Bit
  PROVE  LET b == NextIBlock(c, n)
         IN  /\ b \in IBlocks /\ b.n = n /\ b.data # <<>>
             /\ Len(b.data) <= Len(c) /\ Len(b.data) > 0
             /\ b.more <=> Len(b.data) < Len(c)
             /\ \A i \in 1 .. Len(b.data) : b.data[i] = c[i]
<1> DEFINE l == MinOf(Len(c), ifsc)
           d == SubSeq(c, 1, l)
<1>1. Len(c) \in Nat /\ Len(c) > 0
  OBVIOUS
<1>2. l \in Nat /\ l > 0 /\ l <= Len(c)
  BY <1>1 DEF MinOf
<1> HIDE DEF l
<1>3. d \in Seq(Units) /\ Len(d) = l /\ \A i \in 1 .. l : d[i] = c[i]
  BY <1>1, <1>2
<1> HIDE DEF d
<1>4. d # <<>>
  BY <1>2, <1>3
<1> DEFINE m == Len(c) > l
           b == IBlock(n, m, d)
<1>5. m \in BOOLEAN /\ (m <=> l < Len(c))
  BY <1>1, <1>2
<1>6. NextIBlock(c, n) = b
  BY DEF NextIBlock, l, d
<1> HIDE DEF m
<1>7. b \in IBlocks /\ b.n = n /\ b.more = m /\ b.data = d
  BY <1>3, <1>5, IBlockFacts
<1> HIDE DEF b
<1>8. QED
  BY <1>2, <1>3, <1>4, <1>5, <1>6, <1>7

LEMMA FromFacts ==
  ASSUME NEW c \in Seq(Units), NEW n \in Nat, n <= Len(c)
  PROVE  /\ From(c, n) \in Seq(Units) /\ Len(From(c, n)) = Len(c) - n
         /\ \A i \in 1 .. Len(c) - n : From(c, n)[i] = c[n + i]
         /\ From(c, n) = <<>> <=> n = Len(c)
<1>1. Len(c) \in Nat
  OBVIOUS
<1>2. From(c, n) \in Seq(Units) /\ Len(From(c, n)) = Len(c) - n
  BY <1>1 DEF From
<1>3. \A i \in 1 .. Len(c) - n : From(c, n)[i] = c[n + i]
  BY <1>1 DEF From
<1> DEFINE f == From(c, n)
<1> HIDE DEF f
<1>4. f \in Seq(Units) /\ Len(f) = Len(c) - n
  BY <1>2 DEF f
<1>5. f = <<>> <=> n = Len(c)
  BY <1>1, <1>4
<1>6. QED
  BY <1>2, <1>3, <1>5 DEF f

LEMMA ConcatFacts ==
  ASSUME NEW a \in Seq(Units), NEW b \in Seq(Units)
  PROVE  /\ a \o b \in Seq(Units) /\ Len(a \o b) = Len(a) + Len(b)
         /\ \A i \in 1 .. Len(a) : (a \o b)[i] = a[i]
         /\ \A i \in 1 .. Len(b) : (a \o b)[Len(a) + i] = b[i]
         /\ b # <<>> => a \o b # <<>> /\ Last(a \o b) = Last(b)
<1>1. Len(a) \in Nat /\ Len(b) \in Nat
  OBVIOUS
<1>2. a \o b \in Seq(Units) /\ Len(a \o b) = Len(a) + Len(b)
  OBVIOUS
<1>3. \A i \in 1 .. Len(a) : (a \o b)[i] = a[i]
  BY <1>1
<1>4. \A i \in 1 .. Len(b) : (a \o b)[Len(a) + i] = b[i]
  BY <1>1
<1>5. ASSUME b # <<>> PROVE a \o b # <<>> /\ Last(a \o b) = Last(b)
  <2>1. Len(b) > 0
    BY <1>5
  <2>2. Len(a \o b) > 0 /\ Len(b) \in 1 .. Len(b)
    BY <1>1, <1>2, <2>1
  <2>3. Last(a \o b) = Last(b)
    BY <1>2, <1>4, <2>2 DEF Last
  <2> DEFINE c == a \o b
  <2> HIDE DEF c
  <2>4. c # <<>>
    <3>1. Len(c) > 0
      BY <2>2 DEF c
    <3>2. QED
      BY <3>1
  <2>5. QED
    BY <2>3, <2>4 DEF c
<1>6. QED
  BY <1>2, <1>3, <1>4, <1>5

-----------------------------------------------------------------------------
(* The card's steps, field by field.                                       *)

Sends(b) == b \in Blocks /\ card'.last = b /\ rbuffer' \in {b, Damaged, Mute}

\* A block like the last one, or a refusal.
Repeats ==
  /\ Sends(RBlock(card.nr)) \/ Sends(card.kept)
  /\ card'.nr = card.nr /\ card'.ns = card.ns /\ card'.got = card.got /\ card'.out = card.out
  /\ card'.kept = card.kept /\ executed' = executed

TakesPart ==
  /\ sblock \in IBlocks /\ sblock.n = card.nr /\ sblock.more
  /\ Sends(RBlock(card'.nr))
  /\ card'.nr = Flip(card.nr) /\ card'.ns = card.ns /\ card'.got = card.got \o sblock.data
  /\ card'.out = <<>> /\ card'.kept = card.kept /\ executed' = executed

\* The card has the whole command g, and m is its N(R).
Complete(g, m) ==
  \/ /\ sblock \in IBlocks /\ sblock.n = card.nr /\ ~sblock.more
     /\ g = card.got \o sblock.data /\ m = Flip(card.nr)
  \/ sblock \in SBlocks /\ card.kept = sblock /\ card.got # <<>> /\ g = card.got /\ m = card.nr

Asks ==
  /\ Complete(card'.got, card'.nr)
  /\ card'.kept \in SBlocks /\ Sends(card'.kept)
  /\ card'.ns = card.ns /\ card'.out \in {<<>>, card.out} /\ executed' = executed

\* The block kept and what is out are the units of r.
Splits(r) ==
  LET d == card'.kept.data
      o == card'.out
  IN  /\ card'.kept \in IBlocks /\ Sends(card'.kept)
      /\ card'.kept.n = card.ns /\ card'.ns = Flip(card.ns)
      /\ d # <<>> /\ (card'.kept.more <=> o # <<>>) /\ Len(d) + Len(o) = Len(r)
      /\ \A i \in 1 .. Len(d) : d[i] = r[i]
      /\ \A i \in 1 .. Len(o) : o[i] = r[Len(d) + i]

Executes ==
  \E g, r \in Seq(Units) :
    /\ Complete(g, card'.nr) /\ card'.got = <<>> /\ Splits(r) /\ (pin => card'.out = <<>>)
    /\ executed' = Append(executed, [cmd |-> g, rsp |-> r])

GoesOn ==
  /\ sblock \in RBlocks /\ card.kept \in IBlocks /\ sblock.n # card.kept.n /\ card.out # <<>>
  /\ Splits(card.out)
  /\ card'.nr = card.nr /\ card'.got = card.got /\ executed' = executed

LEMMA CardFacts ==
  ASSUME NEW c \in Cards
  PROVE  /\ c.nr \in Bit /\ c.ns \in Bit /\ c.got \in Seq(Units) /\ c.out \in Seq(Units)
         /\ c.last \in Blocks \cup {NoBlock} /\ c.kept \in IBlocks \cup SBlocks \cup {NoBlock}
BY DEF Cards

LEMMA AnswersFacts ==
  ASSUME NEW c \in Cards, NEW b \in Blocks, Answers(c, b)
  PROVE  /\ card' \in Cards /\ Sends(b)
         /\ card'.nr = c.nr /\ card'.ns = c.ns /\ card'.got = c.got /\ card'.out = c.out
         /\ b \in RBlocks => card'.kept = c.kept
         /\ b \notin RBlocks => card'.kept = b
<1> DEFINE k == IF b.type = "R" THEN c.kept ELSE b
<1>1. /\ card' = [c EXCEPT !.last = b, !.kept = k]
      /\ rbuffer' \in {b, Damaged, Mute}
  BY DEF Answers
<1>2. b.type = "R" <=> b \in RBlocks
  BY KindFacts
<1>3. k \in IBlocks \cup SBlocks \cup {NoBlock}
  BY <1>2, CardFacts DEF Blocks
<1>4. (b \in RBlocks => k = c.kept) /\ (b \notin RBlocks => k = b)
  BY <1>2
<1> HIDE DEF k
<1>5. /\ card' \in Cards /\ card'.last = b /\ card'.kept = k
      /\ card'.nr = c.nr /\ card'.ns = c.ns /\ card'.got = c.got /\ card'.out = c.out
  BY <1>1, <1>3 DEF Cards
<1>6. QED
  BY <1>1, <1>4, <1>5 DEF Sends

\* The next block of what is out.
LEMMA OutFacts ==
  ASSUME NEW c \in Cards, c.out # <<>>
  PROVE  LET b == OutBlock(c)
             d == NextOut(c)
         IN  /\ b \in IBlocks /\ b.n = c.ns /\ b.data # <<>>
             /\ (b.more <=> d.out # <<>>) /\ Len(b.data) + Len(d.out) = Len(c.out)
             /\ \A i \in 1 .. Len(b.data) : b.data[i] = c.out[i]
             /\ \A i \in 1 .. Len(d.out) : d.out[i] = c.out[Len(b.data) + i]
             /\ d \in Cards /\ d.nr = c.nr /\ d.ns = Flip(c.ns) /\ d.got = c.got /\ d.kept = c.kept
             /\ Len(c.out) <= CardChunk => d.out = <<>>
<1> DEFINE s == c.out
           n == MinOf(Len(s), CardChunk)
           f == From(s, n)
           t == SubSeq(s, 1, n)
           m == Len(s) > n
<1>1. s \in Seq(Units) /\ c.ns \in Bit
  BY CardFacts
<1>2. OutBlock(c) = IBlock(c.ns, m, t) /\ NextOut(c) = [c EXCEPT !.ns = Flip(c.ns), !.out = f]
  BY DEF OutBlock, NextOut
<1> HIDE DEF s
<1>3. Len(s) \in Nat /\ Len(s) > 0
  BY <1>1 DEF s
<1>4. n \in Nat /\ n > 0 /\ n <= Len(s) /\ (Len(s) <= CardChunk => n = Len(s))
  BY <1>3, ConstantFacts DEF MinOf
<1> HIDE DEF n
<1>5. t \in Seq(Units) /\ Len(t) = n /\ \A i \in 1 .. n : t[i] = s[i]
  BY <1>1, <1>3, <1>4
<1>6. /\ f \in Seq(Units) /\ Len(f) = Len(s) - n /\ (f = <<>> <=> n = Len(s))
      /\ \A i \in 1 .. Len(s) - n : f[i] = s[n + i]
  BY <1>1, <1>4, FromFacts
<1>7. m \in BOOLEAN /\ (m <=> n # Len(s))
  BY <1>3, <1>4
<1> HIDE DEF t, f, m
<1>8. t # <<>>
  BY <1>4, <1>5
<1> DEFINE b == IBlock(c.ns, m, t)
           d == [c EXCEPT !.ns = Flip(c.ns), !.out = f]
<1>9. b \in IBlocks /\ b.n = c.ns /\ b.more = m /\ b.data = t
  BY <1>1, <1>5, <1>7, IBlockFacts
<1>10. d \in Cards /\ d.nr = c.nr /\ d.ns = Flip(c.ns) /\ d.got = c.got /\ d.kept = c.kept /\ d.out = f
  BY <1>1, <1>6, BitFacts DEF Cards
<1> HIDE DEF b, d
<1>11. /\ b.data # <<>> /\ (b.more <=> d.out # <<>>) /\ Len(b.data) + Len(d.out) = Len(s)
       /\ Len(s) <= CardChunk => d.out = <<>>
  <2>1. b.data # <<>>
    BY <1>8, <1>9
  <2>2. b.more <=> d.out # <<>>
    BY <1>6, <1>7, <1>9, <1>10, Zenon
  <2>3. Len(b.data) + Len(d.out) = Len(s)
    <3>1. Len(b.data) = n
      BY <1>5, <1>9
    <3>2. Len(d.out) = Len(s) - n
      BY <1>6, <1>10
    <3>3. QED
      BY <1>3, <1>4, <3>1, <3>2
  <2>4. Len(s) <= CardChunk => d.out = <<>>
    BY <1>4, <1>6, <1>10, Zenon
  <2>5. QED
    BY <2>1, <2>2, <2>3, <2>4
<1>12. /\ \A i \in 1 .. Len(b.data) : b.data[i] = s[i]
       /\ \A i \in 1 .. Len(d.out) : d.out[i] = s[Len(b.data) + i]
  BY <1>5, <1>6, <1>9, <1>10
<1>13. QED
  BY <1>2, <1>9, <1>10, <1>11, <1>12 DEF s, b, d

\* A command is complete: the card executes it or has a request.
LEMMA CardActsFacts ==
  ASSUME TypesOK, NEW c \in Cards, CardActs(c), Complete(c.got, c.nr),
         c.ns = card.ns, c.out \in {<<>>, card.out}
  PROVE  (Asks \/ Executes) /\ card' \in Cards
<1>1. ASSUME NEW n \in RspLens,
             LET done == [c EXCEPT !.got = <<>>, !.out = ResponseUnits(Len(executed) + 1, n)]
             IN  /\ pin => n <= CardChunk
                 /\ executed' = Append(executed, [cmd |-> c.got, rsp |-> done.out])
                 /\ Answers(NextOut(done), OutBlock(done))
      PROVE  Executes /\ card' \in Cards
  <2> DEFINE r == ResponseUnits(Len(executed) + 1, n)
             d == [c EXCEPT !.got = <<>>, !.out = r]
  <2>1. n \in Nat /\ n > 0 /\ Len(executed) + 1 \in Nat
    BY ConstantFacts DEF TypesOK
  <2>2. r \in Seq(Units) /\ Len(r) = n
    BY <2>1 DEF ResponseUnits, Units
  <2> HIDE DEF r
  <2>3. r # <<>>
    BY <2>1, <2>2
  <2>4. d \in Cards /\ d.got = <<>> /\ d.out = r /\ d.nr = c.nr /\ d.ns = c.ns
    <3> DEFINE z == <<>>
    <3>1. z \in Seq(Units)
      OBVIOUS
    <3>2. d = [c EXCEPT !.got = z, !.out = r]
      OBVIOUS
    <3> HIDE DEF z, d
    <3>3. d \in Cards /\ d.got = z /\ d.out = r /\ d.nr = c.nr /\ d.ns = c.ns
      BY <2>2, <3>1, <3>2 DEF Cards
    <3>4. QED
      BY <3>3 DEF z
  <2>5. /\ pin => n <= CardChunk
        /\ executed' = Append(executed, [cmd |-> c.got, rsp |-> r])
        /\ Answers(NextOut(d), OutBlock(d))
    BY <1>1, <2>4 DEF r
  <2> HIDE DEF d
  <2> DEFINE b == OutBlock(d)
             e == NextOut(d)
  <2>6. /\ b \in IBlocks /\ b.n = d.ns /\ b.data # <<>>
        /\ (b.more <=> e.out # <<>>) /\ Len(b.data) + Len(e.out) = Len(r)
        /\ \A i \in 1 .. Len(b.data) : b.data[i] = r[i]
        /\ \A i \in 1 .. Len(e.out) : e.out[i] = r[Len(b.data) + i]
        /\ e \in Cards /\ e.nr = d.nr /\ e.ns = Flip(d.ns) /\ e.got = d.got
        /\ Len(r) <= CardChunk => e.out = <<>>
    BY <2>3, <2>4, OutFacts
  <2> HIDE DEF b, e
  <2>7. b \in Blocks /\ b \notin RBlocks
    BY <2>6, BlockFacts DEF Blocks
  <2>8. /\ card' \in Cards /\ Sends(b) /\ card'.kept = b
        /\ card'.nr = e.nr /\ card'.ns = e.ns /\ card'.got = e.got /\ card'.out = e.out
    BY <2>5, <2>6, <2>7, AnswersFacts DEF b, e
  <2>9. Splits(r)
    <3>1. d.out = r /\ d.ns = card.ns
      BY <2>4
    <3>2. /\ card'.kept = b /\ card'.out = e.out /\ card'.ns = Flip(card.ns) /\ b.n = card.ns /\ Sends(b)
      BY <2>6, <2>8, <3>1
    <3>3. QED
      BY <2>6, <3>2, ZenonT(30) DEF Splits
  <2>10. Complete(c.got, card'.nr) /\ card'.got = <<>> /\ (pin => card'.out = <<>>)
    BY <2>2, <2>4, <2>5, <2>6, <2>8
  <2>11. QED
    BY <2>2, <2>5, <2>8, <2>9, <2>10, CardFacts DEF Executes
<1>2. ASSUME NEW q \in SBlocks, Answers(c, q), executed' = executed
      PROVE  Asks /\ card' \in Cards
  <2>1. q \in Blocks /\ q \notin RBlocks
    BY <1>2, BlockFacts, RequestFacts DEF Blocks
  <2>2. /\ card' \in Cards /\ Sends(q) /\ card'.kept = q
        /\ card'.nr = c.nr /\ card'.ns = c.ns /\ card'.got = c.got /\ card'.out = c.out
    BY <1>2, <2>1, AnswersFacts
  <2>3. QED
    BY <1>2, <2>2 DEF Asks
<1>3. QED
  BY <1>1, <1>2 DEF CardActs, SBlocks

LEMMA RefusesFacts ==
  ASSUME NEW c \in Cards, Answers(c, RBlock(c.nr))
  PROVE  /\ card' \in Cards /\ Sends(RBlock(c.nr)) /\ card'.kept = c.kept
         /\ card'.nr = c.nr /\ card'.ns = c.ns /\ card'.got = c.got /\ card'.out = c.out
<1>1. RBlock(c.nr) \in RBlocks /\ RBlock(c.nr) \in Blocks
  BY CardFacts, BlockFacts DEF Blocks
<1>2. QED
  BY <1>1, AnswersFacts

CardDoes == (Repeats \/ TakesPart \/ Asks \/ Executes \/ GoesOn) /\ card' \in Cards

LEMMA CardGetsIFacts ==
  ASSUME TypesOK, CardOK, sblock \in Blocks, CardGetsI(sblock) PROVE CardDoes
<1>1. sblock \in IBlocks /\ card \in Cards
  BY KindFacts DEF CardGetsI, TypesOK
<1>2. CASE sblock.n # card.nr
  BY <1>1, <1>2, RefusesFacts DEF CardGetsI, CardDoes, Repeats
<1>3. CASE sblock.n = card.nr
  <2> DEFINE g == card.got \o sblock.data
             c == [card EXCEPT !.nr = Flip(card.nr), !.got = card.got \o sblock.data, !.out = <<>>]
  <2>1. g \in Seq(Units) /\ <<>> \in Seq(Units) /\ Flip(card.nr) \in Bit
    BY <1>1, CardFacts, BlockFacts, ConcatFacts, BitFacts
  <2> HIDE DEF g
  <2>2. /\ c \in Cards /\ c.nr = Flip(card.nr) /\ c.got = g /\ c.out = <<>>
        /\ c.ns = card.ns /\ c.kept = card.kept
    <3>1. c = [card EXCEPT !.nr = Flip(card.nr), !.got = g, !.out = <<>>]
      BY DEF g
    <3>2. QED
      BY <1>1, <2>1, <3>1 DEF Cards
  <2>3. IF sblock.more THEN Answers(c, RBlock(c.nr)) /\ UNCHANGED <<executed, requests>>
        ELSE CardActs(c)
    BY <1>3 DEF CardGetsI
  <2> HIDE DEF c
  <2>4. CASE sblock.more
    BY <1>1, <1>3, <2>2, <2>3, <2>4, RefusesFacts DEF CardDoes, TakesPart, g
  <2>5. CASE ~sblock.more
    <3>1. Complete(c.got, c.nr)
      BY <1>1, <1>3, <2>2, <2>5 DEF Complete, g
    <3>2. QED
      BY <2>2, <2>3, <2>5, <3>1, CardActsFacts DEF CardDoes
  <2>6. QED
    BY <2>4, <2>5
<1>4. QED
  BY <1>2, <1>3

LEMMA RepeatsFacts ==
  ASSUME card \in Cards, NEW b \in Blocks, b \in {RBlock(card.nr), card.kept}, Answers(card, b),
         executed' = executed
  PROVE  CardDoes
<1>1. CASE b = RBlock(card.nr)
  BY <1>1, RefusesFacts DEF CardDoes, Repeats
<1>2. CASE b = card.kept
  <2>1. b \notin RBlocks
    BY <1>2, CardFacts, BlockFacts, RequestFacts
  <2>2. QED
    BY <1>2, <2>1, AnswersFacts DEF CardDoes, Repeats
<1>3. QED
  BY <1>1, <1>2

LEMMA CardGetsRFacts ==
  ASSUME TypesOK, CardOK, sblock \in Blocks, CardGetsR(sblock) PROVE CardDoes
<1>1. sblock \in RBlocks /\ card \in Cards /\ executed' = executed
  BY KindFacts DEF CardGetsR, TypesOK
<1>2. card.nr \in Bit /\ card.kept \in IBlocks \cup SBlocks \cup {NoBlock}
      /\ card.last \in Blocks \cup {NoBlock}
  BY <1>1, CardFacts
<1>3. (card.kept.type = "I" <=> card.kept \in IBlocks) /\ (card.kept.type = "S" <=> card.kept \in SBlocks)
  BY <1>2, KindFacts DEF Blocks
<1>4. CASE card.kept.type = "I" /\ sblock.n # card.kept.n /\ card.out # <<>>
  <2> DEFINE b == OutBlock(card)
             e == NextOut(card)
  <2>1. /\ b \in IBlocks /\ b.n = card.ns /\ b.data # <<>>
        /\ (b.more <=> e.out # <<>>) /\ Len(b.data) + Len(e.out) = Len(card.out)
        /\ \A i \in 1 .. Len(b.data) : b.data[i] = card.out[i]
        /\ \A i \in 1 .. Len(e.out) : e.out[i] = card.out[Len(b.data) + i]
        /\ e \in Cards /\ e.nr = card.nr /\ e.ns = Flip(card.ns) /\ e.got = card.got
    BY <1>1, <1>4, OutFacts
  <2>2. Answers(e, b)
    BY <1>4 DEF CardGetsR
  <2> HIDE DEF b, e
  <2>3. b \in Blocks /\ b \notin RBlocks
    BY <2>1, BlockFacts DEF Blocks
  <2>4. /\ card' \in Cards /\ Sends(b) /\ card'.kept = b
        /\ card'.nr = e.nr /\ card'.ns = e.ns /\ card'.got = e.got /\ card'.out = e.out
    BY <2>1, <2>2, <2>3, AnswersFacts
  <2>5. Splits(card.out)
    BY <2>1, <2>4 DEF Splits
  <2>6. QED
    BY <1>1, <1>3, <1>4, <2>1, <2>4, <2>5 DEF GoesOn, CardDoes
<1>5. CASE ~(card.kept.type = "I" /\ sblock.n # card.kept.n /\ card.out # <<>>)
  <2>1. \/ card.last.type = "R" /\ Answers(card, card.last)
        \/ card.kept.type \in {"S", "I"} /\ Answers(card, card.kept)
        \/ Answers(card, RBlock(card.nr))
    BY <1>5 DEF CardGetsR
  <2>2. RBlock(card.nr) \in Blocks
    BY <1>2, BlockFacts DEF Blocks
  <2>3. card.last.type = "R" => card.last = RBlock(card.nr)
    <3>1. card.last.type = "R" => card.last \in RBlocks /\ card.last.n = card.nr
      BY <1>2, KindFacts DEF CardOK
    <3>2. QED
      BY <3>1, BlockFacts
  <2>4. card.kept.type \in {"S", "I"} => card.kept \in Blocks
    BY <1>3 DEF Blocks
  <2>5. QED
    BY <1>1, <2>1, <2>2, <2>3, <2>4, RepeatsFacts
<1>6. QED
  BY <1>4, <1>5

LEMMA CardGetsSFacts ==
  ASSUME TypesOK, CardOK, sblock \in Blocks, CardGetsS(sblock) PROVE CardDoes
<1>1. sblock \in SBlocks /\ card \in Cards
  BY KindFacts DEF CardGetsS, TypesOK
<1>2. CASE card.kept = sblock /\ card.got # <<>>
  BY <1>1, <1>2, CardActsFacts DEF CardGetsS, Complete, CardDoes
<1>3. CASE ~(card.kept = sblock /\ card.got # <<>>)
  BY <1>1, <1>3, RefusesFacts DEF CardGetsS, CardDoes, Repeats
<1>4. QED
  BY <1>2, <1>3

LEMMA XfrDamagedFacts == ASSUME TypesOK, XfrDamaged PROVE CardDoes
<1> DEFINE b == IF card.kept.type = "S" /\ card.got # <<>> THEN card.kept ELSE RBlock(card.nr)
<1>1. card' = [card EXCEPT !.last = b] /\ rbuffer' = b /\ executed' = executed /\ card \in Cards
  BY DEF XfrDamaged, TypesOK
<1>2. b \in Blocks /\ b \in {RBlock(card.nr), card.kept}
  <2>1. RBlock(card.nr) \in Blocks
    BY <1>1, CardFacts, BlockFacts DEF Blocks
  <2>2. card.kept.type = "S" => card.kept \in Blocks
    BY <1>1, CardFacts, BlockFacts DEF Blocks
  <2>3. QED
    BY <2>1, <2>2
<1> HIDE DEF b
<1>3. /\ card' \in Cards /\ card'.last = b /\ card'.kept = card.kept
      /\ card'.nr = card.nr /\ card'.ns = card.ns /\ card'.got = card.got /\ card'.out = card.out
  BY <1>1, <1>2 DEF Cards
<1>4. QED
  BY <1>1, <1>2, <1>3 DEF CardDoes, Repeats, Sends

LEMMA XfrFacts ==
  ASSUME TypesOK, DriverOK, CardOK, XfrBlock \/ XfrDamaged
  PROVE  /\ CardDoes /\ pc = "xfr" /\ pc' = "recv"
         /\ UNCHANGED <<driver, powered, clean, ret, result, calls>>
<1>1. pc = "xfr" /\ sblock \in Blocks
  BY DEF XfrBlock, XfrDamaged, DriverOK, Blocks
<1>2. pc' = "recv" /\ UNCHANGED <<driver, powered, clean, ret, result, calls>>
  BY DEF XfrBlock, XfrDamaged, CardGetsI, CardGetsR, CardGetsS, CardActs, Answers
<1>3. QED
  BY <1>1, <1>2, CardGetsIFacts, CardGetsRFacts, CardGetsSFacts, XfrDamagedFacts DEF XfrBlock

-----------------------------------------------------------------------------
(* The driver's steps.                                                     *)

\* The call fails, and with it what is promised of the next ones.
Fails ==
  /\ pc' = "idle" /\ clean' = FALSE /\ result' = <<>>
  /\ seqS' \in Bit /\ seqR' \in Bit /\ ifsc' \in Nat \ {0} /\ cmd' = cmd
  /\ sbuffer' = sbuffer /\ sblock' = sblock /\ lenr' \in Nat /\ room' \in Nat

\* The same part of the exchange goes on.
Resends ==
  /\ pc' = "xfr" /\ ~pin
  /\ sblock' \in {sbuffer} \cup RBlocks \cup SBlocks /\ (sblock' \in RBlocks => sblock'.n = seqR)
  /\ ifsc' \in Nat \ {0}
  /\ UNCHANGED <<seqS, seqR, cmd, sbuffer, lenr, rsp, room, clean, ret, result>>

Acknowledges ==
  /\ rbuffer \in RBlocks /\ rbuffer.n # sbuffer.n /\ sbuffer.more /\ ~pin
  /\ pc' = "xfr" /\ seqS' = Flip(seqS) /\ cmd' = From(cmd, Len(sbuffer.data))
  /\ sbuffer' = NextIBlock(cmd', seqS') /\ sblock' = sbuffer'
  /\ UNCHANGED <<seqR, ifsc, lenr, rsp, room, clean, ret, result>>

\* A block of the response.
Accepts ==
  /\ rbuffer \in IBlocks /\ rbuffer.n = seqR
  /\ seqR' = Flip(seqR) /\ Store(rbuffer.data) /\ UNCHANGED <<ifsc, sbuffer>>

AcceptsPart ==
  /\ Accepts /\ ~pin /\ ~sbuffer.more /\ rbuffer.more
  /\ IF cmd # <<>> THEN seqS' = Flip(seqS) /\ cmd' = From(cmd, Len(sbuffer.data))
     ELSE UNCHANGED <<seqS, cmd>>
  /\ pc' = "xfr" /\ sblock' = RBlock(seqR') /\ UNCHANGED <<clean, ret, result>>

AcceptsLast ==
  /\ Accepts /\ (~pin => ~sbuffer.more /\ ~rbuffer.more)
  /\ IF pin \/ cmd # <<>> THEN seqS' = Flip(seqS) ELSE seqS' = seqS
  /\ cmd' \in Seq(Units)
  /\ Return("SUCCESS")

LEMMA ReturnFails ==
  ASSUME NEW r \in {"PROT", "NO_ACTIVE_ICC"}, Return(r)
  PROVE  pc' = "idle" /\ clean' = FALSE /\ result' = <<>> /\ sblock' = sblock
<1>1. ret' = r /\ pc' = "idle" /\ sblock' = sblock
  BY DEF Return
<1>2. clean' = FALSE /\ result' = <<>>
  BY <1>1 DEF Return
<1>3. QED
  BY <1>1, <1>2

LEMMA AskAgainFacts ==
  ASSUME TypesOK, DriverOK, pc = "recv", ~pin, AskAgain
  PROVE  Fails \/ Resends
<1>1. /\ UNCHANGED <<seqS, seqR, ifsc, cmd, sbuffer, lenr, rsp, room>>
      /\ \/ Return("PROT")
         \/ Continue(IF sblock.type = "R" THEN sblock ELSE RBlock(seqR))
  BY DEF AskAgain
<1>2. seqS \in Bit /\ seqR \in Bit /\ ifsc \in Nat \ {0} /\ lenr \in Nat /\ room \in Nat
  BY DEF TypesOK
<1>3. CASE Return("PROT")
  BY <1>1, <1>2, <1>3, ReturnFails DEF Fails
<1>4. CASE Continue(IF sblock.type = "R" THEN sblock ELSE RBlock(seqR))
  <2> DEFINE b == IF sblock.type = "R" THEN sblock ELSE RBlock(seqR)
  <2>1. RBlock(seqR) \in RBlocks /\ RBlock(seqR).n = seqR
    BY <1>2, BlockFacts
  <2>2. sblock.type = "R" => sblock \in RBlocks /\ sblock.n = seqR
    BY KindFacts DEF TypesOK, DriverOK
  <2>3. b \in RBlocks /\ b.n = seqR
    BY <2>1, <2>2
  <2>4. pc' = "xfr" /\ sblock' = b /\ UNCHANGED <<clean, ret, result>>
    BY <1>4 DEF Continue, Send
  <2> HIDE DEF b
  <2>5. QED
    BY <1>1, <1>2, <2>3, <2>4 DEF Resends
<1>5. QED
  BY <1>1, <1>3, <1>4

LEMMA ReceiveFacts ==
  ASSUME TypesOK, DriverOK, CardOK, Receive
  PROVE  /\ pc = "recv" /\ rbuffer' = NoBlock /\ UNCHANGED <<pin, size, card, calls, executed>>
         /\ Fails \/ Resends \/ Acknowledges \/ AcceptsPart \/ AcceptsLast
<1>1. pc = "recv" /\ rbuffer' = NoBlock /\ UNCHANGED <<pin, size, card, calls, executed>>
  BY DEF Receive
<1>2. rbuffer \in {Damaged, Mute} \cup Blocks
  BY <1>1 DEF CardOK
<1>3. /\ rbuffer.type = "I" <=> rbuffer \in IBlocks
      /\ rbuffer.type = "R" <=> rbuffer \in RBlocks
      /\ rbuffer.type = "S" <=> rbuffer \in SBlocks
  BY <1>2, KindFacts
<1>4. seqS \in Bit /\ seqR \in Bit /\ ifsc \in Nat \ {0} /\ lenr \in Nat /\ room \in Nat
      /\ cmd \in Seq(Units)
  BY DEF TypesOK
<1>5. CASE pin
  <2>1. RecvPin /\ UNCHANGED <<ifsc, cmd, sbuffer>>
    BY <1>5 DEF Receive, RecvPin
  <2>2. CASE rbuffer.type = "I" /\ rbuffer.n = seqR
    BY <1>1, <1>3, <1>4, <1>5, <2>1, <2>2 DEF RecvPin, Accepts, AcceptsLast
  <2>3. CASE ~(rbuffer.type = "I" /\ rbuffer.n = seqR)
    <3>1. Return("PROT") /\ UNCHANGED <<seqS, seqR, lenr, rsp, room>>
      BY <2>1, <2>3 DEF RecvPin
    <3>2. QED
      BY <1>1, <1>4, <2>1, <3>1, ReturnFails DEF Fails
  <2>4. QED
    BY <1>1, <2>2, <2>3
<1>6. CASE ~pin
  <2>1. RecvDamaged \/ RecvMute \/ RecvI \/ RecvS \/ RecvR
    BY <1>6 DEF Receive
  <2>2. CASE RecvDamaged
    BY <1>1, <1>6, <2>2, AskAgainFacts DEF RecvDamaged
  <2>3. CASE RecvMute
    BY <1>1, <1>4, <2>3, ReturnFails DEF RecvMute, Fails
  <2>4. CASE RecvI
    <3>1. CASE Unexpected
      BY <1>1, <1>6, <2>4, <3>1, AskAgainFacts DEF RecvI
    <3>2. CASE ~Unexpected
      <4>1. /\ seqR' = Flip(seqR) /\ Store(rbuffer.data) /\ UNCHANGED <<ifsc, sbuffer>>
            /\ rbuffer \in IBlocks /\ rbuffer.n = seqR /\ ~sbuffer.more
            /\ IF cmd # <<>> THEN seqS' = Flip(seqS) /\ cmd' = From(cmd, Len(sbuffer.data))
               ELSE UNCHANGED <<seqS, cmd>>
            /\ IF rbuffer.more THEN Continue(RBlock(seqR')) ELSE Return("SUCCESS")
        BY <1>3, <2>4, <3>2 DEF RecvI, Unexpected
      <4>2. CASE rbuffer.more
        BY <1>1, <1>6, <4>1, <4>2 DEF Accepts, AcceptsPart, Continue, Send
      <4>3. CASE ~rbuffer.more
        <5>1. cmd # <<>> => From(cmd, Len(sbuffer.data)) \in Seq(Units)
          <6>1. cmd # <<>> => Len(sbuffer.data) \in Nat /\ Len(sbuffer.data) <= Len(cmd)
            BY <1>1, BlockFacts DEF DriverOK
          <6>2. QED
            BY <1>4, <6>1, FromFacts
        <5>2. QED
          BY <1>1, <1>4, <1>6, <4>1, <4>3, <5>1 DEF Accepts, AcceptsLast
      <4>4. QED
        BY <4>2, <4>3
    <3>3. QED
      BY <3>1, <3>2
  <2>5. CASE RecvS
    <3>1. /\ rbuffer \in SBlocks /\ UNCHANGED <<seqS, seqR, cmd, sbuffer, lenr, rsp, room>>
          /\ ifsc' = IF rbuffer.kind = "IFS" THEN rbuffer.value ELSE ifsc
          /\ Return("PROT") \/ Continue(rbuffer)
      BY <1>3, <2>5 DEF RecvS
    <3>2. ifsc' \in Nat \ {0}
      BY <1>4, <3>1, RequestFacts
    <3>3. rbuffer \notin RBlocks
      BY <3>1, BlockFacts, RequestFacts
    <3>4. CASE Return("PROT")
      BY <1>1, <1>4, <3>1, <3>2, <3>4, ReturnFails DEF Fails
    <3>5. CASE Continue(rbuffer)
      BY <1>1, <1>6, <3>1, <3>2, <3>3, <3>5 DEF Resends, Continue, Send
    <3>6. QED
      BY <3>1, <3>4, <3>5
  <2>6. CASE RecvR
    <3>1. CASE AskAgain
      BY <1>1, <1>6, <3>1, AskAgainFacts
    <3>2. CASE Repeat /\ UNCHANGED <<seqR, ifsc, lenr, rsp, room>>
      <4>1. sbuffer \notin RBlocks
        BY <1>1, BlockFacts DEF DriverOK
      <4>2. QED
        BY <1>1, <1>4, <1>6, <3>2, <4>1 DEF Repeat, Resends, Continue, Send
    <3>3. CASE Acknowledged /\ UNCHANGED <<seqR, ifsc, lenr, rsp, room>>
      BY <1>1, <1>3, <1>6, <2>6, <3>3 DEF RecvR, Acknowledged, Acknowledges, Continue, Send
    <3>4. QED
      BY <2>6, <3>1, <3>2, <3>3 DEF RecvR
  <2>7. QED
    BY <2>1, <2>2, <2>3, <2>4, <2>5, <2>6
<1>7. QED
  BY <1>5, <1>6

-----------------------------------------------------------------------------
(* Types, the driver's command, and what the card repeats.                 *)

LEMMA StoreFacts ==
  ASSUME TypesOK, rbuffer \in IBlocks, Store(rbuffer.data)
  PROVE  lenr' = lenr + Len(rbuffer.data) /\ lenr' \in Nat /\ room' \in Nat
<1>1. Len(rbuffer.data) \in Nat /\ lenr \in Nat /\ room \in Nat
  BY BlockFacts DEF TypesOK
<1>2. QED
  BY <1>1 DEF Store

\* The parts of the invariant that hold in failed sessions too.
Base == TypesOK /\ DriverOK /\ CardOK

LEMMA BaseFails == ASSUME Base, pc = "recv", Fails, UNCHANGED <<pin, size, card, calls, executed>> PROVE Base'
BY DEF Base, Fails, TypesOK, DriverOK, CardOK

LEMMA BaseResends == ASSUME Base, pc = "recv", Resends, UNCHANGED <<pin, size, card, calls, executed>> PROVE Base'
<1>1. sblock' \in Blocks
  BY DEF Base, Resends, DriverOK, Blocks
<1>2. TypesOK'
  BY <1>1 DEF Base, Resends, TypesOK
<1>3. Call' = Call /\ Pos' = Pos
  BY DEF Call, Pos, Resends
<1>4. DriverOK'
  BY <1>3 DEF Base, Resends, DriverOK, Numbered
<1>5. CardOK'
  BY DEF Base, Resends, CardOK
<1>6. QED
  BY <1>2, <1>4, <1>5 DEF Base

\* Where the I-block is in the command.
LEMMA CallFacts == ASSUME TypesOK PROVE Call \in Nat
BY DEF TypesOK, Call

LEMMA BlockPosition ==
  ASSUME NEW d \in Seq(Units), d # <<>>, NEW k, NEW p \in Int,
         \A i \in 1 .. Len(d) : d[i] = <<k, p + i>>
  PROVE  Len(d) \in Nat /\ Len(d) > 0 /\ d[1][2] - 1 = p /\ Last(d) = <<k, p + Len(d)>>
<1>1. Len(d) \in Nat /\ Len(d) > 0
  OBVIOUS
<1>2. d[1] = <<k, p + 1>> /\ d[Len(d)] = <<k, p + Len(d)>>
  BY <1>1
<1>3. d[1][2] = p + 1
  BY <1>2
<1>4. QED
  BY <1>1, <1>2, <1>3 DEF Last

LEMMA AcknowledgedBlock ==
  ASSUME Base, pc = "recv", Acknowledges, UNCHANGED calls
  PROVE  /\ cmd # <<>> /\ cmd' \in Seq(Units) /\ cmd' # <<>>
         /\ sbuffer' \in IBlocks /\ sbuffer'.n = Flip(seqS) /\ sbuffer'.data # <<>>
         /\ Pos' = Pos + Len(sbuffer.data) /\ Pos' \in Nat /\ Call' = Call
         /\ Numbered(sbuffer.data, Pos)' /\ Numbered(cmd, Pos)'
         /\ Pos' + Len(cmd') = Len(calls[Call])
         /\ Len(sbuffer'.data) <= Len(cmd') /\ (sbuffer'.more <=> Len(sbuffer'.data) < Len(cmd'))
         /\ Len(sbuffer.data) \in Nat /\ Len(sbuffer'.data) \in Nat /\ Len(sbuffer'.data) > 0
<1> DEFINE L == Len(sbuffer.data)
<1>1. /\ sbuffer \in IBlocks /\ sbuffer.more /\ sbuffer.data # <<>> /\ Pos \in Nat
      /\ cmd # <<>> /\ Numbered(cmd, Pos) /\ Pos + Len(cmd) = Len(calls[Call]) /\ L < Len(cmd)
  BY DEF Base, DriverOK, Acknowledges
<1>2. cmd \in Seq(Units) /\ L \in Nat /\ L > 0 /\ Len(cmd) \in Nat /\ ifsc \in Nat \ {0} /\ seqS \in Bit
  BY <1>1, BlockFacts DEF Base, TypesOK
<1> HIDE DEF L
<1>3. cmd' = From(cmd, L) /\ sbuffer' = NextIBlock(cmd', Flip(seqS))
  BY DEF Acknowledges, L
<1>4. /\ cmd' \in Seq(Units) /\ cmd' # <<>> /\ Len(cmd') = Len(cmd) - L
      /\ \A i \in 1 .. Len(cmd) - L : cmd'[i] = cmd[L + i]
  <2>1. L <= Len(cmd) /\ L # Len(cmd)
    BY <1>1, <1>2 DEF L
  <2>2. QED
    BY <1>2, <1>3, <2>1, FromFacts
<1>5. /\ sbuffer' \in IBlocks /\ sbuffer'.n = Flip(seqS) /\ sbuffer'.data # <<>>
      /\ Len(sbuffer'.data) <= Len(cmd') /\ Len(sbuffer'.data) > 0
      /\ sbuffer'.more <=> Len(sbuffer'.data) < Len(cmd')
      /\ \A i \in 1 .. Len(sbuffer'.data) : sbuffer'.data[i] = cmd'[i]
  <2> DEFINE c == cmd'
             f == Flip(seqS)
             b == NextIBlock(c, f)
  <2>1. c \in Seq(Units) /\ c # <<>> /\ f \in Bit /\ ifsc \in Nat \ {0} /\ sbuffer' = b
    BY <1>2, <1>3, <1>4, BitFacts
  <2> HIDE DEF c, f
  <2>2. /\ b \in IBlocks /\ b.n = f /\ b.data # <<>>
        /\ Len(b.data) <= Len(c) /\ Len(b.data) > 0
        /\ b.more <=> Len(b.data) < Len(c)
        /\ \A i \in 1 .. Len(b.data) : b.data[i] = c[i]
    BY <2>1, NextIBlockFacts
  <2> HIDE DEF b
  <2>3. QED
    BY <2>1, <2>2 DEF c, f
<1>6. sbuffer'.data \in Seq(Units) /\ Len(sbuffer'.data) \in Nat
  BY <1>5, BlockFacts
<1>7. Call' = Call /\ Call \in Nat
  BY CallFacts DEF Call, Base
<1>8. \A i \in 1 .. Len(cmd') : cmd'[i] = <<Call, (Pos + L) + i>>
  <2> SUFFICES ASSUME NEW i \in 1 .. Len(cmd') PROVE cmd'[i] = <<Call, (Pos + L) + i>>
    OBVIOUS
  <2>1. L + i \in 1 .. Len(cmd) /\ cmd'[i] = cmd[L + i]
    BY <1>2, <1>4
  <2>2. cmd[L + i] = <<Call, Pos + (L + i)>>
    BY <1>1, <2>1 DEF Numbered
  <2>3. Pos + (L + i) = (Pos + L) + i
    BY <1>1, <1>2
  <2>4. QED
    BY <2>1, <2>2, <2>3
<1>9. \A i \in 1 .. Len(sbuffer'.data) : sbuffer'.data[i] = <<Call, (Pos + L) + i>>
  <2> SUFFICES ASSUME NEW i \in 1 .. Len(sbuffer'.data) PROVE sbuffer'.data[i] = <<Call, (Pos + L) + i>>
    OBVIOUS
  <2>1. sbuffer'.data[i] = cmd'[i]
    BY <1>5
  <2>2. Len(cmd') \in Nat
    BY <1>4
  <2>3. i \in 1 .. Len(cmd')
    BY <1>5, <1>6, <2>2
  <2>4. QED
    BY <1>8, <2>1, <2>3
<1>10. Pos' = Pos + L
  <2>1. sbuffer'.data[1][2] - 1 = Pos + L
    BY <1>1, <1>2, <1>5, <1>6, <1>9, BlockPosition
  <2>2. QED
    BY <2>1 DEF Pos
<1>11. Numbered(sbuffer.data, Pos)' /\ Numbered(cmd, Pos)'
  BY <1>7, <1>8, <1>9, <1>10 DEF Numbered
<1>12. Pos' \in Nat /\ Pos' + Len(cmd') = Len(calls[Call])
  <2>1. Pos' \in Nat
    BY <1>1, <1>2, <1>10
  <2>2. Pos' + Len(cmd') = Pos + Len(cmd)
    BY <1>1, <1>2, <1>4, <1>10
  <2>3. QED
    BY <1>1, <2>1, <2>2
<1>13. QED
  BY <1>1, <1>2, <1>4, <1>5, <1>6, <1>7, <1>10, <1>11, <1>12 DEF L

LEMMA BaseAcknowledges ==
  ASSUME Base, pc = "recv", Acknowledges, UNCHANGED <<pin, size, card, calls, executed>>
  PROVE  Base'
<1>1. /\ cmd' \in Seq(Units) /\ cmd' # <<>>
      /\ sbuffer' \in IBlocks /\ sbuffer'.n = Flip(seqS) /\ sbuffer'.data # <<>>
      /\ Pos' \in Nat /\ Call' = Call
      /\ Numbered(sbuffer.data, Pos)' /\ Numbered(cmd, Pos)'
      /\ Pos' + Len(cmd') = Len(calls[Call])
      /\ Len(sbuffer'.data) <= Len(cmd') /\ (sbuffer'.more <=> Len(sbuffer'.data) < Len(cmd'))
  BY AcknowledgedBlock
<1>2. /\ pc' = "xfr" /\ seqS' = Flip(seqS) /\ sblock' = sbuffer'
      /\ UNCHANGED <<seqR, ifsc, lenr, room, clean>>
  BY DEF Acknowledges
<1>3. sbuffer' \in Blocks /\ sbuffer' \notin RBlocks
  BY <1>1, BlockFacts DEF Blocks
<1>4. TypesOK'
  BY <1>1, <1>2, <1>3, BitFacts DEF Base, TypesOK
<1>5. calls # <<>> /\ Numbered(calls[Call], 0)'
  BY <1>1 DEF Base, DriverOK, Numbered
<1>6. DriverOK'
  BY <1>1, <1>2, <1>3, <1>5 DEF DriverOK
<1>7. CardOK'
  BY <1>2 DEF Base, CardOK
<1>8. QED
  BY <1>4, <1>6, <1>7 DEF Base

LEMMA BaseAcceptsPart ==
  ASSUME Base, pc = "recv", AcceptsPart, UNCHANGED <<pin, size, card, calls, executed>>
  PROVE  Base' /\ cmd' = <<>>
<1>1. /\ rbuffer \in IBlocks /\ seqR' = Flip(seqR) /\ Store(rbuffer.data) /\ UNCHANGED <<ifsc, sbuffer, clean>>
      /\ pc' = "xfr" /\ sblock' = RBlock(seqR') /\ ~sbuffer.more
  BY DEF AcceptsPart, Accepts
<1>2. seqS' \in Bit /\ seqR' \in Bit
  BY <1>1, BitFacts DEF AcceptsPart, Base, TypesOK
<1>3. sblock' \in RBlocks /\ sblock'.n = seqR' /\ sblock' \in Blocks
  BY <1>1, <1>2, BlockFacts DEF Blocks
<1>4. cmd' = <<>>
  <2>1. CASE cmd = <<>>
    BY <2>1 DEF AcceptsPart
  <2>2. CASE cmd # <<>>
    <3>1. /\ cmd' = From(cmd, Len(sbuffer.data)) /\ cmd \in Seq(Units) /\ Len(sbuffer.data) \in Nat
          /\ Len(sbuffer.data) <= Len(cmd) /\ ~(Len(sbuffer.data) < Len(cmd))
      BY <1>1, <2>2, BlockFacts DEF AcceptsPart, Base, TypesOK, DriverOK
    <3>2. Len(sbuffer.data) = Len(cmd)
      BY <3>1
    <3>3. QED
      BY <3>1, <3>2, FromFacts
  <2>3. QED
    BY <2>1, <2>2
<1>5. Pos + Len(sbuffer.data) = Len(calls[Call])
  <2>1. CASE cmd = <<>>
    BY <2>1 DEF Base, DriverOK
  <2>2. CASE cmd # <<>>
    <3>1. /\ Pos + Len(cmd) = Len(calls[Call]) /\ Len(sbuffer.data) \in Nat
          /\ Len(cmd) \in Nat
          /\ Len(sbuffer.data) <= Len(cmd) /\ ~(Len(sbuffer.data) < Len(cmd))
      BY <1>1, <2>2, BlockFacts DEF Base, TypesOK, DriverOK
    <3>2. Len(sbuffer.data) = Len(cmd)
      BY <3>1
    <3>3. QED
      BY <3>1, <3>2
  <2>3. QED
    BY <2>1, <2>2
<1>6. cmd' \in Seq(Units)
  BY <1>4
<1>7. TypesOK'
  BY <1>1, <1>2, <1>3, <1>6, StoreFacts DEF Base, TypesOK
<1>8. Call' = Call /\ Pos' = Pos
  BY <1>1 DEF Call, Pos
<1>9. DriverOK'
  BY <1>1, <1>3, <1>4, <1>5, <1>8 DEF Base, DriverOK, Numbered
<1>10. CardOK'
  BY <1>1 DEF Base, CardOK
<1>11. QED
  BY <1>4, <1>7, <1>9, <1>10 DEF Base

LEMMA BaseAcceptsLast ==
  ASSUME Base, pc = "recv", AcceptsLast, UNCHANGED <<pin, size, card, calls, executed>>
  PROVE  Base'
<1>1. /\ rbuffer \in IBlocks /\ seqR' = Flip(seqR) /\ Store(rbuffer.data) /\ UNCHANGED <<ifsc, sbuffer, sblock>>
      /\ pc' = "idle" /\ cmd' \in Seq(Units) /\ seqS' \in {seqS, Flip(seqS)}
  BY DEF AcceptsLast, Accepts, Return
<1>2. clean' \in BOOLEAN
  BY DEF AcceptsLast, Return
<1>3. TypesOK'
  BY <1>1, <1>2, StoreFacts, BitFacts DEF Base, TypesOK
<1>4. DriverOK' /\ CardOK'
  BY <1>1 DEF Base, DriverOK, CardOK
<1>5. QED
  BY <1>3, <1>4 DEF Base

LEMMA BaseReceive == ASSUME Base, Receive PROVE Base'
BY ReceiveFacts, BaseFails, BaseResends, BaseAcknowledges, BaseAcceptsPart, BaseAcceptsLast DEF Base

LEMMA BaseXfr == ASSUME Base, XfrBlock \/ XfrDamaged PROVE Base'
<1>1. /\ CardDoes /\ pc' = "recv" /\ UNCHANGED <<driver, clean, calls>>
      /\ pc = "xfr" /\ TypesOK /\ DriverOK /\ CardOK
  BY XfrFacts DEF Base
<1>2. \E b : b \in Blocks /\ Sends(b) /\ (b = RBlock(card'.nr) \/ b = card'.kept)
  <2>1. CASE Repeats
    BY <2>1 DEF Repeats, Sends
  <2>2. CASE TakesPart
    BY <2>2 DEF TakesPart, Sends
  <2>3. CASE Asks
    BY <2>3 DEF Asks, Sends
  <2>4. CASE Executes
    BY <2>4 DEF Executes, Splits, Sends
  <2>5. CASE GoesOn
    BY <2>5 DEF GoesOn, Splits, Sends
  <2>6. QED
    BY <1>1, <2>1, <2>2, <2>3, <2>4, <2>5 DEF CardDoes
<1>3. executed' \in Seq([cmd : Seq(Units), rsp : Seq(Units)])
  <2> DEFINE E == [cmd : Seq(Units), rsp : Seq(Units)]
  <2>1. executed \in Seq(E)
    BY <1>1 DEF TypesOK
  <2>2. CASE Executes
    <3>1. PICK g, r \in Seq(Units) : executed' = Append(executed, [cmd |-> g, rsp |-> r])
      BY <2>2 DEF Executes
    <3> DEFINE e == [cmd |-> g, rsp |-> r]
    <3>2. e \in E
      OBVIOUS
    <3> HIDE DEF e, E
    <3>3. Append(executed, e) \in Seq(E)
      BY <2>1, <3>2
    <3>4. QED
      BY <3>1, <3>3 DEF e, E
  <2>3. CASE executed' = executed
    BY <2>1, <2>3
  <2>4. QED
    BY <1>1, <2>2, <2>3 DEF CardDoes, Repeats, TakesPart, Asks, GoesOn
<1>4. card' \in Cards
  BY <1>1 DEF CardDoes
<1>5. TypesOK'
  BY <1>1, <1>3, <1>4 DEF TypesOK, driver
<1>6. Call' = Call /\ Pos' = Pos
  BY <1>1 DEF Call, Pos, driver
<1>7. DriverOK'
  BY <1>1, <1>6 DEF DriverOK, Numbered, driver
<1>8. CardOK'
  <2>1. PICK b \in Blocks : Sends(b) /\ (b = RBlock(card'.nr) \/ b = card'.kept)
    BY <1>2
  <2>2. card'.last = b /\ rbuffer' \in {b, Damaged, Mute}
    BY <2>1 DEF Sends
  <2>3. card'.nr \in Bit /\ card'.kept \in IBlocks \cup SBlocks \cup {NoBlock}
    BY <1>4, CardFacts
  <2>4. CASE b = RBlock(card'.nr)
    <3>1. b \in RBlocks /\ b.n = card'.nr /\ b.type = "R"
      BY <2>3, <2>4, BlockFacts
    <3>2. QED
      BY <2>2, <3>1 DEF CardOK
  <2>5. CASE b = card'.kept
    <3>1. b.type # "R"
      BY <2>3, <2>5, BlockFacts, RequestFacts
    <3>2. QED
      BY <2>2, <2>5, <3>1 DEF CardOK
  <2>6. QED
    BY <2>1, <2>4, <2>5
<1>9. QED
  BY <1>5, <1>7, <1>8 DEF Base

-----------------------------------------------------------------------------
(* A call begins.                                                          *)

LEMMA CommandFacts ==
  ASSUME NEW k \in Nat, NEW n \in CmdLens
  PROVE  LET c == CommandUnits(k, n)
         IN  /\ c \in Seq(Units) /\ c # <<>> /\ Len(c) = n
             /\ \A i \in 1 .. Len(c) : c[i] = <<k, 0 + i>>
<1>1. n \in Nat /\ n > 0
  BY ConstantFacts
<1> DEFINE c == CommandUnits(k, n)
<1>2. c \in Seq(Units) /\ Len(c) = n
  BY <1>1 DEF CommandUnits, Units
<1>3. \A i \in 1 .. n : c[i] = <<k, 0 + i>>
  BY <1>1 DEF CommandUnits
<1> HIDE DEF c
<1>4. c # <<>>
  BY <1>1, <1>2
<1>5. QED
  BY <1>2, <1>3, <1>4 DEF c

LEMMA CtDataFacts ==
  ASSUME TypesOK, NEW n \in CmdLens, NEW max \in Rooms, NEW p \in BOOLEAN, CtData(n, max, p)
  PROVE  /\ calls' \in Seq(Seq(Units)) /\ calls' # <<>> /\ Call' = Call + 1 /\ calls'[Call'] = cmd'
         /\ \A i \in 1 .. Call : calls'[i] = calls[i]
         /\ cmd' \in Seq(Units) /\ cmd' # <<>> /\ Numbered(cmd, 0)' /\ Numbered(cmd, Pos)'
         /\ sbuffer' \in IBlocks /\ sbuffer'.n = seqS /\ sbuffer'.data # <<>> /\ Pos' = 0
         /\ Numbered(sbuffer.data, Pos)'
         /\ Len(sbuffer'.data) <= Len(cmd') /\ (sbuffer'.more <=> Len(sbuffer'.data) < Len(cmd'))
         /\ Last(sbuffer'.data)[1] = Call + 1
<1> DEFINE c == CommandUnits(Call + 1, n)
           b == NextIBlock(c, seqS)
<1>1. Call \in Nat /\ ifsc \in Nat \ {0} /\ seqS \in Bit /\ calls \in Seq(Seq(Units))
  BY CallFacts DEF TypesOK
<1>2. calls' = Append(calls, c) /\ cmd' = c /\ sbuffer' = b
  BY DEF CtData, Call
<1>3. /\ c \in Seq(Units) /\ c # <<>>
      /\ \A i \in 1 .. Len(c) : c[i] = <<Call + 1, 0 + i>>
  BY <1>1, CommandFacts
<1> HIDE DEF c
<1>4. /\ b \in IBlocks /\ b.n = seqS /\ b.data # <<>>
      /\ Len(b.data) <= Len(c)
      /\ b.more <=> Len(b.data) < Len(c)
      /\ \A i \in 1 .. Len(b.data) : b.data[i] = c[i]
  BY <1>1, <1>3, NextIBlockFacts
<1> HIDE DEF b
<1>5. b.data \in Seq(Units) /\ Len(b.data) \in Nat /\ Len(c) \in Nat
  BY <1>3, <1>4, BlockFacts
<1>6. \A i \in 1 .. Len(b.data) : b.data[i] = <<Call + 1, 0 + i>>
  BY <1>3, <1>4, <1>5
<1>7. b.data[1][2] - 1 = 0 /\ Last(b.data) = <<Call + 1, 0 + Len(b.data)>>
  <2> DEFINE z == 0
             k == Call + 1
  <2>1. z \in Int /\ \A i \in 1 .. Len(b.data) : b.data[i] = <<k, z + i>>
    BY <1>6
  <2> HIDE DEF z, k
  <2> DEFINE d == b.data
  <2>2. d \in Seq(Units) /\ d # <<>> /\ \A i \in 1 .. Len(d) : d[i] = <<k, z + i>>
    BY <1>4, <1>5, <2>1
  <2> HIDE DEF d
  <2>3. d[1][2] - 1 = z /\ Last(d) = <<k, z + Len(d)>>
    BY <2>1, <2>2, BlockPosition
  <2>4. QED
    BY <2>3 DEF z, k, d
<1>8. Last(b.data)[1] = Call + 1
  BY <1>7
<1>9. /\ calls' \in Seq(Seq(Units)) /\ Len(calls') = Call + 1 /\ calls'[Call + 1] = c
      /\ \A i \in 1 .. Call : calls'[i] = calls[i]
  BY <1>1, <1>2, <1>3 DEF Call
<1>10. Call' = Call + 1 /\ Pos' = 0
  BY <1>2, <1>7, <1>9 DEF Call, Pos
<1>11. calls' # <<>>
  BY <1>1, <1>9
<1>12. Numbered(cmd, 0)' /\ Numbered(cmd, Pos)' /\ Numbered(sbuffer.data, Pos)'
  BY <1>2, <1>3, <1>6, <1>10 DEF Numbered
<1>13. QED
  BY <1>2, <1>3, <1>4, <1>8, <1>9, <1>10, <1>11, <1>12

LEMMA BaseCtData ==
  ASSUME Base, NEW n \in CmdLens, NEW max \in Rooms, NEW p \in BOOLEAN, CtData(n, max, p)
  PROVE  Base'
<1>1. TypesOK /\ DriverOK /\ CardOK
  BY DEF Base
<1> DEFINE F == /\ calls' \in Seq(Seq(Units)) /\ calls' # <<>> /\ calls'[Call'] = cmd'
                /\ cmd' \in Seq(Units) /\ cmd' # <<>> /\ Numbered(cmd, 0)' /\ Numbered(cmd, Pos)'
                /\ sbuffer' \in IBlocks /\ sbuffer'.data # <<>> /\ Pos' = 0
                /\ Numbered(sbuffer.data, Pos)'
                /\ Len(sbuffer'.data) <= Len(cmd') /\ (sbuffer'.more <=> Len(sbuffer'.data) < Len(cmd'))
<1>2. F
  BY <1>1, CtDataFacts
<1>3. /\ pin' = p /\ lenr' = 0 /\ size' = max /\ room' = max
      /\ IF max < 2 THEN UNCHANGED <<pc, sblock>> ELSE pc' = "xfr" /\ sblock' = sbuffer'
      /\ UNCHANGED <<seqS, seqR, ifsc, clean, card, executed>> /\ pc = "idle"
  BY DEF CtData, Send
<1>4. sbuffer' \in Blocks /\ sbuffer' \notin RBlocks
  BY <1>2, BlockFacts DEF Blocks
<1>5. max \in Nat
  BY ConstantFacts
<1>6. TypesOK'
  BY <1>1, <1>2, <1>3, <1>4, <1>5 DEF TypesOK
<1>7. Numbered(calls[Call], 0)'
  BY <1>2 DEF Numbered
<1>8. DriverOK'
  <2>1. CASE max < 2
    BY <1>3, <2>1 DEF DriverOK
  <2>2. CASE ~(max < 2)
    <3>1. sblock' = sbuffer'
      BY <1>3, <2>2
    <3>2. Pos' \in Nat /\ Pos' + Len(cmd') = Len(calls'[Call'])
      <4>1. Len(cmd') \in Nat
        BY <1>2
      <4>2. QED
        BY <1>2, <4>1
    <3>3. QED
      BY <1>2, <1>4, <1>7, <3>1, <3>2 DEF DriverOK
  <2>3. QED
    BY <2>1, <2>2
<1>9. CardOK'
  <2>1. pc' # "recv"
    BY <1>3
  <2>2. QED
    BY <1>1, <1>3, <2>1 DEF CardOK
<1>10. QED
  BY <1>6, <1>8, <1>9 DEF Base

\* The other actions without a block.
LEMMA CancelFacts ==
  ASSUME TypesOK, PinCanceled
  PROVE  /\ pc' = "idle" /\ clean' = clean /\ result' = <<>> /\ pc = "xfr" /\ pin
         /\ UNCHANGED <<driver, card, calls, executed>>
<1>1. /\ ret' = "CANCELED" /\ pc' = "idle" /\ UNCHANGED <<driver, card, calls, executed>>
      /\ pc = "xfr" /\ pin
  BY DEF PinCanceled, Return, driver
<1>2. clean' = (clean /\ TRUE) /\ result' = <<>>
  BY <1>1 DEF PinCanceled, Return
<1>3. clean' = clean
  BY <1>2 DEF TypesOK
<1>4. QED
  BY <1>1, <1>2, <1>3

LEMMA BaseOther ==
  ASSUME Base, Activate \/ Deactivate \/ PinCanceled \/ NoCard PROVE Base'
<1>1. TypesOK /\ DriverOK /\ CardOK
  BY DEF Base
<1>2. CASE Activate
  <2>1. FreshCard \in Cards /\ FreshCard.last = FreshCard.kept /\ FreshCard.last.type = "none"
    BY BlockFacts DEF FreshCard, Cards, Bit
  <2>2. 0 \in Bit /\ FirstIfs \in Nat \ {0}
    BY ConstantFacts DEF Bit
  <2>3. TypesOK'
    BY <1>1, <1>2, <2>1, <2>2 DEF Activate, TypesOK
  <2>4. DriverOK' /\ CardOK'
    BY <1>2, <2>1 DEF Activate, DriverOK, CardOK
  <2>5. QED
    BY <2>3, <2>4 DEF Base
<1>3. CASE Deactivate
  BY <1>1, <1>3 DEF Deactivate, driver, TypesOK, DriverOK, CardOK, Base
<1>4. CASE PinCanceled
  <2>1. pc' = "idle" /\ clean' \in BOOLEAN /\ UNCHANGED <<driver, card, calls, executed>>
    BY <1>1, <1>4, CancelFacts DEF TypesOK
  <2>2. QED
    BY <1>1, <2>1 DEF driver, TypesOK, DriverOK, CardOK, Base
<1>5. CASE NoCard
  <2>1. pc' = "idle" /\ clean' = FALSE /\ UNCHANGED <<driver, card, calls, executed>>
    BY <1>5, ReturnFails DEF NoCard, driver
  <2>2. QED
    BY <1>1, <2>1 DEF driver, TypesOK, DriverOK, CardOK, Base
<1>6. QED
  BY <1>2, <1>3, <1>4, <1>5

-----------------------------------------------------------------------------
(* The order of the units.                                                 *)

LEMMA LastFacts == ASSUME NEW c \in Seq(Units), c # <<>> PROVE Last(c) \in Units
BY DEF Last

LEMMA UnitFacts ==
  /\ \A u \in Units : u[1] \in Nat /\ u[2] \in Nat /\ ~Before(u, u)
  /\ \A u, v, w \in Units : NotAfter(u, v) /\ Before(v, w) => Before(u, w)
<1>1. \A u \in Units : u[1] \in Nat /\ u[2] \in Nat
  BY DEF Units
<1>2. QED
  BY <1>1 DEF Before, NotAfter

\* The end of the current I-block.
LEMMA EndFacts ==
  ASSUME Base, pc # "idle"
  PROVE  /\ Last(sbuffer.data) \in Units /\ Last(sbuffer.data) = <<Call, Pos + Len(sbuffer.data)>>
         /\ Last(sbuffer.data)[1] = Call
<1>1. /\ sbuffer.data \in Seq(Units) /\ sbuffer.data # <<>> /\ Pos \in Int
      /\ \A i \in 1 .. Len(sbuffer.data) : sbuffer.data[i] = <<Call, Pos + i>>
  BY BlockFacts DEF Base, DriverOK, Numbered
<1>2. Last(sbuffer.data) = <<Call, Pos + Len(sbuffer.data)>>
  <2> DEFINE d == sbuffer.data
             p == Pos
             k == Call
  <2>1. d \in Seq(Units) /\ d # <<>> /\ p \in Int /\ \A i \in 1 .. Len(d) : d[i] = <<k, p + i>>
    BY <1>1
  <2> HIDE DEF d, p, k
  <2>2. Last(d) = <<k, p + Len(d)>>
    BY <2>1, BlockPosition
  <2>3. QED
    BY <2>2 DEF d, p, k
<1>3. QED
  BY <1>1, <1>2, LastFacts

LEMMA ExecutedFacts ==
  ASSUME TypesOK, OrderOK, NEW i \in 1 .. Len(executed)
  PROVE  /\ executed[i].cmd \in Seq(Units) /\ executed[i].cmd # <<>>
         /\ Last(executed[i].cmd) \in Units /\ Last(executed[i].cmd) \in Seen
         /\ card.got # <<>> => Before(Last(executed[i].cmd), Last(card.got))
<1> DEFINE E == [cmd : Seq(Units), rsp : Seq(Units)]
<1>1. executed \in Seq(E)
  BY DEF TypesOK
<1> HIDE DEF E
<1>2. executed[i] \in E
  BY <1>1
<1>3. executed[i].cmd \in Seq(Units)
  BY <1>2 DEF E
<1>4. QED
  BY <1>3, LastFacts DEF OrderOK

\* When the card's commands stay as they are.
LEMMA OrderKept ==
  ASSUME OrderOK, executed' = executed, card'.got = card.got, Seen \subseteq Seen'
  PROVE  OrderOK'
<1>1. ASSUME NEW i \in 1 .. Len(executed')
      PROVE  LET c == executed'[i].cmd
             IN  c # <<>> /\ Last(c) \in Seen' /\ (card'.got # <<>> => Before(Last(c), Last(card'.got)))
  BY <1>1 DEF OrderOK
<1>2. card'.got # <<>> => Last(card'.got) \in Seen'
  BY DEF OrderOK
<1>3. QED
  BY <1>1, <1>2 DEF OrderOK

LEMMA SeenIdle == ASSUME UNCHANGED calls, pc' = "idle" PROVE Seen \subseteq Seen'
BY DEF Seen, Call

LEMMA SeenSame ==
  ASSUME UNCHANGED <<calls, sbuffer>>, pc # "idle", card'.nr = card.nr PROVE Seen \subseteq Seen'
BY DEF Seen, Call

LEMMA SeenAcknowledges ==
  ASSUME Base, pc = "recv", Acknowledges, UNCHANGED <<pin, size, card, calls, executed>>
  PROVE  Seen \subseteq Seen'
<1> DEFINE u == Last(sbuffer.data)
           v == Last(sbuffer'.data)
<1>1. /\ Pos \in Nat /\ Pos' = Pos + Len(sbuffer.data) /\ Call' = Call
      /\ Len(sbuffer.data) \in Nat /\ Len(sbuffer'.data) \in Nat /\ Len(sbuffer'.data) > 0
  BY AcknowledgedBlock DEF Base, DriverOK
<1>2. u \in Units /\ u = <<Call, Pos + Len(sbuffer.data)>>
  BY EndFacts
<1>3. v \in Units /\ v = <<Call', Pos' + Len(sbuffer'.data)>>
  <2>1. Base' /\ pc' = "xfr"
    BY BaseAcknowledges DEF Acknowledges
  <2>2. (Base /\ pc # "idle" => u \in Units /\ u = <<Call, Pos + Len(sbuffer.data)>>)'
    BY EndFacts, PTL
  <2>3. QED
    BY <2>1, <2>2
<1>4. Before(u, v)
  <2>1. u[1] = Call /\ v[1] = Call /\ u[2] = Pos + Len(sbuffer.data) /\ v[2] = Pos' + Len(sbuffer'.data)
    BY <1>1, <1>2, <1>3
  <2> HIDE DEF u, v
  <2>2. \A i, j, k \in Nat : k > 0 => i + j < (i + j) + k
    OBVIOUS
  <2>3. u[2] < v[2]
    BY <1>1, <2>1, <2>2
  <2>4. QED
    BY <2>1, <2>3 DEF Before
<1>5. \A w \in Seen : w \in Units /\ w[1] <= Call /\ NotAfter(w, u)
  BY DEF Seen
<1> HIDE DEF u, v
<1>6. \A w \in Seen : w \in Units /\ w[1] <= Call' /\ Before(w, v)
  BY <1>1, <1>2, <1>3, <1>4, <1>5, UnitFacts
<1>7. QED
  BY <1>6 DEF Seen, NotAfter, v

LEMMA SeenCtData ==
  ASSUME TypesOK, NEW n \in CmdLens, NEW max \in Rooms, NEW p \in BOOLEAN, CtData(n, max, p)
  PROVE  Seen \subseteq Seen'
<1> DEFINE v == Last(sbuffer'.data)
<1>1. v[1] = Call + 1 /\ Call' = Call + 1 /\ Call \in Nat
  BY CtDataFacts, CallFacts
<1>2. \A w \in Seen : w \in Units /\ w[1] <= Call
  BY DEF Seen
<1> HIDE DEF v
<1>3. \A w \in Seen : w[1] <= Call' /\ Before(w, v)
  BY <1>1, <1>2, UnitFacts DEF Before
<1>4. QED
  BY <1>2, <1>3 DEF Seen, NotAfter, v

LEMMA OrderDriver ==
  ASSUME Base, OrderOK,
         \/ Activate \/ Deactivate \/ PinCanceled \/ NoCard \/ Receive
         \/ \E n \in CmdLens, max \in Rooms, p \in BOOLEAN : CtData(n, max, p)
  PROVE  OrderOK'
<1>1. TypesOK /\ DriverOK /\ CardOK
  BY DEF Base
<1>2. CASE Activate
  <2>1. pc' = "idle" /\ UNCHANGED <<calls, executed>> /\ card'.got = <<>>
    BY <1>2 DEF Activate, FreshCard
  <2>2. Seen \subseteq Seen'
    BY <2>1, SeenIdle
  <2>3. QED
    BY <2>1, <2>2 DEF OrderOK
<1>3. CASE Deactivate \/ PinCanceled \/ NoCard
  <2>1. pc' = "idle" /\ UNCHANGED <<calls, executed, card>>
    BY <1>3 DEF Deactivate, PinCanceled, NoCard, Return
  <2>2. QED
    BY <2>1, SeenIdle, OrderKept
<1>4. CASE Receive
  <2>1. UNCHANGED <<pin, size, card, calls, executed>> /\ pc = "recv"
    BY <1>1, <1>4, ReceiveFacts
  <2>2. CASE Fails \/ AcceptsLast
    BY <2>1, <2>2, SeenIdle, OrderKept DEF Fails, AcceptsLast, Return
  <2>3. CASE Resends \/ AcceptsPart
    BY <2>1, <2>3, SeenSame, OrderKept DEF Resends, AcceptsPart, Accepts
  <2>4. CASE Acknowledges
    BY <2>1, <2>4, SeenAcknowledges, OrderKept
  <2>5. QED
    BY <1>1, <1>4, <2>2, <2>3, <2>4, ReceiveFacts
<1>5. CASE \E n \in CmdLens, max \in Rooms, p \in BOOLEAN : CtData(n, max, p)
  <2>1. Seen \subseteq Seen'
    BY <1>1, <1>5, SeenCtData
  <2>2. UNCHANGED <<card, executed>>
    BY <1>5 DEF CtData
  <2>3. QED
    BY <2>1, <2>2, OrderKept
<1>6. QED
  BY <1>2, <1>3, <1>4, <1>5

\* The card's command after a block: what it had, or that and the I-block.
LEMMA GrownFacts ==
  ASSUME Base, OrderOK, pc = "xfr", NEW g, NEW m,
         \/ sblock \in IBlocks /\ sblock.n = card.nr /\ g = card.got \o sblock.data /\ m = Flip(card.nr)
         \/ card.got # <<>> /\ g = card.got /\ m = card.nr
  PROVE  /\ g \in Seq(Units) /\ g # <<>> /\ Last(g) \in Units /\ Last(g)[1] <= Call
         /\ NotAfter(Last(g), Last(sbuffer.data))
         /\ sbuffer.n = m => Before(Last(g), Last(sbuffer.data))
         /\ \A i \in 1 .. Len(executed) : Before(Last(executed[i].cmd), Last(g))
         /\ \A u \in Seen : sbuffer.n = m => Before(u, Last(sbuffer.data))
         /\ \A u \in Seen : NotAfter(u, Last(sbuffer.data))
<1> DEFINE e == Last(sbuffer.data)
<1>1. TypesOK /\ sbuffer \in IBlocks /\ sbuffer.data # <<>>
  BY DEF Base, DriverOK
<1>2. card.nr \in Bit /\ card.got \in Seq(Units) /\ sbuffer.data \in Seq(Units)
  BY <1>1, CardFacts, BlockFacts DEF TypesOK
<1>3. e \in Units /\ e[1] = Call /\ Call \in Nat
  BY <1>1, EndFacts, CallFacts
<1>4. \A i \in 1 .. Len(executed) :
        /\ Last(executed[i].cmd) \in Seen
        /\ card.got # <<>> => Before(Last(executed[i].cmd), Last(card.got))
  BY <1>1, ExecutedFacts
<1>5. \A u \in Seen : NotAfter(u, e) /\ (sbuffer.n = card.nr => Before(u, e))
  BY DEF Seen
<1>6. CASE sblock \in IBlocks /\ sblock.n = card.nr /\ g = card.got \o sblock.data /\ m = Flip(card.nr)
  <2>1. sblock = sbuffer
    BY <1>6, BlockFacts, RequestFacts DEF Base, DriverOK
  <2>2. g \in Seq(Units) /\ g # <<>> /\ Last(g) = e
    BY <1>1, <1>2, <1>6, <2>1, ConcatFacts
  <2>3. sbuffer.n # m /\ sbuffer.n = card.nr
    BY <1>2, <1>6, <2>1, BitFacts
  <2> HIDE DEF e
  <2>4. NotAfter(Last(g), e) /\ Last(g)[1] <= Call /\ Last(g) \in Units
    BY <1>3, <2>2 DEF NotAfter
  <2>5. \A i \in 1 .. Len(executed) : Before(Last(executed[i].cmd), Last(g))
    BY <1>4, <1>5, <2>2, <2>3
  <2>6. QED
    BY <1>5, <2>2, <2>3, <2>4, <2>5 DEF e
<1>7. CASE card.got # <<>> /\ g = card.got /\ m = card.nr
  <2>1. Last(g) \in Seen
    BY <1>7 DEF OrderOK
  <2>2. Last(g) \in Units /\ Last(g)[1] <= Call
    BY <2>1 DEF Seen
  <2>3. QED
    BY <1>2, <1>4, <1>5, <1>7, <2>1, <2>2
<1>8. QED
  BY <1>6, <1>7

\* The command the card executes ends later than those it has executed.
LEMMA CompleteFacts ==
  ASSUME Base, OrderOK, pc = "xfr", NEW g, NEW m, Complete(g, m)
  PROVE  \/ sblock \in IBlocks /\ sblock.n = card.nr /\ g = card.got \o sblock.data /\ m = Flip(card.nr)
         \/ card.got # <<>> /\ g = card.got /\ m = card.nr
BY DEF Complete

LEMMA SeenGrown ==
  ASSUME Base, OrderOK, pc = "xfr", pc' = "recv", UNCHANGED <<driver, calls>>, NEW g,
         \/ sblock \in IBlocks /\ sblock.n = card.nr /\ g = card.got \o sblock.data /\ card'.nr = Flip(card.nr)
         \/ card.got # <<>> /\ g = card.got /\ card'.nr = card.nr
  PROVE  Seen \subseteq Seen' /\ Last(g) \in Seen' /\ g # <<>> /\ g \in Seq(Units)
         /\ \A i \in 1 .. Len(executed) : Before(Last(executed[i].cmd), Last(g))
<1> DEFINE m == card'.nr
           e == Last(sbuffer.data)
<1>1. \/ sblock \in IBlocks /\ sblock.n = card.nr /\ g = card.got \o sblock.data /\ m = Flip(card.nr)
      \/ card.got # <<>> /\ g = card.got /\ m = card.nr
  OBVIOUS
<1>2. UNCHANGED <<sbuffer, calls>>
  BY DEF driver
<1> HIDE DEF m
<1>3. /\ g \in Seq(Units) /\ g # <<>> /\ Last(g) \in Units /\ Last(g)[1] <= Call
      /\ NotAfter(Last(g), e)
      /\ sbuffer.n = m => Before(Last(g), e)
      /\ \A i \in 1 .. Len(executed) : Before(Last(executed[i].cmd), Last(g))
      /\ \A u \in Seen : (sbuffer.n = m => Before(u, e)) /\ NotAfter(u, e)
  BY <1>1, GrownFacts
<1>4. \A u : u \in Seen' <=> /\ u \in Units /\ u[1] <= Call /\ NotAfter(u, e)
                             /\ sbuffer.n = m => Before(u, e)
  BY <1>2 DEF Seen, Call, m
<1>5. \A u \in Seen : u \in Units /\ u[1] <= Call
  BY DEF Seen
<1> HIDE DEF e
<1>6. QED
  BY <1>3, <1>4, <1>5

LEMMA OrderXfr == ASSUME Base, OrderOK, XfrBlock \/ XfrDamaged PROVE OrderOK'
<1>1. CardDoes /\ pc = "xfr" /\ pc' = "recv" /\ UNCHANGED <<driver, calls>> /\ UNCHANGED sbuffer
  BY XfrFacts DEF Base, driver
<1>2. CASE Repeats \/ GoesOn
  BY <1>1, <1>2, SeenSame, OrderKept DEF Repeats, GoesOn
<1>3. ASSUME executed' = executed,
             \/ sblock \in IBlocks /\ sblock.n = card.nr /\ card'.got = card.got \o sblock.data
                /\ card'.nr = Flip(card.nr)
             \/ card.got # <<>> /\ card'.got = card.got /\ card'.nr = card.nr
      PROVE  OrderOK'
  <2> DEFINE g == card'.got
  <2>1. /\ Seen \subseteq Seen' /\ Last(g) \in Seen'
        /\ \A i \in 1 .. Len(executed) : Before(Last(executed[i].cmd), Last(g))
    BY <1>1, <1>3, SeenGrown
  <2>2. QED
    BY <1>3, <2>1 DEF OrderOK
<1>4. CASE TakesPart
  BY <1>3, <1>4 DEF TakesPart
<1>5. CASE Asks
  BY <1>1, <1>3, <1>5, CompleteFacts DEF Asks
<1>6. CASE Executes
  <2>1. PICK g, r \in Seq(Units) : /\ Complete(g, card'.nr) /\ card'.got = <<>>
                                   /\ executed' = Append(executed, [cmd |-> g, rsp |-> r])
    BY <1>6 DEF Executes
  <2>2. /\ Seen \subseteq Seen' /\ Last(g) \in Seen' /\ g # <<>>
    <3>1. \/ sblock \in IBlocks /\ sblock.n = card.nr /\ g = card.got \o sblock.data
             /\ card'.nr = Flip(card.nr)
          \/ card.got # <<>> /\ g = card.got /\ card'.nr = card.nr
      BY <2>1 DEF Complete
    <3>2. QED
      BY <1>1, <3>1, SeenGrown
  <2> DEFINE x == [cmd |-> g, rsp |-> r]
             E == [cmd : Seq(Units), rsp : Seq(Units)]
  <2>3. executed \in Seq(E) /\ x.cmd = g /\ x \in E
    BY DEF Base, TypesOK
  <2>4. executed' = Append(executed, x)
    BY <2>1
  <2> HIDE DEF x, E
  <2>5. /\ Len(executed') = Len(executed) + 1 /\ executed'[Len(executed) + 1] = x
        /\ \A i \in 1 .. Len(executed) : executed'[i] = executed[i]
        /\ Len(executed) \in Nat
    BY <2>3, <2>4
  <2>6. ASSUME NEW i \in 1 .. Len(executed') PROVE executed'[i].cmd # <<>> /\ Last(executed'[i].cmd) \in Seen'
    <3>1. CASE i \in 1 .. Len(executed)
      BY <2>2, <2>5, <3>1 DEF OrderOK
    <3>2. CASE i = Len(executed) + 1
      BY <2>2, <2>3, <2>5, <3>2
    <3>3. QED
      BY <2>5, <3>1, <3>2
  <2>7. QED
    BY <2>1, <2>6 DEF OrderOK
<1>7. QED
  BY <1>1, <1>2, <1>4, <1>5, <1>6 DEF CardDoes

-----------------------------------------------------------------------------
(* The phases of a call: the driver's steps.                               *)

LEMMA BitsOf ==
  ASSUME TypesOK
  PROVE  seqS \in Bit /\ seqR \in Bit /\ card.nr \in Bit /\ card.ns \in Bit
BY CardFacts DEF TypesOK

\* Nothing that a phase is about changes.
LEMMA PhaseSame ==
  ASSUME Sending \/ Taken \/ Replying \/ Chained,
         UNCHANGED <<seqS, seqR, cmd, pin, sbuffer, lenr, rsp, size, room, calls, executed>>,
         card'.nr = card.nr, card'.ns = card.ns, card'.got = card.got, card'.out = card.out,
         card'.kept = card.kept
  PROVE  (Sending \/ Taken \/ Replying \/ Chained)' /\ (Sending => Sending')
<1>1. Call' = Call /\ Pos' = Pos /\ Response' = Response /\ Unanswered' = Unanswered
      /\ NothingKept' = NothingKept
  BY DEF Call, Pos, Response, Unanswered, NothingKept
<1>2. Sending => Sending'
  BY <1>1 DEF Sending, Numbered
<1>3. Taken => Taken'
  BY <1>1 DEF Taken, Numbered
<1>4. Received => Received'
  BY <1>1 DEF Received
<1>5. Replying => Replying'
  BY <1>1, <1>4 DEF Replying, FromResponse
<1>6. Chained => Chained'
  BY <1>1, <1>4 DEF Chained, FromResponse
<1>7. QED
  BY <1>2, <1>3, <1>5, <1>6

LEMMA PhaseActivate == ASSUME Activate PROVE PhaseOK'
<1>1. /\ pc' = "idle" /\ seqS' = 0 /\ seqR' = 0
      /\ card'.nr = 0 /\ card'.ns = 0 /\ card'.got = <<>> /\ card'.out = <<>> /\ card'.kept = NoBlock
  BY DEF Activate, FreshCard
<1>2. NothingKept'
  BY <1>1, BlockFacts DEF NothingKept
<1>3. QED
  BY <1>1, <1>2 DEF PhaseOK, Between

LEMMA PhaseCtData ==
  ASSUME TypesOK, PhaseOK, NEW n \in CmdLens, NEW max \in Rooms, NEW p \in BOOLEAN, CtData(n, max, p)
  PROVE  PhaseOK'
<1> SUFFICES ASSUME clean PROVE PhaseOK'
  BY DEF CtData, PhaseOK
<1>1. /\ lenr' = 0 /\ rsp' = <<>> /\ size' = max /\ room' = max
      /\ IF max < 2 THEN UNCHANGED pc ELSE pc' = "xfr"
      /\ UNCHANGED <<seqS, seqR, clean, card>> /\ pc = "idle"
  BY DEF CtData, Send
<1>2. Between
  BY <1>1 DEF PhaseOK
<1>3. NothingKept' = NothingKept /\ Between'
  BY <1>1, <1>2 DEF Between, NothingKept
<1>4. cmd' # <<>> /\ sbuffer'.n = seqS /\ Pos' = 0
  BY CtDataFacts
<1>5. Unanswered'
  BY <1>1, <1>2, <1>4 DEF Unanswered, Between
<1>6. card.got = <<>> /\ Len(card.got) = 0
  BY <1>2 DEF Between
<1>7. Numbered(card.got, 0)'
  BY <1>1, <1>6 DEF Numbered
<1>8. Sending'
  BY <1>1, <1>2, <1>3, <1>4, <1>5, <1>6, <1>7 DEF Sending, Between
<1>9. QED
  BY <1>1, <1>3, <1>6, <1>8 DEF PhaseOK

LEMMA PhaseCanceled == ASSUME TypesOK, PhaseOK, PinCanceled PROVE PhaseOK'
<1>1. pc' = "idle" /\ clean' = clean /\ UNCHANGED <<driver, card>> /\ pc = "xfr" /\ pin
  BY CancelFacts
<1>2. clean => Sending /\ card.got = <<>>
  BY <1>1 DEF PhaseOK
<1>3. clean => Between
  BY <1>2 DEF Sending, Unanswered, Between
<1>4. Between' = Between
  BY <1>1 DEF Between, NothingKept, driver
<1>5. QED
  BY <1>1, <1>3, <1>4 DEF PhaseOK

LEMMA PhaseResends ==
  ASSUME PhaseOK, pc = "recv", Resends, UNCHANGED <<pin, size, card, calls, executed>> PROVE PhaseOK'
<1>1. pc' = "xfr" /\ ~pin' /\ clean' = clean
  BY DEF Resends
<1>2. clean => (Sending \/ Taken \/ Replying \/ Chained)'
  BY PhaseSame DEF PhaseOK, Resends
<1>3. QED
  BY <1>1, <1>2 DEF PhaseOK

LEMMA PhaseAcknowledges ==
  ASSUME Base, PhaseOK, pc = "recv", Acknowledges, UNCHANGED <<pin, size, card, calls, executed>>
  PROVE  PhaseOK'
<1> SUFFICES ASSUME clean PROVE PhaseOK'
  BY DEF Acknowledges, PhaseOK
<1>1. /\ TypesOK /\ rbuffer \in RBlocks /\ rbuffer.n # sbuffer.n /\ sbuffer.more /\ ~pin
      /\ pc' = "xfr" /\ seqS' = Flip(seqS) /\ UNCHANGED <<seqR, lenr, rsp, room, clean>>
  BY DEF Acknowledges, Base
<1>2. rbuffer.n = card.nr
  BY <1>1, BlockFacts DEF Base, CardOK
<1>3. Taken
  <2>1. Sending \/ Taken \/ Replying \/ Chained
    BY DEF PhaseOK
  <2>2. QED
    BY <1>1, <1>2, <2>1 DEF Sending, Unanswered, Replying, Chained, Received
<1>4. /\ cmd' # <<>> /\ sbuffer'.n = seqS' /\ Pos' = Pos + Len(sbuffer.data) /\ Call' = Call
  BY <1>1, AcknowledgedBlock
<1>5. seqS' = card.nr
  BY <1>1, <1>3, BitsOf, BitFacts DEF Taken
<1>6. NothingKept' = NothingKept
  BY <1>1 DEF NothingKept
<1>7. Unanswered'
  BY <1>1, <1>3, <1>4 DEF Taken, Unanswered
<1>8. Numbered(card.got, 0)'
  BY <1>3, <1>4 DEF Taken, Numbered
<1>9. Sending'
  BY <1>1, <1>3, <1>4, <1>5, <1>6, <1>7, <1>8 DEF Taken, Sending
<1>10. QED
  BY <1>1, <1>9 DEF PhaseOK

\* The block accepted is the one the card has just sent.
LEMMA AcceptedFacts ==
  ASSUME Base, PhaseOK, pc = "recv", clean, Accepts
  PROVE  Replying /\ rbuffer = card.kept
<1>1. TypesOK /\ rbuffer \in IBlocks /\ rbuffer.n = seqR
  BY DEF Base, Accepts
<1>2. rbuffer = card.last /\ rbuffer.type = "I"
  BY <1>1, BlockFacts DEF Base, CardOK
<1>3. rbuffer = card.kept
  BY <1>2 DEF Base, CardOK
<1>4. ~NothingKept /\ card.kept.type # "S"
  BY <1>1, <1>2, <1>3 DEF NothingKept
<1>5. QED
  BY <1>1, <1>3, <1>4 DEF PhaseOK, Sending, Taken, Chained

\* What is stored is what the card has sent, as long as there is room for all of it.
LEMMA StoredFacts ==
  ASSUME TypesOK, Received, rbuffer \in IBlocks, FromResponse(rbuffer.data, lenr),
         Store(rbuffer.data), lenr' <= size
  PROVE  /\ rsp' = [i \in 1 .. lenr' |-> rsp'[i]] /\ room' = size - lenr'
         /\ \A i \in 1 .. lenr' : rsp'[i] = Response[i]
<1> DEFINE d == rbuffer.data
           l == Len(d)
<1>1. d \in Seq(Units) /\ l \in Nat /\ lenr \in Nat /\ room \in Nat /\ size \in Nat
  BY BlockFacts DEF TypesOK
<1> HIDE DEF d, l
<1>2. lenr' = lenr + l
  BY DEF Store, d, l
<1>3. lenr <= size
  BY <1>1, <1>2
<1>4. DOMAIN rsp = 1 .. lenr /\ room = size - lenr /\ \A i \in 1 .. lenr : rsp[i] = Response[i]
  BY <1>3 DEF Received
<1>5. room >= l
  BY <1>1, <1>2, <1>4
<1>6. /\ rsp' = [i \in DOMAIN rsp \cup (lenr + 1 .. lenr') |-> IF i > lenr THEN d[i - lenr] ELSE rsp[i]]
      /\ room' = room - l
  BY <1>5 DEF Store, d, l
<1>7. DOMAIN rsp \cup (lenr + 1 .. lenr') = 1 .. lenr'
  BY <1>1, <1>2, <1>4
<1>8. rsp' = [i \in 1 .. lenr' |-> IF i > lenr THEN d[i - lenr] ELSE rsp[i]]
  BY <1>6, <1>7
<1>9. ASSUME NEW i \in 1 .. lenr' PROVE rsp'[i] = Response[i]
  <2>1. CASE i > lenr
    <3>1. i - lenr \in 1 .. l /\ lenr + (i - lenr) = i
      BY <1>1, <1>2, <2>1
    <3>2. d[i - lenr] = Response[lenr + (i - lenr)]
      BY <3>1 DEF FromResponse, d, l
    <3>3. QED
      BY <1>8, <2>1, <3>1, <3>2
  <2>2. CASE ~(i > lenr)
    <3>1. i \in 1 .. lenr
      BY <1>1, <1>2, <2>2
    <3>2. QED
      BY <1>4, <1>8, <2>2, <3>1
  <2>3. QED
    BY <2>1, <2>2
<1>10. room' = size - lenr'
  BY <1>1, <1>2, <1>4, <1>6
<1>11. QED
  BY <1>8, <1>9, <1>10

LEMMA PhaseAcceptsPart ==
  ASSUME Base, PhaseOK, pc = "recv", AcceptsPart, UNCHANGED <<pin, size, card, calls, executed>>
  PROVE  PhaseOK'
<1> SUFFICES ASSUME clean PROVE PhaseOK'
  BY DEF AcceptsPart, PhaseOK
<1>1. /\ TypesOK /\ rbuffer \in IBlocks /\ rbuffer.n = seqR /\ seqR' = Flip(seqR)
      /\ Store(rbuffer.data) /\ UNCHANGED <<sbuffer, clean>> /\ ~pin /\ rbuffer.more /\ pc' = "xfr"
      /\ IF cmd # <<>> THEN seqS' = Flip(seqS) ELSE seqS' = seqS
  BY DEF AcceptsPart, Accepts, Base
<1>2. Replying /\ rbuffer = card.kept
  BY AcceptedFacts DEF AcceptsPart
<1>3. seqS' = card.nr /\ seqR' = card.ns /\ card.kept.n # seqR'
  BY <1>1, <1>2, BitsOf, BitFacts DEF Replying
<1>4. cmd' = <<>>
  BY BaseAcceptsPart
<1>5. lenr' = lenr + Len(card.kept.data)
  BY <1>1, <1>2 DEF Store
<1>6. Call' = Call /\ Response' = Response
  BY DEF Call, Response
<1>7. FromResponse(card.out, lenr)' /\ lenr' + Len(card.out) = Len(Response)
  BY <1>2, <1>5, <1>6 DEF Replying, FromResponse
<1>8. Received'
  <2>1. lenr' <= size => DOMAIN rsp' = 1 .. lenr' /\ room' = size - lenr'
                         /\ \A i \in 1 .. lenr' : rsp'[i] = Response[i]
    BY <1>1, <1>2, StoredFacts DEF Replying
  <2>2. QED
    BY <1>1, <1>2, <1>6, <2>1 DEF Replying, Received
<1>9. card.out # <<>>
  BY <1>1, <1>2 DEF Replying
<1>10. Chained'
  BY <1>1, <1>3, <1>4, <1>6, <1>7, <1>8, <1>9 DEF Chained
<1>11. QED
  BY <1>1, <1>10 DEF PhaseOK

\* A call that ends with an I-block of the card.
LEMMA ReturnSucceeds ==
  ASSUME TypesOK, Return("SUCCESS")
  PROVE  /\ pc' = "idle" /\ clean' = clean
         /\ result' = (IF lenr' > size \/ ~clean THEN <<>> ELSE rsp')
<1>1. pc' = "idle" /\ ret' = IF lenr' > size THEN "-11" ELSE "SUCCESS"
  BY DEF Return
<1>2. ret' \in {"SUCCESS", "-11"} /\ (ret' = "SUCCESS" <=> ~(lenr' > size))
  BY <1>1
<1>3. clean' = (clean /\ TRUE) /\ result' = IF ret' = "SUCCESS" /\ clean THEN rsp' ELSE <<>>
  BY <1>2 DEF Return
<1>4. clean' = clean
  BY <1>3 DEF TypesOK
<1>5. QED
  BY <1>1, <1>2, <1>3, <1>4

LEMMA PhaseAcceptsLast ==
  ASSUME Base, PhaseOK, pc = "recv", AcceptsLast, UNCHANGED <<pin, size, card, calls, executed>>
  PROVE  PhaseOK'
<1>1. TypesOK /\ pc' = "idle" /\ clean' = clean
  BY ReturnSucceeds DEF Base, AcceptsLast
<1> SUFFICES ASSUME clean PROVE Between'
  BY <1>1 DEF PhaseOK
<1>2. /\ rbuffer \in IBlocks /\ rbuffer.n = seqR /\ seqR' = Flip(seqR)
      /\ IF pin \/ cmd # <<>> THEN seqS' = Flip(seqS) ELSE seqS' = seqS
      /\ ~pin => ~rbuffer.more
  BY DEF AcceptsLast, Accepts
<1>3. Replying /\ rbuffer = card.kept
  BY AcceptedFacts DEF AcceptsLast
<1>4. pin => cmd # <<>>
  BY <1>3 DEF Replying
<1>5. seqS' = card.nr
  <2>1. CASE cmd = <<>>
    BY <1>2, <1>3, <1>4, <2>1 DEF Replying
  <2>2. CASE cmd # <<>>
    BY <1>1, <1>2, <1>3, <2>2, BitsOf, BitFacts DEF Replying
  <2>3. QED
    BY <2>1, <2>2
<1>6. seqR' = card.ns /\ seqR' # seqR
  BY <1>1, <1>2, <1>3, BitsOf, BitFacts DEF Replying
<1>7. card.got = <<>> /\ card.out = <<>>
  BY <1>2, <1>3 DEF Replying, Received
<1>8. NothingKept'
  BY <1>2, <1>3, <1>6, BlockFacts DEF NothingKept
<1>9. QED
  BY <1>5, <1>6, <1>7, <1>8 DEF Between

LEMMA PhaseDriver ==
  ASSUME Base, PhaseOK,
         \/ Activate \/ Deactivate \/ PinCanceled \/ NoCard \/ Receive
         \/ \E n \in CmdLens, max \in Rooms, p \in BOOLEAN : CtData(n, max, p)
  PROVE  PhaseOK'
<1>1. TypesOK /\ DriverOK /\ CardOK
  BY DEF Base
<1>2. CASE Deactivate \/ NoCard
  <2>1. ~clean'
    BY <1>2, ReturnFails DEF Deactivate, NoCard
  <2>2. QED
    BY <2>1 DEF PhaseOK
<1>3. CASE Receive
  <2>1. UNCHANGED <<pin, size, card, calls, executed>> /\ pc = "recv"
    BY <1>1, <1>3, ReceiveFacts
  <2>2. CASE Fails
    BY <2>2 DEF Fails, PhaseOK
  <2>3. QED
    BY <1>1, <1>3, <2>1, <2>2, ReceiveFacts, PhaseResends, PhaseAcknowledges, PhaseAcceptsPart,
       PhaseAcceptsLast
<1>4. QED
  BY <1>1, <1>2, <1>3, PhaseActivate, PhaseCanceled, PhaseCtData

-----------------------------------------------------------------------------
(* The phases of a call: the card's steps.                                 *)

LEMMA SequencesEqual ==
  ASSUME NEW a \in Seq(Units), NEW b \in Seq(Units), Len(a) = Len(b),
         \A i \in 1 .. Len(a) : a[i] = b[i]
  PROVE  a = b
OBVIOUS

\* The I-block continues what the card has of the command.
LEMMA GrownCommand ==
  ASSUME Base, pc = "xfr", Sending
  PROVE  LET g == card.got \o sbuffer.data
         IN  g \in Seq(Units) /\ Len(g) = Pos + Len(sbuffer.data) /\ Numbered(g, 0)
<1> DEFINE a == card.got
           b == sbuffer.data
           g == a \o b
<1>1. /\ a \in Seq(Units) /\ b \in Seq(Units) /\ Len(a) = Pos /\ Pos \in Nat
      /\ \A i \in 1 .. Len(a) : a[i] = <<Call, 0 + i>>
      /\ \A i \in 1 .. Len(b) : b[i] = <<Call, Pos + i>>
  BY CardFacts, BlockFacts DEF Base, TypesOK, DriverOK, Sending, Numbered
<1> HIDE DEF a, b
<1>2. /\ g \in Seq(Units) /\ Len(g) = Len(a) + Len(b)
      /\ \A i \in 1 .. Len(a) : g[i] = a[i]
      /\ \A i \in 1 .. Len(b) : g[Len(a) + i] = b[i]
  BY <1>1, ConcatFacts
<1> HIDE DEF g
<1>3. Len(a) \in Nat /\ Len(b) \in Nat
  BY <1>1
<1>4. ASSUME NEW i \in 1 .. Len(g) PROVE g[i] = <<Call, 0 + i>>
  <2>1. CASE i \in 1 .. Len(a)
    BY <1>1, <1>2, <2>1
  <2>2. CASE ~(i \in 1 .. Len(a))
    <3> DEFINE j == i - Len(a)
    <3>1. j \in 1 .. Len(b) /\ Len(a) + j = i /\ Pos + j = 0 + i
      BY <1>1, <1>2, <1>3, <2>2
    <3> HIDE DEF j
    <3>2. g[Len(a) + j] = b[j] /\ b[j] = <<Call, Pos + j>>
      BY <1>1, <1>2, <3>1
    <3>3. QED
      BY <3>1, <3>2
  <2>3. QED
    BY <2>1, <2>2
<1>5. QED
  BY <1>1, <1>2, <1>4 DEF Numbered, a, b, g

\* The last I-block ends the command.
LEMMA WholeCommand ==
  ASSUME Base, pc = "xfr", cmd # <<>>, ~sbuffer.more, NEW g \in Seq(Units),
         Len(g) = Pos + Len(sbuffer.data), Numbered(g, 0)
  PROVE  g = calls[Call]
<1>1. /\ Pos + Len(cmd) = Len(calls[Call]) /\ Len(sbuffer.data) <= Len(cmd)
      /\ ~(Len(sbuffer.data) < Len(cmd)) /\ Numbered(calls[Call], 0) /\ calls # <<>>
      /\ sbuffer.data \in Seq(Units) /\ cmd \in Seq(Units) /\ calls \in Seq(Seq(Units))
  BY BlockFacts DEF Base, DriverOK, TypesOK
<1>2. Len(sbuffer.data) = Len(cmd)
  BY <1>1
<1>3. calls[Call] \in Seq(Units)
  BY <1>1 DEF Call
<1>4. Len(g) = Len(calls[Call])
  BY <1>1, <1>2
<1>5. \A i \in 1 .. Len(g) : g[i] = calls[Call][i]
  BY <1>1, <1>4 DEF Numbered
<1>6. QED
  BY <1>3, <1>4, <1>5, SequencesEqual

\* The I-block is in the card: what it has of the command, and its N(R).
LEMMA TakenFacts ==
  ASSUME Base, PhaseOK, clean, pc = "xfr", NEW g, NEW m,
         \/ sblock \in IBlocks /\ sblock.n = card.nr /\ g = card.got \o sblock.data /\ m = Flip(card.nr)
         \/ sblock \in SBlocks /\ card.kept = sblock /\ card.got # <<>> /\ g = card.got /\ m = card.nr
  PROVE  /\ Unanswered /\ seqS # m
         /\ g \in Seq(Units) /\ Len(g) = Pos + Len(sbuffer.data) /\ Numbered(g, 0)
         /\ sblock \in IBlocks => sbuffer = sblock /\ NothingKept
         /\ sblock \in SBlocks => ~sbuffer.more
<1>1. (Sending \/ Taken \/ Replying \/ Chained) /\ TypesOK /\ card \in Cards
  BY DEF PhaseOK, Base, TypesOK
<1>2. CASE sblock \in IBlocks /\ sblock.n = card.nr /\ g = card.got \o sblock.data /\ m = Flip(card.nr)
  <2>1. sblock = sbuffer /\ sblock \notin SBlocks
    BY <1>2, BlockFacts, RequestFacts DEF Base, DriverOK
  <2>2. Sending
    BY <1>1, <1>2, <2>1 DEF Taken, Unanswered, Replying, Chained, Received
  <2>3. seqS # m
    BY <1>1, <1>2, <2>2, BitsOf, BitFacts DEF Sending
  <2>4. g \in Seq(Units) /\ Len(g) = Pos + Len(sbuffer.data) /\ Numbered(g, 0)
    BY <1>2, <2>1, <2>2, GrownCommand
  <2>5. QED
    BY <2>1, <2>2, <2>3, <2>4 DEF Sending
<1>3. CASE sblock \in SBlocks /\ card.kept = sblock /\ card.got # <<>> /\ g = card.got /\ m = card.nr
  <2>1. card.kept.type = "S" /\ sblock \notin IBlocks
    BY <1>3, RequestFacts, BlockFacts
  <2>2. Taken /\ ~sbuffer.more
    BY <1>1, <1>3, <2>1 DEF Sending, Taken, NothingKept, Replying, Chained, Received
  <2>3. g \in Seq(Units)
    BY <1>1, <1>3, CardFacts
  <2>4. QED
    BY <1>3, <2>1, <2>2, <2>3 DEF Taken
<1>4. QED
  BY <1>2, <1>3

LEMMA PhaseTakesPart ==
  ASSUME Base, PhaseOK, clean, pc = "xfr", TakesPart, UNCHANGED <<driver, calls>> PROVE Taken'
<1>1. /\ sblock \in IBlocks /\ sblock.n = card.nr /\ sblock.more
      /\ card'.nr = Flip(card.nr) /\ card'.ns = card.ns /\ card'.got = card.got \o sblock.data
      /\ card'.out = <<>> /\ card'.kept = card.kept
  BY DEF TakesPart
<1> DEFINE g == card'.got
           m == card'.nr
<1>2. /\ Unanswered /\ seqS # m /\ Len(g) = Pos + Len(sbuffer.data) /\ Numbered(g, 0)
      /\ sbuffer = sblock /\ NothingKept
  BY <1>1, TakenFacts
<1>3. UNCHANGED <<seqS, seqR, cmd, sbuffer, lenr, rsp, size, room, calls>>
  BY DEF driver
<1>4. Call' = Call /\ Pos' = Pos /\ NothingKept'
  BY <1>1, <1>2, <1>3 DEF Call, Pos, NothingKept
<1>5. Unanswered'
  BY <1>1, <1>2, <1>3 DEF Unanswered
<1>6. Numbered(card.got, 0)'
  BY <1>2, <1>4 DEF Numbered
<1>7. QED
  BY <1>1, <1>2, <1>3, <1>4, <1>5, <1>6 DEF Taken

LEMMA PhaseAsks ==
  ASSUME Base, PhaseOK, clean, pc = "xfr", Asks, UNCHANGED <<driver, calls>> PROVE Taken'
<1> DEFINE g == card'.got
           m == card'.nr
<1>1. /\ Complete(g, m) /\ card'.kept \in SBlocks
      /\ card'.ns = card.ns /\ card'.out \in {<<>>, card.out}
  BY DEF Asks
<1> HIDE DEF g, m
<1>2. /\ Unanswered /\ seqS # m /\ Len(g) = Pos + Len(sbuffer.data) /\ Numbered(g, 0)
      /\ ~sbuffer.more
  BY <1>1, TakenFacts DEF Complete
<1>3. UNCHANGED <<seqS, seqR, cmd, sbuffer, lenr, rsp, size, room, calls>>
  BY DEF driver
<1>4. Call' = Call /\ Pos' = Pos
  BY <1>3 DEF Call, Pos
<1>5. Unanswered'
  BY <1>1, <1>2, <1>3 DEF Unanswered
<1>6. Numbered(card.got, 0)'
  BY <1>2, <1>4 DEF Numbered, g
<1>7. card'.kept.type = "S"
  BY <1>1, RequestFacts
<1>8. QED
  BY <1>2, <1>3, <1>4, <1>5, <1>6, <1>7 DEF Taken, g, m

\* The card executes the command of the current call.
LEMMA ExecutesCommand ==
  ASSUME Base, PhaseOK, clean, pc = "xfr", NEW g, NEW m, Complete(g, m)
  PROVE  g = calls[Call] /\ Unanswered /\ seqS # m /\ ~sbuffer.more
<1>1. /\ Unanswered /\ seqS # m /\ g \in Seq(Units)
      /\ Len(g) = Pos + Len(sbuffer.data) /\ Numbered(g, 0) /\ ~sbuffer.more
  BY TakenFacts DEF Complete
<1>2. QED
  BY <1>1, WholeCommand DEF Unanswered

\* Appending an execution.
LEMMA AppendedFacts ==
  ASSUME TypesOK, NEW g \in Seq(Units), NEW r \in Seq(Units),
         executed' = Append(executed, [cmd |-> g, rsp |-> r])
  PROVE  /\ Len(executed) \in Nat /\ Len(executed') = Len(executed) + 1
         /\ executed' # <<>> /\ SubSeq(executed', 1, Len(executed)) = executed
         /\ executed'[Len(executed')].cmd = g /\ Response' = r
<1> DEFINE x == [cmd |-> g, rsp |-> r]
           E == [cmd : Seq(Units), rsp : Seq(Units)]
<1>1. executed \in Seq(E) /\ x \in E /\ x.cmd = g /\ x.rsp = r
  BY DEF TypesOK
<1>2. executed' = Append(executed, x)
  OBVIOUS
<1> HIDE DEF x, E
<1>3. /\ Len(executed) \in Nat /\ executed' \in Seq(E) /\ Len(executed') = Len(executed) + 1
      /\ executed'[Len(executed) + 1] = x
  BY <1>1, <1>2
<1>4. executed' # <<>>
  BY <1>3
<1>5. SubSeq(executed', 1, Len(executed)) = executed
  BY <1>1, <1>2, <1>3
<1>6. QED
  BY <1>1, <1>3, <1>4, <1>5 DEF Response

LEMMA PhaseExecutes ==
  ASSUME Base, PhaseOK, clean, pc = "xfr", Executes, card' \in Cards, UNCHANGED <<driver, calls>>
  PROVE  Replying'
<1>1. PICK g, r \in Seq(Units) :
        /\ Complete(g, card'.nr) /\ card'.got = <<>> /\ Splits(r) /\ (pin => card'.out = <<>>)
        /\ executed' = Append(executed, [cmd |-> g, rsp |-> r])
  BY DEF Executes
<1>2. g = calls[Call] /\ Unanswered /\ seqS # card'.nr /\ ~sbuffer.more
  BY <1>1, ExecutesCommand
<1>3. executed' # <<>> /\ executed'[Len(executed')].cmd = g /\ Response' = r
  BY <1>1, AppendedFacts DEF Base
<1>4. UNCHANGED <<seqS, seqR, cmd, pin, sbuffer, lenr, rsp, size, room, calls>>
  BY DEF driver
<1>5. /\ card'.kept \in IBlocks /\ card'.kept.n = card.ns /\ card'.ns = Flip(card.ns)
      /\ card'.kept.data # <<>> /\ (card'.kept.more <=> card'.out # <<>>)
      /\ Len(card'.kept.data) + Len(card'.out) = Len(r)
      /\ \A i \in 1 .. Len(card'.kept.data) : card'.kept.data[i] = r[i]
      /\ \A i \in 1 .. Len(card'.out) : card'.out[i] = r[Len(card'.kept.data) + i]
  BY <1>1 DEF Splits
<1>6. Call' = Call /\ card.ns \in Bit /\ size \in Nat
  BY <1>4, BitsOf DEF Call, Base, TypesOK
<1>7. Received'
  <2>1. lenr = 0 /\ rsp = <<>> /\ room = size /\ sbuffer.n # card'.nr
    BY <1>2 DEF Unanswered
  <2>2. DOMAIN rsp = 1 .. 0 /\ room = size - 0
    BY <1>6, <2>1
  <2>3. QED
    BY <1>1, <1>2, <1>3, <1>4, <1>5, <1>6, <2>1, <2>2 DEF Received
<1>8. seqR # card'.ns /\ card'.kept.n = seqR /\ cmd # <<>> /\ lenr = 0
  BY <1>2, <1>5, <1>6, BitFacts DEF Unanswered
<1>9. Len(card'.kept.data) \in Nat /\ Len(card'.out) \in Nat
  BY <1>5, CardFacts, BlockFacts
<1>10. FromResponse(card.kept.data, lenr)' /\ FromResponse(card.out, lenr + Len(card.kept.data))'
       /\ lenr' + Len(card'.kept.data) + Len(card'.out) = Len(Response')
  <2> DEFINE d == card'.kept.data
             o == card'.out
  <2>1. /\ Len(d) \in Nat /\ Len(o) \in Nat /\ Len(d) + Len(o) = Len(r)
        /\ \A i \in 1 .. Len(d) : d[i] = r[i]
        /\ \A i \in 1 .. Len(o) : o[i] = r[Len(d) + i]
    BY <1>5, <1>9
  <2> HIDE DEF d, o
  <2>2. \A i \in 1 .. Len(d) : d[i] = r[0 + i]
    BY <2>1
  <2>3. \A i \in 1 .. Len(o) : o[i] = r[(0 + Len(d)) + i]
    BY <2>1
  <2>4. (0 + Len(d)) + Len(o) = Len(r)
    BY <2>1
  <2>5. lenr' = 0
    BY <1>4, <1>8
  <2>6. QED
    BY <1>3, <2>2, <2>3, <2>4, <2>5 DEF FromResponse, d, o
<1>11. QED
  BY <1>1, <1>2, <1>4, <1>5, <1>7, <1>8, <1>10 DEF Replying

LEMMA PhaseGoesOn ==
  ASSUME Base, PhaseOK, clean, pc = "xfr", GoesOn, card' \in Cards, UNCHANGED <<driver, calls>>
  PROVE  Replying'
<1>1. /\ sblock \in RBlocks /\ card.kept \in IBlocks /\ sblock.n # card.kept.n /\ card.out # <<>>
      /\ Splits(card.out)
      /\ card'.nr = card.nr /\ card'.got = card.got /\ executed' = executed
  BY DEF GoesOn
<1>2. sblock.n = seqR
  BY <1>1 DEF Base, DriverOK
<1>3. Chained
  BY <1>1, <1>2 DEF PhaseOK, Sending, Taken, Unanswered, Replying
<1>4. UNCHANGED <<seqS, seqR, cmd, pin, sbuffer, lenr, rsp, size, room, calls>>
  BY DEF driver
<1> DEFINE d == card'.kept.data
           o == card'.out
<1>5. /\ card'.kept \in IBlocks /\ card'.kept.n = card.ns /\ card'.ns = Flip(card.ns)
      /\ d # <<>> /\ (card'.kept.more <=> o # <<>>) /\ Len(d) + Len(o) = Len(card.out)
      /\ \A i \in 1 .. Len(d) : d[i] = card.out[i]
      /\ \A i \in 1 .. Len(o) : o[i] = card.out[Len(d) + i]
  BY <1>1 DEF Splits
<1>6. Len(d) \in Nat /\ Len(o) \in Nat /\ lenr \in Nat /\ card.ns \in Bit
  BY <1>5, CardFacts, BlockFacts, BitsOf DEF Base, TypesOK
<1> HIDE DEF d, o
<1>7. Call' = Call /\ Response' = Response
  BY <1>1, <1>4 DEF Call, Response
<1>8. Received'
  BY <1>1, <1>3, <1>4, <1>5, <1>7 DEF Chained, Received
<1>9. seqR # card'.ns /\ card'.kept.n = seqR
  BY <1>3, <1>5, <1>6, BitFacts DEF Chained
<1>10. \A i \in 1 .. Len(card.out) : card.out[i] = Response[lenr + i]
  BY <1>3 DEF Chained, FromResponse
<1>11. \A i \in 1 .. Len(d) : d[i] = Response[lenr + i]
  BY <1>5, <1>6, <1>10
<1>12. \A i \in 1 .. Len(o) : o[i] = Response[(lenr + Len(d)) + i]
  <2> SUFFICES ASSUME NEW i \in 1 .. Len(o) PROVE o[i] = Response[(lenr + Len(d)) + i]
    OBVIOUS
  <2>1. Len(d) + i \in 1 .. Len(card.out) /\ lenr + (Len(d) + i) = (lenr + Len(d)) + i
    BY <1>5, <1>6
  <2>2. QED
    BY <1>5, <1>10, <2>1
<1>13. (lenr + Len(d)) + Len(o) = Len(Response)
  <2>1. lenr + Len(card.out) = Len(Response)
    BY <1>3 DEF Chained
  <2>2. QED
    BY <1>5, <1>6, <2>1
<1>14. FromResponse(card.kept.data, lenr)' /\ FromResponse(card.out, lenr + Len(card.kept.data))'
       /\ lenr' + Len(card'.kept.data) + Len(card'.out) = Len(Response')
  BY <1>4, <1>7, <1>11, <1>12, <1>13 DEF FromResponse, d, o
<1>15. QED
  BY <1>1, <1>3, <1>4, <1>5, <1>8, <1>9, <1>14 DEF Replying, Chained, d, o

LEMMA PhaseXfr == ASSUME Base, PhaseOK, XfrBlock \/ XfrDamaged PROVE PhaseOK'
<1>1. CardDoes /\ pc = "xfr" /\ pc' = "recv" /\ UNCHANGED <<driver, clean, calls>>
  BY XfrFacts DEF Base
<1> SUFFICES ASSUME clean PROVE (Sending \/ Taken \/ Replying \/ Chained)'
  BY <1>1 DEF PhaseOK
<1>2. CASE Repeats
  <2>1. Sending \/ Taken \/ Replying \/ Chained
    BY <1>1 DEF PhaseOK
  <2>2. QED
    BY <1>1, <1>2, <2>1, PhaseSame DEF Repeats, driver
<1>3. QED
  BY <1>1, <1>2, PhaseTakesPart, PhaseAsks, PhaseExecutes, PhaseGoesOn DEF CardDoes

-----------------------------------------------------------------------------
(* The inductive invariant.                                                *)

LEMMA InvariantInit == Init => IInv
<1> SUFFICES ASSUME Init PROVE IInv
  OBVIOUS
<1>1. FreshCard \in Cards /\ FreshCard.last = FreshCard.kept /\ FreshCard.last.type = "none"
      /\ FreshCard.got = <<>>
  BY BlockFacts DEF FreshCard, Cards, Bit
<1>2. 0 \in Bit /\ FirstIfs \in Nat \ {0}
  BY ConstantFacts DEF Bit
<1>3. TypesOK
  <2>1. cmd \in Seq(Units) /\ calls \in Seq(Seq(Units))
        /\ executed \in Seq([cmd : Seq(Units), rsp : Seq(Units)])
    BY DEF Init
  <2>2. /\ pc \in {"idle", "xfr", "recv"} /\ pin \in BOOLEAN /\ clean \in BOOLEAN
        /\ seqS \in Bit /\ seqR \in Bit /\ ifsc \in Nat \ {0}
        /\ sbuffer \in IBlocks \cup {NoBlock} /\ sblock \in Blocks \cup {NoBlock}
    BY <1>2 DEF Init
  <2>3. lenr \in Nat /\ size \in Nat /\ room \in Nat /\ card \in Cards
    BY <1>1 DEF Init
  <2>4. QED
    BY <2>1, <2>2, <2>3 DEF TypesOK
<1>4. DriverOK /\ CardOK
  BY <1>1 DEF Init, DriverOK, CardOK
<1>5. OrderOK
  BY <1>1 DEF Init, OrderOK
<1>6. PhaseOK
  BY DEF Init, PhaseOK
<1>7. QED
  BY <1>3, <1>4, <1>5, <1>6 DEF IInv

LEMMA InvariantStep == IInv /\ [Next]_vars => IInv'
<1> SUFFICES ASSUME IInv, [Next]_vars PROVE IInv'
  OBVIOUS
<1>1. Base /\ OrderOK /\ PhaseOK
  BY DEF IInv, Base
<1>2. CASE XfrBlock \/ XfrDamaged
  BY <1>1, <1>2, BaseXfr, OrderXfr, PhaseXfr DEF IInv, Base
<1> DEFINE Driver == \/ Activate \/ Deactivate \/ PinCanceled \/ NoCard \/ Receive
                     \/ \E n \in CmdLens, max \in Rooms, p \in BOOLEAN : CtData(n, max, p)
<1>3. CASE Driver
  <2>1. Base'
    BY <1>1, <1>3, BaseOther, BaseReceive, BaseCtData
  <2>2. OrderOK' /\ PhaseOK'
    BY <1>1, <1>3, OrderDriver, PhaseDriver
  <2>3. QED
    BY <2>1, <2>2 DEF IInv, Base
<1>4. CASE UNCHANGED vars
  <2>1. TypesOK' /\ CardOK'
    BY <1>1, <1>4 DEF Base, TypesOK, CardOK, vars, driver
  <2>2. DriverOK'
    BY <1>1, <1>4 DEF Base, DriverOK, Numbered, Call, Pos, vars, driver
  <2>3. OrderOK'
    BY <1>1, <1>4 DEF OrderOK, Seen, Call, vars, driver
  <2>4. PhaseOK'
    <3>1. clean => (pc = "idle" => Between')
      BY <1>1, <1>4 DEF PhaseOK, Between, NothingKept, vars, driver
    <3>2. clean /\ pc # "idle" => (Sending \/ Taken \/ Replying \/ Chained)' /\ (Sending => Sending')
      BY <1>1, <1>4, PhaseSame DEF PhaseOK, vars, driver
    <3>3. UNCHANGED <<pc, clean, pin, card>>
      BY <1>4 DEF vars, driver
    <3>4. QED
      BY <1>1, <3>1, <3>2, <3>3 DEF PhaseOK
  <2>5. QED
    BY <2>1, <2>2, <2>3, <2>4 DEF IInv
<1>5. QED
  BY <1>2, <1>3, <1>4 DEF Next

\* The invariant of the exchange of blocks: the driver's I-block is a piece of the command,
\* the card takes the pieces in their order, and a call that has not failed is in one of four
\* phases.
THEOREM PpaT1Invariant == Spec => []IInv
BY InvariantInit, InvariantStep, PTL DEF Spec

\* Whatever was damaged, repeated or refused, between two calls that did not fail
\* APDU2TPDU_T1 and the card agree on the numbers of the next I-blocks.
THEOREM PpaT1InStep == Spec => []InStep
<1>1. IInv => InStep
  BY DEF IInv, PhaseOK, Between, InStep
<1>2. QED
  BY <1>1, PpaT1Invariant, PTL

-----------------------------------------------------------------------------
(* Every step is a step of the exchange of APDUs, or none.                 *)

LEMMA ExchangeInit == Init => Exchange!Init
BY DEF Init, Exchange!Init

LEMMA ExchangeOther ==
  ASSUME TypesOK, Activate \/ Deactivate \/ PinCanceled \/ NoCard
  PROVE  [Exchange!Next]_(Exchange!vars)
<1>1. CASE Activate
  BY <1>1 DEF Activate, Exchange!Next, Exchange!OpenOrClose, TypesOK
<1>2. CASE Deactivate
  <2>1. CASE clean
    BY <1>2, <2>1 DEF Deactivate, Exchange!Next, Exchange!OpenOrClose
  <2>2. CASE ~clean
    BY <1>2, <2>2 DEF Deactivate, Exchange!vars, TypesOK
  <2>3. QED
    BY <2>1, <2>2
<1>3. CASE PinCanceled
  <2>1. /\ pc' = "idle" /\ clean' = clean /\ result' = <<>> /\ pc = "xfr"
        /\ UNCHANGED <<calls, executed>>
    BY <1>3, CancelFacts
  <2>2. QED
    BY <2>1 DEF Exchange!Next, Exchange!Fail
<1>4. CASE NoCard
  <2>1. /\ pc' = "idle" /\ clean' = FALSE /\ result' = <<>> /\ pc = "xfr"
        /\ UNCHANGED <<calls, executed>>
    BY <1>4, ReturnFails DEF NoCard
  <2>2. QED
    BY <2>1 DEF Exchange!Next, Exchange!Fail
<1>5. QED
  BY <1>1, <1>2, <1>3, <1>4

LEMMA ExchangeCtData ==
  ASSUME TypesOK, NEW n \in CmdLens, NEW max \in Rooms, NEW p \in BOOLEAN, CtData(n, max, p)
  PROVE  [Exchange!Next]_(Exchange!vars)
<1> DEFINE c == CommandUnits(Call + 1, n)
<1>1. calls \in Seq(Seq(Units)) /\ Call \in Nat /\ calls' = Append(calls, c)
  BY CallFacts DEF TypesOK, CtData, Call
<1>2. c \in Seq(Units)
  BY <1>1, CommandFacts
<1> HIDE DEF c
<1>3. Len(calls') = Len(calls) + 1 /\ SubSeq(calls', 1, Len(calls)) = calls
  BY <1>1, <1>2
<1>4. Exchange!Extends(calls', calls)
  BY <1>3 DEF Exchange!Extends
<1>5. pc = "idle" /\ result' = <<>> /\ UNCHANGED <<clean, executed>> /\ pc' \in {"idle", "xfr"}
  BY DEF CtData, Send
<1>6. CASE pc' = "xfr"
  BY <1>4, <1>5, <1>6 DEF Exchange!Next, Exchange!Submit
<1>7. CASE pc' = "idle"
  BY <1>4, <1>5, <1>7 DEF Exchange!Next, Exchange!SubmitFails
<1>8. QED
  BY <1>5, <1>6, <1>7

\* A success returns the response to the command of the call.
LEMMA ExchangeAcceptsLast ==
  ASSUME Base, PhaseOK, pc = "recv", AcceptsLast, UNCHANGED <<pin, size, card, calls, executed>>
  PROVE  Exchange!Succeed \/ Exchange!Fail
<1>1. TypesOK /\ pc' = "idle" /\ clean' = clean
      /\ result' = (IF lenr' > size \/ ~clean THEN <<>> ELSE rsp')
  BY ReturnSucceeds DEF Base, AcceptsLast
<1>2. CASE lenr' > size \/ ~clean
  BY <1>1, <1>2 DEF Exchange!Fail
<1>3. CASE ~(lenr' > size) /\ clean
  <2>1. Replying /\ rbuffer = card.kept
    BY <1>3, AcceptedFacts DEF AcceptsLast
  <2>2. rbuffer \in IBlocks /\ Store(rbuffer.data) /\ (~pin => ~rbuffer.more)
    BY DEF AcceptsLast, Accepts
  <2>3. card.out = <<>>
    BY <2>1, <2>2 DEF Replying
  <2>4. lenr' = lenr + Len(rbuffer.data) /\ lenr' \in Nat /\ size \in Nat
    BY <1>1, <2>2, StoreFacts DEF TypesOK
  <2>5. lenr' <= size
    BY <1>3, <2>4
  <2>6. /\ rsp' = [i \in 1 .. lenr' |-> rsp'[i]]
        /\ \A i \in 1 .. lenr' : rsp'[i] = Response[i]
    BY <1>1, <2>1, <2>2, <2>5, StoredFacts DEF Replying
  <2>7. executed # <<>> /\ executed[Len(executed)].cmd = calls[Call]
    BY <2>1 DEF Replying, Received
  <2> DEFINE E == [cmd : Seq(Units), rsp : Seq(Units)]
  <2>8. executed \in Seq(E)
    BY <1>1 DEF TypesOK
  <2> HIDE DEF E
  <2>9. Len(executed) \in 1 .. Len(executed) /\ executed[Len(executed)] \in E
    BY <2>7, <2>8
  <2>10. Response \in Seq(Units)
    BY <2>9 DEF Response, E
  <2>11. Len(Response) = lenr'
    <3>1. lenr + Len(card.kept.data) + Len(card.out) = Len(Response)
      BY <2>1 DEF Replying
    <3>2. Len(card.out) = 0
      BY <2>3
    <3>3. QED
      BY <2>1, <2>4, <3>1, <3>2
  <2>12. rsp' = Response
    <3>1. Response = [i \in 1 .. lenr' |-> Response[i]]
      BY <2>10, <2>11
    <3>2. QED
      BY <2>6, <3>1
  <2>13. result' = executed[Len(executed)].rsp
    BY <1>1, <1>3, <2>12 DEF Response
  <2>14. QED
    BY <1>1, <2>7, <2>9, <2>13 DEF Exchange!Succeed, Call
<1>4. QED
  BY <1>2, <1>3

LEMMA ExchangeReceive == ASSUME Base, PhaseOK, Receive PROVE [Exchange!Next]_(Exchange!vars)
<1>1. TypesOK /\ pc = "recv" /\ UNCHANGED <<pin, size, card, calls, executed>>
      /\ (Fails \/ Resends \/ Acknowledges \/ AcceptsPart \/ AcceptsLast)
  BY ReceiveFacts DEF Base
<1>2. CASE Fails
  BY <1>1, <1>2 DEF Fails, Exchange!Next, Exchange!Fail
<1>3. CASE Resends \/ Acknowledges \/ AcceptsPart
  <2>1. pc' = "xfr" /\ UNCHANGED <<clean, result>>
    BY <1>3 DEF Resends, Acknowledges, AcceptsPart
  <2>2. (pc # "idle")' = (pc # "idle")
    BY <1>1, <2>1
  <2>3. QED
    BY <1>1, <2>1, <2>2 DEF Exchange!vars
<1>4. CASE AcceptsLast
  BY <1>1, <1>4, ExchangeAcceptsLast DEF Exchange!Next
<1>5. QED
  BY <1>1, <1>2, <1>3, <1>4

\* The card executes a command it has not executed before, and in a session that of the call.
LEMMA ExchangeXfr ==
  ASSUME Base, OrderOK, PhaseOK, XfrBlock \/ XfrDamaged PROVE [Exchange!Next]_(Exchange!vars)
<1>1. TypesOK /\ CardDoes /\ pc = "xfr" /\ pc' = "recv" /\ UNCHANGED <<driver, clean, result, calls>>
  BY XfrFacts DEF Base
<1>2. (pc # "idle")' = (pc # "idle")
  BY <1>1
<1>3. CASE executed' = executed
  BY <1>1, <1>2, <1>3 DEF Exchange!vars
<1>4. CASE Executes
  <2>1. PICK g, r \in Seq(Units) :
          Complete(g, card'.nr) /\ executed' = Append(executed, [cmd |-> g, rsp |-> r])
    BY <1>4 DEF Executes
  <2>2. /\ Len(executed) \in Nat /\ Len(executed') = Len(executed) + 1
        /\ SubSeq(executed', 1, Len(executed)) = executed
        /\ executed'[Len(executed')].cmd = g
    BY <1>1, <2>1, AppendedFacts
  <2>3. clean => \E k \in 1 .. Len(calls) : g = calls[k]
    <3>1. clean => g = calls[Call]
      BY <1>1, <2>1, ExecutesCommand
    <3>2. Call \in 1 .. Len(calls)
      BY <1>1 DEF Base, DriverOK, TypesOK, Call
    <3>3. QED
      BY <3>1, <3>2
  <2>4. ASSUME NEW i \in 1 .. Len(executed) PROVE executed[i].cmd # g
    <3>1. \/ sblock \in IBlocks /\ sblock.n = card.nr /\ g = card.got \o sblock.data
             /\ card'.nr = Flip(card.nr)
          \/ card.got # <<>> /\ g = card.got /\ card'.nr = card.nr
      BY <2>1 DEF Complete
    <3>2. Before(Last(executed[i].cmd), Last(g)) /\ g # <<>>
      BY <1>1, <3>1, SeenGrown
    <3>3. Last(g) \in Units
      BY <3>2, LastFacts
    <3>4. QED
      BY <3>2, <3>3, UnitFacts
  <2>5. Exchange!Execute
    BY <1>1, <1>2, <2>2, <2>3, <2>4 DEF Exchange!Execute, Exchange!Extends
  <2>6. QED
    BY <2>5 DEF Exchange!Next
<1>5. QED
  BY <1>1, <1>3, <1>4 DEF CardDoes, Repeats, TakesPart, Asks, GoesOn

\* APDU2TPDU_T1 implements what CT_data promises, whatever is damaged, lost or repeated: each
\* command is executed at most once and as it was sent, and a success returns its own
\* response.
THEOREM PpaT1Exchange == Spec => ExchangeSpec
<1>1. IInv /\ [Next]_vars => [Exchange!Next]_(Exchange!vars)
  <2> SUFFICES ASSUME IInv, [Next]_vars PROVE [Exchange!Next]_(Exchange!vars)
    OBVIOUS
  <2>1. Base /\ OrderOK /\ PhaseOK /\ TypesOK
    BY DEF IInv, Base
  <2>2. CASE UNCHANGED vars
    BY <2>2 DEF vars, Exchange!vars
  <2>3. QED
    BY <2>1, <2>2, ExchangeOther, ExchangeCtData, ExchangeReceive, ExchangeXfr DEF Next
<1>2. QED
  BY <1>1, ExchangeInit, PpaT1Invariant, PTL DEF Spec, ExchangeSpec, Exchange!Spec


-----------------------------------------------------------------------------
(* T=0 (module T0, of which Transmit has an instance, Zero): a driver that *)
(* has not mixed up data and status has put together what the card has     *)
(* handed over.                                                            *)

ZeroTypes ==
  /\ le \in 0 .. Max - 1 /\ la \in 0 .. Max - 1 /\ room0 \in Nat \ {0, 1} /\ exact \in BOOLEAN /\ mixed \in BOOLEAN
  /\ left \in Seq(Nat) /\ given \in Seq(Nat) /\ acc \in Seq(Nat)

\* The driver asks for more than Le only if it asks for all the card has, and only in the first
\* exchange that hands over data: what it cuts off is the end of the response.
Gathering ==
  /\ step \in {"whole", "le", "la", "first", "data"} => given = <<>> /\ acc = <<>>
  /\ step \in {"chain", "warned", "more"} => acc = given
  /\ step \in {"le", "la", "first", "chain"} => form = 2
  /\ step = "first" => la = le \/ la = Zero!Byte(Len(left))
  /\ step = "chain" => ~exact /\ (le = 0 \/ (la # 0 /\ la <= le))

ZeroInv ==
  /\ ZeroTypes
  /\ step # "idle" => ret0 = "none"
  /\ ~mixed => Gathering
  /\ T0Response

LEMMA ByteFacts ==
  ASSUME NEW n \in Nat
  PROVE  /\ Zero!Byte(n) \in 0 .. Max - 1
         /\ Zero!Byte(n) # 0 => Zero!Byte(n) = n /\ n < Max
         /\ n \in 1 .. Max - 1 => Zero!Byte(n) = n
         /\ n < Max => Zero!Real(n) \in 1 .. Max /\ (n # 0 => Zero!Real(n) = n)
BY TransmitAssumption DEF Zero!Byte, Zero!Real

LEMMA PartFacts ==
  ASSUME NEW s \in Seq(Nat), NEW n \in Nat, n <= Len(s)
  PROVE  /\ Zero!First(s, n) \in Seq(Nat) /\ Len(Zero!First(s, n)) = n
         /\ Zero!From(s, n) \in Seq(Nat) /\ Len(Zero!From(s, n)) = Len(s) - n
BY DEF Zero!First, Zero!From

LEMMA AllOf ==
  ASSUME NEW s \in Seq(Nat)
  PROVE  Zero!First(s, Len(s)) = s
<1> DEFINE t == SubSeq(s, 1, Len(s))
<1>1. t \in Seq(Nat) /\ Len(t) = Len(s) /\ \A i \in 1 .. Len(s) : t[i] = s[i]
  OBVIOUS
<1> HIDE DEF t
<1>2. t = s
  BY <1>1, SeqEqual
<1>3. QED
  BY <1>2 DEF t, Zero!First

LEMMA StatusFacts ==
  /\ Zero!OK[1] = "90" /\ Zero!OK[2] = 0 /\ Zero!Warning[1] = "62" /\ Zero!Failure[1] = "6A"
  /\ \A n \in Nat : /\ Zero!More(n)[1] = "61" /\ Zero!More(n)[2] = Zero!Byte(n)
                    /\ Zero!Wrong(n)[1] = "6C" /\ Zero!Wrong(n)[2] = Zero!Byte(n)
BY DEF Zero!OK, Zero!Warning, Zero!Failure, Zero!More, Zero!Wrong

\* What an answer can be, if the card was asked for l bytes.
Asked(a, l, first) ==
  /\ a.data \in Seq(Nat) /\ Len(a.data) <= Len(left)
  /\ a.data = <<>> \/ Len(a.data) = l
  /\ a.sw[1] = "6C" => /\ a.data = <<>> /\ a.sw[2] = Zero!Byte(Len(left)) /\ Len(left) # 0
                       /\ ~first /\ ~exact => Len(left) < l
  /\ a.sw[1] = "61" => ~exact /\ l < Len(left) /\ a.sw[2] \in 0 .. Max - 1

LEMMA HandsFacts ==
  ASSUME left \in Seq(Nat), exact \in BOOLEAN, NEW l \in Nat \ {0}, NEW first \in BOOLEAN, NEW a \in Zero!Hands(l, first)
  PROVE  Asked(a, l, first)
<1> DEFINE n == Len(left)
           wrong == [data |-> <<>>, sw |-> Zero!Wrong(n)]
           part == Zero!First(left, l)
<1>1. n \in Nat /\ (n = 0 => left = <<>>)
  OBVIOUS
<1>2. <<>> \in Seq(Nat) /\ Len(<<>>) = 0
  OBVIOUS
<1>3. \/ n = 0 /\ \E s \in {Zero!OK, Zero!Failure} : a = [data |-> <<>>, sw |-> s]
      \/ n # 0 /\ l > n /\ a = wrong
      \/ n # 0 /\ l = n /\ a = [data |-> left, sw |-> Zero!OK]
      \/ n # 0 /\ l < n /\ (first \/ exact) /\ a = wrong
      \/ n # 0 /\ l < n /\ ~exact /\ \E s \in {Zero!OK, Zero!More(n - l)} : a = [data |-> part, sw |-> s]
  <2> HIDE DEF part
  <2>0. part = Zero!First(left, l)
    BY DEF part
  <2>1. CASE n = 0
    BY <2>1 DEF Zero!Hands
  <2>2. CASE n # 0 /\ l > n
    BY <2>2 DEF Zero!Hands
  <2>3. CASE n # 0 /\ l = n
    BY <2>3 DEF Zero!Hands
  <2>4. CASE n # 0 /\ l < n
    <3>1. a \in (IF (first \/ exact) /\ l # Zero!Real(Zero!Byte(n)) THEN {wrong} ELSE {})
                 \cup (IF exact THEN {} ELSE {[data |-> part, sw |-> s] : s \in {Zero!OK, Zero!More(n - l)}})
      BY <1>1, <2>4, <2>0 DEF Zero!Hands
    <3>2. CASE a = wrong /\ (first \/ exact)
      BY <2>4, <3>2
    <3>3. CASE ~exact /\ \E s \in {Zero!OK, Zero!More(n - l)} : a = [data |-> part, sw |-> s]
      BY <2>4, <3>3
    <3>4. QED
      BY <3>1, <3>2, <3>3
  <2>5. QED
    BY <1>1, <2>1, <2>2, <2>3, <2>4
<1>4. ASSUME l < n PROVE Zero!Byte(n - l) \in 0 .. Max - 1
  <2>1. n - l \in Nat
    BY <1>1, <1>4
  <2>2. QED
    BY <2>1, ByteFacts
<1>5. CASE n = 0 /\ \E s \in {Zero!OK, Zero!Failure} : a = [data |-> <<>>, sw |-> s]
  <2>1. a.data = <<>> /\ a.sw[1] \in {"90", "6A"}
    BY <1>5, StatusFacts
  <2>2. QED
    BY <1>1, <1>2, <2>1 DEF Asked
<1>6. CASE n # 0 /\ a = wrong /\ (l > n \/ first \/ exact)
  <2>1. a.data = <<>> /\ a.sw[1] = "6C" /\ a.sw[2] = Zero!Byte(n)
    BY <1>1, <1>6, StatusFacts
  <2>2. QED
    BY <1>1, <1>2, <1>6, <2>1 DEF Asked
<1>7. CASE n # 0 /\ l = n /\ a = [data |-> left, sw |-> Zero!OK]
  <2>1. a.data = left /\ a.sw[1] = "90"
    BY <1>7, StatusFacts
  <2>2. QED
    BY <1>1, <1>7, <2>1 DEF Asked
<1>8. CASE n # 0 /\ l < n /\ ~exact /\ \E s \in {Zero!OK, Zero!More(n - l)} : a = [data |-> part, sw |-> s]
  <2>1. n - l \in Nat /\ l <= n
    BY <1>1, <1>8
  <2>2. a.data = part /\ (a.sw[1] = "90" \/ (a.sw[1] = "61" /\ a.sw[2] = Zero!Byte(n - l)))
    BY <1>8, <2>1, StatusFacts
  <2>3. part \in Seq(Nat) /\ Len(part) = l
    BY <2>1, PartFacts
  <2>4. QED
    BY <1>1, <1>4, <1>8, <2>1, <2>2, <2>3 DEF Asked
<1>9. QED
  BY <1>3, <1>5, <1>6, <1>7, <1>8

LEMMA AnswerFacts ==
  ASSUME ZeroTypes, NEW a \in Zero!CardAnswers
  PROVE  /\ a.data \in Seq(Nat) /\ Len(a.data) <= Len(left)
         /\ step \in {"le", "la", "first"} => Asked(a, Zero!Real(la), TRUE)
         /\ step \in {"chain", "warned", "more"} => Asked(a, Zero!Real(la), FALSE)
         /\ step = "data" => a.data = <<>>
         /\ a.sw[1] \in {"61", "6C"} => a.sw[2] \in 0 .. Max - 1
<1> DEFINE l == Zero!Real(la)
<1>1. left \in Seq(Nat) /\ Len(left) \in Nat /\ exact \in BOOLEAN /\ <<>> \in Seq(Nat) /\ Len(<<>>) = 0
  BY DEF ZeroTypes
<1>2. l \in Nat \ {0} /\ Zero!Byte(Len(left)) \in 0 .. Max - 1
  <2>1. la \in Nat /\ la < Max
    BY TransmitAssumption DEF ZeroTypes
  <2>2. l \in 1 .. Max
    BY <2>1, ByteFacts
  <2>3. l \in Nat \ {0}
    BY <2>2, TransmitAssumption
  <2>4. QED
    BY <1>1, <2>3, ByteFacts
<1> HIDE DEF l
<1>3. \/ a = [data |-> <<>>, sw |-> Zero!Failure]
      \/ a \in Zero!Hands(l, TRUE) /\ step \notin {"chain", "warned", "more", "data"}
      \/ a \in Zero!Hands(l, FALSE) /\ step \in {"chain", "warned", "more"}
      \/ /\ step \notin {"le", "la", "first", "chain", "warned", "more"}
         /\ \E s \in Zero!Accepts : a = [data |-> <<>>, sw |-> s]
  BY DEF Zero!CardAnswers, l
<1>4. ASSUME NEW first \in BOOLEAN, Asked(a, l, first) PROVE a.sw[1] \in {"61", "6C"} => a.sw[2] \in 0 .. Max - 1
  BY <1>2, <1>4 DEF Asked
<1>5. CASE a = [data |-> <<>>, sw |-> Zero!Failure]
  <2>1. a.data = <<>> /\ a.sw[1] = "6A"
    BY <1>5, StatusFacts
  <2>2. QED
    BY <1>1, <2>1 DEF Asked
<1>6. CASE a \in Zero!Hands(l, TRUE) /\ step \notin {"chain", "warned", "more", "data"}
  <2>1. Asked(a, l, TRUE)
    BY <1>1, <1>2, <1>6, HandsFacts
  <2>2. a.data \in Seq(Nat) /\ Len(a.data) <= Len(left)
    BY <2>1 DEF Asked
  <2>3. QED
    BY <1>4, <1>6, <2>1, <2>2 DEF l
<1>7. CASE a \in Zero!Hands(l, FALSE) /\ step \in {"chain", "warned", "more"}
  <2>1. Asked(a, l, FALSE)
    BY <1>1, <1>2, <1>7, HandsFacts
  <2>2. a.data \in Seq(Nat) /\ Len(a.data) <= Len(left)
    BY <2>1 DEF Asked
  <2>3. QED
    BY <1>4, <1>7, <2>1, <2>2 DEF l
<1>8. CASE /\ step \notin {"le", "la", "first", "chain", "warned", "more"}
           /\ \E s \in Zero!Accepts : a = [data |-> <<>>, sw |-> s]
  <2>1. PICK s \in Zero!Accepts : a = [data |-> <<>>, sw |-> s]
    BY <1>8
  <2>2. s \in {Zero!OK, Zero!More(Len(left)), Zero!Wrong(Len(left)), Zero!Warning}
    BY DEF Zero!Accepts
  <2>3. a.data = <<>> /\ (a.sw[1] \in {"90", "62"} \/ (a.sw[1] \in {"61", "6C"} /\ a.sw[2] = Zero!Byte(Len(left))))
    BY <1>1, <2>1, <2>2, StatusFacts
  <2>4. a.data \in Seq(Nat) /\ Len(a.data) <= Len(left)
    BY <1>1, <2>3
  <2>5. a.sw[1] \in {"61", "6C"} => a.sw[2] \in 0 .. Max - 1
    BY <1>2, <2>3
  <2>6. QED
    BY <1>8, <2>3, <2>4, <2>5
<1>9. QED
  BY <1>3, <1>5, <1>6, <1>7, <1>8

\* The part of the response that a driver returns, of what the card has handed over.
Returnable(data, whole) ==
  \/ data = whole
  \/ form = 2 /\ Len(data) = le /\ le <= Len(whole) /\ data = Zero!First(whole, le)

\* A call that ends returns what it may.
LEMMA Finished ==
  ASSUME ZeroTypes, UNCHANGED <<room0, form, le>>,
         NEW data \in Seq(Nat), NEW sw, Zero!Finish(data, sw),
         given' \in Seq(Nat), status' = sw \/ mixed', Returnable(data, given') \/ mixed'
  PROVE  step' = "idle" /\ T0Response' /\ la' = la
<1>1. room0 \in Nat /\ Len(data) \in Nat /\ Len(given') \in Nat
  BY DEF ZeroTypes
<1>2. Zero!First(given', Len(given')) = given'
  BY AllOf
<1>3. CASE Len(data) + 2 > room0
  <2>1. step' = "idle" /\ ret0' = "too small" /\ la' = la
    BY <1>3 DEF Zero!Finish, Zero!Return
  <2>2. ~mixed' => Len(given') + 2 > room0'
    BY <1>1, <1>3 DEF Returnable, ZeroTypes
  <2>3. QED
    BY <2>1, <2>2 DEF T0Response, Zero!Response
<1>4. CASE ~(Len(data) + 2 > room0)
  <2>1. step' = "idle" /\ ret0' = "SUCCESS" /\ result0' = [data |-> data, sw |-> sw] /\ la' = la
    BY <1>4 DEF Zero!Finish, Zero!Return
  <2>2. result0'.data = data /\ result0'.sw = sw
    BY <2>1
  <2>3. Len(data) + 2 <= room0'
    BY <1>1, <1>4
  <2>4. ~mixed' => /\ data = Zero!First(given', Len(data))
                   /\ Len(data) # Len(given') => form' = 2 /\ Len(data) = le'
    BY <1>2 DEF Returnable
  <2>5. QED
    BY <2>1, <2>2, <2>3, <2>4 DEF T0Response, Zero!Response
<1>5. QED
  BY <1>3, <1>4

\* A call that goes on has not returned anything yet.
LEMMA AsksAgain ==
  ASSUME NEW s, NEW l, Zero!Ask(s, l), ret0 = "none"
  PROVE  step' = s /\ la' = l /\ ret0' = "none" /\ T0Response'
<1>1. step' = s /\ la' = l /\ ret0' = "none"
  BY DEF Zero!Ask
<1>2. QED
  BY <1>1 DEF T0Response, Zero!Response

\* One exchange keeps the invariant: handler by handler.
Exchanged(a) ==
  /\ UNCHANGED <<norm, exact, form, room0>> /\ step # "idle" /\ ret0 = "none"
  /\ given' = given \o a.data /\ left' = Zero!From(left, Len(a.data)) /\ status' = a.sw
  /\ mixed' = (mixed \/ Zero!MixesUp(a))

LEMMA ExchangedTypes ==
  ASSUME ZeroTypes, NEW a \in Zero!CardAnswers, Exchanged(a)
  PROVE  /\ room0' \in Nat \ {0, 1} /\ exact' \in BOOLEAN /\ mixed' \in BOOLEAN
         /\ left' \in Seq(Nat) /\ given' \in Seq(Nat)
         /\ Len(left') = Len(left) - Len(a.data)
         /\ Len(given') = Len(given) + Len(a.data)
         /\ given = <<>> => given' = a.data
<1>1. /\ room0 \in Nat \ {0, 1} /\ exact \in BOOLEAN /\ mixed \in BOOLEAN /\ left \in Seq(Nat) /\ given \in Seq(Nat)
  BY DEF ZeroTypes
<1> DEFINE d == a.data
<1>2. d \in Seq(Nat) /\ Len(d) <= Len(left)
  BY AnswerFacts
<1> HIDE DEF d
<1>3. Zero!From(left, Len(d)) \in Seq(Nat) /\ Len(Zero!From(left, Len(d))) = Len(left) - Len(d)
  <2>1. Len(d) \in Nat
    BY <1>2
  <2>2. QED
    BY <1>1, <1>2, <2>1, PartFacts
<1>4. given \o d \in Seq(Nat) /\ Len(given \o d) = Len(given) + Len(d)
  BY <1>1, <1>2
<1>5. given = <<>> => given \o d = d
  <2>1. <<>> \o d = d
    BY <1>2
  <2>2. QED
    BY <2>1
<1>6. mixed' \in BOOLEAN
  BY <1>1 DEF Exchanged
<1>7. QED
  BY <1>1, <1>3, <1>4, <1>5, <1>6 DEF Exchanged, d

LEMMA WholeStep ==
  ASSUME ZeroInv, NEW a \in Zero!CardAnswers, Exchanged(a), Zero!Whole(a)
  PROVE  ZeroInv'
<1>1. step = "whole" /\ Zero!Finish(a.data, a.sw) /\ UNCHANGED <<le, acc>>
  BY DEF Zero!Whole
<1>2. ZeroTypes /\ (mixed \/ given = <<>>) /\ UNCHANGED <<room0, form>>
  BY <1>1 DEF ZeroInv, Gathering, Exchanged
<1>3. /\ room0' \in Nat \ {0, 1} /\ exact' \in BOOLEAN /\ mixed' \in BOOLEAN
      /\ left' \in Seq(Nat) /\ given' \in Seq(Nat) /\ a.data \in Seq(Nat)
  BY <1>2, ExchangedTypes, AnswerFacts
<1>4. Returnable(a.data, given') \/ mixed'
  BY <1>2, ExchangedTypes DEF Returnable, Exchanged
<1>5. step' = "idle" /\ T0Response' /\ la' = la
  BY <1>1, <1>2, <1>3, <1>4, Finished DEF Exchanged
<1>6. ZeroTypes'
  BY <1>1, <1>2, <1>3, <1>5 DEF ZeroTypes
<1>7. QED
  BY <1>5, <1>6 DEF ZeroInv, Gathering

LEMMA LeStep ==
  ASSUME ZeroInv, NEW a \in Zero!CardAnswers, Exchanged(a), Zero!GetsLe(a)
  PROVE  ZeroInv'
<1>1. step = "le" /\ UNCHANGED <<le, acc>>
  BY DEF Zero!GetsLe
<1>2. ZeroTypes /\ (mixed \/ (given = <<>> /\ acc = <<>> /\ form = 2)) /\ UNCHANGED <<room0, form>> /\ ret0 = "none"
  BY <1>1 DEF ZeroInv, Gathering, Exchanged
<1>3. /\ room0' \in Nat \ {0, 1} /\ exact' \in BOOLEAN /\ mixed' \in BOOLEAN
      /\ left' \in Seq(Nat) /\ given' \in Seq(Nat) /\ a.data \in Seq(Nat)
  BY <1>2, ExchangedTypes, AnswerFacts
<1>4. CASE a.data = <<>> /\ a.sw[1] = "6C"
  <2>1. Zero!Ask("la", a.sw[2])
    BY <1>4 DEF Zero!GetsLe
  <2>2. step' = "la" /\ la' = a.sw[2] /\ ret0' = "none" /\ T0Response'
    BY <1>2, <2>1, AsksAgain
  <2>3. la' \in 0 .. Max - 1
    BY <1>2, <1>4, <2>2, AnswerFacts
  <2>4. ZeroTypes'
    BY <1>1, <1>2, <1>3, <2>3 DEF ZeroTypes
  <2>5. ~mixed' => ~mixed /\ given' = <<>>
    BY <1>2, <1>4, ExchangedTypes DEF Exchanged
  <2>6. ~mixed' => Gathering'
    BY <1>1, <1>2, <2>2, <2>5 DEF Gathering
  <2>7. QED
    BY <2>2, <2>4, <2>6 DEF ZeroInv
<1>5. CASE ~(a.data = <<>> /\ a.sw[1] = "6C")
  <2>1. Zero!Finish(a.data, a.sw)
    BY <1>5 DEF Zero!GetsLe
  <2>2. Returnable(a.data, given') \/ mixed'
    BY <1>2, ExchangedTypes DEF Returnable, Exchanged
  <2>3. step' = "idle" /\ T0Response' /\ la' = la
    BY <1>1, <1>2, <1>3, <2>1, <2>2, Finished DEF Exchanged
  <2>4. ZeroTypes'
    BY <1>1, <1>2, <1>3, <2>3 DEF ZeroTypes
  <2>5. QED
    BY <2>3, <2>4 DEF ZeroInv, Gathering
<1>6. QED
  BY <1>4, <1>5

LEMMA LaStep ==
  ASSUME ZeroInv, NEW a \in Zero!CardAnswers, Exchanged(a), Zero!GetsLa(a)
  PROVE  ZeroInv'
<1>1. step = "la" /\ UNCHANGED <<le, acc>>
  BY DEF Zero!GetsLa
<1>2. ZeroTypes /\ (mixed \/ (given = <<>> /\ acc = <<>> /\ form = 2)) /\ UNCHANGED <<room0, form>> /\ ret0 = "none"
  BY <1>1 DEF ZeroInv, Gathering, Exchanged
<1>3. /\ room0' \in Nat \ {0, 1} /\ exact' \in BOOLEAN /\ mixed' \in BOOLEAN
      /\ left' \in Seq(Nat) /\ given' \in Seq(Nat) /\ a.data \in Seq(Nat)
  BY <1>2, ExchangedTypes, AnswerFacts
<1>4. ASSUME step' = "idle", T0Response', la' = la PROVE ZeroInv'
  <2>1. ZeroTypes'
    BY <1>1, <1>2, <1>3, <1>4 DEF ZeroTypes
  <2>2. QED
    BY <1>4, <2>1 DEF ZeroInv, Gathering
<1>5. CASE a.data = <<>>
  <2>1. step' = "idle" /\ ret0' = "SUCCESS" /\ result0' = a /\ la' = la
    BY <1>5 DEF Zero!GetsLa, Zero!Return
  <2>2. ~mixed' => given' = <<>>
    BY <1>2, <1>5, ExchangedTypes DEF Exchanged
  <2>3. status' = a.sw
    BY DEF Exchanged
  <2>4. <<>> \in Seq(Nat) /\ Len(<<>>) = 0
    OBVIOUS
  <2>5. Zero!First(<<>>, 0) = <<>>
    BY <2>4, AllOf
  <2>6. Len(result0'.data) + 2 <= room0'
    BY <1>3, <1>5, <2>1, <2>4
  <2>7. T0Response'
    BY <1>5, <2>1, <2>2, <2>3, <2>4, <2>5, <2>6 DEF T0Response, Zero!Response
  <2>8. QED
    BY <1>4, <2>1, <2>7
<1>6. ASSUME a.data # <<>>, NEW d \in Seq(Nat), NEW sw, Zero!Finish(d, sw), mixed' \/ (sw = a.sw /\ d = a.data)
      PROVE  ZeroInv'
  <2>1. status' = sw \/ mixed'
    BY <1>6 DEF Exchanged
  <2>2. Returnable(d, given') \/ mixed'
    BY <1>2, <1>6, ExchangedTypes DEF Returnable, Exchanged
  <2>3. step' = "idle" /\ T0Response' /\ la' = la
    BY <1>1, <1>2, <1>3, <1>6, <2>1, <2>2, Finished
  <2>4. QED
    BY <1>4, <2>3
<1>7. CASE a.data # <<>> /\ le # 0 /\ la > le
  <2> DEFINE d == [i \in 1 .. le |-> IF i <= 2 THEN Zero!Junk ELSE a.data[i]]
  <2>1. PICK sw \in Zero!JunkStatus : Zero!Finish(d, sw)
    BY <1>7 DEF Zero!GetsLa
  <2>2. mixed'
    BY <1>1, <1>7 DEF Exchanged, Zero!MixesUp
  <2>3. le \in Nat /\ la \in Nat /\ le < Len(a.data)
    <3>1. le \in Nat /\ la \in Nat /\ la < Max
      BY <1>2, TransmitAssumption DEF ZeroTypes
    <3>2. Asked(a, Zero!Real(la), TRUE)
      BY <1>1, <1>2, AnswerFacts
    <3>3. Zero!Real(la) = la
      BY <1>7, <3>1, ByteFacts
    <3>4. QED
      BY <1>7, <3>1, <3>2, <3>3 DEF Asked
  <2>4. d \in Seq(Nat)
    <3>1. \A i \in 1 .. le : a.data[i] \in Nat
      BY <1>3, <2>3
    <3>2. \A i \in 1 .. le : (IF i <= 2 THEN Zero!Junk ELSE a.data[i]) \in Nat
      BY <3>1 DEF Zero!Junk
    <3>3. d \in [1 .. le -> Nat]
      BY <3>2
    <3>4. QED
      BY <2>3, <3>3
  <2> HIDE DEF d
  <2>5. QED
    BY <1>6, <1>7, <2>1, <2>2, <2>4
<1>8. CASE a.data # <<>> /\ ~(le # 0 /\ la > le) /\ la = 0
  <2>1. PICK sw \in Zero!JunkStatus : Zero!Finish(<<>>, sw)
    BY <1>8 DEF Zero!GetsLa
  <2>2. mixed'
    BY <1>1, <1>8 DEF Exchanged, Zero!MixesUp
  <2>3. <<>> \in Seq(Nat)
    OBVIOUS
  <2>4. QED
    BY <1>6, <1>8, <2>1, <2>2, <2>3
<1>9. CASE a.data # <<>> /\ ~(le # 0 /\ la > le) /\ la # 0
  <2>1. Zero!Finish(a.data, a.sw)
    BY <1>9 DEF Zero!GetsLa
  <2>2. QED
    BY <1>3, <1>6, <1>9, <2>1
<1>10. QED
  BY <1>5, <1>7, <1>8, <1>9

LEMMA StatusStep ==
  ASSUME ZeroInv, NEW a \in Zero!CardAnswers, Exchanged(a), Zero!GetsStatus(a)
  PROVE  ZeroInv'
<1>1. step = "data" /\ UNCHANGED <<le, acc>>
  BY DEF Zero!GetsStatus
<1>2. ZeroTypes /\ (mixed \/ (given = <<>> /\ acc = <<>>)) /\ UNCHANGED <<room0, form>> /\ ret0 = "none"
  BY <1>1 DEF ZeroInv, Gathering, Exchanged
<1>3. /\ room0' \in Nat \ {0, 1} /\ exact' \in BOOLEAN /\ mixed' \in BOOLEAN
      /\ left' \in Seq(Nat) /\ given' \in Seq(Nat) /\ a.data = <<>>
  BY <1>1, <1>2, ExchangedTypes, AnswerFacts
<1>4. ~mixed' => ~mixed /\ given' = <<>>
  BY <1>2, <1>3, ExchangedTypes DEF Exchanged
<1>5. ASSUME NEW s \in {"warned", "more"}, NEW l \in 0 .. Max - 1, Zero!Ask(s, l) PROVE ZeroInv'
  <2>1. step' = s /\ la' = l /\ ret0' = "none" /\ T0Response'
    BY <1>2, <1>5, AsksAgain
  <2>2. ZeroTypes'
    BY <1>1, <1>2, <1>3, <2>1 DEF ZeroTypes
  <2>3. ~mixed' => Gathering'
    BY <1>1, <1>2, <1>4, <2>1 DEF Gathering
  <2>4. QED
    BY <2>1, <2>2, <2>3 DEF ZeroInv
<1>6. le \in 0 .. Max - 1
  BY <1>2 DEF ZeroTypes
<1>7. CASE a.sw[1] = "62"
  BY <1>5, <1>6, <1>7 DEF Zero!GetsStatus
<1>8. CASE a.sw[1] \in {"61", "6C"}
  <2>1. PICK l \in {le, a.sw[2]} : Zero!Ask("more", l)
    BY <1>8 DEF Zero!GetsStatus, Zero!Fetch
  <2>2. l \in 0 .. Max - 1
    BY <1>2, <1>6, <1>8, AnswerFacts
  <2>3. QED
    BY <1>5, <2>1, <2>2
<1>9. CASE a.sw[1] \notin {"61", "6C", "62"}
  <2>1. Zero!Finish(<<>>, a.sw) /\ <<>> \in Seq(Nat)
    BY <1>9 DEF Zero!GetsStatus
  <2>2. Returnable(<<>>, given') \/ mixed'
    BY <1>3, <1>4 DEF Returnable
  <2>3. status' = a.sw
    BY DEF Exchanged
  <2>4. step' = "idle" /\ T0Response' /\ la' = la
    BY <1>1, <1>2, <1>3, <2>1, <2>2, <2>3, Finished
  <2>5. ZeroTypes'
    BY <1>1, <1>2, <1>3, <2>4 DEF ZeroTypes
  <2>6. QED
    BY <2>4, <2>5 DEF ZeroInv, Gathering
<1>10. QED
  BY <1>7, <1>8, <1>9

LEMMA MoreStep ==
  ASSUME ZeroInv, NEW a \in Zero!CardAnswers, Exchanged(a), Zero!GetsMore(a)
  PROVE  ZeroInv'
<1> DEFINE d == a.data
<1>1. step \in {"warned", "more"} /\ UNCHANGED le
  BY DEF Zero!GetsMore
<1>2. ZeroTypes /\ (mixed \/ acc = given) /\ UNCHANGED <<room0, form>> /\ ret0 = "none"
  BY <1>1 DEF ZeroInv, Gathering, Exchanged
<1>3. /\ room0' \in Nat \ {0, 1} /\ exact' \in BOOLEAN /\ mixed' \in BOOLEAN
      /\ left' \in Seq(Nat) /\ given' \in Seq(Nat) /\ d \in Seq(Nat)
      /\ given' = given \o d /\ Len(given') = Len(given) + Len(d)
      /\ (mixed' \/ ~mixed)
  BY <1>1, <1>2, ExchangedTypes, AnswerFacts DEF Exchanged
<1>4. acc \in Seq(Nat) /\ given \in Seq(Nat)
  BY <1>2 DEF ZeroTypes
<1> HIDE DEF d
<1>5. CASE Len(acc) + Len(d) > Max
  <2>1. step' = "idle" /\ ret0' = "too small" /\ la' = la /\ acc' = acc
    BY <1>5 DEF Zero!GetsMore, Zero!Return, d
  <2>2. ~mixed' => Len(given') > Max
    BY <1>2, <1>3, <1>5
  <2>3. T0Response'
    BY <2>1, <2>2 DEF T0Response, Zero!Response
  <2>4. ZeroTypes'
    BY <1>1, <1>2, <1>3, <2>1 DEF ZeroTypes
  <2>5. QED
    BY <2>1, <2>3, <2>4 DEF ZeroInv, Gathering
<1>6. CASE ~(Len(acc) + Len(d) > Max)
  <2>1. acc' = acc \o d
    BY <1>6 DEF Zero!GetsMore, d
  <2>2. acc' \in Seq(Nat) /\ (mixed' \/ acc' = given')
    BY <1>2, <1>3, <1>4, <2>1
  <2>3. CASE a.sw[1] \in {"61", "6C"}
    <3>1. PICK l \in {le, a.sw[2]} : Zero!Ask("more", l)
      BY <1>6, <2>3 DEF Zero!GetsMore, Zero!Fetch, d
    <3>2. l \in 0 .. Max - 1
      BY <1>2, <2>3, AnswerFacts DEF ZeroTypes
    <3>3. step' = "more" /\ la' = l /\ ret0' = "none" /\ T0Response'
      BY <1>2, <3>1, AsksAgain
    <3>4. ZeroTypes'
      BY <1>1, <1>2, <1>3, <2>2, <3>2, <3>3 DEF ZeroTypes
    <3>5. ~mixed' => Gathering'
      BY <2>2, <3>3 DEF Gathering
    <3>6. QED
      BY <3>3, <3>4, <3>5 DEF ZeroInv
  <2>4. CASE a.sw[1] \notin {"61", "6C"}
    <3>1. Zero!Finish(acc', a.sw)
      BY <1>6, <2>4 DEF Zero!GetsMore, d
    <3>2. Returnable(acc', given') \/ mixed'
      BY <2>2 DEF Returnable
    <3>3. status' = a.sw
      BY DEF Exchanged
    <3>4. step' = "idle" /\ T0Response' /\ la' = la
      BY <1>1, <1>2, <1>3, <2>2, <3>1, <3>2, <3>3, Finished
    <3>5. ZeroTypes'
      BY <1>1, <1>2, <1>3, <2>2, <3>4 DEF ZeroTypes
    <3>6. QED
      BY <3>4, <3>5 DEF ZeroInv, Gathering
  <2>5. QED
    BY <2>3, <2>4
<1>7. QED
  BY <1>5, <1>6

\* What CEC30Reader makes of an answer: all of it, or the beginning of the whole response.
LEMMA CutFacts ==
  ASSUME ZeroInv, step \in {"first", "chain"}, NEW a \in Zero!CardAnswers, Exchanged(a), NEW c \in Zero!Cut(a)
  PROVE  /\ c.data \in Seq(Nat) /\ (c.sw[1] \in {"61", "6C"} => c.sw[2] \in 0 .. Max - 1)
         /\ \/ mixed'
            \/ c = a
            \/ /\ step = "first" /\ le # 0 /\ le <= Len(a.data) /\ c.data = Zero!First(a.data, le) /\ Len(c.data) = le
               /\ c.sw = a.sw /\ c.sw[1] # "61"
<1>1. ZeroTypes /\ (mixed => mixed') /\ (~mixed => Gathering)
  BY DEF ZeroInv, Exchanged
<1>2. /\ a.data \in Seq(Nat) /\ (a.sw[1] \in {"61", "6C"} => a.sw[2] \in 0 .. Max - 1)
      /\ \E first \in BOOLEAN : Asked(a, Zero!Real(la), first)
  BY <1>1, AnswerFacts
<1>3. le \in Nat /\ la \in Nat /\ le < Max /\ la < Max /\ left \in Seq(Nat) /\ Len(left) \in Nat
  BY <1>1, TransmitAssumption DEF ZeroTypes
<1>4. CASE ~(le # 0 /\ le < la)
  <2>1. c = a
    BY <1>4 DEF Zero!Cut
  <2>2. QED
    BY <1>2, <2>1
<1>5. CASE le # 0 /\ le < la /\ a.data # <<>>
  <2>1. c = [data |-> Zero!First(a.data, le), sw |-> a.sw]
    BY <1>5 DEF Zero!Cut
  <2>2. c.data = Zero!First(a.data, le) /\ c.sw = a.sw
    BY <2>1
  <2>3. Zero!Real(la) = la /\ la # 0
    <3>1. la # 0
      BY <1>3, <1>5
    <3>2. QED
      BY <1>3, <3>1, ByteFacts
  <2>4. Len(a.data) = la
    BY <1>2, <1>5, <2>3 DEF Asked
  <2>5. le <= Len(a.data)
    BY <1>3, <1>5, <2>4
  <2>6. c.data \in Seq(Nat) /\ Len(c.data) = le
    BY <1>2, <1>3, <2>2, <2>5, PartFacts
  <2>7. ASSUME ~mixed' PROVE step = "first" /\ a.sw[1] # "61"
    <3>1. Gathering
      BY <1>1, <2>7
    <3>2. step = "first" /\ la # le
      BY <1>3, <1>5, <3>1 DEF Gathering
    <3>3. la = Zero!Byte(Len(left))
      BY <3>1, <3>2 DEF Gathering
    <3>4. la = Len(left)
      BY <1>3, <2>3, <3>3, ByteFacts
    <3>5. QED
      BY <1>2, <1>3, <2>3, <3>2, <3>4 DEF Asked
  <2>8. QED
    BY <1>2, <1>5, <2>2, <2>5, <2>6, <2>7
<1>6. CASE le # 0 /\ le < la /\ a.data = <<>>
  <2>1. mixed'
    BY <1>6 DEF Exchanged, Zero!MixesUp
  <2>2. PICK sw \in Zero!JunkStatus : c = [data |-> [i \in 1 .. le |-> Zero!Junk], sw |-> sw]
    BY <1>6 DEF Zero!Cut
  <2>3. c.data = [i \in 1 .. le |-> Zero!Junk] /\ c.sw = sw
    BY <2>2
  <2>4. c.data \in Seq(Nat)
    BY <1>3, <2>3 DEF Zero!Junk
  <2>5. c.sw[1] = "90" \/ (c.sw[1] = "61" /\ c.sw[2] = Zero!Byte(1))
    BY <2>3, StatusFacts DEF Zero!JunkStatus
  <2>6. Zero!Byte(1) \in 0 .. Max - 1
    BY ByteFacts
  <2>7. QED
    BY <2>1, <2>4, <2>5, <2>6
<1>7. QED
  BY <1>4, <1>5, <1>6

LEMMA PartStep ==
  ASSUME ZeroInv, NEW a \in Zero!CardAnswers, Exchanged(a), Zero!GetsPart(a)
  PROVE  ZeroInv'
<1>1. step \in {"first", "chain"}
  BY DEF Zero!GetsPart
<1>2. PICK c \in Zero!Cut(a) :
        IF c.data = <<>> /\ c.sw[1] = "6C"
        THEN Zero!Ask(step, c.sw[2]) /\ UNCHANGED <<le, acc>>
        ELSE /\ acc' = acc \o c.data
             /\ IF Len(acc') + 2 > room0 \/ c.sw[1] # "61" THEN Zero!Finish(acc', c.sw) /\ UNCHANGED le
                ELSE Zero!Ask("chain", c.sw[2]) /\ le' = c.sw[2]
  BY DEF Zero!GetsPart
<1> DEFINE d == c.data
<1>3. /\ d \in Seq(Nat) /\ (c.sw[1] \in {"61", "6C"} => c.sw[2] \in 0 .. Max - 1)
      /\ \/ mixed'
         \/ c = a
         \/ /\ step = "first" /\ le # 0 /\ le <= Len(a.data) /\ d = Zero!First(a.data, le) /\ Len(d) = le
            /\ c.sw = a.sw /\ c.sw[1] # "61"
  BY <1>1, CutFacts
<1>4. ZeroTypes /\ UNCHANGED <<room0, form>> /\ ret0 = "none" /\ (mixed => mixed') /\ (~mixed => Gathering)
  BY DEF ZeroInv, Exchanged
<1>5. /\ room0' \in Nat \ {0, 1} /\ exact' \in BOOLEAN /\ mixed' \in BOOLEAN
      /\ left' \in Seq(Nat) /\ given' \in Seq(Nat) /\ given' = given \o a.data
      /\ Len(left') = Len(left) - Len(a.data) /\ (given = <<>> => given' = a.data)
      /\ exact' = exact /\ a.data \in Seq(Nat) /\ status' = a.sw
  BY <1>4, ExchangedTypes, AnswerFacts DEF Exchanged
<1>6. le \in Nat /\ la \in Nat /\ le < Max /\ la < Max /\ Len(left) \in Nat /\ acc \in Seq(Nat) /\ given \in Seq(Nat)
  BY <1>4, TransmitAssumption DEF ZeroTypes
<1> HIDE DEF d
<1>7. CASE c.data = <<>> /\ c.sw[1] = "6C"
  <2>1. Zero!Ask(step, c.sw[2]) /\ UNCHANGED <<le, acc>>
    BY <1>2, <1>7
  <2>2. step' = step /\ la' = c.sw[2] /\ ret0' = "none" /\ T0Response'
    BY <1>4, <2>1, AsksAgain
  <2>3. ZeroTypes'
    BY <1>3, <1>4, <1>5, <1>7, <2>1, <2>2 DEF ZeroTypes
  <2>4. ASSUME ~mixed' PROVE Gathering'
    <3>1. c = a
      <4>1. Len(d) = 0
        BY <1>7 DEF d
      <4>2. QED
        BY <1>3, <2>4, <4>1
    <3>2. a.data = <<>> /\ a.sw[1] = "6C"
      BY <1>7, <3>1
    <3>3. Len(left') = Len(left) /\ given' = given
      BY <1>5, <1>6, <3>2
    <3>4. Gathering
      BY <1>4, <2>4
    <3>5. step = "first" => Asked(a, Zero!Real(la), TRUE)
      BY <1>4, AnswerFacts
    <3>6. step = "chain" => Asked(a, Zero!Real(la), FALSE)
      BY <1>4, AnswerFacts
    <3>7. la' = Zero!Byte(Len(left)) /\ Len(left) # 0
      BY <1>1, <2>2, <3>1, <3>2, <3>5, <3>6 DEF Asked
    <3>8. ASSUME step = "chain" PROVE le = 0 \/ (la' # 0 /\ la' <= le)
      <4>1. ~exact /\ (le = 0 \/ (la # 0 /\ la <= le))
        BY <3>4, <3>8 DEF Gathering
      <4>2. Len(left) < Zero!Real(la)
        BY <3>2, <3>6, <3>8, <4>1 DEF Asked
      <4>3. Zero!Real(la) \in 1 .. Max /\ (la # 0 => Zero!Real(la) = la)
        BY <1>6, ByteFacts
      <4>4. Len(left) \in 1 .. Max - 1
        BY <1>6, <3>7, <4>2, <4>3, TransmitAssumption
      <4>5. la' = Len(left)
        BY <1>6, <3>7, <4>4, ByteFacts
      <4>6. QED
        BY <1>6, <4>1, <4>2, <4>3, <4>4, <4>5
    <3>9. QED
      BY <1>1, <1>4, <1>5, <2>1, <2>2, <3>3, <3>4, <3>7, <3>8 DEF Gathering
  <2>5. QED
    BY <2>2, <2>3, <2>4 DEF ZeroInv
<1>8. CASE ~(c.data = <<>> /\ c.sw[1] = "6C")
  <2>1. acc' = acc \o d
    BY <1>2, <1>8 DEF d
  <2>2. acc' \in Seq(Nat) /\ (acc = <<>> => acc' = d)
    <3>1. <<>> \o d = d
      BY <1>3
    <3>2. acc \o d \in Seq(Nat)
      BY <1>3, <1>6
    <3>3. QED
      BY <2>1, <3>1, <3>2
  <2>3. ASSUME ~mixed', c = a PROVE acc' = given'
    <3>1. acc = given
      BY <1>1, <1>4, <2>3 DEF Gathering
    <3>2. QED
      BY <1>5, <2>1, <2>3, <3>1 DEF d
  <2>4. CASE Len(acc') + 2 > room0 \/ c.sw[1] # "61"
    <3>1. Zero!Finish(acc', c.sw) /\ UNCHANGED le
      BY <1>2, <1>8, <2>4
    <3>2. status' = c.sw \/ mixed'
      BY <1>3, <1>5
    <3>3. Returnable(acc', given') \/ mixed'
      <4>1. CASE ~mixed' /\ c = a
        BY <2>3, <4>1 DEF Returnable
      <4>2. CASE /\ ~mixed' /\ step = "first" /\ le # 0 /\ le <= Len(a.data) /\ d = Zero!First(a.data, le)
                 /\ Len(d) = le
        <5>1. Gathering
          BY <1>4, <4>2
        <5>2. given = <<>> /\ acc = <<>> /\ form = 2
          BY <4>2, <5>1 DEF Gathering
        <5>3. given' = a.data /\ acc' = d
          BY <1>5, <2>2, <5>2
        <5>4. QED
          BY <4>2, <5>2, <5>3 DEF Returnable
      <4>3. QED
        BY <1>3, <4>1, <4>2
    <3>4. step' = "idle" /\ T0Response' /\ la' = la
      BY <1>4, <1>5, <2>2, <3>1, <3>2, <3>3, Finished
    <3>5. ZeroTypes'
      BY <1>4, <1>5, <2>2, <3>1, <3>4 DEF ZeroTypes
    <3>6. QED
      BY <3>4, <3>5 DEF ZeroInv, Gathering
  <2>5. CASE ~(Len(acc') + 2 > room0 \/ c.sw[1] # "61")
    <3>1. Zero!Ask("chain", c.sw[2]) /\ le' = c.sw[2] /\ c.sw[1] = "61"
      BY <1>2, <1>8, <2>5
    <3>2. step' = "chain" /\ la' = c.sw[2] /\ ret0' = "none" /\ T0Response'
      BY <1>4, <3>1, AsksAgain
    <3>3. c.sw[2] \in 0 .. Max - 1
      BY <1>3, <3>1
    <3>4. ZeroTypes'
      BY <1>5, <2>2, <3>1, <3>2, <3>3 DEF ZeroTypes
    <3>5. ASSUME ~mixed' PROVE Gathering'
      <4>1. c = a
        BY <1>3, <3>1, <3>5
      <4>2. acc' = given'
        BY <2>3, <3>5, <4>1
      <4>3. step = "first" => Asked(a, Zero!Real(la), TRUE)
        BY <1>4, AnswerFacts
      <4>4. step = "chain" => Asked(a, Zero!Real(la), FALSE)
        BY <1>4, AnswerFacts
      <4>5. ~exact
        BY <1>1, <3>1, <4>1, <4>3, <4>4 DEF Asked
      <4>6. form = 2
        BY <1>1, <1>4, <3>5 DEF Gathering
      <4>7. le' = 0 \/ (la' # 0 /\ la' <= le')
        <5>1. le' = la' /\ la' \in Int
          BY <3>1, <3>2, <3>3
        <5>2. QED
          BY <5>1
      <4>8. QED
        BY <1>4, <1>5, <3>2, <4>2, <4>5, <4>6, <4>7 DEF Gathering
    <3>6. QED
      BY <3>2, <3>4, <3>5 DEF ZeroInv
  <2>6. QED
    BY <2>4, <2>5
<1>9. QED
  BY <1>7, <1>8

LEMMA ZeroInitially == Zero!Init => ZeroInv
<1> SUFFICES ASSUME Zero!Init PROVE ZeroInv
  OBVIOUS
<1>1. /\ exact \in BOOLEAN /\ step = "idle" /\ form = 1 /\ le = 0 /\ la = 0 /\ room0 = 2
      /\ acc = <<>> /\ ret0 = "none" /\ left = <<>> /\ given = <<>> /\ mixed = FALSE
  BY DEF Zero!Init
<1>2. <<>> \in Seq(Nat) /\ 0 \in 0 .. Max - 1
  BY TransmitAssumption
<1> DEFINE empty == <<>>
<1>3. empty \in Seq(Nat) /\ acc = empty /\ left = empty /\ given = empty
  BY <1>1, <1>2
<1> HIDE DEF empty
<1>4. mixed \in BOOLEAN /\ exact \in BOOLEAN
  BY <1>1
<1>5. le \in 0 .. Max - 1 /\ la \in 0 .. Max - 1 /\ room0 \in Nat \ {0, 1}
  BY <1>1, <1>2
<1>6. ZeroTypes
  BY <1>3, <1>4, <1>5 DEF ZeroTypes
<1>7. QED
  BY <1>1, <1>6 DEF ZeroInv, Gathering, T0Response, Zero!Response

LEMMA ZeroStep == ASSUME ZeroInv, Zero!Next PROVE ZeroInv'
<1>1. ASSUME NEW f \in 0 .. 4, NEW l \in 0 .. Max - 1, NEW r \in Rooms0, NEW n \in ReplyLens, Zero!Transmit(f, l, r, n)
      PROVE  ZeroInv'
  <2>1. /\ form' = f /\ le' = l /\ room0' = r /\ acc' = <<>> /\ given' = <<>> /\ left' = [i \in 1 .. n |-> i]
        /\ mixed' = FALSE /\ UNCHANGED exact /\ step = "idle"
    BY <1>1 DEF Zero!Transmit
  <2>2. la \in 0 .. Max - 1 /\ exact \in BOOLEAN
    BY DEF ZeroInv, ZeroTypes
  <2>3. \/ f = 0 /\ step' = "idle" /\ ret0' = "wrong length" /\ la' = la
        \/ /\ f # 0 /\ ret0' = "none" /\ la' = l /\ step' \in {"le", "first", "data", "whole"}
           /\ step' \in {"le", "first"} => f = 2
    <3>1. CASE f = 0
      BY <1>1, <3>1 DEF Zero!Transmit, Zero!Return
    <3>2. CASE f # 0
      BY <1>1, <3>2 DEF Zero!Transmit
    <3>3. QED
      BY <3>1, <3>2
  <2>4. left' \in Seq(Nat) /\ <<>> \in Seq(Nat) /\ r \in Nat \ {0, 1}
    <3>1. n \in Nat /\ r \in Nat \ {0, 1}
      BY TransmitAssumption
    <3>2. [i \in 1 .. n |-> i] \in [1 .. n -> Nat]
      OBVIOUS
    <3>3. QED
      BY <2>1, <3>1, <3>2
  <2>5. ZeroTypes'
    BY <2>1, <2>2, <2>3, <2>4 DEF ZeroTypes
  <2>6. T0Response'
    BY <2>3 DEF T0Response, Zero!Response
  <2>7. Gathering'
    BY <2>1, <2>3 DEF Gathering
  <2>8. QED
    BY <2>3, <2>5, <2>6, <2>7 DEF ZeroInv
<1>2. CASE Zero!Exchange
  <2>1. PICK a \in Zero!CardAnswers :
          /\ \/ Zero!Whole(a) \/ Zero!GetsLe(a) \/ Zero!GetsLa(a) \/ Zero!GetsPart(a) \/ Zero!GetsStatus(a)
             \/ Zero!GetsMore(a)
          /\ given' = given \o a.data /\ left' = Zero!From(left, Len(a.data)) /\ status' = a.sw
          /\ mixed' = (mixed \/ Zero!MixesUp(a))
    BY <1>2 DEF Zero!Exchange
  <2>2. Exchanged(a)
    BY <1>2, <2>1 DEF Exchanged, Zero!Exchange, Zero!request, ZeroInv
  <2>3. QED
    BY <2>1, <2>2, WholeStep, LeStep, LaStep, PartStep, StatusStep, MoreStep
<1>3. CASE Zero!ExchangeFails
  <2>1. /\ step' = "idle" /\ ret0' = "failed" /\ la' = la
        /\ UNCHANGED <<exact, form, room0, le, acc, left, given, mixed>>
    BY <1>3 DEF Zero!ExchangeFails, Zero!Return, Zero!request
  <2>2. ZeroTypes'
    BY <2>1 DEF ZeroInv, ZeroTypes
  <2>3. QED
    BY <2>1, <2>2 DEF ZeroInv, Gathering, T0Response, Zero!Response
<1>4. QED
  BY <1>1, <1>2, <1>3 DEF Zero!Next

\* Whichever of the two drivers runs, whatever the card asks it to repeat or to fetch: a
\* command by T=0 that succeeds returns the beginning of what the card handed over, in order
\* and without a gap, its last status, and no more than the application's buffer holds.
THEOREM TransmitT0Response == TransmitSpec => []T0Response
<1>1. TransmitInit => ZeroInv
  BY ZeroInitially DEF TransmitInit
<1>2. ASSUME ZeroInv, UNCHANGED zero PROVE ZeroInv'
  BY <1>2 DEF zero, ZeroInv, ZeroTypes, Gathering, T0Response, Zero!Response
<1>3. ZeroInv /\ [TransmitNext]_<<protocol, vars, zero>> => ZeroInv'
  BY <1>2, ZeroStep DEF TransmitNext
<1>4. ZeroInv => T0Response
  BY DEF ZeroInv
<1>5. QED
  BY <1>1, <1>3, <1>4, PTL DEF TransmitSpec

\* The part of T=1 moves as on its own: what is proved of it holds of the two protocols side
\* by side.
THEOREM TransmitT1 == TransmitSpec => []InStep /\ ExchangeSpec
<1>1. TransmitInit => Init
  BY DEF TransmitInit
<1>2. [TransmitNext]_<<protocol, vars, zero>> => [Next]_vars
  BY DEF TransmitNext
<1>3. TransmitSpec => Spec
  BY <1>1, <1>2, PTL DEF TransmitSpec, Spec
<1>4. QED
  BY <1>3, PpaT1InStep, PpaT1Exchange, PTL
=============================================================================
