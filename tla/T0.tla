---------------------------------- MODULE T0 ----------------------------------
(***************************************************************************)
(* T=0 between the drivers and the card: APDU2TPDU_T0 (ppa/cjdata.c) and   *)
(* CEC30Reader::_IfdTransmit (EC30Reader.cpp) turn a command into one or   *)
(* more exchanges with the card.  A T=0 card that was asked for the wrong  *)
(* number of bytes says so (6C), and one that has more to tell says so too *)
(* (61); the driver asks again and puts the parts together.                *)
(*                                                                         *)
(* The card is external.  It has a response, hands over a part of it when  *)
(* it is asked for no more than there is, and may fail at any time.        *)
(*                                                                         *)
(* A length travels in one byte, in which 0 stands for 256: Max here.      *)
(* Definitions that no other definition uses (FetchLe...) are faulty       *)
(* variants of the one that follows them.                                  *)
(***************************************************************************)
EXTENDS Integers, Sequences

CONSTANTS
  Drivers,    \* "ppa", and CEC30Reader by m_ApduNorm: "PCSC" (the default) or "ISO"
  Lens,       \* lengths of the card's response
  Rooms,      \* sizes of the application's buffer, status included
  Max         \* 256: bytes of data in rbuffer

VARIABLES
  norm,       \* the driver in use
  exact,      \* the card hands over its response as a whole or not at all
  step,       \* "idle", or where the next answer is expected
  form,       \* the case of the command: its length against its length byte
  le, la,     \* bytes: the Le of the command or of the chain, and sbuffer[4]
  room,       \* *lenr, *response_len
  acc,        \* data stored so far
  ret, result,
  left,       \* what the card has not handed over yet
  given,      \* what it has, since the command began
  status,     \* the last status it sent
  mixed,      \* the driver has mixed up data and status (MixesUp)
  odd         \* an odd number of exchanges: asking the same again is a step too

request == <<norm, exact, form, room>>
vars == <<request, step, le, la, acc, ret, result, left, given, status, mixed,
          odd>>

Byte(n) == IF n >= Max THEN 0 ELSE n
Real(b) == IF b = 0 THEN Max ELSE b
First(s, n) == SubSeq(s, 1, n)
From(s, n) == SubSeq(s, n + 1, Len(s))

OK == <<"90", 0>>
Warning == <<"62", 0>>              \* 62, 63 and 9x other than 9000
Failure == <<"6A", 0>>
More(n) == <<"61", Byte(n)>>
Wrong(n) == <<"6C", Byte(n)>>
NoResult == [data |-> <<>>, sw |-> OK]

Junk == 0                           \* a byte that is none of the card's data
JunkStatus == {OK, More(1)}         \* what two such bytes may look like

Init ==
  /\ norm \in Drivers /\ exact \in BOOLEAN
  /\ step = "idle" /\ form = 1 /\ le = 0 /\ la = 0 /\ room = 2
  /\ acc = <<>> /\ ret = "none" /\ result = NoResult
  /\ left = <<>> /\ given = <<>> /\ status = OK /\ mixed = FALSE /\ odd = FALSE

-----------------------------------------------------------------------------
(* The card.                                                               *)

\* Asked for l bytes, of a command (first) or with GET RESPONSE.
Hands(l, first) ==
  LET n == Len(left)
      wrong == [data |-> <<>>, sw |-> Wrong(n)]
      part == First(left, l)
  IN  IF n = 0 THEN {[data |-> <<>>, sw |-> IF first THEN OK ELSE Failure]}
      ELSE IF l > n THEN {wrong}
      ELSE IF l = n THEN {[data |-> left, sw |-> OK]}
      ELSE (IF (first \/ exact) /\ l # Real(Byte(n)) THEN {wrong} ELSE {})
           \cup (IF exact THEN {} ELSE {[data |-> part, sw |-> s] : s \in {OK, More(n - l)}})

\* A command that carries data is answered with a status only; a response is announced with
\* 61, or with 6C by a card that counts the missing Le as a wrong one.
Accepts == {OK} \cup (IF left = <<>> THEN {} ELSE {More(Len(left)), Wrong(Len(left)), Warning})

CardAnswers ==
  {[data |-> <<>>, sw |-> Failure]} \cup
  CASE step = "whole" /\ form = 2 -> Hands(Real(la), TRUE)
    [] step \in {"le", "la", "first"} -> Hands(Real(la), TRUE)
    [] step \in {"chain", "warned", "more"} -> Hands(Real(la), FALSE)
    [] OTHER -> {[data |-> <<>>, sw |-> s] : s \in Accepts}

-----------------------------------------------------------------------------
(* The drivers.  Each handler takes the answer a to the last exchange.     *)

Ask(s, l) == step' = s /\ la' = l /\ UNCHANGED <<ret, result>>

Return(r, res) == step' = "idle" /\ ret' = r /\ result' = res /\ UNCHANGED la

\* Data and status must fit into the application's buffer.
Finish(data, sw) ==
  IF Len(data) + 2 > room THEN Return("too small", NoResult)
  ELSE Return("SUCCESS", [data |-> data, sw |-> sw])

\* The entry: a command without data or Le (form 1) gets a length byte of 0; form 0 is a
\* command whose length does not agree with its length byte.  The drivers keep nothing from
\* one command for the next, so one is enough.
Transmit(f, l, r, n) ==
  /\ step = "idle" /\ ret = "none"
  /\ form' = f /\ le' = l /\ room' = r
  /\ acc' = <<>> /\ given' = <<>> /\ left' = [i \in 1 .. n |-> i]
  /\ mixed' = FALSE /\ odd' = FALSE
  /\ IF f = 0 THEN Return("wrong length", NoResult)
     ELSE /\ ret' = "none" /\ result' = NoResult
          /\ la' = l
          /\ step' = CASE f = 2 /\ norm = "ppa" -> "le"
                       [] f = 2 /\ norm = "ISO" -> "first"
                       [] f = 4 -> "data"
                       [] OTHER -> "whole"
  /\ UNCHANGED <<norm, exact, status>>

\* The answer is the response: cases 1 and 3, and case 2 for PC/SC, where the application
\* itself deals with 61 and 6C.
Whole(a) ==
  /\ step = "whole"
  /\ Finish(a.data, a.sw)
  /\ UNCHANGED <<le, acc>>

\* Case 2, ppa: after 6C the command is sent once more, with the length the card named.
GetsLe(a) ==
  /\ step = "le"
  /\ IF a.data = <<>> /\ a.sw[1] = "6C" THEN Ask("la", a.sw[2]) ELSE Finish(a.data, a.sw)
  /\ UNCHANGED <<le, acc>>

\* ... and cut to what was asked for.  The status is then copied over the first two bytes and
\* not behind the data; and a length of 256 is taken as none, so that the first two bytes of
\* data stand where the status belongs.
GetsLa(a) ==
  /\ step = "la"
  /\ IF a.data = <<>> THEN Return("SUCCESS", a)
     ELSE IF le # 0 /\ la > le
     THEN \E sw \in JunkStatus :
            Finish([i \in 1 .. le |-> IF i <= 2 THEN Junk ELSE a.data[i]], sw)
     ELSE IF la = 0 THEN \E sw \in JunkStatus : Finish(<<>>, sw)
     ELSE Finish(a.data, a.sw)
  /\ UNCHANGED <<le, acc>>

\* What CEC30Reader makes of an answer longer than Le: the first Le bytes and the two behind
\* the first La, which are not the status if the answer was only a status.
Cut(a) ==
  IF ~(le # 0 /\ le < la) THEN {a}
  ELSE IF a.data # <<>> THEN {[data |-> First(a.data, le), sw |-> a.sw]}
  ELSE {[data |-> [i \in 1 .. le |-> Junk], sw |-> sw] : sw \in JunkStatus}

\* Case 2, CEC30Reader with NORM_ISO: repeat with another length while the card says 6C,
\* go on with GET RESPONSE while it says 61.
GetsPart(a) ==
  /\ step \in {"first", "chain"}
  /\ \E c \in Cut(a) :
       IF c.data = <<>> /\ c.sw[1] = "6C"
       THEN Ask(step, c.sw[2]) /\ UNCHANGED <<le, acc>>
       ELSE /\ acc' = acc \o c.data
            /\ IF Len(acc') + 2 > room \/ c.sw[1] # "61" THEN Finish(acc', c.sw) /\ UNCHANGED le
               ELSE Ask("chain", c.sw[2]) /\ le' = c.sw[2]

FetchLe(a) == Ask("more", IF le # 0 THEN le ELSE a.sw[2])
\* GET RESPONSE for what is left, but not for more than Le.  The length is compared with the
\* byte behind the status, not with its second byte, unless the answer was a status only.
Fetch(a) ==
  \E less \in IF a.data = <<>> THEN {le < a.sw[2]} ELSE BOOLEAN :
    Ask("more", IF less /\ le # 0 THEN le ELSE a.sw[2])

\* Case 4: the command, answered with a status.  A warning is no reason not to ask for the data.
GetsStatus(a) ==
  /\ step = "data"
  /\ IF a.sw[1] = "62" THEN Ask("warned", le)
     ELSE IF a.sw[1] \in {"61", "6C"} THEN Fetch(a)
     ELSE Finish(<<>>, a.sw)
  /\ UNCHANGED <<le, acc>>

GetsMoreOverwriting(a) ==
  /\ step \in {"warned", "more"}
  /\ IF Len(acc) + Len(a.data) > Max THEN Return("too small", NoResult) /\ UNCHANGED acc
     ELSE /\ acc' = IF a.data = <<>> THEN acc ELSE a.data
          /\ IF a.sw[1] \in {"61", "6C"} THEN Fetch(a) ELSE Finish(acc', a.sw)
  /\ UNCHANGED le
\* ... and its data, part by part, each over the status of the one before.
GetsMore(a) ==
  /\ step \in {"warned", "more"}
  /\ IF Len(acc) + Len(a.data) > Max THEN Return("too small", NoResult) /\ UNCHANGED acc
     ELSE /\ acc' = acc \o a.data
          /\ IF a.sw[1] \in {"61", "6C"} THEN Fetch(a) ELSE Finish(acc', a.sw)
  /\ UNCHANGED le

\* The answers after which GetsLa and Cut mix up data and status.
MixesUp(a) ==
  \/ step = "la" /\ a.data # <<>> /\ (la = 0 \/ (le # 0 /\ la > le))
  \/ step \in {"first", "chain"} /\ a.data = <<>> /\ le # 0 /\ le < la

\* One exchange with the card.
Exchange ==
  /\ step # "idle"
  /\ \E a \in CardAnswers :
       /\ Whole(a) \/ GetsLe(a) \/ GetsLa(a) \/ GetsPart(a) \/ GetsStatus(a) \/ GetsMore(a)
       /\ given' = given \o a.data
       /\ left' = From(left, Len(a.data))
       /\ status' = a.sw
       /\ mixed' = (mixed \/ MixesUp(a))
  /\ odd' = ~odd
  /\ UNCHANGED request

\* The card stays mute, is gone, or the reader is.
ExchangeFails ==
  /\ step # "idle"
  /\ Return("failed", NoResult)
  /\ UNCHANGED <<request, le, acc, left, given, status, mixed, odd>>

Next ==
  \/ \E f \in 0 .. 4, l \in 0 .. Max - 1, r \in Rooms, n \in Lens :
       /\ f \in {0, 1, 3} => l = 0
       /\ f \in {0, 1} => n = 0
       /\ Transmit(f, l, r, n)
  \/ Exchange
  \/ ExchangeFails

Fairness == WF_vars(Exchange)

-----------------------------------------------------------------------------
(* Properties.                                                             *)

\* A successful call returns the data the card handed over, all of it or as many bytes as
\* Le says, in order and without a gap, and the last status: however many exchanges it took
\* and whichever of them were repeated.  A response that does not fit into the application's
\* buffer is not returned, and none is refused that fits there and into rbuffer.
Response ==
  /\ ret = "SUCCESS" => Len(result.data) + 2 <= room
  /\ ret = "SUCCESS" /\ ~mixed =>
       /\ result.sw = status
       /\ result.data = First(given, Len(result.data))
       /\ Len(result.data) # Len(given) => form = 2 /\ Len(result.data) = le
  /\ ret = "too small" /\ ~mixed => Len(given) + 2 > room \/ Len(given) > Max

\* Every command returns: the loops over 61 and 6C end, unless in case 4 the card refuses to
\* hand over less than everything, which the loop may ask for again and again.
Returns == step # "idle" /\ ~(exact /\ form = 4) ~> step = "idle"
=============================================================================
