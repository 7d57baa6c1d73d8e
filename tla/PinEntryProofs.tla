--------------------------- MODULE PinEntryProofs ---------------------------
(***************************************************************************)
(* Proofs about secure PIN entry (module PinEntry) for every part 10       *)
(* structure, CT-BCS command and reader: all positions and lengths of a    *)
(* byte, not only those around the boundaries.                             *)
(***************************************************************************)
EXTENDS PinEntry, TLAPS

Refused(r) == IF r.op = "verify" THEN VerifyRefused(r) ELSE ModifyRefused(r)
Converted(r) == IF r.op = "verify" THEN verifyStructToCtapi(r) ELSE modifyStructToCtapi(r)
Check(c) == IF c.op = "verify" THEN VerifyCheck(c) ELSE ModifyCheck(c)
Secure(c) == IF c.op = "verify" THEN SecureVerify(c) ELSE SecureModify(c)

\* The command of a call is the one its request was converted to, or the
\* application's own.
CommandOfCall ==
  /\ entry = "pcsc" => request \in Requests /\ ~Refused(request) /\ command = Converted(request)
  /\ entry = "ctapi" => command \in Commands

\* The message at the reader was made of that command; there is none between
\* calls and during INPUT.
MessageOfCall ==
  /\ entry \notin {"pcsc", "ctapi", "ioctl"} => message = None
  /\ entry \in {"pcsc", "ctapi"} /\ message # None =>
       Check(command) = "ok" /\ message = Secure(command)

\* INPUT has put the application's key callback aside.
CallbackSaved == entry = "input" => saved = registered

IInv == reader \in Readers /\ CommandOfCall /\ MessageOfCall /\ CallbackSaved /\ CallbackKept

-----------------------------------------------------------------------------
(* Where the PIN goes.                                                     *)

LEMMA Nibble == \A n \in 0 .. 15 : n % 16 = n
OBVIOUS

\* What the proofs need to know of a request.
LEMMA RequestParts ==
  ASSUME NEW r \in Requests
  PROVE  /\ r.op \in {"verify", "modify"} /\ r.pos \in 0 .. 15 /\ r.min \in Nat /\ r.max \in Nat
         /\ r.offOld \in Nat /\ r.offNew \in Nat /\ r.current \in BOOLEAN /\ r.fixed \in BOOLEAN
         /\ r.apdu \in 0 .. 255
<1>1. r.op \in {"verify", "modify"}
  BY RequestsAssumption
<1>2. r.pos \in 0 .. 15
  BY RequestsAssumption
<1>3. {r.min, r.max, r.apdu} \subseteq Byte
  BY RequestsAssumption, Zenon
<1>4. {r.right, r.bytes, r.looks2, r.fixed, r.current} \subseteq BOOLEAN
  BY RequestsAssumption, Zenon
<1>5. r.current \in BOOLEAN /\ r.fixed \in BOOLEAN
  BY <1>4, Zenon
<1>6. r.min \in Nat /\ r.max \in Nat /\ r.apdu \in 0 .. 255
  BY <1>3 DEF Byte
<1>7. {r.offOld, r.offNew} \subseteq 0 .. 249
  BY RequestsAssumption, Zenon
<1>8. r.offOld \in Nat /\ r.offNew \in Nat
  BY <1>7
<1>9. QED
  BY <1>1, <1>2, <1>5, <1>6, <1>8

\* The type of the command's PIN is 2 exactly for a format 2 request.
LEMMA TypeOfRequest ==
  ASSUME NEW r
  PROVE  MktType(r) \in 0 .. 2 /\ (MktType(r) = 2 <=> IsFormat2(r))
<1>1. r.format = "ascii" => ~IsFormat2(r)
  BY DEF IsFormat2
<1>2. QED
  BY <1>1 DEF MktType

LEMMA VerifyPosition ==
  ASSUME NEW r \in Requests
  PROVE  PutAt(SecureVerify(verifyStructToCtapi(r))) = Position(r)
<1> DEFINE c == verifyStructToCtapi(r)
           at == Position(r)
           l  == WithTag51(c, Lengths(c, IF c.type = 1 THEN 15 ELSE 30))
<1>1. r.pos \in 0 .. 15
  BY RequestParts
<1>2. /\ c.type = MktType(r)
      /\ c.pos = IF IsFormat2(r) THEN Max2(r.pos, 1) + 5 ELSE r.pos + 6
  BY DEF verifyStructToCtapi
<1>3. /\ at \in 0 .. 15 /\ (IsFormat2(r) => at >= 1)
      /\ at = IF c.type = 2 THEN c.pos - 5 ELSE c.pos - 6
  BY <1>1, <1>2, TypeOfRequest DEF Max2, Position
<1>4. SecureVerify(c) = IF c.type = 2 /\ at > 1 THEN Message("MV", 1, 0, at - 1, FALSE, l)
                        ELSE Message("PV", at, 0, 0, FALSE, l)
  BY <1>3 DEF SecureVerify
<1> HIDE DEF c, at, l
<1>5. CASE c.type = 2 /\ at > 1
  <2>1. SecureVerify(c) = Message("MV", 1, 0, at - 1, FALSE, l)
    BY <1>4, <1>5
  <2>2. PutAt(SecureVerify(c)) = (1 % 16) + (at - 1)
    BY <2>1 DEF PutAt, Message
  <2>3. QED
    BY <1>3, <2>2, Nibble DEF at, c
<1>6. CASE ~(c.type = 2 /\ at > 1)
  <2>1. SecureVerify(c) = Message("PV", at, 0, 0, FALSE, l)
    BY <1>4, <1>6
  <2>2. PutAt(SecureVerify(c)) = at % 16
    BY <2>1 DEF PutAt, Message
  <2>3. QED
    BY <1>3, <2>2, Nibble DEF at, c
<1>7. QED
  BY <1>5, <1>6

LEMMA ModifyPosition ==
  ASSUME NEW r \in Requests, r.op = "modify", NEW m, m = SecureModify(modifyStructToCtapi(r))
  PROVE  /\ ~PositionDropped(r) => PutAt(m) = Offset(r) + Position(r)
         /\ m.current <=> r.current /\ (r.offNew = 0 \/ r.offOld # r.offNew)
         /\ m.current => m.old = r.offOld
         /\ m.new = Offset(r)
<1> DEFINE c == modifyStructToCtapi(r)
<1>1. r.offOld \in Nat /\ r.offNew \in Nat /\ r.current \in BOOLEAN
  BY RequestParts
<1>2. /\ c.type = MktType(r)
      /\ c.new = IF r.offNew # 0 \/ ~r.current THEN r.offNew + 6 ELSE 0
      /\ c.old = IF r.current THEN r.offOld + 6 ELSE c.new
  BY DEF modifyStructToCtapi
<1>3. /\ m.current = AsksOld(c) /\ m.old = OldAt(c) /\ m.new = NewAt(c)
      /\ m.kind = "MV" /\ m.pos = (IF c.type = 2 THEN 1 ELSE 0) % 16
  BY DEF SecureModify, Message
<1> HIDE DEF c
<1>4. AsksOld(c) <=> r.current /\ (r.offNew = 0 \/ r.offOld # r.offNew)
  BY <1>1, <1>2 DEF AsksOld
<1>5. AsksOld(c) => OldAt(c) = r.offOld
  BY <1>1, <1>2, <1>4 DEF OldAt
<1>6. NewAt(c) = Offset(r) /\ Offset(r) \in Nat
  BY <1>1, <1>2, <1>4, <1>5, TypeOfRequest DEF NewAt, Offset
<1>7. ~PositionDropped(r) => m.pos = Position(r)
  <2>1. m.pos = IF c.type = 2 THEN 1 ELSE 0
    BY <1>3, Nibble
  <2>2. ~PositionDropped(r) => Position(r) = IF IsFormat2(r) THEN 1 ELSE 0
    BY DEF PositionDropped
  <2>3. QED
    BY <1>2, <2>1, <2>2, TypeOfRequest
<1>8. PutAt(m) = m.pos + Offset(r) /\ m.pos \in Nat
  BY <1>3, <1>6 DEF PutAt
<1>9. QED
  BY <1>3, <1>4, <1>5, <1>6, <1>7, <1>8

-----------------------------------------------------------------------------
(* The bounds of its length.                                               *)

\* Every command, an application's or a converted one.
CommandOK(c) ==
  /\ c.type \in 0 .. 3 /\ c.length \in 0 .. 15
  /\ c.old \in Nat /\ c.new \in Nat /\ c.apdu \in Nat
  /\ c.tag51 # None => c.tag51.min \in Nat /\ c.tag51.max \in Nat

LEMMA CommandParts ==
  /\ \A c \in Commands : CommandOK(c)
  /\ \A r \in Requests : CommandOK(Converted(r)) /\ Converted(r).tag51 = None
<1>1. ASSUME NEW c \in Commands PROVE CommandOK(c)
  <2>1. c.type \in 0 .. 3
    BY CommandsAssumption
  <2>2. c.length \in 0 .. 15
    BY CommandsAssumption
  <2>3. c.apdu \in 0 .. 250
    BY CommandsAssumption
  <2>4. {c.pos, c.old, c.new} \subseteq Byte
    BY CommandsAssumption, Zenon
  <2>5. c.tag51 = None \/ {c.tag51.min, c.tag51.max} \subseteq Byte
    BY CommandsAssumption, Zenon
  <2>6. c.old \in Nat /\ c.new \in Nat
    BY <2>4 DEF Byte
  <2>7. c.tag51 # None => c.tag51.min \in Nat /\ c.tag51.max \in Nat
    BY <2>5 DEF Byte
  <2>8. QED
    BY <2>1, <2>2, <2>3, <2>6, <2>7 DEF CommandOK
<1>2. ASSUME NEW r \in Requests PROVE CommandOK(Converted(r)) /\ Converted(r).tag51 = None
  <2>1. /\ Converted(r).type = MktType(r) /\ Converted(r).length = MktLength(r)
        /\ Converted(r).tag51 = Tag51(r)
    BY DEF Converted, verifyStructToCtapi, modifyStructToCtapi
  <2>2. MktLength(r) \in 0 .. 15
    BY RequestParts DEF MktLength
  <2>3. Tag51(r) = None
    BY DEF Tag51, SupportTag51
  <2>4. Converted(r).old \in Nat /\ Converted(r).new \in Nat /\ Converted(r).apdu \in Nat
    BY RequestParts DEF Converted, verifyStructToCtapi, modifyStructToCtapi
  <2>5. QED
    BY <2>1, <2>2, <2>3, <2>4, TypeOfRequest DEF CommandOK
<1>3. QED
  BY <1>1, <1>2

\* The limits the control byte, the format and the reader set, for one command.
LEMMA LengthsOfMessage ==
  ASSUME NEW c, CommandOK(c), ~BadFormat2Length(c), NEW longest \in Nat, longest >= 1,
         NEW d \in Readers, reader = d,
         NEW l, l = Shortened(WithTag51(c, Lengths(c, longest)))
  PROVE  /\ c.tag51 = None /\ c.length # 0 => l.min = c.length /\ l.max = c.length
         /\ c.tag51 # None /\ Sensible(c) => l.min >= c.tag51.min /\ l.max <= c.tag51.max
         /\ c.tag51 = None \/ Sensible(c) => l.min <= l.max
<1> DEFINE k == Lengths(c, longest)
           w == WithTag51(c, k)
<1>1. /\ k.min \in Nat /\ k.max \in Nat /\ k.min >= 1 /\ k.min <= k.max /\ k.min <= 15
      /\ c.length # 0 => k.min = c.length /\ k.max = c.length
      /\ c.type = 2 => k.min \in 4 .. 12 /\ k.max \in 4 .. 12
      /\ c.type = 2 /\ c.length = 0 => k.min = 4
  <2>1. CASE c.length # 0
    <3>1. k = [min |-> c.length, max |-> c.length]
      BY <2>1 DEF Lengths
    <3>2. c.length \in 1 .. 15 /\ (c.type = 2 => c.length \in 4 .. 12)
      BY <2>1 DEF CommandOK, BadFormat2Length
    <3>3. QED
      BY <2>1, <3>1, <3>2
  <2>2. CASE c.length = 0 /\ c.type = 2
    BY <2>2 DEF Lengths
  <2>3. CASE c.length = 0 /\ c.type # 2
    BY <2>3 DEF Lengths
  <2>4. QED
    BY <2>1, <2>2, <2>3
<1> HIDE DEF k
<1>2. /\ l.min = w.min
      /\ l.max = IF reader.ec30 /\ w.max > 15 THEN 15 ELSE w.max
  <2>1. w = [min |-> w.min, max |-> w.max]
    BY <1>1 DEF WithTag51, k, Lengths
  <2>2. l = Shortened(w)
    BY DEF k
  <2>3. QED
    BY <2>1, <2>2 DEF Shortened
<1>3. CASE c.tag51 = None
  <2>1. w = k
    BY <1>3 DEF WithTag51
  <2>2. QED
    BY <1>1, <1>2, <1>3, <2>1 DEF CommandOK
<1>4. CASE c.tag51 # None
  <2>1. c.tag51.min \in Nat /\ c.tag51.max \in Nat
    BY <1>4 DEF CommandOK
  <2>2. CASE c.type # 2
    <3>1. /\ w.min = c.tag51.min
          /\ c.tag51.max >= c.tag51.min => w.max = c.tag51.max
      BY <1>4, <2>2 DEF WithTag51
    <3>2. Sensible(c) => c.tag51.min <= 15 /\ c.tag51.min <= c.tag51.max
      BY <2>1, <2>2 DEF Sensible
    <3>3. QED
      BY <1>2, <1>4, <2>1, <3>1, <3>2
  <2>3. CASE c.type = 2
    <3> DEFINE min == IF c.tag51.min >= 4 THEN c.tag51.min ELSE k.min
    <3>1. /\ w.min = min
          /\ c.tag51.max >= min =>
               w.max = IF c.tag51.max > 12 THEN 12 ELSE c.tag51.max
      BY <1>4, <2>3 DEF WithTag51
    <3>2. Sensible(c) => /\ c.tag51.min <= 12 /\ min <= c.tag51.max
      BY <1>1, <2>1, <2>3 DEF Sensible, CommandOK
    <3>3. min >= c.tag51.min /\ min \in Nat /\ (Sensible(c) => min <= 12)
      BY <1>1, <2>1, <2>3, <3>2
    <3> HIDE DEF min
    <3>4. QED
      BY <1>2, <1>4, <2>1, <3>1, <3>2, <3>3
  <2>4. QED
    BY <2>2, <2>3
<1>5. QED
  BY <1>3, <1>4

\* The longest PIN MODIFY VERIFICATION allows is never 0, although the gap
\* between the two positions and the rest of the APDU are cut to a byte.
LEMMA LongestPositive ==
  ASSUME NEW c, CommandOK(c)
  PROVE  LongestBetween(c) \in Nat /\ LongestBetween(c) >= 1
<1> DEFINE unit == IF c.type = 1 THEN 1 ELSE 2
           cap  == 15 * unit
           gap  == (unit * Abs(NewAt(c) - OldAt(c))) % 256
           rest == unit * (c.apdu - 5 - Max2(NewAt(c), OldAt(c)))
           room == IF c.apdu > 5 /\ rest > gap THEN rest % 256 ELSE gap
<1>1. /\ cap \in Nat /\ cap >= 1
      /\ NewAt(c) \in Int /\ OldAt(c) \in Int /\ c.apdu \in Int
  BY DEF CommandOK, NewAt, OldAt, AsksOld
<1>2. gap \in Nat
  <2>1. unit * Abs(NewAt(c) - OldAt(c)) \in Int
    <3>1. unit \in Int /\ Abs(NewAt(c) - OldAt(c)) \in Int
      BY <1>1 DEF Abs
    <3>2. QED
      BY <3>1
  <2>2. QED
    BY <2>1
<1>3. room \in Nat
  <2>1. rest \in Int
    <3>1. unit \in Int /\ c.apdu - 5 - Max2(NewAt(c), OldAt(c)) \in Int
      BY <1>1 DEF Max2
    <3>2. QED
      BY <3>1
  <2>2. QED
    BY <1>2, <2>1
<1>4. LongestBetween(c) = IF ~AsksOld(c) \/ room = 0 \/ room > cap THEN cap ELSE room
  BY DEF LongestBetween
<1>5. QED
  BY <1>1, <1>3, <1>4

\* The message of a command that passed its check.
LEMMA SecureLengths ==
  ASSUME NEW c, CommandOK(c), Check(c) = "ok", reader \in Readers, NEW m, m = Secure(c)
  PROVE  /\ c.tag51 = None /\ c.length # 0 => m.min = c.length /\ m.max = c.length
         /\ c.tag51 # None /\ Sensible(c) => m.min >= c.tag51.min /\ m.max <= c.tag51.max
         /\ c.tag51 = None \/ Sensible(c) => m.min <= m.max
<1>1. ~BadFormat2Length(c)
  BY DEF Check, VerifyCheck, ModifyCheck
<1>2. CASE c.op = "verify"
  <2> DEFINE longest == IF c.type = 1 THEN 15 ELSE 30
             l == Shortened(WithTag51(c, Lengths(c, longest)))
  <2>1. m.min = l.min /\ m.max = l.max
    BY <1>2 DEF Secure, SecureVerify, Message
  <2>2. longest \in Nat /\ longest >= 1
    OBVIOUS
  <2> HIDE DEF longest
  <2>3. QED
    BY <1>1, <2>1, <2>2, LengthsOfMessage
<1>3. CASE c.op # "verify"
  <2> DEFINE l == Shortened(WithTag51(c, Lengths(c, LongestBetween(c))))
  <2>1. m.min = l.min /\ m.max = l.max
    BY <1>3 DEF Secure, SecureModify, Message
  <2>2. LongestBetween(c) \in Nat /\ LongestBetween(c) >= 1
    BY LongestPositive
  <2>3. QED
    BY <1>1, <2>1, <2>2, LengthsOfMessage
<1>4. QED
  BY <1>2, <1>3

-----------------------------------------------------------------------------
\* A call that returns leaves nothing of the PIN entry behind.
LEMMA ReturnStep ==
  ASSUME reader \in Readers, NEW a, Return(a), UNCHANGED reader,
         callback' = registered'
  PROVE  IInv'
BY DEF Return, IInv, CommandOfCall, MessageOfCall, CallbackSaved, CallbackKept

\* A step that leaves the call alone.
LEMMA SameCall ==
  ASSUME IInv, UNCHANGED <<reader, entry, request, command, message>>
  PROVE  CommandOfCall' /\ MessageOfCall'
<1>1. CommandOfCall'
  BY DEF IInv, CommandOfCall, Refused, Converted
<1>2. Check(command)' = Check(command)
  OBVIOUS
<1>3. Secure(command)' = Secure(command)
  BY DEF Secure, SecureVerify, SecureModify, Message, Shortened
<1>4. MessageOfCall'
  BY <1>2, <1>3 DEF IInv, MessageOfCall
<1>5. QED
  BY <1>1, <1>4

LEMMA InvariantStep == ASSUME IInv, [Next]_vars PROVE IInv'
<1> USE DEF IInv
<1>1. ASSUME NEW r \in Requests, Part10Control(r) PROVE IInv'
  <2>1. CASE Refused(r)
    BY <1>1, <2>1 DEF Part10Control, Refused, CommandOfCall, MessageOfCall, CallbackSaved,
                      CallbackKept
  <2>2. CASE ~Refused(r)
    <3>1. /\ entry = "idle" /\ entry' = "pcsc" /\ request' = r /\ command' = Converted(r)
          /\ UNCHANGED <<reader, message, typed, callback, saved, registered>>
      BY <1>1, <2>2 DEF Part10Control, Refused, Converted
    <3>2. message' = None
      BY <3>1 DEF MessageOfCall
    <3>3. CommandOfCall'
      BY <2>2, <3>1 DEF CommandOfCall, Refused, Converted
    <3>4. QED
      BY <3>1, <3>2, <3>3 DEF MessageOfCall, CallbackSaved, CallbackKept
  <2>3. QED
    BY <2>1, <2>2
<1>2. ASSUME NEW r \in Requests, NEW fits \in BOOLEAN, NEW room \in BOOLEAN,
             IfdPinDirect(r, fits, room)
      PROVE  IInv'
  <2>1. CASE DirectCheck(r, fits, room) # "ok"
    BY <1>2, <2>1, SameCall DEF IfdPinDirect, CallbackSaved, CallbackKept
  <2>2. CASE DirectCheck(r, fits, room) = "ok"
    BY <1>2, <2>2 DEF IfdPinDirect, CommandOfCall, MessageOfCall, CallbackSaved, CallbackKept
  <2>3. QED
    BY <2>1, <2>2
<1>3. ASSUME NEW c \in Commands, CtApplication(c) PROVE IInv'
  BY <1>3 DEF CtApplication, CommandOfCall, MessageOfCall, CallbackSaved, CallbackKept
<1>4. CASE PerformVerification
  <2>1. UNCHANGED <<reader, callback, saved, registered>> /\ entry \in {"pcsc", "ctapi"}
    BY <1>4 DEF PerformVerification
  <2>2. ASSUME NEW sw, Return(sw) PROVE IInv'
    BY <2>1, <2>2, ReturnStep DEF CallbackKept
  <2>3. ASSUME Check(command) = "ok", message' = Secure(command),
               UNCHANGED <<entry, request, command, typed, answer>>
        PROVE  IInv'
    <3>1. CommandOfCall'
      BY <2>3 DEF CommandOfCall, Refused, Converted
    <3>2. Check(command)' = "ok" /\ Secure(command)' = Secure(command)
      <4>1. command' = command /\ reader' = reader
        BY <2>1, <2>3
      <4>2. Check(command)' = Check(command)
        BY <4>1
      <4>3. Secure(command)' = Secure(command)
        BY <4>1 DEF Secure, SecureVerify, SecureModify, Message, Shortened
      <4>4. QED
        BY <2>3, <4>2, <4>3
    <3>3. MessageOfCall'
      BY <2>1, <2>3, <3>2 DEF MessageOfCall
    <3>4. QED
      BY <2>1, <2>3, <3>1, <3>3 DEF CallbackSaved, CallbackKept
  <2>4. QED
    BY <1>4, <2>2, <2>3 DEF PerformVerification, Check, Secure
<1>5. ASSUME NEW o \in Outcomes, ReaderAnswers(o) PROVE IInv'
  <2>1. entry # "input" /\ UNCHANGED <<reader, callback, saved, registered>>
    BY <1>5 DEF ReaderAnswers, MessageOfCall
  <2>2. QED
    BY <1>5, <2>1, ReturnStep DEF ReaderAnswers, CallbackKept
<1>6. ASSUME NEW i \in Inputs, InputStart(i) PROVE IInv'
  BY <1>6 DEF InputStart, SetKeyInterruptCallback, CommandOfCall, MessageOfCall, CallbackSaved,
              CallbackKept
<1>7. ASSUME NEW a, entry = "input", InputReturn(a), UNCHANGED <<reader, registered>> PROVE IInv'
  <2>1. Return(a) /\ callback' = registered'
    BY <1>7 DEF InputReturn, SetKeyInterruptCallback, CallbackSaved
  <2>2. QED
    BY <1>7, <2>1, ReturnStep
<1>8. ASSUME NEW k \in Keys, InputKey(k) PROVE IInv'
  <2>1. CASE UNCHANGED <<entry, request, command, message, callback, saved, reader, registered>>
    BY <2>1, SameCall DEF CallbackSaved, CallbackKept
  <2>2. QED
    BY <1>7, <1>8, <2>1 DEF InputKey, InputDone, Keys
<1>9. CASE InputRefused \/ InputTimeout \/ InputFails
  BY <1>7, <1>9 DEF InputRefused, InputTimeout, InputFails
<1>10. ASSUME NEW cb, RegisterCallback(cb) PROVE IInv'
  BY <1>10 DEF RegisterCallback, SetKeyInterruptCallback, CommandOfCall, MessageOfCall,
               CallbackSaved, CallbackKept
<1>11. CASE UNCHANGED vars
  BY <1>11, SameCall DEF vars, CallbackSaved, CallbackKept
<1>12. QED
  BY <1>1, <1>2, <1>3, <1>4, <1>5, <1>6, <1>8, <1>9, <1>10, <1>11 DEF Next

LEMMA InvariantInit == Init => IInv
BY DEF Init, IInv, CommandOfCall, MessageOfCall, CallbackSaved, CallbackKept

\* In every reachable state the message at the reader is the one its call's
\* command stands for, and the command the one its request was converted to.
THEOREM PinInvariant == Spec => []IInv
BY InvariantInit, InvariantStep, PTL DEF Spec

LEMMA PositionFromInvariant == IInv => PositionHonoured
<1> SUFFICES ASSUME IInv, entry = "pcsc", message # None
             PROVE  LET r == request IN
                    /\ ~PositionDropped(r) => PutAt(message) = Offset(r) + Position(r)
                    /\ r.op = "modify" =>
                         /\ message.current <=> r.current /\ (r.offNew = 0 \/ r.offOld # r.offNew)
                         /\ message.current => message.old = r.offOld
                         /\ message.new = Offset(r)
  BY DEF PositionHonoured
<1>1. request \in Requests /\ command = Converted(request) /\ message = Secure(command)
  BY DEF IInv, CommandOfCall, MessageOfCall
<1>2. CASE request.op = "verify"
  <2>1. message = SecureVerify(verifyStructToCtapi(request))
    BY <1>1, <1>2 DEF Converted, Secure, verifyStructToCtapi
  <2>2. PutAt(message) = Position(request)
    BY <1>1, <2>1, VerifyPosition
  <2>3. Offset(request) = 0 /\ Position(request) \in Nat
    BY <1>1, <1>2, RequestParts DEF Offset, Position, Max2
  <2>4. QED
    BY <1>2, <2>2, <2>3
<1>3. CASE request.op = "modify"
  <2>1. message = SecureModify(modifyStructToCtapi(request))
    BY <1>1, <1>3 DEF Converted, Secure, modifyStructToCtapi
  <2>2. QED
    BY <1>1, <1>3, <2>1, ModifyPosition
<1>4. QED
  BY <1>1, <1>2, <1>3, RequestParts

LEMMA LengthsFromInvariant == IInv => LengthsHonoured
<1> SUFFICES ASSUME IInv, message # None
             PROVE  /\ (entry = "pcsc" /\ request.fixed /\ request.min = request.max
                          /\ request.max \in 1 .. 15) =>
                         message.min = request.max /\ message.max = request.max
                    /\ (entry = "ctapi" /\ command.tag51 # None /\ Sensible(command)) =>
                         message.min >= command.tag51.min /\ message.max <= command.tag51.max
                    /\ (entry # "ioctl" /\ (command.tag51 = None \/ Sensible(command))) =>
                         message.min <= message.max
  BY DEF LengthsHonoured
<1>1. CASE entry \in {"pcsc", "ctapi"}
  <2>1. CommandOK(command) /\ Check(command) = "ok" /\ message = Secure(command)
    BY <1>1, CommandParts DEF IInv, CommandOfCall, MessageOfCall
  <2>2. /\ command.tag51 = None /\ command.length # 0 =>
             message.min = command.length /\ message.max = command.length
        /\ command.tag51 # None /\ Sensible(command) =>
             message.min >= command.tag51.min /\ message.max <= command.tag51.max
        /\ command.tag51 = None \/ Sensible(command) => message.min <= message.max
    BY <2>1, SecureLengths DEF IInv
  <2>3. ASSUME entry = "pcsc", request.fixed, request.min = request.max, request.max \in 1 .. 15
        PROVE  command.tag51 = None /\ command.length = request.max /\ command.length # 0
    <3>1. request \in Requests /\ command = Converted(request)
      BY <2>3 DEF IInv, CommandOfCall
    <3>2. command.tag51 = None
      BY <3>1, CommandParts
    <3>3. command.length = MktLength(request)
      BY <3>1 DEF Converted, verifyStructToCtapi, modifyStructToCtapi
    <3>4. MktLength(request) = request.max % 16
      BY <2>3 DEF MktLength
    <3>5. request.max % 16 = request.max
      BY <2>3, Nibble
    <3>6. QED
      BY <2>3, <3>2, <3>3, <3>4, <3>5
  <2>4. QED
    BY <2>2, <2>3
<1>2. CASE entry \notin {"pcsc", "ctapi"}
  BY <1>2 DEF IInv, MessageOfCall
<1>3. QED
  BY <1>1, <1>2

-----------------------------------------------------------------------------
\* A part 10 request's PIN lands where the structure says (part10.c 77-457,
\* CCIDReader.cpp 1593-2384), for every structure the conversion accepts but those of a
\* modification whose position part10.c:356 drops.
THEOREM PinPositionHonoured == Spec => []PositionHonoured
BY PinInvariant, PositionFromInvariant, PTL

\* The PIN lengths of a request and of tag 51 reach the reader, and the reader
\* is never asked for a PIN nobody can enter, whatever the control byte, the
\* positions and the APDU's length are.
THEOREM PinLengthsHonoured == Spec => []LengthsHonoured
BY PinInvariant, LengthsFromInvariant, PTL

\* After every return of CT-BCS INPUT, the ones on errors included, the key
\* callback is the one the application registered.
THEOREM PinCallbackKept == Spec => []CallbackKept
<1>1. IInv => CallbackKept
  BY DEF IInv
<1>2. QED
  BY <1>1, PinInvariant, PTL

-----------------------------------------------------------------------------
(* What the application hears of it.                                       *)

LEMMA CommonTold ==
  ASSUME NEW o \in Outcomes, o \notin {"different", "parity", "mute", "length"}
  PROVE  /\ o # "deactivated" => (CommonAnswer(o) = "card" <=> o \in {"done", "extended"})
         /\ CommonAnswer(o) = "6401" <=> o = "canceled"
         /\ CommonAnswer(o) = "6400" <=> o = "timeout"
BY DEF Outcomes, CommonAnswer

LEMMA OthersTold ==
  ASSUME NEW o \in {"different", "parity", "mute", "length"}
  PROVE  CommonAnswer(o) = "6B80"
BY DEF CommonAnswer

Told(a, o) ==
  /\ o # "deactivated" => (a = "card" <=> o \in {"done", "extended"})
  /\ a = "6401" <=> o = "canceled"
  /\ a = "6400" <=> o = "timeout"

LEMMA AnswersTell ==
  ASSUME NEW o \in Outcomes
  PROVE  Told(VerifyAnswer(o), o) /\ Told(ModifyAnswer(o), o) /\ Told(DirectAnswer(o), o)
<1>1. CASE o \in {"different", "parity", "mute", "length"}
  <2>1. Told(VerifyAnswer(o), o)
    BY <1>1, OthersTold DEF VerifyAnswer, Told
  <2>2. Told(ModifyAnswer(o), o)
    BY <1>1, OthersTold DEF ModifyAnswer, Told
  <2>3. Told(DirectAnswer(o), o)
    BY <1>1, OthersTold DEF DirectAnswer, Told
  <2>4. QED
    BY <2>1, <2>2, <2>3
<1>2. CASE o \notin {"different", "parity", "mute", "length"}
  <2>1. Told(CommonAnswer(o), o)
    BY <1>2, CommonTold DEF Told
  <2>2. VerifyAnswer(o) = CommonAnswer(o) /\ ModifyAnswer(o) = CommonAnswer(o)
    BY <1>2 DEF VerifyAnswer, ModifyAnswer
  <2>3. Told(DirectAnswer(o), o)
    <3>1. CASE o \in {"no card", "inactive", "lost", "long"}
      BY <3>1 DEF DirectAnswer, Told
    <3>2. CASE o \notin {"no card", "inactive", "lost", "long"}
      <4>1. DirectAnswer(o) = CommonAnswer(o)
        BY <1>2, <3>2 DEF DirectAnswer
      <4>2. QED
        BY <2>1, <4>1
    <3>3. QED
      BY <3>1, <3>2
  <2>4. QED
    BY <2>1, <2>2, <2>3
<1>3. QED
  BY <1>1, <1>2

LEMMA ReportedStep ==
  ASSUME NEW o \in Outcomes, ReaderAnswers(o)
  PROVE  Told(answer', o)
<1> DEFINE a == IF entry = "ioctl" THEN DirectAnswer(o)
                ELSE IF command.op = "verify" THEN VerifyAnswer(o) ELSE ModifyAnswer(o)
<1>1. Told(a, o)
  BY AnswersTell
<1>2. answer' = IF entry = "pcsc" THEN Part10Answer(a) ELSE a
  BY DEF ReaderAnswers, Return
<1> HIDE DEF a
<1>3. Told(Part10Answer(a), o)
  BY <1>1 DEF Told, Part10Answer
<1>4. QED
  BY <1>1, <1>2, <1>3

\* The card's answer, a cancellation and a PIN timeout are told apart and never
\* made up, on the part 10, the CT-API and the vendor ioctl way; a deactivation the
\* status bits deny, which the readers' code takes for a success, is left out.
THEOREM PinOutcomeReported == Spec => OutcomeReported
<1>1. [Next]_vars => [\A o \in Outcomes : ReaderAnswers(o) =>
                       /\ o # "deactivated" => (answer' = "card" <=> o \in {"done", "extended"})
                       /\ answer' = "6401" <=> o = "canceled"
                       /\ answer' = "6400" <=> o = "timeout"]_vars
  BY ReportedStep DEF Told
<1>2. QED
  BY <1>1, PTL DEF Spec, OutcomeReported
=============================================================================
