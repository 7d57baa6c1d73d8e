------------------------------ MODULE PinEntry ------------------------------
(***************************************************************************)
(* Secure PIN entry: how a PIN verification or modification request        *)
(* reaches the reader's keypad, and how the keypad is read directly.       *)
(*                                                                         *)
(* There are three ways in.  The PC/SC part 10 structure is turned into a  *)
(* CT-BCS command (part10.c), which _CtData turns into a CCID message      *)
(* (CCIDReader.cpp, with the limits of EC30Reader.cpp).  An application    *)
(* may also send the CT-BCS command itself, or pass the structure to the   *)
(* reader unchanged (the vendor ioctls).  A PIN position is counted from   *)
(* the first data byte by PC/SC and CCID, and from the start of the APDU,  *)
(* beginning with 1, by CT-BCS.                                            *)
(*                                                                         *)
(* A template is the length of its APDU; of its bytes only whether they    *)
(* look like a format 2 PIN block matters.  What the PIN is and where the  *)
(* reader's answer is stored is left out.                                  *)
(*                                                                         *)
(* Definitions that no other definition uses (VerifyOneOff, ...) are       *)
(* faulty variants of the one that follows them.                           *)
(***************************************************************************)
EXTENDS Integers

CONSTANTS
  Requests,    \* part 10 structures an application may pass
  Commands,    \* CT-BCS PERFORM/MODIFY VERIFICATION commands it may send itself
  Inputs,      \* CT-BCS INPUT commands
  Readers,     \* the readers it may have
  Callbacks,   \* key callbacks it may register
  DisplayMax,  \* text cjInput accepts: 64 in the code
  None

Byte == 0 .. 255

ASSUME RequestsAssumption ==
  \A r \in Requests :
    /\ r.op \in {"verify", "modify"}
    /\ r.format \in {"binary", "bcd", "ascii", "rfu"}
    /\ r.lengthFormat \in {"none", "4 bits", "8 bits", "bytes", "odd"}
    /\ r.block \in {"none", "nibble", "other"}
    /\ {r.right, r.bytes, r.looks2, r.fixed, r.current} \subseteq BOOLEAN
    /\ r.pos \in 0 .. 15 /\ {r.min, r.max, r.apdu} \subseteq Byte
    /\ {r.offOld, r.offNew} \subseteq 0 .. 249

ASSUME CommandsAssumption ==
  \A c \in Commands :
    /\ c.op \in {"verify", "modify"} /\ c.type \in 0 .. 3 /\ c.length \in 0 .. 15
    /\ {c.pos, c.old, c.new} \subseteq Byte /\ c.apdu \in 0 .. 250
    /\ c.tag51 = None \/ {c.tag51.min, c.tag51.max} \subseteq Byte

ASSUME PinEntryAssumption ==
  /\ \A i \in Inputs : i.chars \in Nat \ {0} /\ i.room \in Nat /\ i.text \in Nat /\ i.timer \in BOOLEAN
  /\ \A d \in Readers : {d.keypad, d.ec30, d.outdated, d.oldKernel} \subseteq BOOLEAN
  /\ DisplayMax \in Nat
  /\ None \notin Callbacks

VARIABLES
  reader,      \* the reader in use
  entry,       \* the way in: "idle", "pcsc", "ctapi", "ioctl" or "input"
  request,     \* the part 10 structure of the call
  command,     \* the CT-BCS command of the call, once it exists
  message,     \* the SECURE message at the reader
  typed,       \* INPUT: i, keys stored so far
  callback,    \* m_KeyIntCallback
  saved,       \* INPUT: merkcallback
  registered,  \* what the application registered last
  answer       \* what the last call returned, "none" during a call

vars == <<reader, entry, request, command, message, typed, callback, saved,
          registered, answer>>

-----------------------------------------------------------------------------
(* part10.c: from the structure to the CT-BCS command.                     *)

Max2(a, b) == IF a > b THEN a ELSE b
Abs(n) == IF n < 0 THEN -n ELSE n

\* A BCD PIN with its length in a nibble of its own, in a block of 8 bytes.
IsFormat2(r) ==
  /\ r.format = "bcd" /\ r.bytes /\ r.lengthFormat = "4 bits" /\ r.looks2
  /\ r.apdu = 13 \/ (r.op = "modify" /\ r.apdu = 21)

\* The low bits of the control byte.
MktType(r) == IF r.format = "ascii" THEN 1 ELSE IF IsFormat2(r) THEN 2 ELSE 0

\* The high nibble: n << 4 in a byte.
MktLength(r) ==
  IF r.fixed /\ (r.op = "modify" \/ r.min = r.max) THEN r.max % 16 ELSE 0

\* supportTag51 is cleared with the rest of the channel's status and never set.
SupportTag51 == FALSE
Tag51(r) == IF SupportTag51 THEN [min |-> r.min, max |-> r.max] ELSE None

CommonRefused(r) == r.right \/ r.format \in {"binary", "rfu"}

VerifyRefused(r) ==
  \/ CommonRefused(r)
  \/ ~r.bytes /\ r.pos # 0 /\ ~IsFormat2(r)
  \/ r.block = "other" \/ (r.block = "nibble" /\ ~IsFormat2(r))
  \/ r.apdu + (IF SupportTag51 THEN 16 ELSE 10) >= 256

ModifyRefused(r) ==
  \/ CommonRefused(r)
  \/ r.lengthFormat = "odd" \/ (r.lengthFormat = "4 bits" /\ ~IsFormat2(r))
  \/ r.apdu + (IF SupportTag51 THEN 17 ELSE 11) >= 256

VerifyOneOff(r) ==
  [op |-> "verify", type |-> MktType(r), length |-> MktLength(r),
   pos |-> IF IsFormat2(r) THEN Max2(r.pos, 1) + 6 ELSE r.pos + 6,
   old |-> 0, new |-> 0, apdu |-> r.apdu, tag51 |-> Tag51(r)]
verifyStructToCtapi(r) ==
  [op |-> "verify", type |-> MktType(r), length |-> MktLength(r),
   pos |-> IF IsFormat2(r) THEN Max2(r.pos, 1) + 5 ELSE r.pos + 6,
   old |-> 0, new |-> 0, apdu |-> r.apdu, tag51 |-> Tag51(r)]

\* Position 0 stands for "the new PIN follows the old one, whatever its length".  The position
\* in the structure's bmFormatString is read (nMktPinPositionStart) and never used.
modifyStructToCtapi(r) ==
  LET new == IF r.offNew # 0 \/ ~r.current THEN r.offNew + 6 ELSE 0
  IN  [op |-> "modify", type |-> MktType(r), length |-> MktLength(r), pos |-> 0,
       old |-> IF r.current THEN r.offOld + 6 ELSE new, new |-> new,
       apdu |-> r.apdu, tag51 |-> Tag51(r)]

-----------------------------------------------------------------------------
(* CCIDReader.cpp: from the CT-BCS command to the SECURE message.          *)

\* The lengths the command's control byte asks for; longest: when it asks for none.
Lengths(c, longest) ==
  IF c.length # 0 THEN [min |-> c.length, max |-> c.length]
  ELSE IF c.type = 2 THEN [min |-> 4, max |-> 12]
  ELSE [min |-> 1, max |-> longest]

\* Tag 51 overrides them, as far as the format allows.
WithTag51Strict(c, l) ==
  IF c.tag51 = None THEN l
  ELSE LET min == IF c.tag51.min >= 4 \/ c.type # 2 THEN c.tag51.min ELSE l.min
           max == IF c.tag51.max > min THEN c.tag51.max ELSE l.max
       IN  [min |-> min, max |-> IF c.type = 2 /\ max > 12 THEN 12 ELSE max]
WithTag51(c, l) ==
  IF c.tag51 = None THEN l
  ELSE LET min == IF c.tag51.min >= 4 \/ c.type # 2 THEN c.tag51.min ELSE l.min
           max == IF c.tag51.max >= min THEN c.tag51.max ELSE l.max
       IN  [min |-> min, max |-> IF c.type = 2 /\ max > 12 THEN 12 ELSE max]

\* CEC30Reader::cjccid_SecurePV and _SecureMV shorten the longest PIN.
Shortened(l) == IF reader.ec30 /\ l.max > 15 THEN [l EXCEPT !.max = 15] ELSE l

\* The position field of bmFormatString has four bits.
Message(kind, pos, old, new, current, l) ==
  [kind |-> kind, pos |-> pos % 16, old |-> old, new |-> new, current |-> current,
   min |-> Shortened(l).min, max |-> Shortened(l).max]

BadFormat2Length(c) == c.type = 2 /\ c.length # 0 /\ c.length \notin 4 .. 12

\* PERFORM VERIFICATION: refused with an SW, or the message.
VerifyCheck(c) ==
  IF c.apdu < 4 \/ c.pos < 6 \/ (c.apdu # 4 /\ c.pos - 6 > c.apdu - 5) THEN "6700"
  ELSE IF c.type = 3 THEN "6A00"
  ELSE IF BadFormat2Length(c) THEN "6700" ELSE "ok"

\* A format 2 block that does not come first needs the message for a modification.
SecureVerify(c) ==
  LET at == IF c.type = 2 THEN c.pos - 5 ELSE c.pos - 6
      l  == WithTag51(c, Lengths(c, IF c.type = 1 THEN 15 ELSE 30))
  IN  IF c.type = 2 /\ at > 1 THEN Message("MV", 1, 0, at - 1, FALSE, l)
      ELSE Message("PV", at, 0, 0, FALSE, l)

\* MODIFY VERIFICATION.
AsksOld(c) == c.old > 5 /\ c.old # c.new
OldAt(c) == IF AsksOld(c) THEN c.old - 6 ELSE 0
NewAt(c) ==
  IF c.new > 5 THEN c.new - 6 ELSE IF c.type = 2 /\ c.old # 0 THEN OldAt(c) + 8 ELSE 0

ModifyCheck(c) ==
  IF c.apdu < 4 \/ ~(AsksOld(c) \/ (c.new > 5 /\ c.old = c.new)) \/ c.new \in 1 .. 5 THEN "6700"
  ELSE IF c.type = 3 THEN "6A00"
  ELSE IF c.type = 2 /\ (NewAt(c) > 240 \/ OldAt(c) > 240) THEN "6700"
  ELSE IF BadFormat2Length(c) THEN "6700" ELSE "ok"

\* The longest PIN that fits between the two positions, or behind the second.
LongestBetween(c) ==
  LET unit == IF c.type = 1 THEN 1 ELSE 2
      cap  == 15 * unit
      gap  == (unit * Abs(NewAt(c) - OldAt(c))) % 256
      rest == unit * (c.apdu - 5 - Max2(NewAt(c), OldAt(c)))
      room == IF c.apdu > 5 /\ rest > gap THEN rest % 256 ELSE gap
  IN  IF ~AsksOld(c) \/ room = 0 \/ room > cap THEN cap ELSE room

SecureModify(c) ==
  Message("MV", IF c.type = 2 THEN 1 ELSE 0, OldAt(c), NewAt(c), AsksOld(c),
          WithTag51(c, Lengths(c, LongestBetween(c))))

-----------------------------------------------------------------------------
(* What the reader answers, and what becomes of it.                        *)

Outcomes ==
  {"done",        \* the PIN went to the card; its answer
   "extended",    \* EXT_ERROR with an answer
   "deactivated", \* DEACTIVATED_PROTOCOL, although the status says there is an active card
   "canceled", "timeout", "different",
   "parameter",   \* error 5
   "length",      \* error 21 (26 for a modification)
   "condition",   \* error 26 (31)
   "parity", "mute", "unknown", "no card", "inactive", "lost", "long"}

\* ExecuteSecureResult and the switch of PERFORM VERIFICATION.  The branch for
\* DEACTIVATED_PROTOCOL returns only for a card that is absent or inactive; otherwise it falls
\* through to the code for a command that went well.
CommonAnswer(o) ==
  CASE o \in {"done", "extended", "deactivated"} -> "card"
    [] o = "canceled" -> "6401"
    [] o = "timeout" -> "6400"
    [] o = "no card" -> "64A1"
    [] o = "inactive" -> "64A2"
    [] o = "condition" -> "6985"
    [] o = "lost" -> "-128"
    [] o = "long" -> "-11"
    [] OTHER -> "6B80"
VerifyAnswerTimeouts(o) == IF o \in {"parity", "mute"} THEN "6400" ELSE CommonAnswer(o)
VerifyAnswer(o) == IF o \in {"parity", "mute"} THEN "6F00" ELSE CommonAnswer(o)

\* The switch of MODIFY VERIFICATION: parity and mute fall through to the default.
ModifyAnswer(o) == IF o = "different" THEN "6402" ELSE CommonAnswer(o)

\* IfdVerifyPinDirect and IfdModifyPinDirect.
DirectAnswer(o) ==
  CASE o \in {"different", "length"} -> "6402"
    [] o \in {"parity", "mute"} -> "IO_TIMEOUT"
    [] o = "no card" -> "NO_MEDIA"
    [] o = "inactive" -> "INVALID_DEVICE_STATE"
    [] o = "lost" -> "DEVICE_NOT_CONNECTED"
    [] o = "long" -> "BUFFER_TOO_SMALL"
    [] OTHER -> CommonAnswer(o)

\* Part10ExecCtrlApdu: CT_data's errors become IFD_COMMUNICATION_ERROR.
Part10Answer(a) == IF a \in {"-128", "-11"} THEN "IFD_COMMUNICATION_ERROR" ELSE a

Init ==
  /\ reader \in Readers
  /\ entry = "idle"
  /\ request = None /\ command = None /\ message = None
  /\ typed = 0
  /\ callback = None /\ saved = None /\ registered = None
  /\ answer = "none"

Return(a) ==
  /\ entry' = "idle"
  /\ request' = None /\ command' = None /\ message' = None
  /\ typed' = 0
  /\ answer' = IF entry = "pcsc" THEN Part10Answer(a) ELSE a

-----------------------------------------------------------------------------
(* IFDHControl with a part 10 structure.                                   *)

\* The structure is refused, or its command goes to CT_data.
Part10Control(r) ==
  /\ entry = "idle"
  /\ IF (IF r.op = "verify" THEN VerifyRefused(r) ELSE ModifyRefused(r))
     THEN /\ answer' = "IFD_COMMUNICATION_ERROR"
          /\ UNCHANGED <<entry, request, command>>
     ELSE /\ entry' = "pcsc"
          /\ request' = r
          /\ command' = IF r.op = "verify" THEN verifyStructToCtapi(r) ELSE modifyStructToCtapi(r)
          /\ answer' = "none"
  /\ UNCHANGED <<reader, message, typed, callback, saved, registered>>

\* CT_data by an application.
CtApplication(c) ==
  /\ entry = "idle"
  /\ entry' = "ctapi"
  /\ command' = c
  /\ answer' = "none"
  /\ UNCHANGED <<reader, request, message, typed, callback, saved, registered>>

\* _CtData: PERFORM and MODIFY VERIFICATION.
PerformVerification ==
  /\ entry \in {"pcsc", "ctapi"} /\ command # None /\ message = None
  /\ LET c     == command
         check == IF c.op = "verify" THEN VerifyCheck(c) ELSE ModifyCheck(c)
         sw    == IF ~reader.keypad THEN "6D00" ELSE IF reader.outdated THEN "6A03" ELSE check
     IN  IF sw # "ok" THEN Return(sw)
         ELSE /\ message' = IF c.op = "verify" THEN SecureVerify(c) ELSE SecureModify(c)
              /\ UNCHANGED <<entry, request, command, typed, answer>>
  /\ UNCHANGED <<reader, callback, saved, registered>>

\* IfdVendor and the first lines of IfdVerifyPinDirect and IfdModifyPinDirect.  fits: InputLength
\* is that of a structure with its APDU; room: there is room for an SW.
DirectCheck(r, fits, room) ==
  IF ~fits \/ r.apdu = 0 THEN "INVALID_BUFFER_SIZE"
  ELSE IF reader.oldKernel THEN "NOT_SUPPORTED"
  ELSE IF r.apdu > (IF r.op = "verify" THEN 245 ELSE 240) THEN "INVALID_BUFFER_SIZE"
  ELSE IF ~room THEN "BUFFER_TOO_SMALL" ELSE "ok"

\* The structure as it is.
DirectMessage(r) ==
  IF r.op = "verify"
  THEN [kind |-> "PV", pos |-> r.pos, old |-> 0, new |-> 0, current |-> FALSE,
        min |-> r.min, max |-> r.max]
  ELSE [kind |-> "MV", pos |-> r.pos, old |-> r.offOld, new |-> r.offNew,
        current |-> r.current, min |-> r.min, max |-> r.max]

\* The vendor ioctls; whether the reader has a keypad is not asked.
IfdPinDirect(r, fits, room) ==
  /\ entry = "idle"
  /\ LET status == DirectCheck(r, fits, room)
     IN  IF status # "ok" THEN answer' = status /\ UNCHANGED <<entry, request, message>>
         ELSE /\ entry' = "ioctl"
              /\ request' = r
              /\ message' = DirectMessage(r)
              /\ answer' = "none"
  /\ UNCHANGED <<reader, command, typed, callback, saved, registered>>

\* The user is done with the keypad, or it fails.
ReaderAnswers(o) ==
  /\ message # None
  /\ Return(IF entry = "ioctl" THEN DirectAnswer(o)
            ELSE IF command.op = "verify" THEN VerifyAnswer(o) ELSE ModifyAnswer(o))
  /\ UNCHANGED <<reader, callback, saved, registered>>

-----------------------------------------------------------------------------
(* CT-BCS INPUT: the keys come one by one; the application's key callback  *)
(* is out of the way while they do.                                        *)

SetKeyInterruptCallback(cb) == callback' = cb

InputStart(i) ==
  /\ entry = "idle" /\ reader.keypad
  /\ entry' = "input"
  /\ command' = i
  /\ saved' = callback
  /\ SetKeyInterruptCallback(None)
  /\ answer' = "none"
  /\ UNCHANGED <<reader, request, message, typed, registered>>

InputReturnForgets(a) ==
  /\ Return(a)
  /\ IF a = "-11" THEN UNCHANGED callback ELSE SetKeyInterruptCallback(saved)
  /\ saved' = None
InputReturn(a) ==
  /\ Return(a)
  /\ SetKeyInterruptCallback(saved)
  /\ saved' = None

\* The timeout in tag 80 is not one byte.
InputRefused ==
  /\ entry = "input" /\ typed = 0 /\ ~command.timer
  /\ InputReturn("6700")
  /\ UNCHANGED <<reader, registered>>

\* All characters are there: they are returned if they fit.
InputDone(n) == InputReturn(IF command.room < n + 2 THEN "-11" ELSE "9000")

\* Keys below 10 are digits, 10 cancels, 11 confirms, others do not count.
Keys == {"digit", "cancel", "confirm", "other"}

\* What cjInput displays: the text, and the digits or stars typed so far.
Displayed == command.text + (IF command.echo THEN typed ELSE 0)

InputKey(k) ==
  /\ entry = "input" /\ command.timer /\ Displayed <= DisplayMax
  /\ CASE k = "cancel" -> InputReturn("6401")
       [] k = "confirm" -> InputDone(typed)
       [] k = "other" -> UNCHANGED <<entry, request, command, message, typed, answer, callback,
                                     saved>>
       [] k = "digit" ->
            IF typed + 1 = command.chars THEN InputDone(typed + 1)
            ELSE /\ typed' = typed + 1
                 /\ UNCHANGED <<entry, request, command, message, answer, callback, saved>>
  /\ UNCHANGED <<reader, registered>>

InputTimeout ==
  /\ entry = "input" /\ command.timer /\ Displayed <= DisplayMax
  /\ InputReturn("6400")
  /\ UNCHANGED <<reader, registered>>

\* cjInput fails: the reader is gone, or the text outgrew the display.
InputFails ==
  /\ entry = "input" /\ command.timer
  /\ InputReturn("-128")
  /\ UNCHANGED <<reader, registered>>

\* CReader::SetKeyInterruptCallback: its critical section is held for a whole CtData.
RegisterCallback(cb) ==
  /\ entry = "idle"
  /\ SetKeyInterruptCallback(cb)
  /\ registered' = cb
  /\ UNCHANGED <<reader, entry, request, command, message, typed, saved, answer>>

Next ==
  \/ \E r \in Requests : Part10Control(r) \/ \E fits, room \in BOOLEAN : IfdPinDirect(r, fits, room)
  \/ \E c \in Commands : CtApplication(c)
  \/ PerformVerification
  \/ \E o \in Outcomes : ReaderAnswers(o)
  \/ \E i \in Inputs : InputStart(i)
  \/ \E k \in Keys : InputKey(k)
  \/ InputRefused
  \/ InputTimeout
  \/ InputFails
  \/ \E cb \in Callbacks \cup {None} : RegisterCallback(cb)

Spec == Init /\ [][Next]_vars

-----------------------------------------------------------------------------
(* Properties.                                                             *)

\* Where the reader puts the (new) PIN, counted from the first data byte.
PutAt(m) == IF m.kind = "PV" THEN m.pos ELSE m.pos + m.new

\* Where the structure puts it: at a position behind, for a modification, the offset of the new
\* PIN; a format 2 PIN has its length byte before it, and follows a flexible old one after 8 bytes.
Offset(r) ==
  IF r.op = "verify" THEN 0
  ELSE IF IsFormat2(r) /\ r.current /\ r.offNew = 0 THEN r.offOld + 8 ELSE r.offNew
Position(r) == IF IsFormat2(r) THEN Max2(r.pos, 1) ELSE r.pos

\* The requests whose position is lost on the way: a known defect of modifyStructToCtapi
\* (part10.c:356), which leaves it to _CtData to take 0, or 1 for format 2.
PositionDropped(r) == r.op = "modify" /\ Position(r) # (IF IsFormat2(r) THEN 1 ELSE 0)

\* A request's PIN lands where the part 10 structure says, although it is recounted twice on
\* the way (+6 in part10.c, -6 in _CtData), and for format 2 moved behind the length byte; not
\* claimed for a modification with a position of its own, which is dropped.  A modification
\* asks for the old PIN, and puts it at its offset, when the structure does.
PositionHonoured ==
  (entry = "pcsc" /\ message # None) =>
    LET r == request IN
    /\ ~PositionDropped(r) => PutAt(message) = Offset(r) + Position(r)
    /\ r.op = "modify" =>
         /\ message.current <=> r.current /\ (r.offNew = 0 \/ r.offOld # r.offNew)
         /\ message.current => message.old = r.offOld
         /\ message.new = Offset(r)

\* Some PIN fits both the bounds of tag 51 and the format, and for format 2 the length in the
\* control byte, if there is one: it stands where tag 51 allows less than 4 digits.
Sensible(c) ==
  \E n \in (IF c.type = 2 THEN 4 .. 12 ELSE 0 .. 15) :
    /\ c.tag51.min <= n /\ n <= c.tag51.max
    /\ c.type = 2 /\ c.length # 0 => n = c.length

\* Bounds that reach the reader are kept: a fixed length passes through a nibble of the control
\* byte, a range through tag 51, and the format's and the EC30's limits then apply.  The
\* reader is never asked for a PIN nobody can enter.
LengthsHonoured ==
  message # None =>
    /\ (entry = "pcsc" /\ request.fixed /\ request.min = request.max /\ request.max \in 1 .. 15) =>
         message.min = request.max /\ message.max = request.max
    /\ (entry = "ctapi" /\ command.tag51 # None /\ Sensible(command)) =>
         message.min >= command.tag51.min /\ message.max <= command.tag51.max
    /\ (entry # "ioctl" /\ (command.tag51 = None \/ Sensible(command))) =>
         message.min <= message.max

\* On every way in, the application hears of a card's answer, a cancellation or a PIN timeout
\* exactly when there was one.  One outcome is a known defect and left out: a card deactivated
\* during the entry whose status bits say nothing of it is reported like a card's answer
\* (CCIDReader.cpp:2803, 3184, 3319; EC30Reader.cpp:1579, 1938).
OutcomeReported ==
  [][\A o \in Outcomes : ReaderAnswers(o) =>
       /\ o # "deactivated" => (answer' = "card" <=> o \in {"done", "extended"})
       /\ answer' = "6401" <=> o = "canceled"
       /\ answer' = "6400" <=> o = "timeout"]_vars

\* INPUT gives the application's key callback back on every return.
CallbackKept == (entry # "input") => callback = registered
=============================================================================
