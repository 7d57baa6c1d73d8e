------------------------------ MODULE CcidLink ------------------------------
(***************************************************************************)
(* The link below CCCIDReader::Transfer: a CCID message goes to the reader *)
(* and its response comes back, over USB or over a serial line.  On the    *)
(* serial line (SerialUnix.cpp) each message and response carries a check  *)
(* sum and is acknowledged with a byte, 0xff; interrupt messages (slot     *)
(* change, keys) come down the same line between them.                     *)
(*                                                                         *)
(* The line is a sequence of items: an acknowledgement is one byte, every  *)
(* other item several.  "torn" is what remains of an item of which some    *)
(* bytes were taken for something else.  The reader is external: it        *)
(* executes every intact message and repeats a response that was not       *)
(* acknowledged.                                                           *)
(*                                                                         *)
(* Definitions that no other definition uses (AcceptAny...) are            *)
(* faulty variants of the one that follows them.                           *)
(***************************************************************************)
EXTENDS Integers, Sequences

CONSTANTS
  Links,         \* "usb", "serial"
  SeqModulus,    \* values of bSeq: 256 in the code
  MaxCalls,      \* bounds of the model
  MaxDamaged,
  MaxInterrupts,
  MaxSends

ASSUME CcidLinkAssumption ==
  /\ Links \subseteq {"usb", "serial"}
  /\ SeqModulus \in Nat /\ SeqModulus > 1
  /\ {MaxCalls, MaxDamaged, MaxInterrupts, MaxSends} \subseteq Nat

VARIABLES
  link,
  pc,          \* "idle", "send", "ack" (Write waits), "read", "failed"
  seq,         \* m_SequenceNo
  calls,       \* commands begun; the current one is the last
  bSeq,        \* of the Response: -1 while it may hold anything
  result,      \* what the last Transfer returned
  toReader, toHost,
  pending,     \* response the reader still has to send
  sent,        \* response it sent last, until acknowledged
  executed,    \* executions of each command
  told,        \* interrupts passed to DoInterruptCallback
  mistaken,    \* history: transfers that ended with an interrupt message
  interrupts, damaged, sends

vars == <<link, pc, seq, calls, bSeq, result, toReader, toHost, pending, sent, executed, told,
          mistaken, interrupts, damaged, sends>>

Item(type, n, c) == [type |-> type, seq |-> n, cmd |-> c]
Byte(type) == Item(type, 0, 0)     \* "ack" (0xff), "nak" (0x00)
Torn == Item("torn", 0, 0)
None == Item("none", 0, 0)

IsByte(i) == i.type \in {"ack", "nak"}

Init ==
  /\ link \in Links
  /\ pc = "idle" /\ seq = 0 /\ calls = 0 /\ bSeq = -1 /\ result = None
  /\ toReader = <<>> /\ toHost = <<>>
  /\ pending = None /\ sent = None
  /\ executed = [c \in 1 .. MaxCalls |-> 0]
  /\ told = 0 /\ mistaken = 0 /\ interrupts = 0 /\ damaged = 0 /\ sends = 0

-----------------------------------------------------------------------------
(* Sending on the serial line: what arrives.                               *)

\* A damaged acknowledgement arrives as a refusal.
SendByte(q, type) ==
  \/ q' = Append(q, Byte(type)) /\ UNCHANGED damaged
  \/ link = "serial" /\ type = "ack" /\ damaged < MaxDamaged
     /\ damaged' = damaged + 1 /\ q' = Append(q, Byte("nak"))

\* A message may arrive with a wrong check sum, among others when write() was interrupted:
\* len-=rv with rv = -1 sends a byte twice.
SendMessage(q, i) ==
  \/ q' = Append(q, i) /\ UNCHANGED damaged
  \/ link = "serial" /\ damaged < MaxDamaged
     /\ damaged' = damaged + 1 /\ q' = Append(q, [i EXCEPT !.type = "bad"])

-----------------------------------------------------------------------------
(* Transfer.                                                               *)

Transfer ==
  /\ pc = "idle" /\ calls < MaxCalls
  /\ calls' = calls + 1
  /\ pc' = "send" /\ bSeq' = -1 /\ result' = None
  /\ UNCHANGED <<link, seq, toReader, toHost, pending, sent, executed, told, mistaken, interrupts, damaged, sends>>

WriteUnacknowledged ==
  /\ pc = "send" /\ sends < MaxSends
  /\ sends' = sends + 1
  /\ SendMessage(toReader, Item("msg", seq, calls))
  /\ pc' = "read"
  /\ UNCHANGED <<link, seq, calls, bSeq, result, toHost, pending, sent, executed, told, mistaken, interrupts>>
\* CUSBUnix::Write, _writeLowlevel.
WriteMessage ==
  /\ pc = "send" /\ sends < MaxSends
  /\ sends' = sends + 1
  /\ SendMessage(toReader, Item("msg", seq, calls))
  /\ pc' = IF link = "usb" THEN "read" ELSE "ack"
  /\ UNCHANGED <<link, seq, calls, bSeq, result, toHost, pending, sent, executed, told, mistaken, interrupts>>

\* What is left of the line's first item when one byte of it is read.
AfterByte(q) == IF IsByte(Head(q)) THEN Tail(q) ELSE <<Torn>> \o Tail(q)

\* Anything but an ACK: the input is flushed, except for what is still on its way, and the
\* message sent again.
NotAck ==
  /\ toHost' \in {<<>>, IF IsByte(toHost[Len(toHost)]) THEN <<>> ELSE <<Torn>>}
  /\ pc' = "send"

\* CSerialUnix::Write: a byte of a torn item may have any value.
ReadAck ==
  /\ pc = "ack" /\ toHost # <<>>
  /\ \/ Head(toHost).type \in {"ack", "torn"} /\ toHost' = AfterByte(toHost) /\ pc' = "read"
     \/ Head(toHost).type # "ack" /\ NotAck
  /\ UNCHANGED <<link, seq, calls, bSeq, result, toReader, pending, sent, executed, told, mistaken, interrupts, damaged, sends>>

Return(r) ==
  /\ pc' = "idle" /\ result' = r
  /\ seq' = (seq + 1) % SeqModulus

ReadOn == UNCHANGED <<pc, seq, result>>

AcceptAny(i) == Return(i) /\ bSeq' = i.seq
AcceptNext(i) ==
  /\ bSeq' = i.seq
  /\ IF i.seq = (seq + 1) % SeqModulus THEN Return(i) ELSE ReadOn
\* while(m_SequenceNo!=Response->bSeq)
Accept(i) ==
  /\ bSeq' = i.seq
  /\ IF i.seq = seq THEN Return(i) ELSE ReadOn

\* The response arrived; on the serial line it is acknowledged first.
ReadResponse ==
  /\ pc = "read" /\ toHost # <<>> /\ Head(toHost).type = "rsp"
  /\ toHost' = Tail(toHost)
  /\ Accept(Head(toHost))
  /\ IF link = "usb" THEN UNCHANGED <<toReader, damaged>> ELSE SendByte(toReader, "ack")
  /\ UNCHANGED <<link, calls, pending, sent, executed, told, mistaken, interrupts, sends>>

\* CJ_ERR_DATA_CORRUPT: not acknowledged, and read again.  The damaged header has been copied
\* into the Response before its check sum was looked at.
ReadCorrupt ==
  /\ pc = "read" /\ toHost # <<>> /\ Head(toHost).type = "bad"
  /\ toHost' = Tail(toHost)
  /\ SendByte(toReader, "nak")
  /\ bSeq' = -1
  /\ ReadOn
  /\ UNCHANGED <<link, calls, pending, sent, executed, told, mistaken, interrupts, sends>>

\* An interrupt message is returned as if it were the response.  It is too short to hold a
\* sequence number: Transfer compares what the buffer held before, which at first and after a
\* corrupt message may be anything.
ReadInterrupt(match) ==
  /\ pc = "read" /\ toHost # <<>> /\ Head(toHost).type = "int"
  /\ match => bSeq = -1
  /\ toHost' = Tail(toHost)
  /\ IF match THEN Return(Head(toHost)) ELSE ReadOn
  /\ mistaken' = IF match THEN mistaken + 1 ELSE mistaken
  /\ UNCHANGED <<link, calls, bSeq, toReader, pending, sent, executed, told, interrupts, damaged, sends>>

\* A byte that is no message is taken for one of length 0, and the next two bytes for its
\* check sum; only this byte is stored in the Response.
ReadStrayByte ==
  /\ pc = "read" /\ toHost # <<>> /\ IsByte(Head(toHost))
  /\ Len(toHost) > 1
  /\ LET rest == AfterByte(Tail(toHost))
     IN  IF rest # <<>> /\ IsByte(toHost[2]) THEN toHost' = AfterByte(rest)
         ELSE rest # <<>> /\ toHost' = rest
  /\ SendByte(toReader, "nak")
  /\ ReadOn
  /\ UNCHANGED <<link, calls, bSeq, pending, sent, executed, told, mistaken, interrupts, sends>>

\* The rest of an item: a length too large closes the device, a smaller one spoils what
\* follows, or the rest alone is corrupt.
ReadTorn ==
  /\ pc = "read" /\ toHost # <<>> /\ Head(toHost) = Torn
  /\ \/ pc' = "failed" /\ toHost' = <<>> /\ UNCHANGED <<seq, bSeq, result, toReader, damaged>>
     \/ /\ toHost' \in {Tail(toHost), IF Len(toHost) > 1 THEN <<Torn>> \o Tail(Tail(toHost)) ELSE <<>>}
        /\ SendByte(toReader, "nak")
        /\ bSeq' = -1
        /\ ReadOn
  /\ UNCHANGED <<link, calls, pending, sent, executed, told, mistaken, interrupts, sends>>

\* read() or write() fails: the device is closed, and every later transfer fails.
LineFails ==
  /\ pc \in {"send", "ack", "read"}
  /\ pc' = "failed"
  /\ UNCHANGED <<link, seq, calls, bSeq, result, toReader, toHost, pending, sent, executed, told, mistaken, interrupts, damaged, sends>>

-----------------------------------------------------------------------------
(* The reader.                                                             *)

\* A message: acknowledged and executed, or refused.
ReaderGets ==
  /\ toReader # <<>> /\ pending = None
  /\ Head(toReader).type \in {"msg", "bad"}
  /\ toReader' = Tail(toReader)
  /\ LET i == Head(toReader)
     IN  IF i.type = "msg"
         THEN /\ executed' = [executed EXCEPT ![i.cmd] = @ + 1]
              /\ pending' = [i EXCEPT !.type = "rsp"]
              /\ IF link = "usb" THEN UNCHANGED <<toHost, damaged>> ELSE SendByte(toHost, "ack")
         ELSE SendByte(toHost, "nak") /\ UNCHANGED <<executed, pending>>
  /\ UNCHANGED <<link, pc, seq, calls, bSeq, result, sent, told, mistaken, interrupts, sends>>

ReaderAnswers ==
  /\ pending # None
  /\ SendMessage(toHost, pending)
  /\ sent' = pending /\ pending' = None
  /\ UNCHANGED <<link, pc, seq, calls, bSeq, result, toReader, executed, told, mistaken, interrupts, sends>>

\* The host's acknowledgement: a response that was refused is sent again.
ReaderGetsByte ==
  /\ toReader # <<>> /\ pending = None /\ IsByte(Head(toReader))
  /\ toReader' = Tail(toReader)
  /\ IF Head(toReader).type = "nak" /\ sent # None
     THEN SendMessage(toHost, sent) /\ UNCHANGED sent
     ELSE sent' = None /\ UNCHANGED <<toHost, damaged>>
  /\ UNCHANGED <<link, pc, seq, calls, bSeq, result, pending, executed, told, mistaken, interrupts, sends>>

\* A card or a key: USB has a pipe for it, the serial line has not.
Interrupt ==
  /\ interrupts < MaxInterrupts
  /\ interrupts' = interrupts + 1
  /\ IF link = "usb" THEN told' = told + 1 /\ UNCHANGED toHost
     ELSE toHost' = Append(toHost, Item("int", 0, 0)) /\ UNCHANGED told
  /\ UNCHANGED <<link, pc, seq, calls, bSeq, result, toReader, pending, sent, executed, mistaken, damaged, sends>>

-----------------------------------------------------------------------------
Host ==
  \/ WriteMessage \/ ReadAck \/ ReadResponse \/ ReadCorrupt \/ ReadStrayByte \/ ReadTorn
  \/ \E match \in BOOLEAN : ReadInterrupt(match)

Reader == ReaderGets \/ ReaderAnswers \/ ReaderGetsByte

Next == Transfer \/ Host \/ LineFails \/ Reader \/ Interrupt

Spec == Init /\ [][Next]_vars

\* Host: the thread in CtData or IfdTransmit runs.  Reader: it answers what it gets.
FairSpec == Spec /\ WF_vars(Host) /\ WF_vars(Reader)

-----------------------------------------------------------------------------
(* Properties.                                                             *)

\* A transfer that succeeds returns the answer to its own command, however many answers to
\* earlier ones are still on the line; unless an interrupt message was taken for it.  Each
\* time that happens an answer is left behind; once the sequence number has gone round, one of
\* them may pass for a later command's.
OwnAnswer ==
  (pc = "idle" /\ result # None /\ result.type # "int" /\ mistaken < SeqModulus - 1) => result.cmd = calls

\* Nothing was damaged, and no interrupt message came down the serial line.
Undisturbed == damaged = 0 /\ (link = "usb" \/ interrupts = 0)

\* An undisturbed link executes every command once, and is empty between two transfers but
\* for the acknowledgement of the last response.
ExecutedOnce ==
  Undisturbed =>
    /\ \A c \in 1 .. MaxCalls : executed[c] <= 1
    /\ pc = "idle" => toHost = <<>> /\ \A i \in 1 .. Len(toReader) : IsByte(toReader[i])

\* Every transfer over an undisturbed link ends; read() itself has no timeout.
Returns == (pc # "idle") ~> (pc \in {"idle", "failed"} \/ ~Undisturbed)
=============================================================================
