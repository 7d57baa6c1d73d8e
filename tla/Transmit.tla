------------------------------ MODULE Transmit ------------------------------
(***************************************************************************)
(* A command for the card, by the protocol of the card: T=1 (PpaT1) or     *)
(* T=0 (T0).  A card speaks one of them, so in each behaviour one of the   *)
(* two parts moves.                                                        *)
(***************************************************************************)
EXTENDS PpaT1

CONSTANTS
  Drivers,             \* of T=0, see module T0
  ReplyLens, Rooms0,   \* lengths of its responses, and sizes of the application's buffer
  Max                  \* what a length byte of 0 stands for

\* The buffer holds at least a status: GetsLa returns one without looking at *lenr
\* (ppa/cjdata.c:401).
ASSUME TransmitAssumption ==
  /\ ReplyLens \subseteq Nat /\ Rooms0 \subseteq Nat \ {0, 1}
  /\ Max \in Nat \ {0, 1}

VARIABLES protocol, norm, exact, step, form, le, la, room0, acc, ret0, result0, left, given, status,
          mixed, odd

zero == <<norm, exact, step, form, le, la, room0, acc, ret0, result0, left, given, status, mixed,
          odd>>

Zero == INSTANCE T0
          WITH Lens <- ReplyLens, Rooms <- Rooms0, room <- room0, ret <- ret0, result <- result0

TransmitInit ==
  /\ Init /\ Zero!Init
  /\ protocol \in {"T0", "T1"}
  /\ protocol = "T1" => norm = "ppa" /\ exact   \* T1 has no use for them

TransmitNext ==
  \/ protocol = "T1" /\ Next /\ UNCHANGED <<protocol, zero>>
  \/ protocol = "T0" /\ Zero!Next /\ UNCHANGED <<protocol, vars>>

TransmitSpec ==
  /\ TransmitInit /\ [][TransmitNext]_<<protocol, vars, zero>>
  /\ Fairness /\ Zero!Fairness

\* T0: a success returns the data the card handed over and its last status, whatever was
\* repeated, and fits (APDU2TPDU_T0, CEC30Reader::_IfdTransmit).
T0Response == Zero!Response

\* Every command returns: the repetitions of T=1 are limited, the loops of T=0 over 61 and
\* 6C end.
TransmitReturns == CallsReturn /\ Zero!Returns
=============================================================================
