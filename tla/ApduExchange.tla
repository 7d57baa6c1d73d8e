---------------------------- MODULE ApduExchange ----------------------------
(***************************************************************************)
(* What CT_data promises of one reader: every command APDU is executed at  *)
(* most once and as the application wrote it, and a call that succeeds     *)
(* returns the response of its own execution.  A call may fail before or   *)
(* after the reader executed the command, and the execution of a command   *)
(* whose call has failed may still happen.  Between sessions, from the     *)
(* failure that ends one to the success of the next open, nothing is       *)
(* promised of what the reader executes but that it repeats no command.    *)
(***************************************************************************)
EXTENDS Integers, Sequences

VARIABLES
  open,       \* a session is open
  busy,       \* a call is in progress
  submitted,  \* submitted[k]: the command of the k-th call; all are distinct
  executed,   \* the executions so far, records [cmd, rsp]
  result      \* <<>>, or the response the last call returned

vars == <<open, busy, submitted, executed, result>>

Init == ~open /\ ~busy /\ submitted = <<>> /\ executed = <<>> /\ result = <<>>

Extends(longer, s) ==
  /\ Len(longer) = Len(s) + 1
  /\ SubSeq(longer, 1, Len(s)) = s

Submit ==
  /\ ~busy /\ busy' = TRUE
  /\ Extends(submitted', submitted)
  /\ result' = <<>>
  /\ UNCHANGED <<open, executed>>

\* The call fails before anything reaches the reader.
SubmitFails ==
  /\ ~busy /\ busy' = FALSE
  /\ Extends(submitted', submitted)
  /\ result' = <<>>
  /\ open' => open
  /\ UNCHANGED executed

Execute ==
  /\ Extends(executed', executed)
  /\ LET e == executed'[Len(executed) + 1]
     IN  /\ open => \E k \in 1 .. Len(submitted) : e.cmd = submitted[k]
         /\ \A i \in 1 .. Len(executed) : executed[i].cmd # e.cmd
  /\ UNCHANGED <<open, busy, submitted, result>>

Succeed ==
  /\ busy /\ busy' = FALSE
  /\ \E i \in 1 .. Len(executed) :
       /\ executed[i].cmd = submitted[Len(submitted)]
       /\ result' = executed[i].rsp
  /\ UNCHANGED <<open, submitted, executed>>

Fail ==
  /\ busy /\ busy' = FALSE
  /\ result' = <<>>
  /\ open' => open
  /\ UNCHANGED <<submitted, executed>>

\* A session begins, or the application ends it.
OpenOrClose == ~busy /\ open' = ~open /\ UNCHANGED <<busy, submitted, executed, result>>

Next == Submit \/ SubmitFails \/ Execute \/ Succeed \/ Fail \/ OpenOrClose

Spec == Init /\ [][Next]_vars
=============================================================================
