------------------------------- MODULE MCCtApi -------------------------------
(* CtApi for two or three threads.                                         *)
EXTENDS CtApi

CONSTANTS t1, t2, t3

AllCalls == {"CT_init", "CT_data", "CT_close", "rsct_setkeycb", "rsct_ifd_ioctl"}

\* Two threads use every context number and every port as they like.
Free == [uses |-> {t1, t2} \X AllCalls \X Ctns, ports |-> Ports, disciplined |-> FALSE,
         infoFails |-> TRUE, maxCalls |-> 2]

\* One thread opens the readers, three use each of them; nobody closes one.
Shared == [uses |-> ({t1} \X {"CT_init"} \X Ctns)
                      \cup (Threads \X {"CT_data", "rsct_setkeycb"} \X Ctns),
           ports |-> {0}, disciplined |-> TRUE, infoFails |-> FALSE, maxCalls |-> 2]

\* Two threads, each with its own context number.
Own == [uses |-> ({t1} \X AllCalls \X {1}) \cup ({t2} \X AllCalls \X {2}), ports |-> Ports,
        disciplined |-> TRUE, infoFails |-> FALSE, maxCalls |-> 3]

FreeAndShared == {Free, Shared}
OwnReaders == {Own}
==============================================================================
