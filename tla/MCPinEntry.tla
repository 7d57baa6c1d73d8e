----------------------------- MODULE MCPinEntry -----------------------------
(* PinEntry with the values on both sides of every boundary in the         *)
(* conversions: positions 0 to 2 and the last, lengths at 4, 12, 15 and 16.*)
EXTENDS PinEntry

MCRequest(op, format, bytes, pos, lengthFormat, looks2, min, max, fixed, apdu, old, new, cur) ==
  [op |-> op, format |-> format, right |-> FALSE, bytes |-> bytes, pos |-> pos,
   lengthFormat |-> lengthFormat, block |-> "none", looks2 |-> looks2, min |-> min, max |-> max,
   fixed |-> fixed, apdu |-> apdu, offOld |-> old, offNew |-> new, current |-> cur]

MCLengths == {<<0, 0>>, <<4, 4>>, <<3, 13>>, <<12, 15>>, <<16, 16>>, <<8, 4>>}

MCVerify ==
  {MCRequest("verify", f, b, p, lf, TRUE, l[1], l[2], x, a, 0, 0, FALSE) :
     f \in {"bcd", "ascii"}, b \in BOOLEAN, p \in {0, 1, 2, 8}, lf \in {"none", "4 bits"},
     l \in MCLengths, x \in BOOLEAN, a \in {4, 13}}
MCModify ==
  {MCRequest("modify", f, TRUE, p, lf, TRUE, l[1], l[2], x, a, o, n, cur) :
     f \in {"bcd", "ascii"}, p \in 0 .. 2, lf \in {"none", "4 bits"},
     l \in {<<4, 4>>, <<12, 15>>, <<16, 16>>}, x \in BOOLEAN,
     a \in {5, 21}, o \in {0, 8}, n \in {0, 8, 9}, cur \in BOOLEAN}
MCRefused ==
  LET ok == MCRequest("verify", "bcd", TRUE, 0, "none", FALSE, 4, 8, FALSE, 13, 0, 0, FALSE)
  IN  {[ok EXCEPT !.right = TRUE], [ok EXCEPT !.format = "binary"], [ok EXCEPT !.format = "rfu"],
       [ok EXCEPT !.block = "nibble"], [ok EXCEPT !.block = "other"], [ok EXCEPT !.apdu = 250],
       [ok EXCEPT !.op = "modify", !.lengthFormat = "odd"], [ok EXCEPT !.apdu = 3],
       [ok EXCEPT !.op = "modify", !.apdu = 241], [ok EXCEPT !.apdu = 0]}
MCRequests == MCVerify \cup MCModify \cup MCRefused

MCTags == {None} \cup {[min |-> l[1], max |-> l[2]] : l \in MCLengths}
MCCommands ==
  {[op |-> op, type |-> t, length |-> n, pos |-> p, old |-> p, new |-> q, apdu |-> a,
    tag51 |-> g] :
     op \in {"verify", "modify"}, t \in 0 .. 3, n \in {0, 12, 13}, p \in {0, 6, 30},
     q \in {0, 3, 6, 252}, a \in {3, 30}, g \in MCTags}

MCInputs ==
  {[chars |-> n, room |-> m, text |-> t, echo |-> e, timer |-> w] :
     n \in 1 .. 3, m \in {2, 4, 5}, t \in {0, 2}, e \in BOOLEAN, w \in BOOLEAN}

MCReaders ==
  {[keypad |-> TRUE, ec30 |-> e, outdated |-> FALSE, oldKernel |-> FALSE] : e \in BOOLEAN}
    \cup {[keypad |-> FALSE, ec30 |-> FALSE, outdated |-> FALSE, oldKernel |-> FALSE],
          [keypad |-> TRUE, ec30 |-> FALSE, outdated |-> TRUE, oldKernel |-> TRUE]}
=============================================================================
