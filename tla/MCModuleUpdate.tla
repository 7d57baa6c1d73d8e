-------------------------- MODULE MCModuleUpdate --------------------------
(* ModuleUpdate with one image of two pieces and a key file of three records. *)
EXTENDS ModuleUpdate

\* One key in three versions, each signed by the one before.
Record(number, version, by) == [key |-> Key(number, version), by |-> by]

MCKeyRecords ==
  <<Record(1, 1, NoKey), Record(1, 2, Key(1, 1)), Record(1, 3, Key(1, 2))>>

\* A new reader, one whose first update stopped half way, and one in the field.
MCFactoryKeys == {<<Empty, Empty>>, <<Key(1, 1), Empty>>, <<Key(1, 1), Key(2, 1)>>}
=============================================================================
