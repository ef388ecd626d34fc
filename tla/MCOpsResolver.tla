--------------------------- MODULE MCOpsResolver ---------------------------
(***************************************************************************)
(* Instances of OpsResolver for TLC.                                       *)
(***************************************************************************)
EXTENDS OpsResolver

CONSTANTS i1, i2, b1, d1

OneBatch == [i \in {i1, i2} |-> b1]

Row(status, tref, ext, logged) ==
  [status |-> status, tref |-> tref, ext |-> ext, misplaced |-> FALSE, logged |-> logged]

\* Rows as gateways, earlier runs and the seed leave them.
SomeRows == {Row("pending", "none", "none", FALSE), Row("processing", "real", "none", FALSE),
             Row("failed", "legacy", "none", FALSE), Row("unclaimed", "none", "none", FALSE),
             Row("completed", "real", "none", TRUE), Row("completed", "real", "real", FALSE)}

SomeBatches == [status : BatchStatus \ {"completed"}, ref : {"none", "real"}]

ASSUME FirstRowsAreProven == NoPhantoms
=============================================================================
