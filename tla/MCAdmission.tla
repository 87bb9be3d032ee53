---------------------------- MODULE MCAdmission -----------------------------
(* Instances of Admission for TLC.  Two is the smallest limit of which one   *)
(* grant may come late in its window, next to those of the following one.  *)
EXTENDS Admission

SmallLimit == [k \in Key |-> IF k = "organization" THEN 2 ELSE 1]
=============================================================================
