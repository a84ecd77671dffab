--------------------------- MODULE MCOutputFilters ---------------------------
(***************************************************************************)
(* Outputs of backups: three lines on stderr, or one beside two of stdout,  *)
(* or two beside one.                                                      *)
(***************************************************************************)
EXTENDS OutputFilters

ErrRecords == {"frame", "frameLF", "net", "added", "changed", "O file", "RS file", "text"}
OutRecords == {"added", "changed", "text"}

MCOutputs ==
  [err : SeqOf(ErrRecords \ {"frameLF", "text"}, 3), out : {<<>>}]
    \cup [err : SeqOf(ErrRecords, 2), out : SeqOf(OutRecords, 1)]
    \cup [err : SeqOf(ErrRecords, 1), out : SeqOf(OutRecords, 2)]

\* A frame and a changed file after it.
OneFrame == {[err |-> <<r, "changed">>, out |-> <<>>] : r \in {"frame", "frameLF"}}
===============================================================================
