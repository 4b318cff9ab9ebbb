--------------------------- MODULE MCDataRecords ---------------------------
(***************************************************************************)
(* Bytes of three values: short prefixes of 0 and 1, a long form with a    *)
(* two-byte length of up to 8.  Two fixed fields of five bytes overflow a  *)
(* two-byte gap; three varlen fields overflow the inline table.            *)
(***************************************************************************)
EXTENDS DataRecords

MCFieldLengths == {0, 1, 5, VariableLength}

\* With bytes of two values, two fields of two bytes overflow a gap.
MCWideFieldLengths == {2, VariableLength}
=============================================================================
