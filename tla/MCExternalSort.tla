--------------------------- MODULE MCExternalSort ----------------------------
(* Finite instances of ExternalSort. *)
EXTENDS ExternalSort

SomeLines == 0 .. 2

\* All inputs of up to six lines: blocks of one to many lines, and more blocks than
\* files.  0 is the empty line.
SomeInputs == BoundedSeq(SomeLines, 6)
Length(line) == line
=============================================================================
