---------------------------- MODULE MCMimeFilters ----------------------------
(* Instances of MimeFilters for TLC. *)
EXTENDS MimeFilters

AllFilters == Lines \cup Codes

\* A byte of each class: the breaks, a blank, the escape, a plain and a quoted byte;
\* the plain one is a dot.
Bytes6 == {LF, CR, SP, EQ, DOT, 255}
=============================================================================
