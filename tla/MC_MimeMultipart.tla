--------------------------- MODULE MC_MimeMultipart ---------------------------
(* Instances of MimeMultipart for TLC. *)
EXTENDS MimeMultipart

\* Attachment strings: empty, plain, a line break, and one holding a blank line.
MC_Values == { << >>, << "a" >>, << CR, LF >>, << "a", CR, LF, CR, LF, "a" >> }
MC_OneValue == { << "a" >> }
=============================================================================
