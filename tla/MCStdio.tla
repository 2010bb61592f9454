------------------------------ MODULE MCStdio ------------------------------
(* Streams on an empty file and on one of two lines.  The buffer of fgets   *)
(* reaches into the second line, and the register that an fseek reads its   *)
(* stream from may hold any other stream or directory.                      *)
EXTENDS Stdio

TwoLines  == {<<>>, <<NL, CHAR>>}
Typed     == <<NL, CHAR>>
AnyFourth == {"fourth"}
=============================================================================
