------------------------------ MODULE MCAudioFile ------------------------------
(***************************************************************************)
(* AudioFile on files and integers small enough for TLC: no file is longer *)
(* than 60 bytes, so that Int wraps at 128 where Kotlin's wraps at 2^31.   *)
(***************************************************************************)
EXTENDS AudioFile

\* Sizes that skip the rest of the file, wrap around, are small, go on by less than
\* a header (-7 meets the data chunk), stay (-8), lead back to a chunk (-19, -43, in
\* several steps -15), lead back past all of them (-20), and out of the file (-56,
\* -100).
SomeSizes == {0, 7, 40, 100, 127, -3, -7, -8, -15, -19, -20, -43, -55, -56, -100, -128}
===============================================================================
