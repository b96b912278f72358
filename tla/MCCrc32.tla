------------------------------- MODULE MCCrc32 -------------------------------
(* Chars with and without the sign bit, with one bit and with many.         *)
EXTENDS Crc32

MCChars == {{}, {0}, {7}, {1, 2, 5, 6}, {0, 3, 4, 7}, 0..7}
=============================================================================
