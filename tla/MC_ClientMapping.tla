-------------------------- MODULE MC_ClientMapping --------------------------
(* Model-checking instance of ClientMapping.  Version texts are up to two  *)
(* characters over digits, a letter and a punctuation mark; the widths are *)
(* 4 bits for the version and 6 for the accumulator, so that "17" is past  *)
(* the version's range and "71" wraps the accumulator, as "4294967296" and *)
(* "18446744073709551616" do in the code.                                  *)
EXTENDS ClientMapping, TLC

MCChars == {"0", "1", "7", "a", "-"}
=============================================================================
