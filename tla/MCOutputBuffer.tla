-------------------------- MODULE MCOutputBuffer --------------------------
(* Instances of OutputBuffer for TLC.  The letters are a base letter e and    *)
(* two marks, U+0323 and U+0301, of which the dot goes below and first; each   *)
(* is also a character, and so is the composed e with an acute.             *)
EXTENDS OutputBuffer
CONSTANTS e, dot, acute, eacute
MCLetters == {e, dot, acute}
MCNormal == [c \in Chars |-> IF c = eacute THEN <<e, acute>> ELSE <<c>>]
MCClass == (e :> 0) @@ (dot :> 220) @@ (acute :> 230)
MCTerms == {<<e, acute, e>>, <<e, dot>>}
MCDotted == {<<e, dot>>}
=============================================================================
