----------------------------- MODULE MCSexpText -----------------------------
(***************************************************************************)
(* Model values for SexpTextSession.  The texts are chosen so that every   *)
(* case the scanner and the printer distinguish happens:                   *)
(*   - a comment, tabs and newlines between tokens;                        *)
(*   - a string with every escape the printer writes, and one of 32        *)
(*     characters after unescaping (a long string);                        *)
(*   - integers at the small-int boundary and past INT64_MIN/INT64_MAX     *)
(*     (at the model's width of 8 bits: -128..127);                        *)
(*   - floats that %.17g prints with a point (1.5, -0.25), as an integer  *)
(*     (1.0, -0.0) and with an exponent (1e+17);                           *)
(*   - a token the grammar reads as a number with an exponent (1e3);       *)
(*   - lists of nine and six elements (large, and so are their cdrs);      *)
(*   - nil, (), the empty text, nesting at the limit and past it;          *)
(*   - malformed texts: an unterminated list and string, a stray ')',      *)
(*     two values, a backslash at the end.                                 *)
(***************************************************************************)
EXTENDS SexpTextSession

\* (k "a\"b\n" 1.5 -17 300 (x y)), after a comment and a tab.
TxtMixed   == "; row 1\n(k\t\"a\\\"b\\n\" 1.5 -17 300 (x y))"
\* ("<31 characters and a tab>" b a 15 16 -16 -129 nil)
TxtLong    == "(\"abcdefghijklmnopqrstuvwxyz01234\\t\" b a 15 16 -16 -129 nil)"
\* (k 1.0 -0.25): a float printed as an integer, one printed with a point.
TxtFloats  == "(k 1.0 -0.25)"
\* (-0.0 100000000000000000.0 1e3)
TxtExp     == "(-0.0 100000000000000000.0 1e3)"
TxtInts    == {"127", "128", "-128", "-129", "-17", "16"}
TxtDeep    == {"(((a)))", "((((a))))"}
TxtEmpty   == {"", "nil", "()"}
TxtBad     == {"(a", "\"ab", ")", "a b", "\"a\\"}

\* The texts of the checks that pass.
MCTextInputs == {TxtMixed, TxtLong, TxtFloats} \cup TxtDeep \cup TxtEmpty \cup TxtBad

\* The texts of the run on integer literals, and of the run on floats.
MCTextInts == TxtInts \cup {"1e3"}
MCTextFloats == {TxtFloats, TxtExp}

MCNthArgsText == {0, 5}

=============================================================================
