----------------------------- MODULE MCSexpWire -----------------------------
(***************************************************************************)
(* Model values for SexpWire.  Between them the literals hold every tag   *)
(* of the layout: a large list (six elements: count, hash and SEntry      *)
(* table) with a nested small list, a small list first in a small list    *)
(* (skipped by its size varint to reach its siblings), symbols repeated   *)
(* in the table, a short string with the escaped characters, a long       *)
(* string (32 bytes, a varint length), integers in both encodings and     *)
(* with a two-byte varint (100 at the model's width of 8 bits), floats,   *)
(* NIL inside a list and as the root.                                     *)
(***************************************************************************)
EXTENDS SexpWire

\* (k "a\"b\n" 1.5 -17 100 (x k))
WireMixed == DList(<<DSym("k"), DStr("a\"b\n"), DFlt("1.5"), DInt(-17), DInt(100),
                     DList(<<DSym("x"), DSym("k")>>)>>)
\* "abcdefghijklmnopqrstuvwxyz012345"
WireLong  == DStr("abcdefghijklmnopqrstuvwxyz012345")
\* ((3 x) () -0.0): a small list holding a small list before its siblings
WireSmall == DList(<<DList(<<DInt(3), DSym("x")>>), DNil, DFlt("-0.0")>>)

MCWireInputs == {WireMixed, WireLong, WireSmall, DNil}

=============================================================================
