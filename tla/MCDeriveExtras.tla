--------------------------- MODULE MCDeriveExtras ---------------------------
(***************************************************************************)
(* Small items for DeriveExtras, and one long tuple.                       *)
(***************************************************************************)
EXTENDS DeriveExtras

CONSTANTS MaxVariants, MaxAttributes, MaxFields

Attr(default, form) == [default |-> default, form |-> form]

\* #[default], #[default = ...], a bare attribute, a comment.
SomeAttributes ==
  {Attr(TRUE, "path"), Attr(TRUE, "value"), Attr(FALSE, "path"), Attr(FALSE, "value")}

AttributeLists == BoundedSeq(SomeAttributes, MaxAttributes)

FewFields == {<<>>, <<<<Attr(TRUE, "list")>>, <<Attr(FALSE, "path")>>>>, <<<<Attr(TRUE, "path")>>>>}

Enums ==
  [derive : {"default"}, kind : {"enum"},
   variants : BoundedSeq([attrs : AttributeLists, fields : {<<>>}], MaxVariants)
              \cup [1 .. 1 -> [attrs : {<<Attr(TRUE, "path")>>}, fields : FewFields]]]

Structs == [derive : {"default"}, kind : {"struct"}, fields : BoundedSeq(AttributeLists, 2)]

Tuples == [derive : {"builder"}, kind : {"struct"}, fields : {0, MaxFields}]

Others == [derive : {"default", "builder"}, kind : {"union"}]
          \cup [derive : {"builder"}, kind : {"enum"}]

AllItems == Enums \cup Structs \cup Tuples \cup Others

=============================================================================
