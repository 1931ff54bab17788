---------------------------- MODULE DeriveExtras ----------------------------
(***************************************************************************)
(* The two derive macros of src/derive-extras/src/lib.rs, `Default` and    *)
(* `builder`, as they go through an item: which variant and which values   *)
(* are the default, and what the methods of a builder are called.          *)
(***************************************************************************)
EXTENDS NumbersToWords, SequencesExt

CONSTANT Items      \* what is derived, and for what

\* An attribute is #[default] or another; its form is a path, a list or a value.
Attributes == [default : BOOLEAN, form : {"path", "list", "value"}]
Lists == Seq(Seq(Attributes))   \* what fields have

ASSUME ItemsAssumption ==
  \A i \in Items :
    CASE i.derive = "default" /\ i.kind = "enum" ->
           i.variants \in Seq([attrs : Seq(Attributes), fields : Lists])
      [] i.derive = "default" /\ i.kind = "struct" -> i.fields \in Lists
      [] i.derive = "builder" /\ i.kind = "struct" -> i.fields \in Usize
      [] OTHER -> TRUE

VARIABLES
  item,             \* [derive, kind], and `variants` or `fields`
  at,               \* "variants", "fields", "methods" or "done"
  variant, attr,    \* the variant and the attribute of it that are looked at
  chosen,           \* the default variant; 0 for none
  values,           \* what the fields so far are initialised with
  methods,          \* the names of the methods so far
  outcome           \* of Outcomes

vars == <<item, at, variant, attr, chosen, values, methods, outcome>>

Init ==
  /\ item \in Items
  /\ at = CASE item.derive = "default" /\ item.kind = "enum" -> "variants"
            [] item.derive = "default" /\ item.kind = "struct" -> "fields"
            [] item.derive = "builder" /\ item.kind = "struct" -> "methods"
            [] OTHER -> "done"
  /\ variant = 1 /\ attr = 1 /\ chosen = 0
  /\ values = <<>> /\ methods = <<>>
  /\ outcome = IF at = "done" THEN "panic" ELSE "none"

End(result) ==
  /\ outcome' = result /\ at' = "done"
  /\ UNCHANGED <<item, variant, attr, chosen, values, methods>>

Attrs == item.variants[variant].attrs

\* Slip: the other attributes of the variant are looked at as well.
ChooseOn ==
  /\ chosen' = variant
  /\ attr' = attr + 1
  /\ UNCHANGED <<item, at, variant, values, methods, outcome>>

Choose ==
  /\ chosen' = variant
  /\ variant' = variant + 1 /\ attr' = 1
  /\ UNCHANGED <<item, at, values, methods, outcome>>

\* The inner loop of expand_default_for_enum: an attribute that is no path, of
\* whatever name, is an error.
LookAtAttribute ==
  /\ at = "variants" /\ variant <= Len(item.variants) /\ attr <= Len(Attrs)
  /\ LET a == Attrs[attr]
     IN  \/ a.form # "path" /\ End("not a path")
         \/ a.form = "path" /\ a.default /\ chosen # 0 /\ End("conflict")
         \/ a.form = "path" /\ a.default /\ chosen = 0 /\ Choose
         \/ /\ a.form = "path" /\ ~a.default
            /\ attr' = attr + 1
            /\ UNCHANGED <<item, at, variant, chosen, values, methods, outcome>>

NextVariant ==
  /\ at = "variants" /\ variant <= Len(item.variants) /\ attr > Len(Attrs)
  /\ variant' = variant + 1 /\ attr' = 1
  /\ UNCHANGED <<item, at, chosen, values, methods, outcome>>

ExpandVariant ==
  /\ at = "variants" /\ variant > Len(item.variants)
  /\ \/ chosen = 0 /\ End("missing")
     \/ /\ chosen # 0 /\ at' = "fields"
        /\ UNCHANGED <<item, variant, attr, chosen, values, methods, outcome>>

Fields == IF item.kind = "enum" THEN item.variants[chosen].fields ELSE item.fields

\* field_value: what the first #[default] of the field says.
FieldValue(attrs) ==
  LET defaults == SelectSeq(attrs, LAMBDA a : a.default)
  IN  IF defaults = <<>> THEN "default"
      ELSE IF defaults[1].form = "path" THEN "error" ELSE "given"

\* expand_default_for_fields; an error among the fields is one of the program.
ExpandField ==
  /\ at = "fields"
  /\ \/ /\ Len(values) < Len(Fields)
        /\ values' = Append(values, FieldValue(Fields[Len(values) + 1]))
        /\ UNCHANGED <<item, at, variant, attr, chosen, methods, outcome>>
     \/ /\ Len(values) = Len(Fields)
        /\ End(IF Contains(values, "error") THEN "no value" ELSE "ok")

\* builder, for a tuple: field i gets the method of the ordinal i + 1.
AddMethod ==
  /\ at = "methods"
  /\ \/ /\ Len(methods) < item.fields
        /\ methods' = Append(methods, encode_ordinal[Len(methods) + 1])
        /\ UNCHANGED <<item, at, variant, attr, chosen, values, outcome>>
     \/ Len(methods) = item.fields /\ End("ok")

Next == LookAtAttribute \/ NextVariant \/ ExpandVariant \/ ExpandField \/ AddMethod

Spec == Init /\ [][Next]_vars

-----------------------------------------------------------------------------
(* Properties.                                                             *)

Marked(v) == \E i \in DOMAIN v.attrs : v.attrs[i].default /\ v.attrs[i].form = "path"
AllMarked == {v \in DOMAIN item.variants : Marked(item.variants[v])}

\* The variant that is the default is the only one marked #[default], and the macro
\* fails for no reason but the one it gives, whatever the attributes and their order.
DefaultIsTheMarked ==
  item.derive = "default" /\ item.kind = "enum" /\ at = "done"
    => CASE outcome = "conflict" -> \E u, v \in AllMarked : u # v
         [] outcome = "missing" -> AllMarked = {}
         [] outcome = "not a path" ->
              \E v \in DOMAIN item.variants : \E i \in DOMAIN item.variants[v].attrs :
                 item.variants[v].attrs[i].form # "path"
         [] OTHER -> AllMarked = {chosen}

\* What a text says to who reads it: digits and tens add up, a hundred multiplies.
Meanings(word) ==
  {n \in 0 .. 19 : word \in {DIGITS[n + 1], DIGITS_ORDINAL[n + 1]}}
  \cup {10 * (t + 1) : t \in {t \in 1 .. 8 : word \in {TENS[t], TENS_ORDINAL[t]}}}

Reads(n, word) ==
  IF word \in {Sep, "and"} THEN n
  ELSE IF word \in {"hundred", "hundredth"} THEN 100 * n
  ELSE n + CHOOSE m \in Meanings(word) : TRUE

Says(text) ==
  LET sum[k \in 0 .. Len(text)] == IF k = 0 THEN 0 ELSE Reads(sum[k - 1], text[k])
  IN  sum[Len(text)]

\* The method named for the first, the second, ... field sets that field, for every
\* field below the thousandth (whose name is that of the millionth).
NamedForTheirPlace ==
  \A i \in DOMAIN methods : i < 1000 => Says(methods[i]) = i

=============================================================================
