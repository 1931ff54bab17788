------------------------- MODULE DeriveExtrasProofs -------------------------
(***************************************************************************)
(* Of the derive macro `Default`, for an enumeration of any number of      *)
(* variants with any attributes: the variant it takes for the default is   *)
(* the one that is marked, and it fails for the reason that it gives.  Of  *)
(* the derive macro `builder`, for a tuple of any length: the names of the *)
(* first 999 methods say the places of their fields.                       *)
(***************************************************************************)
EXTENDS DeriveExtras, TLAPS, WellFoundedInduction

\* The item is one that the loops over variants and attributes go through.
IsEnum == item.derive = "default" /\ item.kind = "enum"

\* Those of the first n variants that are marked.
MarkedTo(n) == {v \in DOMAIN item.variants : v <= n /\ Marked(item.variants[v])}

\* What a choice says of the variants that were gone through.
ChosenOf(n) == MarkedTo(n) = IF chosen = 0 THEN {} ELSE {chosen}

\* Where the loops are: none of the attributes before the current one marks its variant.
Looking ==
  /\ variant \in 1 .. Len(item.variants) + 1
  /\ chosen \in Nat
  /\ attr \in Nat \ {0}
  /\ ChosenOf(variant - 1)
  /\ variant <= Len(item.variants) =>
       \A k \in DOMAIN Attrs : k < attr => ~(Attrs[k].default /\ Attrs[k].form = "path")

\* The inductive invariant of the macro: what it believes of the variants it has
\* gone through, and at its end the property itself.
ChoiceKept ==
  /\ item \in Items
  /\ IsEnum => /\ at \in {"variants", "fields", "done"}
               /\ at = "variants" => Looking
               /\ at = "fields" => AllMarked = {chosen}
               /\ DefaultIsTheMarked

-----------------------------------------------------------------------------

\* What a sequence is made of.
LEMMA SeqIs ==
  ASSUME NEW S, NEW s \in Seq(S)
  PROVE  /\ Len(s) \in Nat /\ DOMAIN s = 1 .. Len(s)
         /\ \A k \in DOMAIN s : s[k] \in S
  OBVIOUS

\* The variants of an item that is an enumeration, and their attributes.
LEMMA EnumIs ==
  ASSUME item \in Items, IsEnum
  PROVE  /\ item.variants \in Seq([attrs : Seq(Attributes), fields : Lists])
         /\ Len(item.variants) \in Nat /\ DOMAIN item.variants = 1 .. Len(item.variants)
         /\ \A v \in DOMAIN item.variants :
              /\ item.variants[v].attrs \in Seq(Attributes)
              /\ Len(item.variants[v].attrs) \in Nat
              /\ DOMAIN item.variants[v].attrs = 1 .. Len(item.variants[v].attrs)
<1>1. item.variants \in Seq([attrs : Seq(Attributes), fields : Lists])
  BY ItemsAssumption DEF IsEnum
<1>2. /\ Len(item.variants) \in Nat /\ DOMAIN item.variants = 1 .. Len(item.variants)
      /\ \A v \in DOMAIN item.variants :
           item.variants[v] \in [attrs : Seq(Attributes), fields : Lists]
  BY <1>1, SeqIs
<1>3. \A v \in DOMAIN item.variants : item.variants[v].attrs \in Seq(Attributes)
  BY <1>2
<1>4. \A v \in DOMAIN item.variants :
        /\ Len(item.variants[v].attrs) \in Nat
        /\ DOMAIN item.variants[v].attrs = 1 .. Len(item.variants[v].attrs)
  BY <1>3, SeqIs
<1> QED
  BY <1>1, <1>2, <1>3, <1>4

\* One variant more is gone through.
LEMMA MarkedNext ==
  ASSUME item \in Items, IsEnum, NEW n \in DOMAIN item.variants
  PROVE  MarkedTo(n) = MarkedTo(n - 1) \cup (IF Marked(item.variants[n]) THEN {n} ELSE {})
  BY EnumIs DEF MarkedTo

\* All of them are.
LEMMA MarkedAll ==
  ASSUME item \in Items, IsEnum
  PROVE  MarkedTo(Len(item.variants)) = AllMarked
  BY EnumIs DEF MarkedTo, AllMarked

LEMMA Choice_Init == Init => ChoiceKept
<1> SUFFICES ASSUME Init PROVE ChoiceKept
  OBVIOUS
<1>1. item \in Items
  BY DEF Init
<1>2. ASSUME IsEnum PROVE at = "variants" /\ Looking
  <2>1. at = "variants" /\ variant = 1 /\ attr = 1 /\ chosen = 0
    BY <1>2 DEF Init, IsEnum
  <2>2. MarkedTo(0) = {}
    BY <1>1, <1>2, EnumIs DEF MarkedTo
  <2>3. variant <= Len(item.variants) => DOMAIN Attrs = 1 .. Len(Attrs)
    BY <1>1, <1>2, <2>1, EnumIs DEF Attrs
  <2> QED
    BY <1>1, <1>2, <2>1, <2>2, <2>3, EnumIs DEF Looking, ChosenOf
<1> QED
  BY <1>1, <1>2 DEF ChoiceKept, DefaultIsTheMarked

\* What happens to another item does not matter.
LEMMA Choice_Same ==
  ASSUME ChoiceKept, item' = item, IsEnum => ChoiceKept' PROVE ChoiceKept'
  BY DEF ChoiceKept, IsEnum, DefaultIsTheMarked

LEMMA Choice_Attribute ==
  ASSUME ChoiceKept, IsEnum, LookAtAttribute PROVE ChoiceKept'
<1>1. item \in Items /\ Looking /\ at = "variants" /\ variant <= Len(item.variants)
      /\ attr <= Len(Attrs) /\ item' = item
  BY DEF ChoiceKept, LookAtAttribute, End, Choose
<1>2. variant \in DOMAIN item.variants /\ DOMAIN Attrs = 1 .. Len(Attrs)
      /\ Attrs = item.variants[variant].attrs /\ attr \in DOMAIN Attrs
      /\ Len(Attrs) \in Nat
  BY <1>1, EnumIs DEF Looking, Attrs
<1>3. IsEnum' /\ AllMarked' = AllMarked
  BY <1>1 DEF IsEnum, AllMarked
<1>4. CASE Attrs[attr].form # "path" /\ End("not a path")
  <2>1. \E v \in DOMAIN item.variants : \E i \in DOMAIN item.variants[v].attrs :
          item.variants[v].attrs[i].form # "path"
    BY <1>2, <1>4
  <2>2. item' = item /\ outcome' = "not a path" /\ at' = "done"
    BY <1>4 DEF End
  <2>3. DefaultIsTheMarked'
    BY <2>1, <2>2 DEF DefaultIsTheMarked
  <2> QED
    BY <1>1, <1>3, <2>2, <2>3 DEF ChoiceKept
<1>5. CASE Attrs[attr].form = "path" /\ Attrs[attr].default /\ chosen # 0 /\ End("conflict")
  <2>1. variant \in AllMarked
    BY <1>2, <1>5 DEF AllMarked, Marked
  <2>2. chosen \in MarkedTo(variant - 1)
    BY <1>1, <1>5 DEF Looking, ChosenOf
  <2>3. chosen \in AllMarked /\ chosen # variant
    BY <1>1, <2>2, EnumIs DEF MarkedTo, AllMarked, Looking
  <2> QED
    BY <1>1, <1>3, <1>5, <2>1, <2>3 DEF End, ChoiceKept, DefaultIsTheMarked
<1>6. CASE Attrs[attr].form = "path" /\ Attrs[attr].default /\ chosen = 0 /\ Choose
  <2>1. Marked(item.variants[variant])
    BY <1>2, <1>6 DEF Marked
  <2>2. MarkedTo(variant) = {variant}
    BY <1>1, <1>2, <1>6, <2>1, MarkedNext DEF Looking, ChosenOf
  <2>3. /\ variant' = variant + 1 /\ attr' = 1 /\ chosen' = variant /\ at' = at
        /\ variant' - 1 = variant /\ variant # 0 /\ variant' \in 1 .. Len(item.variants) + 1
    BY <1>1, <1>2, <1>6, EnumIs DEF Choose, Looking
  <2>4. MarkedTo(variant)' = MarkedTo(variant')
    BY <1>1 DEF MarkedTo
  <2>5. \A n : MarkedTo(n)' = MarkedTo(n')
    BY <1>1 DEF MarkedTo
  <2>6. ChosenOf(variant - 1)'
    BY <1>1, <2>2, <2>3 DEF ChosenOf, MarkedTo
  <2>7. variant' <= Len(item.variants) => DOMAIN (Attrs') = 1 .. Len(Attrs')
    BY <1>1, <2>3, EnumIs DEF Attrs
  <2>8. Looking'
    BY <1>1, <2>3, <2>6, <2>7 DEF Looking
  <2> QED
    BY <1>1, <1>3, <2>3, <2>8 DEF ChoiceKept, DefaultIsTheMarked
<1>7. CASE /\ Attrs[attr].form = "path" /\ ~Attrs[attr].default
           /\ attr' = attr + 1
           /\ UNCHANGED <<item, at, variant, chosen, values, methods, outcome>>
  <2>1. Attrs' = Attrs
    BY <1>7 DEF Attrs
  <2>2. Looking'
    <3>1. ChosenOf(variant - 1)'
      BY <1>1, <1>7 DEF Looking, ChosenOf, MarkedTo
    <3>2. \A k \in DOMAIN Attrs : k < attr + 1 => ~(Attrs[k].default /\ Attrs[k].form = "path")
      <4>1. \A k \in DOMAIN Attrs : k < attr + 1 => k < attr \/ k = attr
        BY <1>2
      <4>2. \A k \in DOMAIN Attrs : k < attr => ~(Attrs[k].default /\ Attrs[k].form = "path")
        BY <1>1 DEF Looking
      <4> QED
        BY <1>7, <4>1, <4>2
    <3> QED
      BY <1>1, <1>7, <2>1, <3>1, <3>2 DEF Looking
  <2> QED
    BY <1>1, <1>3, <1>7, <2>2 DEF ChoiceKept, DefaultIsTheMarked
<1> QED
  BY <1>4, <1>5, <1>6, <1>7 DEF LookAtAttribute

LEMMA Choice_Variant ==
  ASSUME ChoiceKept, IsEnum, NextVariant PROVE ChoiceKept'
<1>1. item \in Items /\ Looking /\ at = "variants" /\ variant <= Len(item.variants)
      /\ attr > Len(Attrs) /\ UNCHANGED <<item, at, chosen>>
      /\ variant' = variant + 1 /\ attr' = 1
  BY DEF ChoiceKept, NextVariant
<1>2. variant \in DOMAIN item.variants /\ DOMAIN Attrs = 1 .. Len(Attrs) /\ Len(Attrs) \in Nat
      /\ Attrs = item.variants[variant].attrs
  BY <1>1, EnumIs DEF Looking, Attrs
<1>3. ~Marked(item.variants[variant])
  <2>1. \A k \in DOMAIN Attrs : k < attr
    BY <1>1, <1>2 DEF Looking
  <2>2. \A k \in DOMAIN Attrs : ~(Attrs[k].default /\ Attrs[k].form = "path")
    BY <1>1, <2>1 DEF Looking
  <2> QED
    BY <1>2, <2>2 DEF Marked
<1>4. MarkedTo(variant) = MarkedTo(variant - 1)
  BY <1>1, <1>2, <1>3, MarkedNext
<1>5. variant' - 1 = variant /\ variant' \in 1 .. Len(item.variants) + 1
  BY <1>1, <1>2, EnumIs DEF Looking
<1>6. ChosenOf(variant - 1)'
  BY <1>1, <1>4, <1>5 DEF Looking, ChosenOf, MarkedTo
<1>7. variant' <= Len(item.variants) => DOMAIN (Attrs') = 1 .. Len(Attrs')
  BY <1>1, <1>5, EnumIs DEF Attrs
<1>8. Looking'
  BY <1>1, <1>5, <1>6, <1>7 DEF Looking
<1> QED
  BY <1>1, <1>8 DEF ChoiceKept, DefaultIsTheMarked

LEMMA Choice_Expand ==
  ASSUME ChoiceKept, IsEnum, ExpandVariant \/ ExpandField PROVE ChoiceKept'
<1>1. item \in Items /\ item' = item /\ chosen' = chosen
  BY DEF ChoiceKept, ExpandVariant, ExpandField, End
<1>2. IsEnum' /\ AllMarked' = AllMarked
  BY <1>1 DEF IsEnum, AllMarked
<1>3. CASE ExpandVariant
  <2>1. variant - 1 = Len(item.variants) /\ Looking /\ at = "variants"
    BY <1>1, <1>3, EnumIs DEF ExpandVariant, ChoiceKept, Looking
  <2>2. AllMarked = IF chosen = 0 THEN {} ELSE {chosen}
    BY <1>1, <2>1, MarkedAll DEF Looking, ChosenOf
  <2> QED
    BY <1>1, <1>2, <1>3, <2>2 DEF ExpandVariant, End, ChoiceKept, DefaultIsTheMarked
<1>4. CASE ExpandField
  <2>1. at = "fields" /\ AllMarked = {chosen}
    BY <1>4 DEF ExpandField, ChoiceKept
  <2>2. \/ at' = "fields"
        \/ at' = "done" /\ outcome' \in {"no value", "ok"}
    BY <1>4, <2>1 DEF ExpandField, End
  <2> QED
    BY <1>1, <1>2, <2>1, <2>2 DEF ChoiceKept, DefaultIsTheMarked
<1> QED
  BY <1>3, <1>4

LEMMA Choice_Next == ChoiceKept /\ [Next]_vars => ChoiceKept'
<1> SUFFICES ASSUME ChoiceKept, [Next]_vars PROVE ChoiceKept'
  OBVIOUS
<1>1. item' = item
  BY DEF Next, vars, LookAtAttribute, NextVariant, ExpandVariant, ExpandField, AddMethod,
         End, Choose
<1>2. ASSUME IsEnum PROVE ChoiceKept'
  <2>1. CASE LookAtAttribute
    BY <1>2, <2>1, Choice_Attribute
  <2>2. CASE NextVariant
    BY <1>2, <2>2, Choice_Variant
  <2>3. CASE ExpandVariant \/ ExpandField
    BY <1>2, <2>3, Choice_Expand
  <2>4. ~AddMethod
    BY <1>2 DEF AddMethod, ChoiceKept
  <2>5. CASE UNCHANGED vars
    BY <2>5 DEF vars, ChoiceKept, IsEnum, Looking, ChosenOf, MarkedTo, AllMarked,
                DefaultIsTheMarked, Attrs
  <2> QED
    BY <2>1, <2>2, <2>3, <2>4, <2>5 DEF Next
<1> QED
  BY <1>1, <1>2, Choice_Same

\* The default of an enumeration is the variant that alone is marked #[default]; the
\* macro ends without one only if none or several are, or an attribute is no path
\* (expand_default_for_enum).
THEOREM DefaultMarked == Spec => []DefaultIsTheMarked
<1>1. ChoiceKept => DefaultIsTheMarked
  BY DEF ChoiceKept, IsEnum, DefaultIsTheMarked
<1> QED
  BY <1>1, Choice_Init, Choice_Next, PTL DEF Spec

-----------------------------------------------------------------------------
(* What is computed from what was computed before exists.                  *)

\* A set of naturals has a least.
LEMMA LeastIs ==
  ASSUME NEW T \in SUBSET Nat, T # {}
  PROVE  \E x \in T : \A y \in T : x <= y
<1> DEFINE Less == OpToRel(<, Nat)
<1>1. PICK x \in T : \A y \in T : ~(<<y, x>> \in Less)
  <2> HIDE DEF Less
  <2> QED BY WFMin, NatLessThanWellFounded DEF Less
<1>2. ASSUME NEW y \in T, y < x PROVE FALSE
  <2>1. x \in Nat /\ y \in Nat
    OBVIOUS
  <2>2. <<y, x>> \in Less
    BY <1>2, <2>1 DEF OpToRel
  <2> HIDE DEF Less
  <2> QED BY <1>1, <2>2
<1>3. \A y \in T : y \in Int /\ x \in Int
  OBVIOUS
<1> QED BY <1>2, <1>3

\* The sums of the words of a text.
IsSum(f, text) ==
  /\ f = [k \in 0 .. Len(text) |-> f[k]]
  /\ f[0] = 0
  /\ \A k \in 1 .. Len(text) : f[k] = Reads(f[k - 1], text[k])

\* Says is the last of them.
LEMMA SaysIs ==
  ASSUME NEW text, Len(text) \in Nat
  PROVE  \E f : IsSum(f, text) /\ Says(text) = f[Len(text)]
<1> DEFINE n == Len(text)
           SumTo(f, m) == /\ f = [k \in 0 .. m |-> f[k]]
                          /\ f[0] = 0
                          /\ \A k \in 1 .. m : f[k] = Reads(f[k - 1], text[k])
           Without == {m \in Nat : ~\E f : SumTo(f, m)}
           Rec(f) == [k \in 0 .. n |-> IF k = 0 THEN 0 ELSE Reads(f[k - 1], text[k])]
           f == CHOOSE f : f = Rec(f)
<1>1. Without = {}
  <2> SUFFICES ASSUME Without # {} PROVE FALSE
    OBVIOUS
  <2>1. PICK m \in Without : \A y \in Without : m <= y
    <3> HIDE DEF Without
    <3>1. Without \subseteq Nat
      BY DEF Without
    <3> QED BY <3>1, LeastIs
  <2>2. m # 0
    <3> DEFINE g == [k \in 0 .. 0 |-> 0]
    <3>1. SumTo(g, 0)
      OBVIOUS
    <3> QED BY <2>1, <3>1
  <2>3. m - 1 \in Nat /\ m - 1 \notin Without
    BY <2>1, <2>2
  <2>4. PICK g : SumTo(g, m - 1)
    BY <2>3
  <2> DEFINE last == Reads(g[m - 1], text[m])
             h == [k \in 0 .. m |-> IF k = m THEN last ELSE g[k]]
  <2>5. h = [k \in 0 .. m |-> h[k]] /\ h[m] = last /\ \A k \in 0 .. m - 1 : h[k] = g[k]
    <3> HIDE DEF last
    <3> QED BY <2>3
  <2> HIDE DEF h
  <2>6. h[0] = 0
    <3>1. 0 \in 0 .. m - 1
      BY <2>3
    <3> QED BY <2>4, <2>5, <3>1
  <2>7. ASSUME NEW k \in 1 .. m PROVE h[k] = Reads(h[k - 1], text[k])
    <3>1. CASE k = m
      <4>1. m - 1 \in 0 .. m - 1
        BY <2>3
      <4> QED BY <2>5, <3>1, <4>1
    <3>2. CASE k # m
      <4>1. k \in 1 .. m - 1 /\ k - 1 \in 0 .. m - 1 /\ k \in 0 .. m - 1
        BY <3>2
      <4> QED BY <2>4, <2>5, <4>1
    <3> QED BY <3>1, <3>2
  <2>8. SumTo(h, m)
    BY <2>5, <2>6, <2>7
  <2> QED BY <2>1, <2>8
<1>2. PICK g : SumTo(g, n)
  BY <1>1
<1>3. g = Rec(g)
  BY <1>2
<1>4. f = Rec(f)
  BY <1>3
<1>5. Says(text) = f[n]
  BY DEF Says
<1> HIDE DEF f
<1>6. IsSum(f, text)
  <2> DEFINE r == Rec(f)
  <2>1. /\ r = [k \in 0 .. n |-> r[k]]
        /\ r[0] = 0
        /\ \A k \in 1 .. n : r[k] = Reads(f[k - 1], text[k])
    OBVIOUS
  <2>2. f = r
    BY <1>4
  <2> HIDE DEF r
  <2> QED BY <2>1, <2>2 DEF IsSum
<1> QED BY <1>5, <1>6

-----------------------------------------------------------------------------
(* What the words say.                                                     *)

\* No word is in two tables, or twice in one.
LEMMA DigitsApart ==
  /\ \A j, k \in 1 .. 20 : DIGITS[j] = DIGITS[k] => j = k
  /\ \A j, k \in 1 .. 20 : DIGITS_ORDINAL[j] = DIGITS_ORDINAL[k] => j = k
  /\ \A j, k \in 1 .. 20 : DIGITS[j] # DIGITS_ORDINAL[k]
<1>1. \A j, k \in 1 .. 20 : DIGITS[j] = DIGITS[k] => j = k
  BY DEF DIGITS
<1>2. \A j, k \in 1 .. 20 : DIGITS_ORDINAL[j] = DIGITS_ORDINAL[k] => j = k
  BY DEF DIGITS_ORDINAL
<1>3. \A j, k \in 1 .. 20 : DIGITS[j] # DIGITS_ORDINAL[k]
  BY DEF DIGITS, DIGITS_ORDINAL
<1> QED BY <1>1, <1>2, <1>3

LEMMA TensApart ==
  /\ \A j, k \in 1 .. 8 : TENS[j] = TENS[k] => j = k
  /\ \A j, k \in 1 .. 8 : TENS_ORDINAL[j] = TENS_ORDINAL[k] => j = k
  /\ \A j, k \in 1 .. 8 : TENS[j] # TENS_ORDINAL[k]
<1>1. \A j, k \in 1 .. 8 : TENS[j] = TENS[k] => j = k
  BY DEF TENS
<1>2. \A j, k \in 1 .. 8 : TENS_ORDINAL[j] = TENS_ORDINAL[k] => j = k
  BY DEF TENS_ORDINAL
<1>3. \A j, k \in 1 .. 8 : TENS[j] # TENS_ORDINAL[k]
  BY DEF TENS, TENS_ORDINAL
<1> QED BY <1>1, <1>2, <1>3

LEMMA TablesApart ==
  \A j \in 1 .. 20, t \in 1 .. 8 :
    /\ DIGITS[j] # TENS[t] /\ DIGITS[j] # TENS_ORDINAL[t]
    /\ DIGITS_ORDINAL[j] # TENS[t] /\ DIGITS_ORDINAL[j] # TENS_ORDINAL[t]
<1>1. \A j \in 1 .. 20, t \in 1 .. 8 : DIGITS[j] # TENS[t]
  BY DEF DIGITS, TENS
<1>2. \A j \in 1 .. 20, t \in 1 .. 8 : DIGITS[j] # TENS_ORDINAL[t]
  BY DEF DIGITS, TENS_ORDINAL
<1>3. \A j \in 1 .. 20, t \in 1 .. 8 : DIGITS_ORDINAL[j] # TENS[t]
  BY DEF DIGITS_ORDINAL, TENS
<1>4. \A j \in 1 .. 20, t \in 1 .. 8 : DIGITS_ORDINAL[j] # TENS_ORDINAL[t]
  BY DEF DIGITS_ORDINAL, TENS_ORDINAL
<1> QED BY <1>1, <1>2, <1>3, <1>4

\* The words that count for nothing by themselves.
Joining == {Sep, "and", "hundred", "hundredth"}

LEMMA JoiningApart ==
  /\ \A j \in 1 .. 20 : DIGITS[j] \notin Joining /\ DIGITS_ORDINAL[j] \notin Joining
  /\ \A t \in 1 .. 8 : TENS[t] \notin Joining /\ TENS_ORDINAL[t] \notin Joining
<1>1. \A j \in 1 .. 20 : DIGITS[j] # "sep" /\ DIGITS[j] # "and"
                         /\ DIGITS[j] # "hundred" /\ DIGITS[j] # "hundredth"
  BY DEF DIGITS
<1>2. \A j \in 1 .. 20 : DIGITS_ORDINAL[j] # "sep" /\ DIGITS_ORDINAL[j] # "and"
                         /\ DIGITS_ORDINAL[j] # "hundred" /\ DIGITS_ORDINAL[j] # "hundredth"
  BY DEF DIGITS_ORDINAL
<1>3. \A t \in 1 .. 8 : TENS[t] # "sep" /\ TENS[t] # "and"
                         /\ TENS[t] # "hundred" /\ TENS[t] # "hundredth"
  BY DEF TENS
<1>4. \A t \in 1 .. 8 : TENS_ORDINAL[t] # "sep" /\ TENS_ORDINAL[t] # "and"
                         /\ TENS_ORDINAL[t] # "hundred" /\ TENS_ORDINAL[t] # "hundredth"
  BY DEF TENS_ORDINAL
<1> QED BY <1>1, <1>2, <1>3, <1>4 DEF Joining, Sep

\* Each word means one number.
LEMMA MeaningsAre ==
  /\ \A j \in 1 .. 20 : Meanings(DIGITS[j]) = {j - 1} /\ Meanings(DIGITS_ORDINAL[j]) = {j - 1}
  /\ \A t \in 1 .. 8 : /\ Meanings(TENS[t]) = {10 * (t + 1)}
                       /\ Meanings(TENS_ORDINAL[t]) = {10 * (t + 1)}
<1>1. ASSUME NEW j \in 1 .. 20
      PROVE  Meanings(DIGITS[j]) = {j - 1} /\ Meanings(DIGITS_ORDINAL[j]) = {j - 1}
  <2>1. j - 1 \in 0 .. 19 /\ (j - 1) + 1 = j /\ \A n \in 0 .. 19 : n + 1 \in 1 .. 20
    OBVIOUS
  <2>2. \A n \in 0 .. 19 : /\ DIGITS[j] \in {DIGITS[n + 1], DIGITS_ORDINAL[n + 1]} <=> n = j - 1
                           /\ DIGITS_ORDINAL[j] \in {DIGITS[n + 1], DIGITS_ORDINAL[n + 1]} <=> n = j - 1
    BY <2>1, DigitsApart
  <2>3. \A t \in 1 .. 8 : /\ DIGITS[j] \notin {TENS[t], TENS_ORDINAL[t]}
                          /\ DIGITS_ORDINAL[j] \notin {TENS[t], TENS_ORDINAL[t]}
    BY TablesApart
  <2> QED BY <2>1, <2>2, <2>3 DEF Meanings
<1>2. ASSUME NEW t \in 1 .. 8
      PROVE  Meanings(TENS[t]) = {10 * (t + 1)} /\ Meanings(TENS_ORDINAL[t]) = {10 * (t + 1)}
  <2>1. \A n \in 0 .. 19 : n + 1 \in 1 .. 20
    OBVIOUS
  <2>2. \A n \in 0 .. 19 : /\ TENS[t] \notin {DIGITS[n + 1], DIGITS_ORDINAL[n + 1]}
                           /\ TENS_ORDINAL[t] \notin {DIGITS[n + 1], DIGITS_ORDINAL[n + 1]}
    BY <2>1, TablesApart
  <2>3. \A u \in 1 .. 8 : /\ TENS[t] \in {TENS[u], TENS_ORDINAL[u]} <=> u = t
                          /\ TENS_ORDINAL[t] \in {TENS[u], TENS_ORDINAL[u]} <=> u = t
    BY TensApart
  <2> QED BY <2>2, <2>3 DEF Meanings
<1> QED BY <1>1, <1>2

\* How each word is read.
LEMMA ReadsAre ==
  ASSUME NEW n
  PROVE  /\ Reads(n, Sep) = n /\ Reads(n, "and") = n
         /\ Reads(n, "hundred") = 100 * n /\ Reads(n, "hundredth") = 100 * n
         /\ \A j \in 1 .. 20 : /\ Reads(n, DIGITS[j]) = n + (j - 1)
                               /\ Reads(n, DIGITS_ORDINAL[j]) = n + (j - 1)
         /\ \A t \in 1 .. 8 : /\ Reads(n, TENS[t]) = n + 10 * (t + 1)
                              /\ Reads(n, TENS_ORDINAL[t]) = n + 10 * (t + 1)
<1>1. /\ Reads(n, Sep) = n /\ Reads(n, "and") = n
      /\ Reads(n, "hundred") = 100 * n /\ Reads(n, "hundredth") = 100 * n
  BY DEF Reads, Sep
<1>2. ASSUME NEW word, word \notin Joining, NEW m, Meanings(word) = {m}
      PROVE  Reads(n, word) = n + m
  <2>1. (CHOOSE x \in Meanings(word) : TRUE) = m
    BY <1>2
  <2> QED BY <1>2, <2>1 DEF Reads, Joining
<1>3. \A j \in 1 .. 20 : /\ Reads(n, DIGITS[j]) = n + (j - 1)
                         /\ Reads(n, DIGITS_ORDINAL[j]) = n + (j - 1)
  BY <1>2, MeaningsAre, JoiningApart
<1>4. \A t \in 1 .. 8 : /\ Reads(n, TENS[t]) = n + 10 * (t + 1)
                        /\ Reads(n, TENS_ORDINAL[t]) = n + 10 * (t + 1)
  BY <1>2, MeaningsAre, JoiningApart
<1> QED BY <1>1, <1>3, <1>4

-----------------------------------------------------------------------------
(* encode_ordinal ends: it calls itself for smaller numbers only.          *)

\* The powers of a thousand.
IsPowers(f) ==
  /\ f = [k \in 1 .. 12 |-> f[k]]
  /\ f[1] = 1
  /\ \A k \in 2 .. 12 : f[k] = 1000 * f[k - 1]

LEMMA PowersAre == DOMAIN ORDERS = 1 .. 12 /\ IsPowers(Powers)
<1> DEFINE Rec(f) == [k \in 1 .. 12 |-> IF k = 1 THEN 1 ELSE 1000 * f[k - 1]]
           f == CHOOSE f : f = Rec(f)
<1>1. DOMAIN ORDERS = 1 .. 12
  BY DEF ORDERS
<1>2. \E g : g = Rec(g)
  <2> DEFINE PowersTo(g, m) == /\ g[1] = 1
                               /\ \A k \in 2 .. m : g[k] = 1000 * g[k - 1]
  <2>1. ASSUME NEW m \in 1 .. 11, NEW g, PowersTo(g, m)
        PROVE  \E h : PowersTo(h, m + 1)
    <3> DEFINE last == 1000 * g[m]
               h == [k \in 1 .. m + 1 |-> IF k = m + 1 THEN last ELSE g[k]]
    <3>1. h[m + 1] = last /\ \A k \in 1 .. m : h[k] = g[k]
      <4> HIDE DEF last
      <4> QED OBVIOUS
    <3> HIDE DEF h
    <3>2. h[1] = 1
      BY <2>1, <3>1
    <3>3. ASSUME NEW k \in 2 .. m + 1 PROVE h[k] = 1000 * h[k - 1]
      <4>1. CASE k = m + 1
        BY <3>1, <4>1
      <4>2. CASE k # m + 1
        <5>1. k \in 2 .. m /\ k \in 1 .. m /\ k - 1 \in 1 .. m
          BY <4>2
        <5> QED BY <2>1, <3>1, <5>1
      <4> QED BY <4>1, <4>2
    <3> QED BY <3>2, <3>3
  <2>2. \E g : PowersTo(g, 1)
    <3> DEFINE g == [k \in 1 .. 1 |-> 1]
    <3>1. PowersTo(g, 1)
      OBVIOUS
    <3> HIDE DEF g, PowersTo
    <3> QED BY <3>1
  <2>3. \E g : PowersTo(g, 12)
    <3> DEFINE Reached(m) == \E g : PowersTo(g, m)
    <3>1. Reached(1) /\ \A m \in 1 .. 11 : Reached(m) => Reached(m + 1)
      BY <2>1, <2>2
    <3> HIDE DEF Reached
    <3>2. Reached(12)
      BY <3>1, SMT
    <3> QED BY <3>2 DEF Reached
  <2>4. PICK g : PowersTo(g, 12)
    BY <2>3
  <2> DEFINE h == [k \in 1 .. 12 |-> g[k]]
  <2>5. h = Rec(h)
    <3>1. \A k \in 1 .. 12 : h[k] = IF k = 1 THEN 1 ELSE 1000 * h[k - 1]
      BY <2>4
    <3> QED BY <3>1
  <2> QED BY <2>5
<1>3. f = Rec(f)
  BY <1>2
<1>4. Powers = f
  BY <1>1 DEF Powers
<1> HIDE DEF f
<1>5. IsPowers(f)
  <2> DEFINE r == Rec(f)
  <2>1. /\ r = [k \in 1 .. 12 |-> r[k]]
        /\ r[1] = 1
        /\ \A k \in 2 .. 12 : r[k] = 1000 * f[k - 1]
    OBVIOUS
  <2>2. f = r
    BY <1>3
  <2> HIDE DEF r
  <2> QED BY <2>1, <2>2 DEF IsPowers
<1> QED BY <1>1, <1>4, <1>5

\* They are numbers.
LEMMA PowersAreNumbers == \A k \in 1 .. 12 : Powers[k] \in Nat
<1> DEFINE Bad == {k \in 1 .. 12 : Powers[k] \notin Nat}
<1> SUFFICES ASSUME Bad # {} PROVE FALSE
  OBVIOUS
<1>1. PICK k \in Bad : \A j \in Bad : k <= j
  <2> HIDE DEF Bad
  <2>1. Bad \subseteq Nat
    BY DEF Bad
  <2> QED BY <2>1, LeastIs
<1>2. k # 1
  BY PowersAre DEF IsPowers
<1>3. k - 1 \in 1 .. 12 /\ Powers[k - 1] \in Nat
  BY <1>1, <1>2
<1> QED BY <1>1, <1>2, <1>3, PowersAre DEF IsPowers

\* What a number is divided by is not above it.
LEMMA DivIs ==
  ASSUME NEW n \in Usize, n >= 1000
  PROVE  Div(n) \in 1 .. n
<1> DEFINE High == {k \in 1 .. 12 : Powers[k] > n \div 1000}
           Is(k) == /\ Powers[k] > n \div 1000
                    /\ k = 1 \/ Powers[k - 1] <= n \div 1000
<1>1. UsizeMax \in Nat /\ n \in Nat /\ n <= UsizeMax
  BY UsizeAssumption DEF Usize
<1>2. n \div 1000 \in Nat /\ n \div 1000 >= 1 /\ 1000 * (n \div 1000) <= n
      /\ n \div 1000 <= UsizeMax \div 1000 /\ UsizeMax \div 1000 \in Nat
  BY <1>1
<1>3. High # {}
  <2>1. PICK k \in 1 .. 12 : Powers[k] > UsizeMax \div 1000
    BY PowersAre, UsizeAssumption
  <2> QED BY <1>2, <2>1, PowersAreNumbers
<1>4. PICK m \in High : \A k \in High : m <= k
  <2> HIDE DEF High
  <2>1. High \subseteq Nat
    BY DEF High
  <2> QED BY <1>3, <2>1, LeastIs
<1>5. Is(m)
  <2>1. CASE m = 1
    BY <1>4, <2>1
  <2>2. CASE m # 1
    <3>1. m - 1 \in 1 .. 12 /\ m - 1 \notin High
      BY <1>4, <2>2
    <3> QED BY <1>2, <1>4, <3>1, PowersAreNumbers
  <2> QED BY <2>1, <2>2
<1>6. Order(n) \in 1 .. 12 /\ Is(Order(n))
  <2>1. \E k \in DOMAIN ORDERS : Is(k)
    BY <1>4, <1>5, PowersAre
  <2>2. Order(n) \in DOMAIN ORDERS /\ Is(Order(n))
    BY <2>1 DEF Order
  <2> QED BY <2>2, PowersAre
<1> DEFINE d == Order(n)
<1>7. d \in 1 .. 12 /\ Is(d) /\ Div(n) = Powers[d]
  BY <1>6 DEF Div
<1> HIDE DEF d
<1>8. d # 1
  BY <1>2, <1>7, PowersAre DEF IsPowers
<1>9. d - 1 \in 1 .. 12 /\ Powers[d] = 1000 * Powers[d - 1] /\ Powers[d - 1] <= n \div 1000
  BY <1>7, <1>8, PowersAre DEF IsPowers
<1>10. Powers[d] \in Nat /\ Powers[d - 1] \in Nat
  BY <1>7, <1>9, PowersAreNumbers
<1> QED BY <1>1, <1>2, <1>7, <1>9, <1>10

\* encode_ordinal, by what it is for the rest.
OrdinalOf(f, n) ==
  CASE n <= 19 -> <<DIGITS_ORDINAL[n + 1]>>
    [] n \in 20 .. 99 -> Tens(n, TENS_ORDINAL, DIGITS_ORDINAL)
    [] n \in 100 .. 999 ->
         IF n % 100 = 0 THEN <<DIGITS[(n \div 100) + 1], Sep, "hundredth">>
         ELSE <<DIGITS[(n \div 100) + 1], Sep, "hundred", Sep, "and", Sep>> \o f[n % 100]
    [] OTHER ->
         IF n % Div(n) = 0 THEN encode[n \div Div(n)] \o <<Sep, ORDERS_ORDINAL[Order(n)]>>
         ELSE encode[n \div Div(n)] \o <<Sep, ORDERS[Order(n)], Sep>> \o f[n % Div(n)]

\* It depends on smaller numbers only.
LEMMA OrdinalDepends ==
  ASSUME NEW n \in Usize, NEW f, NEW g, \A k \in 0 .. n - 1 : f[k] = g[k]
  PROVE  OrdinalOf(f, n) = OrdinalOf(g, n)
<1>1. n \in Nat
  BY UsizeAssumption DEF Usize
<1>2. CASE n <= 99
  BY <1>1, <1>2 DEF OrdinalOf
<1>3. CASE n \in 100 .. 999
  <2>1. n % 100 \in 0 .. n - 1
    BY <1>3
  <2>2. f[n % 100] = g[n % 100]
    BY <2>1
  <2> QED BY <1>3, <2>2 DEF OrdinalOf
<1>4. CASE n >= 1000
  <2> DEFINE d == Div(n)
  <2>1. d \in 1 .. n
    BY <1>4, DivIs
  <2> HIDE DEF d
  <2>2. n % d \in 0 .. n - 1
    BY <1>1, <2>1
  <2>3. f[n % d] = g[n % d]
    BY <2>2
  <2>4. ~(n <= 19) /\ n \notin 20 .. 99 /\ n \notin 100 .. 999
    BY <1>1, <1>4
  <2> QED BY <2>3, <2>4 DEF OrdinalOf, d
<1> QED BY <1>1, <1>2, <1>3, <1>4

\* So it is what it is defined to be.
LEMMA OrdinalIs == \A n \in Usize : encode_ordinal[n] = OrdinalOf(encode_ordinal, n)
<1> DEFINE Rec(f) == [n \in Usize |-> OrdinalOf(f, n)]
           f == CHOOSE f : f = Rec(f)
           OrdinalTo(g, m) == \A n \in 0 .. m : g[n] = OrdinalOf(g, n)
           Without == {m \in Usize : ~\E g : OrdinalTo(g, m)}
<1>1. UsizeMax \in Nat /\ Usize = 0 .. UsizeMax
  BY UsizeAssumption DEF Usize
<1>2. Without = {}
  <2> SUFFICES ASSUME Without # {} PROVE FALSE
    OBVIOUS
  <2>1. PICK m \in Without : \A y \in Without : m <= y
    <3> HIDE DEF Without
    <3>1. Without \subseteq Nat
      BY <1>1 DEF Without
    <3> QED BY <3>1, LeastIs
  <2>2. PICK g : \A n \in 0 .. m - 1 : g[n] = OrdinalOf(g, n)
    <3>1. CASE m = 0
      BY <3>1
    <3>2. CASE m # 0
      <4>1. m - 1 \in Usize /\ m - 1 \notin Without
        BY <1>1, <2>1, <3>2
      <4> QED BY <4>1
    <3> QED BY <3>1, <3>2
  <2> DEFINE last == OrdinalOf(g, m)
             h == [n \in 0 .. m |-> IF n = m THEN last ELSE g[n]]
  <2>3. m \in Usize /\ m \in Nat
    BY <1>1, <2>1
  <2>4. h[m] = last /\ \A n \in 0 .. m - 1 : h[n] = g[n]
    <3> HIDE DEF last
    <3> QED BY <2>3
  <2> HIDE DEF h
  <2>5. ASSUME NEW n \in 0 .. m PROVE h[n] = OrdinalOf(h, n)
    <3>1. n \in Usize /\ \A k \in 0 .. n - 1 : h[k] = g[k]
      BY <1>1, <2>3, <2>4
    <3>2. OrdinalOf(h, n) = OrdinalOf(g, n)
      BY <3>1, OrdinalDepends
    <3>3. h[n] = OrdinalOf(g, n)
      <4>1. n = m \/ n \in 0 .. m - 1
        BY <2>3
      <4> QED BY <2>2, <2>4, <4>1
    <3> QED BY <3>2, <3>3
  <2> QED BY <2>1, <2>5
<1>3. \E g : g = Rec(g)
  <2>1. PICK g : OrdinalTo(g, UsizeMax)
    BY <1>1, <1>2
  <2> DEFINE h == [n \in Usize |-> g[n]]
  <2>2. \A n \in Usize : h[n] = g[n]
    OBVIOUS
  <2>3. ASSUME NEW n \in Usize PROVE h[n] = OrdinalOf(h, n)
    <3>1. \A k \in 0 .. n - 1 : h[k] = g[k]
      BY <1>1, <2>2
    <3> HIDE DEF h
    <3>2. OrdinalOf(h, n) = OrdinalOf(g, n)
      BY <3>1, OrdinalDepends
    <3> QED BY <1>1, <2>1, <2>2, <3>2
  <2>4. h = Rec(h)
    BY <2>3
  <2> QED BY <2>4
<1>4. f = Rec(f)
  BY <1>3
<1>5. encode_ordinal = f
  BY DEF encode_ordinal, OrdinalOf
<1> HIDE DEF f
<1>6. \A n \in Usize : f[n] = OrdinalOf(f, n)
  <2> DEFINE r == Rec(f)
  <2>1. \A n \in Usize : r[n] = OrdinalOf(f, n)
    OBVIOUS
  <2>2. f = r
    BY <1>4
  <2> HIDE DEF r
  <2> QED BY <2>1, <2>2
<1> QED BY <1>5, <1>6

-----------------------------------------------------------------------------
(* What the names of the methods say.                                      *)

\* To what was read before, the text adds n.
Adds(text, n) ==
  \/ Len(text) = 1 /\ \A v \in Nat : Reads(v, text[1]) = v + n
  \/ /\ Len(text) = 3
     /\ \A v \in Nat : Reads(Reads(Reads(v, text[1]), text[2]), text[3]) = v + n

\* The cases of encode_ordinal below a thousand.
LEMMA OrdinalCases ==
  ASSUME NEW f, NEW n \in Nat
  PROVE  /\ n <= 19 => OrdinalOf(f, n) = <<DIGITS_ORDINAL[n + 1]>>
         /\ n \in 20 .. 99 => OrdinalOf(f, n) = Tens(n, TENS_ORDINAL, DIGITS_ORDINAL)
         /\ n \in 100 .. 999 =>
              OrdinalOf(f, n) =
                IF n % 100 = 0 THEN <<DIGITS[(n \div 100) + 1], Sep, "hundredth">>
                ELSE <<DIGITS[(n \div 100) + 1], Sep, "hundred", Sep, "and", Sep>>
                       \o f[n % 100]
<1> DEFINE a == <<DIGITS_ORDINAL[n + 1]>>
           b == Tens(n, TENS_ORDINAL, DIGITS_ORDINAL)
           c == IF n % 100 = 0 THEN <<DIGITS[(n \div 100) + 1], Sep, "hundredth">>
                ELSE <<DIGITS[(n \div 100) + 1], Sep, "hundred", Sep, "and", Sep>>
                       \o f[n % 100]
           d == IF n % Div(n) = 0
                THEN encode[n \div Div(n)] \o <<Sep, ORDERS_ORDINAL[Order(n)]>>
                ELSE encode[n \div Div(n)] \o <<Sep, ORDERS[Order(n)], Sep>>
                       \o f[n % Div(n)]
<1>1. OrdinalOf(f, n) = CASE n <= 19 -> a [] n \in 20 .. 99 -> b
                          [] n \in 100 .. 999 -> c [] OTHER -> d
  BY DEF OrdinalOf
<1> HIDE DEF a, b, c, d
<1>2. /\ n <= 19 => OrdinalOf(f, n) = a
      /\ n \in 20 .. 99 => OrdinalOf(f, n) = b
      /\ n \in 100 .. 999 => OrdinalOf(f, n) = c
  BY <1>1
<1> QED BY <1>2 DEF a, b, c

\* How the words of the tables are read.
LEMMA ReadsDigits ==
  \A v \in Nat, j \in 1 .. 20 :
    Reads(v, DIGITS[j]) = v + (j - 1) /\ Reads(v, DIGITS_ORDINAL[j]) = v + (j - 1)
<1> SUFFICES ASSUME NEW v \in Nat, NEW j \in 1 .. 20
             PROVE  Reads(v, DIGITS[j]) = v + (j - 1)
                    /\ Reads(v, DIGITS_ORDINAL[j]) = v + (j - 1)
  OBVIOUS
<1> QED BY ReadsAre

LEMMA ReadsTens ==
  \A v \in Nat, t \in 1 .. 8 :
    Reads(v, TENS[t]) = v + 10 * (t + 1) /\ Reads(v, TENS_ORDINAL[t]) = v + 10 * (t + 1)
<1> SUFFICES ASSUME NEW v \in Nat, NEW t \in 1 .. 8
             PROVE  Reads(v, TENS[t]) = v + 10 * (t + 1)
                    /\ Reads(v, TENS_ORDINAL[t]) = v + 10 * (t + 1)
  OBVIOUS
<1> QED BY ReadsAre

\* The ordinal of a number below a hundred adds the number.
LEMMA AddsBelowHundred ==
  ASSUME NEW n \in 0 .. 99
  PROVE  Adds(encode_ordinal[n], n)
<1>1. n \in Usize /\ n \in Nat
  BY UsizeAssumption DEF Usize
<1>2. /\ n <= 19 => encode_ordinal[n] = <<DIGITS_ORDINAL[n + 1]>>
      /\ n \in 20 .. 99 => encode_ordinal[n] = Tens(n, TENS_ORDINAL, DIGITS_ORDINAL)
  <2>1. encode_ordinal[n] = OrdinalOf(encode_ordinal, n)
    BY <1>1, OrdinalIs
  <2> QED BY <1>1, <2>1, OrdinalCases
<1>3. CASE n <= 19
  <2> DEFINE word == DIGITS_ORDINAL[n + 1]
  <2>1. encode_ordinal[n] = <<word>>
    BY <1>2, <1>3
  <2>2. \A v \in Nat : Reads(v, word) = v + n
    <3>1. n + 1 \in 1 .. 20 /\ n + 1 - 1 = n
      BY <1>3
    <3> QED BY <3>1, ReadsDigits
  <2> HIDE DEF word
  <2> QED BY <2>1, <2>2 DEF Adds
<1>4. CASE n \in 20 .. 99
  <2> DEFINE t == n \div 10 - 1
             r == n % 10
  <2>1. t \in 1 .. 8 /\ r \in 0 .. 9 /\ n = 10 * (t + 1) + r
    BY <1>4
  <2>2. encode_ordinal[n] = IF r = 0 THEN <<TENS_ORDINAL[t]>>
                            ELSE <<TENS[t], Sep, DIGITS_ORDINAL[r + 1]>>
    BY <1>2, <1>4 DEF Tens
  <2> HIDE DEF t, r
  <2>3. CASE r = 0
    <3> DEFINE word == TENS_ORDINAL[t]
    <3>1. \A v \in Nat : Reads(v, word) = v + n
      BY <2>1, <2>3, ReadsTens
    <3>2. encode_ordinal[n] = <<word>>
      BY <2>2, <2>3
    <3> HIDE DEF word
    <3> QED BY <3>1, <3>2 DEF Adds
  <2>4. CASE r # 0
    <3> DEFINE tens == TENS[t]
               digit == DIGITS_ORDINAL[r + 1]
    <3>1. \A v \in Nat :
                 /\ Reads(v, tens) = v + 10 * (t + 1)
                 /\ Reads(v, Sep) = v
                 /\ Reads(v, digit) = v + (r + 1 - 1)
      <4>1. r + 1 \in 1 .. 20
        BY <2>1
      <4>2. ASSUME NEW v \in Nat
            PROVE  /\ Reads(v, TENS[t]) = v + 10 * (t + 1)
                   /\ Reads(v, Sep) = v
                   /\ Reads(v, DIGITS_ORDINAL[r + 1]) = v + (r + 1 - 1)
        <5>1. Reads(v, Sep) = v
          BY ReadsAre
        <5>2. Reads(v, TENS[t]) = v + 10 * (t + 1)
          BY <2>1, ReadsTens
        <5>3. Reads(v, DIGITS_ORDINAL[r + 1]) = v + (r + 1 - 1)
          BY <2>1, <4>1, ReadsDigits
        <5> QED BY <5>1, <5>2, <5>3
      <4> QED BY <4>2
    <3>2. encode_ordinal[n] = <<tens, Sep, digit>>
      BY <2>2, <2>4
    <3> HIDE DEF tens, digit
    <3>3. \A v \in Nat : Reads(Reads(Reads(v, tens), Sep), digit) = v + n
      BY <2>1, <3>1
    <3> QED BY <3>2, <3>3 DEF Adds
  <2> QED BY <2>3, <2>4
<1> QED BY <1>3, <1>4

\* So a text that adds n says n.
LEMMA SaysWhatItAdds ==
  ASSUME NEW text, NEW n \in Nat, Adds(text, n)
  PROVE  Says(text) = n
<1>0. Len(text) \in Nat
  BY DEF Adds
<1>1. PICK f : IsSum(f, text) /\ Says(text) = f[Len(text)]
  BY <1>0, SaysIs
<1>2. CASE /\ Len(text) = 1
           /\ \A v \in Nat : Reads(v, text[1]) = v + n
  <2>1. f[0] = 0 /\ f[1] = Reads(f[1 - 1], text[1])
    BY <1>1, <1>2 DEF IsSum
  <2> QED BY <1>1, <1>2, <2>1
<1>3. CASE /\ Len(text) = 3
           /\ \A v \in Nat : Reads(Reads(Reads(v, text[1]), text[2]), text[3]) = v + n
  <2>1. /\ f[0] = 0 /\ f[1] = Reads(f[1 - 1], text[1])
        /\ f[2] = Reads(f[2 - 1], text[2]) /\ f[3] = Reads(f[3 - 1], text[3])
    BY <1>1, <1>3 DEF IsSum
  <2> QED BY <1>1, <1>3, <2>1
<1> QED BY <1>2, <1>3 DEF Adds

\* After hundreds, what is added is added to them.
LEMMA SaysHundreds ==
  ASSUME NEW h \in Nat, NEW n \in Nat, NEW text, NEW rest,
         Len(rest) \in Nat, Len(text) = 6 + Len(rest), Adds(rest, n),
         Reads(0, text[1]) = h,
         text[2] = Sep, text[3] = "hundred", text[4] = Sep, text[5] = "and", text[6] = Sep,
         \A k \in 1 .. Len(rest) : text[6 + k] = rest[k]
  PROVE  Says(text) = 100 * h + n
<1>1. Len(text) \in Nat
  OBVIOUS
<1>2. PICK f : IsSum(f, text) /\ Says(text) = f[Len(text)]
  BY <1>1, SaysIs
<1>3. ASSUME NEW k \in Nat, k <= Len(text), k > 0
      PROVE  f[k] = Reads(f[k - 1], text[k])
  <2>1. k \in 1 .. Len(text)
    BY <1>1, <1>3
  <2>2. \A j \in 1 .. Len(text) : f[j] = Reads(f[j - 1], text[j])
    BY <1>2 DEF IsSum
  <2> QED BY <2>1, <2>2
<1>4. f[6] = 100 * h
  <2>1. /\ f[0] = 0
        /\ f[1] = Reads(f[0], text[1]) /\ f[2] = Reads(f[1], Sep)
        /\ f[3] = Reads(f[2], "hundred") /\ f[4] = Reads(f[3], Sep)
        /\ f[5] = Reads(f[4], "and") /\ f[6] = Reads(f[5], Sep)
    <3>1. /\ f[1] = Reads(f[1 - 1], text[1]) /\ f[2] = Reads(f[2 - 1], text[2])
          /\ f[3] = Reads(f[3 - 1], text[3]) /\ f[4] = Reads(f[4 - 1], text[4])
          /\ f[5] = Reads(f[5 - 1], text[5]) /\ f[6] = Reads(f[6 - 1], text[6])
      BY <1>3
    <3>2. f[0] = 0
      BY <1>2 DEF IsSum
    <3> QED BY <3>1, <3>2
  <2>2. /\ Reads(f[1], Sep) = f[1] /\ Reads(f[2], "hundred") = 100 * f[2]
        /\ Reads(f[3], Sep) = f[3] /\ Reads(f[4], "and") = f[4] /\ Reads(f[5], Sep) = f[5]
    BY ReadsAre
  <2> QED BY <2>1, <2>2
<1>5. 100 * h \in Nat
  OBVIOUS
<1>6. CASE /\ Len(rest) = 1
           /\ \A v \in Nat : Reads(v, rest[1]) = v + n
  <2>1. f[7] = Reads(f[6], text[7]) /\ text[7] = rest[1]
    <3>1. f[7] = Reads(f[7 - 1], text[7])
      BY <1>3, <1>6
    <3>2. text[6 + 1] = rest[1]
      BY <1>6
    <3> QED BY <3>1, <3>2
  <2>2. Len(text) = 7
    BY <1>6
  <2> QED BY <1>2, <1>4, <1>5, <1>6, <2>1, <2>2
<1>7. CASE /\ Len(rest) = 3
           /\ \A v \in Nat : Reads(Reads(Reads(v, rest[1]), rest[2]), rest[3]) = v + n
  <2>1. /\ f[7] = Reads(f[6], rest[1]) /\ f[8] = Reads(f[7], rest[2])
        /\ f[9] = Reads(f[8], rest[3])
    <3>1. /\ f[7] = Reads(f[7 - 1], text[7]) /\ f[8] = Reads(f[8 - 1], text[8])
          /\ f[9] = Reads(f[9 - 1], text[9])
      BY <1>3, <1>7
    <3>2. text[6 + 1] = rest[1] /\ text[6 + 2] = rest[2] /\ text[6 + 3] = rest[3]
      BY <1>7
    <3> QED BY <3>1, <3>2
  <2>2. Len(text) = 9
    BY <1>7
  <2> QED BY <1>2, <1>4, <1>5, <1>7, <2>1, <2>2
<1> QED BY <1>6, <1>7 DEF Adds

\* The ordinals below a hundred are sequences of words.
LEMMA WordsBelowHundred ==
  ASSUME NEW n \in 0 .. 99
  PROVE  \E S : encode_ordinal[n] \in Seq(S)
<1>1. n \in Usize /\ n \in Nat
  BY UsizeAssumption DEF Usize
<1>2. encode_ordinal[n] = OrdinalOf(encode_ordinal, n)
  BY <1>1, OrdinalIs
<1>3. \/ \E a : encode_ordinal[n] = <<a>>
      \/ \E a, b, c : encode_ordinal[n] = <<a, b, c>>
  <2>1. CASE n <= 19
    <3>1. encode_ordinal[n] = <<DIGITS_ORDINAL[n + 1]>>
      BY <1>1, <1>2, <2>1, OrdinalCases
    <3> QED BY <3>1
  <2>2. CASE n \in 20 .. 99
    <3>1. encode_ordinal[n] = Tens(n, TENS_ORDINAL, DIGITS_ORDINAL)
      BY <1>1, <1>2, <2>2, OrdinalCases
    <3>2. \/ encode_ordinal[n] = <<TENS_ORDINAL[n \div 10 - 1]>>
          \/ encode_ordinal[n] = <<TENS[n \div 10 - 1], Sep, DIGITS_ORDINAL[(n % 10) + 1]>>
      BY <3>1 DEF Tens
    <3> QED BY <3>2
  <2> QED BY <2>1, <2>2
<1>4. CASE \E a : encode_ordinal[n] = <<a>>
  <2>1. PICK a : encode_ordinal[n] = <<a>>
    BY <1>4
  <2>2. <<a>> \in Seq({a})
    OBVIOUS
  <2> QED BY <2>1, <2>2
<1>5. CASE \E a, b, c : encode_ordinal[n] = <<a, b, c>>
  <2>1. PICK a, b, c : encode_ordinal[n] = <<a, b, c>>
    BY <1>5
  <2>2. <<a, b, c>> \in Seq({a, b, c})
    OBVIOUS
  <2> QED BY <2>1, <2>2
<1> QED BY <1>3, <1>4, <1>5

\* Two sequences, one after the other.
LEMMA OneAfterAnother ==
  ASSUME NEW T, NEW s \in Seq(T), NEW t \in Seq(T)
  PROVE  /\ Len(s \o t) = Len(s) + Len(t)
         /\ \A k \in 1 .. Len(s) + Len(t) :
              (s \o t)[k] = IF k <= Len(s) THEN s[k] ELSE t[k - Len(s)]
OBVIOUS

\* A sequence of six and another, by what they hold.
LEMMA SixAnd ==
  ASSUME NEW a, NEW b, NEW c, NEW d, NEW e, NEW f, NEW S, NEW rest \in Seq(S),
         NEW text, text = <<a, b, c, d, e, f>> \o rest
  PROVE  /\ Len(rest) \in Nat /\ Len(text) = 6 + Len(rest)
         /\ text[1] = a /\ text[2] = b /\ text[3] = c
         /\ text[4] = d /\ text[5] = e /\ text[6] = f
         /\ \A k \in 1 .. Len(rest) : text[6 + k] = rest[k]
<1> DEFINE T == S \cup {a, b, c, d, e, f}
           head == <<a, b, c, d, e, f>>
<1>1. /\ head \in Seq(T) /\ Len(head) = 6
      /\ head[1] = a /\ head[2] = b /\ head[3] = c
      /\ head[4] = d /\ head[5] = e /\ head[6] = f
  OBVIOUS
<1>2. rest \in Seq(T) /\ Len(rest) \in Nat
  OBVIOUS
<1> HIDE DEF T, head
<1>3. text = head \o rest
  BY DEF head
<1>4. /\ Len(text) = 6 + Len(rest)
      /\ \A k \in 1 .. 6 : text[k] = head[k]
      /\ \A k \in 1 .. Len(rest) : text[6 + k] = rest[k]
  <2>1. /\ Len(head \o rest) = Len(head) + Len(rest)
        /\ \A k \in 1 .. Len(head) + Len(rest) :
             (head \o rest)[k] = IF k <= Len(head) THEN head[k] ELSE rest[k - Len(head)]
    BY <1>1, <1>2, OneAfterAnother
  <2>2. ASSUME NEW k \in 1 .. 6 PROVE text[k] = head[k]
    BY <1>1, <1>2, <1>3, <2>1
  <2>3. ASSUME NEW k \in 1 .. Len(rest) PROVE text[6 + k] = rest[k]
    <3>1. 6 + k \in 1 .. 6 + Len(rest) /\ ~(6 + k <= 6) /\ 6 + k - 6 = k
      BY <1>2
    <3> QED BY <1>1, <1>3, <2>1, <3>1
  <2> QED BY <1>1, <1>3, <2>1, <2>2, <2>3
<1> QED BY <1>1, <1>2, <1>4

\* The ordinal of a number below a thousand says the number.
LEMMA OrdinalSays ==
  ASSUME NEW n \in 0 .. 999
  PROVE  Says(encode_ordinal[n]) = n
<1>1. n \in Usize /\ n \in Nat
  BY UsizeAssumption DEF Usize
<1>2. CASE n <= 99
  <2>1. n \in 0 .. 99
    BY <1>2
  <2> QED BY <1>1, <2>1, AddsBelowHundred, SaysWhatItAdds
<1>3. CASE n \in 100 .. 999
  <2> DEFINE h == n \div 100
             r == n % 100
             digit == DIGITS[h + 1]
  <2>1. encode_ordinal[n] =
          IF r = 0 THEN <<digit, Sep, "hundredth">>
          ELSE <<digit, Sep, "hundred", Sep, "and", Sep>> \o encode_ordinal[r]
    <3>1. encode_ordinal[n] = OrdinalOf(encode_ordinal, n)
      BY <1>1, OrdinalIs
    <3> QED BY <1>1, <1>3, <3>1, OrdinalCases
  <2>2. h \in 1 .. 9 /\ r \in 0 .. 99 /\ n = 100 * h + r
    BY <1>3
  <2> HIDE DEF h, r
  <2>3. Reads(0, digit) = h
    <3>1. h + 1 \in 1 .. 20 /\ h \in Nat
      BY <2>2
    <3>2. Reads(0, DIGITS[h + 1]) = 0 + (h + 1 - 1)
      BY <3>1, ReadsDigits
    <3> QED BY <3>1, <3>2
  <2> HIDE DEF digit
  <2>4. CASE r = 0
    <3>1. encode_ordinal[n] = <<digit, Sep, "hundredth">>
      BY <2>1, <2>4
    <3> DEFINE text == encode_ordinal[n]
    <3>2. Len(text) = 3 /\ text[1] = digit /\ text[2] = Sep /\ text[3] = "hundredth"
      BY <3>1
    <3> HIDE DEF text
    <3>3. PICK f : IsSum(f, text) /\ Says(text) = f[Len(text)]
      <4>1. Len(text) \in Nat
        BY <3>2
      <4> QED BY <4>1, SaysIs
    <3>4. /\ f[0] = 0 /\ f[1] = Reads(f[1 - 1], text[1])
          /\ f[2] = Reads(f[2 - 1], text[2]) /\ f[3] = Reads(f[3 - 1], text[3])
      BY <3>2, <3>3 DEF IsSum
    <3>5. /\ f[1] = Reads(0, digit) /\ f[2] = Reads(f[1], Sep)
          /\ f[3] = Reads(f[2], "hundredth")
      BY <3>2, <3>4
    <3>6. Reads(f[1], Sep) = f[1] /\ Reads(f[2], "hundredth") = 100 * f[2]
      BY ReadsAre
    <3>7. n = 100 * h
      BY <2>2, <2>4
    <3>8. Says(text) = 100 * h
      BY <2>3, <3>2, <3>3, <3>5, <3>6
    <3> QED BY <3>7, <3>8 DEF text
  <2>5. CASE r # 0
    <3> DEFINE text == encode_ordinal[n]
               rest == encode_ordinal[r]
    <3>1. PICK S : rest \in Seq(S)
      BY <2>2, WordsBelowHundred
    <3>2. text = <<digit, Sep, "hundred", Sep, "and", Sep>> \o rest
      BY <2>1, <2>5
    <3>3. Adds(rest, r)
      BY <2>2, AddsBelowHundred
    <3> HIDE DEF text, rest
    <3>4. /\ Len(rest) \in Nat /\ Len(text) = 6 + Len(rest)
          /\ text[1] = digit /\ text[2] = Sep /\ text[3] = "hundred"
          /\ text[4] = Sep /\ text[5] = "and" /\ text[6] = Sep
          /\ \A k \in 1 .. Len(rest) : text[6 + k] = rest[k]
      BY <3>1, <3>2, SixAnd
    <3>5. h \in Nat /\ r \in Nat
      BY <2>2
    <3>6. Reads(0, text[1]) = h
      BY <2>3, <3>4
    <3>7. Says(text) = 100 * h + r
      BY <3>3, <3>4, <3>5, <3>6, SaysHundreds
    <3> QED BY <2>2, <3>7 DEF text
  <2> QED BY <2>4, <2>5
<1> QED BY <1>2, <1>3

-----------------------------------------------------------------------------
(* The methods of a builder.                                               *)

\* The inductive invariant: the i-th method so far is named for the i-th place.  What
\* item it is for, and how many fields it has, does not matter.
MethodsKept ==
  /\ \E S : methods \in Seq(S)
  /\ \A i \in DOMAIN methods : methods[i] = encode_ordinal[i]

LEMMA Methods_Init == Init => MethodsKept
<1> SUFFICES ASSUME methods = <<>> PROVE MethodsKept
  BY DEF Init
<1>1. methods \in Seq({}) /\ DOMAIN methods = {}
  OBVIOUS
<1> QED BY <1>1 DEF MethodsKept

LEMMA Methods_Add ==
  ASSUME MethodsKept, AddMethod PROVE MethodsKept'
<1>1. CASE UNCHANGED methods
  BY <1>1 DEF MethodsKept
<1>2. CASE methods' = Append(methods, encode_ordinal[Len(methods) + 1])
  <2>1. PICK S : methods \in Seq(S)
    BY DEF MethodsKept
  <2> DEFINE place == Len(methods) + 1
             name == encode_ordinal[place]
             T == S \cup {name}
  <2>2. methods \in Seq(T) /\ name \in T /\ Len(methods) \in Nat
    BY <2>1
  <2>3. methods' = Append(methods, name)
    BY <1>2
  <2>4. \A i \in 1 .. Len(methods) : methods[i] = encode_ordinal[i]
    BY <2>1 DEF MethodsKept
  <2> HIDE DEF T, name
  <2>5. /\ methods' \in Seq(T) /\ DOMAIN methods' = 1 .. place
        /\ methods'[place] = name
        /\ \A i \in 1 .. Len(methods) : methods'[i] = methods[i]
    BY <2>2, <2>3
  <2>6. ASSUME NEW i \in 1 .. place PROVE methods'[i] = encode_ordinal[i]
    <3>1. CASE i = place
      BY <2>5, <3>1 DEF name
    <3>2. CASE i # place
      <4>1. i \in 1 .. Len(methods)
        BY <2>2, <3>2
      <4> QED BY <2>4, <2>5, <4>1
    <3> QED BY <3>1, <3>2
  <2> QED BY <2>5, <2>6 DEF MethodsKept
<1> QED BY <1>1, <1>2 DEF AddMethod, End

LEMMA Methods_Next == MethodsKept /\ [Next]_vars => MethodsKept'
<1> SUFFICES ASSUME MethodsKept, [Next]_vars PROVE MethodsKept'
  OBVIOUS
<1>1. CASE AddMethod
  BY <1>1, Methods_Add
<1>2. CASE UNCHANGED methods
  BY <1>2 DEF MethodsKept
<1> QED
  BY <1>1, <1>2 DEF Next, vars, LookAtAttribute, NextVariant, ExpandVariant, ExpandField,
                    End, Choose

\* The method named for the first, the second, ... field sets that field, for each of
\* the first 999 fields of a tuple of any length (derive_builder_for_tuple_struct and
\* encode_ordinal).
THEOREM MethodsNamed == Spec => []NamedForTheirPlace
<1>1. MethodsKept => NamedForTheirPlace
  <2> SUFFICES ASSUME MethodsKept, NEW i \in DOMAIN methods, i < 1000
               PROVE  Says(methods[i]) = i
    BY DEF NamedForTheirPlace
  <2>1. methods[i] = encode_ordinal[i] /\ i \in 0 .. 999
    <3>1. PICK S : methods \in Seq(S)
      BY DEF MethodsKept
    <3>2. i \in 1 .. Len(methods) /\ Len(methods) \in Nat
      BY <3>1
    <3>3. i \in 0 .. 999
      <4>1. \A j \in 1 .. Len(methods) : j < 1000 => j \in 0 .. 999
        BY <3>2
      <4> QED BY <3>2, <4>1, Zenon
    <3>4. methods[i] = encode_ordinal[i]
      BY DEF MethodsKept
    <3> QED BY <3>3, <3>4
  <2> QED BY <2>1, OrdinalSays
<1> QED
  BY <1>1, Methods_Init, Methods_Next, PTL DEF Spec

=============================================================================
