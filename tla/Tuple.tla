-------------------------------- MODULE Tuple --------------------------------
(***************************************************************************)
(* internal/tuple: Form lays a row out behind the tuple header, Deform     *)
(* reads it back.  A tuple is its header fields, its length and what is    *)
(* stored at each offset.  A descriptor is the sequence of column types; a *)
(* value is an integer or NULL, a text value the length of the string.     *)
(***************************************************************************)
EXTENDS Integers, Sequences

FixedHeaderSize == 19
MaxColumns      == 1600
NattsMask       == 2047
MaxHoff         == 255

Null == -1

Types == {"Int4", "Int8", "Bool", "Text"}
Size(type)  == CASE type = "Int4" -> 4 [] type = "Int8" -> 8
                 [] type = "Bool" -> 1 [] type = "Text" -> -1
Align(type) == CASE type = "Int4" -> 4 [] type = "Int8" -> 8
                 [] type = "Bool" -> 1 [] type = "Text" -> 4
\* The bytes of a value: a text has its length before it.
Bytes(type, v) == IF Size(type) = -1 THEN 4 + v ELSE Size(type)

AlignUp(n, a) == a * ((n + a - 1) \div a)

\* The bitmap is there only if some attribute is NULL.
Hoff(natts, hasNull) ==
    AlignUp(FixedHeaderSize + IF hasNull THEN (natts + 7) \div 8 ELSE 0, 8)

\* The widest table still fits the 11 bits of natts and the byte of hoff.
ASSUME WidestTable == MaxColumns <= NattsMask /\ Hoff(MaxColumns, TRUE) <= MaxHoff

\* Slip: the position is aligned before the null check.
EndOfAligned(type, v, pos) ==
    IF v = Null THEN AlignUp(pos, Align(type))
    ELSE AlignUp(pos, Align(type)) + Bytes(type, v)

\* Where attribute i ends, given where the one before it does.
EndOf(type, v, pos) ==
    IF v = Null THEN pos ELSE AlignUp(pos, Align(type)) + Bytes(type, v)

\* Where every attribute starts and ends; the first one starts behind the header.
StartOf(desc, i, pos) == AlignUp(pos, Align(desc[i]))

Ends(desc, values, hoff) ==
    LET end[i \in 0 .. Len(desc)] ==
            IF i = 0 THEN hoff ELSE EndOf(desc[i], values[i], end[i - 1])
    IN  end

\* xmin, xmax, ctid and the hint bits start out zero.
Form(desc, values) ==
    LET hasNull == \E i \in 1 .. Len(desc) : values[i] = Null
        hoff    == Hoff(Len(desc), hasNull)
        end     == Ends(desc, values, hoff)
        present == {i \in 1 .. Len(desc) : values[i] # Null}
        start(i) == StartOf(desc, i, end[i - 1])
    IN  [xmin |-> 0, xmax |-> 0, ctid |-> <<0, 0>>,
         natts |-> Len(desc), hasNull |-> hasNull, present |-> present,
         hoff |-> hoff, len |-> end[Len(desc)],
         data |-> [o \in {start(i) : i \in present} |->
                     values[CHOOSE i \in present : start(i) = o]]]

IsNull(t, i) == i > t.natts \/ (t.hasNull /\ i \notin t.present)

Corrupt == <<"ErrCorrupt">>
Garbage == -2   \* bytes at an offset no value was stored at

ValueAt(t, o) == IF o \in DOMAIN t.data THEN t.data[o] ELSE Garbage

\* Deform walks the descriptor with a position of its own: an attribute it
\* takes for NULL does not move it, one past the end is corruption.
ReadEnds(desc, t) ==
    LET end[i \in 0 .. Len(desc)] ==
            IF i = 0 THEN t.hoff
            ELSE IF IsNull(t, i) THEN end[i - 1]
            ELSE LET start == StartOf(desc, i, end[i - 1])
                 IN  start + Bytes(desc[i], ValueAt(t, start))
    IN  end

Deform(desc, t) ==
    LET end == ReadEnds(desc, t)
    IN  IF \/ t.len < FixedHeaderSize \/ t.natts > Len(desc) \/ t.hoff > t.len
           \/ \E i \in 1 .. Len(desc) : end[i] > t.len
        THEN Corrupt
        ELSE [i \in 1 .. Len(desc) |->
                 IF IsNull(t, i) THEN Null ELSE ValueAt(t, StartOf(desc, i, end[i - 1]))]
=============================================================================
