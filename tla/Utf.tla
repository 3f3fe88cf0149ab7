-------------------------------- MODULE Utf --------------------------------
(***************************************************************************)
(* utf16le_to_utf8: the name of a record, from the 16-bit code units on    *)
(* the volume to the bytes of a std::string.  NULs are dropped, and a      *)
(* surrogate without its other half becomes U+FFFD.                        *)
(***************************************************************************)
EXTENDS Integers, SequencesExt

CodeUnits == {unit \in Nat : unit < 65536}
High(unit) == unit \in 55296..56319   \* D800..DBFF
Low(unit) == unit \in 56320..57343    \* DC00..DFFF
Replacement == 65533                  \* U+FFFD

Combined(high, low) == 65536 + 1024 * (high - 55296) + (low - 56320)

append_utf8(cp) ==
    LET tail(shifted) == 128 + (shifted % 64) IN
    IF cp <= 127 THEN <<cp>>
    ELSE IF cp <= 2047 THEN <<192 + (cp \div 64), tail(cp)>>
    ELSE IF cp <= 65535 THEN <<224 + (cp \div 4096), tail(cp \div 64), tail(cp)>>
    ELSE <<240 + (cp \div 262144), tail(cp \div 4096), tail(cp \div 64), tail(cp)>>

\* A slip: a high surrogate takes whatever follows for its other half.
SlipPaired(units, i) == High(units[i]) /\ i < Len(units)

Paired(units, i) == High(units[i]) /\ i < Len(units) /\ Low(units[i + 1])

\* What the code unit at i becomes, or it and the next one.
CodePoint(units, i) ==
    IF Paired(units, i) THEN Combined(units[i], units[i + 1])
    ELSE IF High(units[i]) \/ Low(units[i]) THEN Replacement
    ELSE units[i]

\* One turn of the loop; `taken` code units are behind it.
Convert(units, s) ==
    LET i == s.taken + 1
        cp == CodePoint(units, i)
    IN  IF s.taken = Len(units) THEN s
        ELSE [taken |-> IF Paired(units, i) THEN i + 1 ELSE i,
              out |-> IF cp = 0 THEN s.out ELSE s.out \o append_utf8(cp)]

utf16le_to_utf8(units) ==
    LET after[turn \in 0..Len(units)] ==
            IF turn = 0 THEN [taken |-> 0, out |-> <<>>]
            ELSE Convert(units, after[turn - 1])
    IN  after[Len(units)].out

-----------------------------------------------------------------------------
(* What the conversion is for, stated without it.                          *)

\* The characters that code units stand for: every unit starts one, but for
\* NULs and for the low half that follows its high half.
Characters(units) ==
    LET Joins(i) == i \in DOMAIN units /\ i + 1 \in DOMAIN units
                    /\ High(units[i]) /\ Low(units[i + 1])
        Begins(i) == units[i] # 0 /\ ~Joins(i - 1)
        Character(i) == IF Joins(i) THEN Combined(units[i], units[i + 1])
                        ELSE IF High(units[i]) \/ Low(units[i]) THEN Replacement
                        ELSE units[i]
    IN  FlattenSeq([i \in DOMAIN units |-> IF Begins(i) THEN <<Character(i)>> ELSE <<>>])

\* How many bytes a character with this lead byte has, the bits of it there, and
\* the least character that needs so many bytes.
Width(lead) == IF lead < 128 THEN 1 ELSE IF lead < 224 THEN 2 ELSE IF lead < 240 THEN 3 ELSE 4
LeadBits(lead) == lead - <<0, 192, 224, 240>>[Width(lead)]
LeastOf(width) == <<0, 128, 2048, 65536>>[width]

\* A decoder takes a byte: `left` more are due for the character it is in, of which
\* `value` is known.  Text is ill-formed from the first byte out of its place on, or
\* from a character that has too many bytes.
Decode(s, byte) ==
    LET leads == byte < 128 \/ byte >= 192
        left == (IF leads THEN Width(byte) ELSE s.left) - 1
        least == IF leads THEN LeastOf(Width(byte)) ELSE s.least
        value == IF leads THEN LeadBits(byte) ELSE s.value * 64 + byte - 128
    IN  [formed |-> s.formed /\ (leads <=> s.left = 0) /\ (left = 0 => value >= least),
         left |-> left, least |-> least, value |-> value,
         characters |-> IF left = 0 THEN Append(s.characters, value) ELSE s.characters]

Undecoded == [formed |-> TRUE, left |-> 0, least |-> 0, value |-> 0, characters |-> <<>>]

Decoded(bytes) ==
    LET after[i \in 0..Len(bytes)] ==
            IF i = 0 THEN Undecoded ELSE Decode(after[i - 1], bytes[i])
    IN  after[Len(bytes)]

\* The bytes are well-formed UTF-8 and stand for these characters.
IsUtf8Of(bytes, characters) ==
    Decoded(bytes).formed /\ Decoded(bytes).left = 0 /\ Decoded(bytes).characters = characters
=============================================================================
