------------------------------- MODULE Format -------------------------------
(***************************************************************************)
(* vsprintf of src/lib/vsprintf.c: the loop that walks fmt with its one    *)
(* pointer, stage by stage of a directive, and number, which lays out what *)
(* most directives print.  A step is a stage; va_arg is a choice from the  *)
(* arguments that callers pass.                                            *)
(***************************************************************************)
EXTENDS Integers, SequencesExt

CONSTANTS
    Formats,    \* the format strings vsprintf is called with
    UWORD,      \* u32 is modelled modulo UWORD: 2^32 in the source
    BUFFER,     \* the characters of a buffer that vsprintf writes to: 1024
    FRACTION,   \* a double is counted in these parts of 1: 1000000
    Numbers,    \* integer arguments, as u32
    Doubles,    \* double arguments, in FRACTIONs
    Strings,    \* char * arguments, and single characters
    Widths,     \* int arguments of a `*`
    Addresses   \* the bytes of a MAC address; an IP address is the first 4

ASSUME FormatAssumption ==
    /\ UWORD \in Nat \ {0} /\ UWORD % 2 = 0
    /\ BUFFER \in Nat
    /\ FRACTION \in Nat \ {0}
    /\ Numbers \subseteq 0 .. UWORD - 1
    /\ Formats \subseteq Seq(STRING)
    /\ Doubles \subseteq Int
    /\ Strings \subseteq Seq(STRING)
    /\ Widths \subseteq Int
    /\ Addresses \subseteq [1 .. 6 -> 0 .. 255]

VARIABLES
    stage,       \* where vsprintf is: "idle", "text", in a directive, or "halted"
    fmt,         \* the format string, without its NUL ...
    at,          \* ... and how far the pointer has come
    str,         \* what is in buf so far
    flags,
    field_width,
    precision,
    counted,     \* what the last %n has stored
    fields       \* history: the fields the last directive has written

formatVars == <<stage, fmt, at, str, flags, field_width, precision, counted, fields>>

-----------------------------------------------------------------------------
(* Characters *)

NUL == "NUL"
BLANK == " "
Decimal == <<"0", "1", "2", "3", "4", "5", "6", "7", "8", "9">>
Upper == <<"0", "1", "2", "3", "4", "5", "6", "7", "8", "9", "A", "B", "C", "D", "E", "F">>
Lower == <<"0", "1", "2", "3", "4", "5", "6", "7", "8", "9", "a", "b", "c", "d", "e", "f">>

\* *fmt.
Here == IF at \in DOMAIN fmt THEN fmt[at] ELSE NUL

IsDigit(c) == c \in ToSet(Decimal)

\* The first place from i on that holds no digit.
DigitsEnd(i) ==
    CHOOSE j \in i .. Len(fmt) + 1 :
        /\ \A k \in i .. j - 1 : IsDigit(fmt[k])
        /\ j \in DOMAIN fmt => ~IsDigit(fmt[j])

\* The place of c among the digits, 0 for another character.
PlaceOf(c, digits) == SelectInSeq(digits, LAMBDA d : d = c)

WithDigit(v, c, base, digits) ==
    IF PlaceOf(c, digits) = 0 THEN v ELSE v * base + PlaceOf(c, digits) - 1

\* The number that the digits of text make, whatever stands around them.
ValueOf(text, base, digits) ==
    LET value[i \in 0 .. Len(text)] ==
            IF i = 0 THEN 0 ELSE WithDigit(value[i - 1], text[i], base, digits)
    IN  value[Len(text)]

\* skip_atoi.
SkipAtoi == ValueOf(SubSeq(fmt, at, DigitsEnd(at) - 1), 10, Decimal)

Fill(n, c) == IF n < 1 THEN <<>> ELSE [i \in 1 .. n |-> c]

-----------------------------------------------------------------------------
(* number *)

\* The digits of n, without leading zeros.
DigitsOf(n, base, digits) ==
    LET text[k \in 0 .. n] == IF k < base THEN <<digits[k + 1]>>
                           ELSE Append(text[k \div base], digits[(k % base) + 1])
    IN  text[n]

DigitSet(flgs) == IF "SMALL" \in flgs THEN Lower ELSE Upper

Negative(num, flgs) ==
    \/ "DOUBLE" \in flgs /\ num < 0
    \/ "SIGN" \in flgs /\ "DOUBLE" \notin flgs /\ num >= UWORD \div 2

Sign(num, flgs) ==
    IF Negative(num, flgs) THEN <<"-">>
    ELSE IF "PLUS" \in flgs THEN <<"+">>
    ELSE IF "SPACE" \in flgs THEN <<BLANK>> ELSE <<>>

Prefix(base, flgs) ==
    IF "SPECIAL" \notin flgs THEN <<>>
    ELSE CASE base = 16 -> <<"0", IF "SMALL" \in flgs THEN "x" ELSE "X">>
           [] base = 8  -> <<"0">>
           [] OTHER     -> <<>>

\* tmp, in the order in which it is printed.
Converted(num, base, flgs) ==
    LET n == IF ~Negative(num, flgs) THEN num
             ELSE IF "DOUBLE" \in flgs THEN -num ELSE UWORD - num
    IN  IF "DOUBLE" \in flgs
        THEN DigitsOf(n \div FRACTION, base, DigitSet(flgs)) \o <<".">>
             \o DigitsOf(n % FRACTION, base, DigitSet(flgs))
        ELSE DigitsOf(n, base, DigitSet(flgs))

\* Fault: the prefix takes no room.
RoomBesidePrefix(size, sign, prefix, digits) == size - Len(sign) - Len(digits)

\* What is left of size for padding.
Room(size, sign, prefix, digits) == size - Len(sign) - Len(prefix) - Len(digits)

Number(num, base, size, prec, flgs) ==
    LET sign   == Sign(num, flgs)
        prefix == Prefix(base, flgs)
        tmp    == Converted(num, base, flgs)
        digits == Fill(prec - Len(tmp), "0") \o tmp
        room   == Room(size, sign, prefix, digits)
        zeros  == "ZEROPAD" \in flgs /\ "LEFT" \notin flgs
    IN  (IF "LEFT" \in flgs \/ zeros THEN <<>> ELSE Fill(room, BLANK))
        \o sign \o prefix
        \o (IF zeros THEN Fill(room, "0") ELSE <<>>)
        \o digits
        \o (IF "LEFT" \in flgs THEN Fill(room, BLANK) ELSE <<>>)

-----------------------------------------------------------------------------
(* vsprintf *)

\* Up to the next stage, n characters further.
Advance(from, to, n) ==
    /\ stage = from
    /\ stage' = to
    /\ at' = at + n
    /\ UNCHANGED fmt

Call ==
    /\ stage = "idle"
    /\ stage' = "text"
    /\ fmt' \in Formats
    /\ at' = 1
    /\ UNCHANGED <<str, flags, field_width, precision, counted, fields>>

\* Any other character is copied.
Plain ==
    /\ Here \notin {"%", NUL}
    /\ Advance("text", "text", 1)
    /\ str' = Append(str, Here)
    /\ fields' = <<>>
    /\ UNCHANGED <<flags, field_width, precision, counted>>

Percent ==
    /\ Here = "%"
    /\ Advance("text", "flags", 1)
    /\ flags' = {}
    /\ fields' = <<>>
    /\ UNCHANGED <<str, field_width, precision, counted>>

FlagOf == [c \in {"-", "+", " ", "#", "0"} |->
    CASE c = "-" -> "LEFT" [] c = "+" -> "PLUS" [] c = " " -> "SPACE"
      [] c = "#" -> "SPECIAL" [] c = "0" -> "ZEROPAD"]

\* One turn of `repeat`.
Flag ==
    /\ Here \in DOMAIN FlagOf
    /\ Advance("flags", "flags", 1)
    /\ flags' = flags \cup {FlagOf[Here]}
    /\ UNCHANGED <<str, field_width, precision, counted, fields>>

\* The width is in the format or the next argument; -1 when it is neither.
FieldWidth ==
    /\ Here \notin DOMAIN FlagOf
    /\ IF Here = "*"
       THEN \E w \in Widths :
                /\ field_width' = IF w < 0 THEN -w ELSE w
                /\ flags' = IF w < 0 THEN flags \cup {"LEFT"} ELSE flags
                /\ Advance("flags", "precision", 1)
       ELSE /\ field_width' = IF IsDigit(Here) THEN SkipAtoi ELSE -1
            /\ Advance("flags", "precision", DigitsEnd(at) - at)
            /\ UNCHANGED flags
    /\ UNCHANGED <<str, precision, counted, fields>>

NoPrecision ==
    /\ Here # "."
    /\ Advance("precision", "qualifier", 0)
    /\ precision' = -1
    /\ UNCHANGED <<str, flags, field_width, counted, fields>>

\* The pointer does not pass a `*` here.
Precision ==
    LET end == DigitsEnd(at + 1)
    IN  /\ Here = "."
        /\ Advance("precision", "qualifier", end - at)
        /\ IF at + 1 \in DOMAIN fmt /\ fmt[at + 1] = "*"
           THEN \E p \in Widths : precision' = IF p < 0 THEN 0 ELSE p
           ELSE precision' = ValueOf(SubSeq(fmt, at + 1, end - 1), 10, Decimal)
        /\ UNCHANGED <<str, flags, field_width, counted, fields>>

\* A qualifier is skipped.
Qualifier ==
    /\ Advance("qualifier", "conversion", IF Here \in {"h", "l", "L"} THEN 1 ELSE 0)
    /\ UNCHANGED <<str, flags, field_width, precision, counted, fields>>

\* A directive writes fs one after the other, with `separator` between them.
Write(fs, separator) ==
    LET joined == FoldLeft(LAMBDA text, f : text \o f.text \o separator, <<>>, fs)
    IN  /\ Advance("conversion", "text", 1)
        /\ str' = str \o SubSeq(joined, 1, Len(joined) - Len(separator))
        /\ fields' = fs
        /\ UNCHANGED <<flags, field_width, precision, counted>>

Field(arg, base, size, flgs, text) ==
    [arg |-> arg, base |-> base, size |-> size, prec |-> precision,
     flags |-> flgs, text |-> text]

NumberField(num, base, size, flgs) ==
    Field(num, base, size, flgs, Number(num, base, size, precision, flgs))

Base == [c \in {"o", "p", "x", "X", "d", "i", "u", "b"} |->
    CASE c = "o" -> 8 [] c \in {"p", "x", "X"} -> 16 [] c = "b" -> 2 [] OTHER -> 10]

FlagsFor(c) ==
    CASE c = "x" -> flags \cup {"SMALL"}
      [] c \in {"d", "i"} -> flags \cup {"SIGN"}
      [] c = "p" /\ field_width = -1 -> flags \cup {"ZEROPAD"}
      [] OTHER -> flags

Integer ==
    /\ Here \in DOMAIN Base
    /\ \E num \in Numbers :
            Write(<<NumberField(num, Base[Here],
                                IF Here = "p" /\ field_width = -1 THEN 8 ELSE field_width,
                                FlagsFor(Here))>>, <<>>)

Double ==
    /\ Here = "f"
    /\ \E num \in Doubles :
            Write(<<NumberField(num, 10, field_width, flags \cup {"SIGN", "DOUBLE"})>>, <<>>)

\* %m: six bytes, two digits each.
MacAddress ==
    /\ Here = "m"
    /\ \E bytes \in Addresses :
            Write([i \in 1 .. 6 |->
                    NumberField(bytes[i], 16, 2, flags \cup {"SMALL", "ZEROPAD"})], <<":">>)

\* %r: four bytes, each as wide as the field.
IpAddress ==
    /\ Here = "r"
    /\ \E bytes \in Addresses :
            Write([i \in 1 .. 4 |->
                    NumberField(bytes[i], 10, field_width, flags \cup {"SMALL"})], <<".">>)

\* %s cuts the string at the precision; %c takes the first character of one.
Text ==
    /\ Here \in {"c", "s"}
    /\ \E s \in Strings :
         LET most    == IF Here = "c" THEN 1 ELSE IF precision < 0 THEN Len(s) ELSE precision
             content == SubSeq(s, 1, Min({most, Len(s)}))
             blanks  == Fill(field_width - Len(content), BLANK)
         IN  /\ Here = "c" => s # <<>>
             /\ Write(<<Field(content, 0, field_width, flags,
                              IF "LEFT" \in flags THEN content \o blanks
                              ELSE blanks \o content)>>, <<>>)

\* %n.
Count ==
    /\ Here = "n"
    /\ Advance("conversion", "text", 1)
    /\ counted' = Len(str)
    /\ UNCHANGED <<str, flags, field_width, precision, fields>>

\* Fault: the pointer passes the NUL.
LastStepAlways == 1

\* At the NUL the pointer is set back, for the loop to find it again.
LastStep == IF Here = NUL THEN 0 ELSE 1

\* Anything else is copied behind a `%`, but a `%` only once.
Unknown ==
    /\ Here \notin DOMAIN Base \cup {"f", "m", "r", "c", "s", "n"}
    /\ Advance("conversion", "text", LastStep)
    /\ str' = str \o (IF Here \in {"%", NUL} THEN <<"%">> ELSE <<"%", Here>>)
    /\ UNCHANGED <<flags, field_width, precision, counted, fields>>

\* The NUL ends the loop; what was kept of the call is forgotten.
Return ==
    /\ stage = "text" /\ Here = NUL /\ Len(str) < BUFFER
    /\ stage' = "idle"
    /\ fmt' = <<>> /\ at' = 1 /\ str' = <<>> /\ flags' = {}
    /\ field_width' = -1 /\ precision' = -1 /\ counted' = 0 /\ fields' = <<>>

\* assert(i < 1024) stops the kernel, once all has been written.
BufferAssert ==
    /\ stage = "text" /\ Here = NUL /\ Len(str) >= BUFFER
    /\ stage' = "halted"
    /\ UNCHANGED <<fmt, at, str, flags, field_width, precision, counted, fields>>

FormatInit ==
    /\ stage = "idle"
    /\ fmt = <<>> /\ at = 1 /\ str = <<>> /\ flags = {}
    /\ field_width = -1 /\ precision = -1 /\ counted = 0 /\ fields = <<>>

FormatNext ==
    \/ Call \/ Plain \/ Percent \/ Return \/ BufferAssert
    \/ Flag \/ FieldWidth \/ NoPrecision \/ Precision \/ Qualifier
    \/ Integer \/ Double \/ MacAddress \/ IpAddress \/ Text \/ Count \/ Unknown

-----------------------------------------------------------------------------
(* Properties *)

\* How many digits n has.
Length(n, base) ==
    LET length[k \in 0 .. n] == IF k < base THEN 1 ELSE 1 + length[k \div base]
    IN  length[n]

\* The number that a reader of the field makes out.
ReadBack(f) ==
    LET digits    == SubSeq(DigitSet(f.flags), 1, f.base)
        magnitude == ValueOf(f.text, f.base, digits)
    IN  IF "-" \in ToSet(f.text) THEN -magnitude ELSE magnitude

\* The value of an argument, and the room its digits, sign and prefix take.
Meant(f) == IF "SIGN" \in f.flags /\ "DOUBLE" \notin f.flags /\ f.arg >= UWORD \div 2
            THEN f.arg - UWORD ELSE f.arg

Needed(f) ==
    LET n == IF Meant(f) < 0 THEN -Meant(f) ELSE Meant(f)
        digits == IF "DOUBLE" \in f.flags
                  THEN Length(n \div FRACTION, 10) + 1 + Length(n % FRACTION, 10)
                  ELSE Length(n, f.base)
        others == (IF Meant(f) < 0 \/ {"PLUS", "SPACE"} \cap f.flags # {} THEN 1 ELSE 0)
                  + (IF "SPECIAL" \in f.flags /\ f.base \in {8, 16} THEN f.base \div 8 ELSE 0)
    IN  IF f.base = 0 THEN Len(f.arg) ELSE Max({digits, f.prec}) + others

FieldIsRight(f) ==
    LET pad == Len(f.text) - Needed(f)
    IN  /\ Len(f.text) = Max({f.size, Needed(f)})
        /\ IF "LEFT" \in f.flags
           THEN SubSeq(f.text, Needed(f) + 1, Len(f.text)) = Fill(pad, BLANK)
           ELSE f.base = 0 \/ "ZEROPAD" \notin f.flags =>
                    SubSeq(f.text, 1, pad) = Fill(pad, BLANK)
        /\ f.base # 0 /\ "DOUBLE" \notin f.flags => ReadBack(f) = Meant(f)

\* A field is as wide as the format says or as its content needs, padded on the
\* one side the flags say, and can be read back: number counts the room down
\* through sign, prefix, digits and precision and pads from three places.
FieldsAreRight == \A i \in DOMAIN fields : FieldIsRight(fields[i])

\* The pointer never passes the NUL of fmt, wherever in a directive the format
\* ends: the stages move it by themselves and the loop once more.
FormatReadOnce == at \in 1 .. Len(fmt) + 1

=============================================================================
