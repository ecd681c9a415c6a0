------------------------------- MODULE Printk -------------------------------
(***************************************************************************)
(* printk, kernel/generic/printk.c: a pass over the format that prints each*)
(* argument as its directive says.  The two number conversions go digit by *)
(* digit, as in the code: kputhex from the top four bits down, kputdec into*)
(* a buffer that it fills from its end.                                    *)
(*                                                                         *)
(* A format is a sequence of items: a plain character, or a directive (the *)
(* letter after "%"; "end" is a "%" at the end of the string).  An integer *)
(* has WIDTH digits of base HEX, that of C 16 of base 16; the buffer of    *)
(* kputdec has BUF digits of base DEC, that of C 20 of base 10.            *)
(***************************************************************************)
EXTENDS Integers, Sequences, FiniteSets

CONSTANTS
  HEX, WIDTH,   \* base and number of the digits of kputhex
  DEC, BUF,     \* base of kputdec's digits, and the length of its buffer
  Call          \* the calls explored: [format, values]

Power(b, n) ==
  LET power[k \in 0 .. n] == IF k = 0 THEN 1 ELSE b * power[k - 1]
  IN  power[n]

Modulus == Power(HEX, WIDTH)

Item(kind, val) == [kind |-> kind, val |-> val]
Directive == {"x", "d", "u", "p", "c", "s", "end", "other"}

(* The item of a format that takes an argument, and the number of those up *)
(* to the item k.                                                          *)
Takes(item) == item.kind \in {"x", "d", "u", "p", "c", "s"}
ArgumentsTo(c, k) == Cardinality({j \in 1 .. k : Takes(c.format[j])})

(* 64 bits are at most 20 decimal digits. *)
ASSUME PrintkAssumption ==
  /\ {HEX, DEC} \subseteq Nat \ {0, 1}
  /\ {WIDTH, BUF} \subseteq Nat \ {0}
  /\ Modulus <= Power(DEC, BUF)

(* What C asks of a call: a "%" at the end is at the end, and there is an  *)
(* argument for each directive that takes one, a number where it must be.  *)
ASSUME CallAssumption ==
  \A c \in Call :
    /\ c.format \in Seq({c.format[k] : k \in DOMAIN c.format})
    /\ \A k \in DOMAIN c.format :
         /\ c.format[k].kind \in Directive \cup {"char"}
         /\ c.format[k].kind = "end" => k = Len(c.format)
         /\ Takes(c.format[k]) => ArgumentsTo(c, k) \in DOMAIN c.values
         /\ c.format[k].kind \in {"x", "d", "u", "p"} => c.values[ArgumentsTo(c, k)] \in Int

VARIABLES
  call,      \* what printk was called with
  fmt,       \* the item of the format it is at
  ap,        \* how many arguments it has taken
  returned,  \* printk has returned
  out        \* what has been sent to the console, a sequence for each item

printkVars == <<call, fmt, ap, returned, out>>

-----------------------------------------------------------------------------
(***************************************************************************)
(* kputhex and kputdec: what they send to the console.  A definition whose *)
(* name has an underscore and a word after it is a plausible mistake in the*)
(* one it is named after.                                                  *)
(***************************************************************************)

(* A digit that is sent, with the comma in front of it if there is one. *)
Digit(val, comma) == [kind |-> "digit", val |-> val, comma |-> comma]

(* The loop of both conversions, over digits from the first to the last:   *)
(* what it skips before the first that is not zero, unless it must not.    *)
Sent(digit, leading, forced) ==
  LET n == Len(digit)
      turn[k \in 0 .. n] ==
        IF k = 0 THEN [leading |-> leading, out |-> <<>>]
        ELSE LET wanted == turn[k - 1].leading \/ digit[k].val # 0
             IN  [leading |-> wanted,
                  out |-> IF wanted \/ k \in forced THEN Append(turn[k - 1].out, digit[k])
                          ELSE turn[k - 1].out]
  IN  turn[n].out

HexDigit(x, i) == (x \div Power(HEX, i)) % HEX

Spacer(i) == i # WIDTH - 1 /\ (i + 1) % 4 = 0

kputhex(x, leading, spacers) ==
  Sent([k \in 1 .. WIDTH |-> Digit(HexDigit(x, WIDTH - k), spacers /\ Spacer(WIDTH - k))],
       leading, {})

(* for (int i = 19; x; x /= 10, i--): the turns, and the byte each fills. *)
LastIndex_OffByOne == BUF - 2
LastIndex == BUF - 1
Turns(x) == {k \in 0 .. BUF : x \div Power(DEC, k) # 0}
Filled(x) == {LastIndex - k : k \in Turns(x)}

Buffer(x) ==
  [j \in 0 .. BUF - 1 |->
     IF j \in Filled(x) THEN (x \div Power(DEC, LastIndex - j)) % DEC ELSE 0]

(* The last digit is printed in any case. *)
kputdec(x) == Sent([k \in 1 .. BUF |-> Digit(Buffer(x)[k - 1], FALSE)], FALSE, {BUF})

-----------------------------------------------------------------------------
(***************************************************************************)
(* printk: one turn of its loop for each item of the format.               *)
(***************************************************************************)

AtItem(kinds) ==
  /\ ~ returned
  /\ fmt <= Len(call.format)
  /\ call.format[fmt].kind \in kinds
  /\ fmt' = fmt + 1
  /\ UNCHANGED <<call, returned>>

(* va_arg; as an unsigned 64-bit number, whatever its sign was. *)
Argument == call.values[ap + 1]
Unsigned == Argument % Modulus

Plain ==
  /\ AtItem({"char"})
  /\ out' = Append(out, <<call.format[fmt]>>)
  /\ UNCHANGED ap

(* A directive that takes an argument and prints s. *)
Prints(kinds, s) ==
  /\ AtItem(kinds)
  /\ ap' = ap + 1
  /\ out' = Append(out, s)

(* %x: no leading zeros; %p: all digits, in groups of four. *)
PointerLeading_Never == FALSE
PointerLeading == TRUE
Hexadecimal == Prints({"x"}, kputhex(Unsigned, FALSE, FALSE))
PointerDigits == Prints({"p"}, kputhex(Unsigned, PointerLeading, TRUE))
Decimal == Prints({"d", "u"}, kputdec(Unsigned))
Character == Prints({"c"}, <<Item("char", Argument)>>)
String == Prints({"s"}, Argument)

(* Any other directive prints nothing and takes no argument. *)
Unknown ==
  /\ AtItem({"other"})
  /\ out' = Append(out, <<>>)
  /\ UNCHANGED ap

(* The end of the format, or "%" before it. *)
Return ==
  /\ ~ returned
  /\ fmt <= Len(call.format) => call.format[fmt].kind = "end"
  /\ returned' = TRUE
  /\ UNCHANGED <<call, fmt, ap, out>>

PrintkStart ==
  /\ call \in Call
  /\ fmt = 1
  /\ ap = 0
  /\ returned = FALSE
  /\ out = <<>>

PrintkNext ==
  \/ Plain
  \/ Hexadecimal
  \/ PointerDigits
  \/ Decimal
  \/ Character
  \/ String
  \/ Unknown
  \/ Return

PrintkSpec == PrintkStart /\ [][PrintkNext]_printkVars

-----------------------------------------------------------------------------
(***************************************************************************)
(* What printk should print.                                               *)
(***************************************************************************)

(* The number that digits denote. *)
Value(s, base) ==
  LET value[k \in 0 .. Len(s)] == IF k = 0 THEN 0 ELSE value[k - 1] * base + s[k].val
  IN  value[Len(s)]

Denotes(s, n, base) ==
  /\ \A k \in 1 .. Len(s) : s[k].kind = "digit" /\ s[k].val \in 0 .. base - 1
  /\ Value(s, base) = n

(* Without leading zeros, or commas: for 0 no digits. *)
Numeral(s, n, base) ==
  /\ Denotes(s, n, base)
  /\ s # <<>> => s[1].val # 0
  /\ \A k \in 1 .. Len(s) : ~ s[k].comma

(* All the digits of n, a comma before each group of four but the first. *)
Grouped(s, n) ==
  /\ Denotes(s, n, HEX)
  /\ Len(s) = WIDTH
  /\ \A k \in 1 .. WIDTH : s[k].comma <=> k > 1 /\ (WIDTH - k + 1) % 4 = 0

Renders(s, item, value) ==
  CASE item.kind = "char" -> s = <<item>>
    [] item.kind = "x" -> Numeral(s, value % Modulus, HEX)
    [] item.kind \in {"d", "u"} -> IF value % Modulus = 0 THEN s = <<Digit(0, FALSE)>>
                                   ELSE Numeral(s, value % Modulus, DEC)
    [] item.kind = "p" -> Grouped(s, value % Modulus)
    [] item.kind = "c" -> s = <<Item("char", value)>>
    [] item.kind = "s" -> s = value
    [] item.kind = "other" -> s = <<>>

(* For each item of the format printk has printed the plain character or   *)
(* the numeral of its own argument, whatever came before: %x without       *)
(* leading zeros (for 0 nothing at all), %p all digits, %d and %u in       *)
(* decimal, where %d prints a negative number as the unsigned number of    *)
(* the same bits.  When it returns it is done with all of the format.      *)
PrintsExpected ==
  /\ \A k \in DOMAIN out :
       Renders(out[k], call.format[k], call.values[ArgumentsTo(call, k)])
  /\ returned => \A k \in DOMAIN call.format : k \in DOMAIN out \/ call.format[k].kind = "end"

(* kputdec never writes outside its buffer: the largest number fills it to *)
(* the first byte and no further.                                          *)
BufferInBounds ==
  ~ returned /\ fmt <= Len(call.format) /\ call.format[fmt].kind \in {"d", "u"} =>
    Filled(Unsigned) \subseteq 0 .. BUF - 1
==============================================================================
