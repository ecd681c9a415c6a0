------------------------------ MODULE MCPrintk ------------------------------
(* Eight bits' worth of numbers: hexadecimal digits of base 3 so that five  *)
(* of them make two groups, and 3^5 - 1 is 11110010 in base 2, as long as   *)
(* the buffer of eight.                                                     *)
EXTENDS Printk

Letter(c) == Item("char", c)
Ask(kind) == Item(kind, 0)
Calls(format, values) == [format : {format}, values : values]

Numbers == -Modulus \div 2 .. Modulus - 1

(* Each numeric directive with every number; the others, in all orders that *)
(* could take each other's arguments.                                       *)
MCCall ==
  UNION {Calls(<<Letter("a"), Ask(k), Letter("b")>>, {<<n>> : n \in Numbers}) :
           k \in {"x", "d", "u", "p"}}
  \cup Calls(<<Ask("d"), Ask("other"), Ask("p"), Ask("x")>>,
             {<<m, n, n>> : m \in {0, 1, Modulus - 1}, n \in {-1, 0, 7}})
  \cup Calls(<<Ask("c"), Ask("s"), Ask("u"), Letter("a"), Ask("end")>>,
             {<<"c", s, n>> : s \in {<<>>, <<Letter("s"), Letter("t")>>}, n \in {0, 9}})
==============================================================================
