------------------------------- MODULE Words --------------------------------
(***************************************************************************)
(* The machine's words and the operations of its alu (Machine.alu, also    *)
(* each lane of valu).  The machine computes modulo 2^32; M is the number  *)
(* of words, and the bitwise exclusive or is a parameter with its laws.    *)
(***************************************************************************)
EXTENDS Integers

CONSTANTS M,           \* words are 0 .. M - 1
          Xor(_, _)    \* bitwise exclusive or

Word == 0 .. M - 1

ASSUME WordAssumption == M \in Nat /\ M > 1

ASSUME XorAssumption ==
  /\ \A x, y \in Word : Xor(x, y) \in Word /\ Xor(x, y) = Xor(y, x)
  /\ \A x, y, z \in Word : Xor(Xor(x, y), z) = Xor(x, Xor(y, z))
  /\ \A x \in Word : Xor(x, x) = 0 /\ Xor(x, 0) = x

\* The low bit is the one exclusive or with 1 flips.
ASSUME LowBitAssumption ==
  \A x \in Word : Xor(x, 1) = IF x % 2 = 0 THEN x + 1 ELSE x - 1

\* A sum has the bits in which its terms differ once, those they share twice.
And(x, y) == (x + y - Xor(x, y)) \div 2

Alu(op, x, y) ==
  CASE op = "+"  -> (x + y) % M
    [] op = "-"  -> (x - y) % M
    [] op = "*"  -> (x * y) % M
    [] op = "^"  -> Xor(x, y)
    [] op = "&"  -> And(x, y)
    [] op = "<<" -> (x * 2 ^ y) % M
    [] op = ">>" -> x \div (2 ^ y)
    [] op = "==" -> IF x = y THEN 1 ELSE 0

Fma(x, y, z) == (((x * y) % M) + z) % M
=============================================================================
