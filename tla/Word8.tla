------------------------------- MODULE Word8 -------------------------------
(***************************************************************************)
(* Machine words of the simulator.  A WORD8 is a C int (types8.h): the     *)
(* twelve bits of the machine are a convention of the operations, not of   *)
(* the type, so words outside 0 .. 4095 do occur (the program counter is   *)
(* never masked, and JMS and the interrupt entry store it in memory).      *)
(* Bitwise operators are sums over the bits of the two's complement, wide  *)
(* enough for every word the simulator can hold: 13 bits and a sign.       *)
(***************************************************************************)
EXTENDS Integers

MEM8SIZ == 4096                 \* words of memory
SIGNBIT == \o4000
LMASK   == \o10000              \* the carry out of twelve bits

Addr == 0 .. MEM8SIZ - 1
Bit  == {0, 1}

(* Every value pc8, ac8 and a memory word can take.                        *)
Word == -8 .. 8191

(* Bit m (a power of two) of word w is set.                                *)
Has(w, m) == (w \div m) % 2 = 1

(* w & MASK12; the slip of forgetting the mask.                            *)
Unmasked(w) == w
Mask12(w) == w % MEM8SIZ

Both(x, y, m)   == IF Has(x, m) /\ Has(y, m) THEN m ELSE 0
Either(x, y, m) == IF Has(x, m) \/ Has(y, m) THEN m ELSE 0

(* The word with bits a .. m, each given by its weight, and sign weight s.  *)
BitSum(a, b, c, d, e, f, g, h, i, j, k, l, m, s) ==
  a + b + c + d + e + f + g + h + i + j + k + l + m - s

BitAnd(x, y) ==
  LET B(p) == Both(x, y, p)
  IN  BitSum(B(1), B(2), B(4), B(8), B(16), B(32), B(64), B(128), B(256),
             B(512), B(1024), B(2048), B(4096), B(8192))

BitOr(x, y) ==
  LET E(p) == Either(x, y, p)
  IN  BitSum(E(1), E(2), E(4), E(8), E(16), E(32), E(64), E(128), E(256),
             E(512), E(1024), E(2048), E(4096), E(8192))
=============================================================================
