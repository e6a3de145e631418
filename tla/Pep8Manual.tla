----------------------------- MODULE Pep8Manual -----------------------------
(***************************************************************************)
(* What doc/pep8.7 promises of the instructions, stated over the state of  *)
(* Pep8Cpu as properties of its steps.  The manual describes the           *)
(* arithmetic on one register of thirteen bits, the link above the         *)
(* accumulator, and the effect of each instruction by its result; the code *)
(* works on two variables and masks at chosen places.                      *)
(***************************************************************************)
EXTENDS Pep8Cpu

(* The thirteen-bit register (L, AC).                                      *)
LinkAc == link8 * 4096 + ac8

(* The processor holds only what the manual lets it hold.                  *)
TwelveBits == /\ pc8 \in 0 .. 4095
              /\ ac8 \in 0 .. 4095
              /\ \A a \in DOMAIN mem8 : mem8[a] \in 0 .. 4095

Executed(c) == at = "execute" /\ at' # "execute" /\ at' # "wild"
               /\ TwelveBits /\ opcode \div 512 = c

(* What no memory instruction, micro-operation or skip changes.            *)
Untouched == UNCHANGED <<ien8, irq8, running>>

(* One micro-operation on a thirteen-bit value.                            *)
Meaning(bit, v) ==
  CASE bit = \o200 -> (v \div 4096) * 4096
    [] bit = \o100 -> v % 4096
    [] bit = \o040 -> (v \div 4096) * 4096 + (4095 - (v % 4096))
    [] bit = \o020 -> (v + 4096) % 8192
    [] bit = \o010 -> (v % 2) * 4096 + (v \div 2)
    [] bit = \o004 -> ((v * 2) % 8192) + (v \div 4096)
    [] bit = \o002 -> (v - 1) % 8192
    [] bit = \o001 -> (v + 1) % 8192

MicroOpBits == <<\o200, \o100, \o040, \o020, \o010, \o004, \o002, \o001>>

(* The micro-operations selected in op, from bit 4 of the manual to bit 11 *)
Selected(op, v) ==
  LET f[n \in 0 .. 8] ==
        IF n = 0 THEN v
        ELSE IF Has(op, MicroOpBits[n]) THEN Meaning(MicroOpBits[n], f[n - 1])
        ELSE f[n - 1]
  IN  f[8]

(* pep8.7:183 "Die Operationen werden schrittweise abgearbeitet, beginnend *)
(* mit Bit 4 bis Bit 11": every combination of micro-operations is the     *)
(* composition of its parts on the thirteen-bit register (decodeopr), and  *)
(* nothing but that register and the program counter changes.              *)
MicroOpsStep ==
  Executed(7) /\ ~Has(opcode, \o400)
  => /\ LinkAc' = Selected(opcode, LinkAc) /\ pc8' = pc8 + 1
     /\ UNCHANGED mem8 /\ Untouched
MicroOpsCompose == [][MicroOpsStep]_cpuvars

(* pep8.7:245-258: a skip of the or type is taken when a selected          *)
(* condition holds, one of the and type when none does; without a          *)
(* condition SKN never skips and SKP always does (decodeopr, group 2).     *)
Conditions == {b \in {\o040, \o020, \o010} : Has(opcode, b)}
Holds(b)   == CASE b = \o040 -> ac8 > 2047
                [] b = \o020 -> ac8 = 0
                [] b = \o010 -> link8 = 1
SkipStep ==
  Executed(7) /\ Has(opcode, \o400) /\ ~Has(opcode, \o200) /\ opcode % 8 = 0
  => LET skips == IF Has(opcode, \o100) THEN \A b \in Conditions : ~Holds(b)
                                        ELSE \E b \in Conditions : Holds(b)
     IN  /\ pc8' = pc8 + (IF skips THEN 2 ELSE 1)
         /\ UNCHANGED <<mem8, ac8, link8>> /\ Untouched
SkipsFollowManual == [][SkipStep]_cpuvars

(* pep8.7:85-110: the effective address is formed from the page of the     *)
(* instruction or page zero, and dereferenced once when indirect.          *)
Effective ==
  LET direct == (opcode % 128)
                + 128 * (IF Has(opcode, \o200) THEN pc8 \div 128 ELSE 0)
  IN  IF Has(opcode, \o400) THEN MemWord(direct) ELSE direct

(* The words of memory but those of S are what they were, also those never *)
(* stored, which are 0.                                                    *)
OthersKept(S) == /\ DOMAIN mem8' = DOMAIN mem8 \cup S
                 /\ \A a \in DOMAIN mem8 \ S : mem8'[a] = mem8[a]

Bits12 == {1, 2, 4, 8, 16, 32, 64, 128, 256, 512, 1024, 2048}

(* On words of twelve bits a memory instruction does what the manual says  *)
(* to the register or word it names, and changes no other (pep8.7:118-147, *)
(* execute.c): RCL, AND, ORA and TAD write no memory, the first three keep *)
(* the link; STO and JMS write the addressed word alone and keep the       *)
(* registers; JMP changes the program counter only.  AND and ORA work bit  *)
(* by bit.                                                                 *)
(* TAD is stated as execute.c:55 has it, for either link: it adds the old  *)
(* link as 1.  pep8.7:134 adds the operand to the thirteen-bit value of    *)
(* link and accumulator, which is the same when the link is clear only.    *)
MemoryStep ==
  LET m == MemWord(Effective)
      Loads  == pc8' = pc8 + 1 /\ UNCHANGED mem8
      Stores == OthersKept({Effective}) /\ UNCHANGED <<ac8, link8>>
  IN
  /\ Executed(0) => Loads /\ ac8' = m /\ link8' = link8
  /\ Executed(1) => Stores /\ pc8' = pc8 + 1 /\ mem8'[Effective] = ac8
  /\ Executed(2) => /\ Loads /\ link8' = link8
                    /\ \A b \in Bits12 : Has(ac8', b) <=> Has(ac8, b) /\ Has(m, b)
  /\ Executed(3) => /\ Loads /\ link8' = link8
                    /\ \A b \in Bits12 : Has(ac8', b) <=> Has(ac8, b) \/ Has(m, b)
  /\ Executed(4) => /\ Loads
                    /\ LinkAc' = ac8 + link8 + m /\ ac8' \in 0 .. 4095
  /\ Executed(5) => pc8' = Effective /\ UNCHANGED <<mem8, ac8, link8>>
  /\ Executed(6) => Stores /\ pc8' = Effective + 1 /\ mem8'[Effective] = pc8 + 1
  /\ (\E c \in 0 .. 6 : Executed(c)) => Untouched
MemoryFollowsManual == [][MemoryStep]_cpuvars

(* Every OPR instruction does what the manual says of its bits: the micro- *)
(* operations one after the other, and the skips (pep8.7:183-258).         *)
OprFollowsManual == MicroOpsCompose /\ SkipsFollowManual
=============================================================================
