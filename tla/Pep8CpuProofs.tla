--------------------------- MODULE Pep8CpuProofs ---------------------------
(***************************************************************************)
(* The range of the machine's registers and of its memory, for every       *)
(* image, origin and environment: TypeOK is inductive; and that the        *)
(* processor does what the manual says of its instructions.                *)
(***************************************************************************)
EXTENDS Pep8Manual, TLAPS

(***************************************************************************)
(* Words: the bitwise operators of Word8 stay within Word.                 *)
(***************************************************************************)
LEMMA WordBounds ==
  \A w : w \in Word <=> w \in Int /\ -8 <= w /\ w <= 8191
<1>1. ASSUME NEW w \in Word PROVE w \in Int /\ -8 <= w /\ w <= 8191
  BY DEF Word
<1>2. ASSUME NEW w \in Int, -8 <= w, w <= 8191 PROVE w \in Word
  BY <1>2 DEF Word
<1> QED
  BY <1>1, <1>2

(* The sign bit of a word that is not negative is clear.                   *)
LEMMA HasOfNonNegative ==
  ASSUME NEW w \in Word, w >= 0 PROVE ~Has(w, 8192)
BY WordBounds DEF Has

(* A negative word is at least -8: all bits but the last three are set.    *)
LEMMA HasOfNegative ==
  ASSUME NEW w \in Word, w < 0
  PROVE  /\ Has(w, 8) /\ Has(w, 16) /\ Has(w, 32) /\ Has(w, 64)
         /\ Has(w, 128) /\ Has(w, 256) /\ Has(w, 512) /\ Has(w, 1024)
         /\ Has(w, 2048) /\ Has(w, 4096) /\ Has(w, 8192)
BY WordBounds DEF Has

(* Each argument is within the weight of its bit.                          *)
Bits(a, b, c, d, e, f, g, h, i, j, k, l, m) ==
  /\ a \in 0 .. 1
  /\ b \in 0 .. 2
  /\ c \in 0 .. 4
  /\ d \in 0 .. 8
  /\ e \in 0 .. 16
  /\ f \in 0 .. 32
  /\ g \in 0 .. 64
  /\ h \in 0 .. 128
  /\ i \in 0 .. 256
  /\ j \in 0 .. 512
  /\ k \in 0 .. 1024
  /\ l \in 0 .. 2048
  /\ m \in 0 .. 4096

(* Bits below the sign make a word that is not negative.                   *)
LEMMA BitSumPositive ==
  ASSUME NEW a, NEW b, NEW c, NEW d, NEW e, NEW f, NEW g, NEW h, NEW i,
         NEW j, NEW k, NEW l, NEW m,
         Bits(a, b, c, d, e, f, g, h, i, j, k, l, m)
  PROVE  BitSum(a, b, c, d, e, f, g, h, i, j, k, l, m, 0) \in Word
<1>1. LET w == BitSum(a, b, c, d, e, f, g, h, i, j, k, l, m, 0)
      IN  w \in Int /\ -8 <= w /\ w <= 8191
  BY DEF BitSum, Bits
<1> QED
  BY <1>1, WordBounds

(* With the sign and all bits but the last three set it is at least -8.    *)
LEMMA BitSumNegative ==
  ASSUME NEW a \in 0 .. 1, NEW b \in 0 .. 2, NEW c \in 0 .. 4
  PROVE  LET w == BitSum(a, b, c, 8, 16, 32, 64, 128, 256, 512, 1024, 2048,
                         4096, 8192)
         IN  w \in Int /\ -8 <= w /\ w <= 8191
BY DEF BitSum

(* What AND leaves in the accumulator is a word (execute.c).               *)
THEOREM BitAndInWord ==
  ASSUME NEW x \in Word, NEW y \in Word PROVE BitAnd(x, y) \in Word
<1>0. x \in Int /\ y \in Int
  BY WordBounds
<1>1. CASE x >= 0 \/ y >= 0
  <2>1. /\ Both(x, y, 1) \in 0 .. 1
        /\ Both(x, y, 2) \in 0 .. 2
        /\ Both(x, y, 4) \in 0 .. 4
        /\ Both(x, y, 8) \in 0 .. 8
        /\ Both(x, y, 16) \in 0 .. 16
        /\ Both(x, y, 32) \in 0 .. 32
        /\ Both(x, y, 64) \in 0 .. 64
        /\ Both(x, y, 128) \in 0 .. 128
        /\ Both(x, y, 256) \in 0 .. 256
        /\ Both(x, y, 512) \in 0 .. 512
        /\ Both(x, y, 1024) \in 0 .. 1024
        /\ Both(x, y, 2048) \in 0 .. 2048
        /\ Both(x, y, 4096) \in 0 .. 4096
    BY DEF Both
  <2>2. Both(x, y, 8192) = 0
    <3>1. ~Has(x, 8192) \/ ~Has(y, 8192)
      BY <1>1, HasOfNonNegative
    <3> QED
      BY <3>1 DEF Both
  <2> QED
    <3>1. BitAnd(x, y)
            = BitSum(Both(x, y, 1), Both(x, y, 2), Both(x, y, 4),
                     Both(x, y, 8), Both(x, y, 16), Both(x, y, 32),
                     Both(x, y, 64), Both(x, y, 128), Both(x, y, 256),
                     Both(x, y, 512), Both(x, y, 1024), Both(x, y, 2048),
                     Both(x, y, 4096), 0)
      BY <2>2 DEF BitAnd
    <3>2. Bits(Both(x, y, 1), Both(x, y, 2), Both(x, y, 4),
               Both(x, y, 8), Both(x, y, 16), Both(x, y, 32),
               Both(x, y, 64), Both(x, y, 128), Both(x, y, 256),
               Both(x, y, 512), Both(x, y, 1024), Both(x, y, 2048),
               Both(x, y, 4096))
      BY <2>1, Zenon DEF Bits
    <3> QED
      BY <3>1, <3>2, BitSumPositive
<1>2. CASE x < 0 /\ y < 0
  <2>1. /\ Both(x, y, 8) = 8 /\ Both(x, y, 16) = 16
        /\ Both(x, y, 32) = 32 /\ Both(x, y, 64) = 64
        /\ Both(x, y, 128) = 128 /\ Both(x, y, 256) = 256
        /\ Both(x, y, 512) = 512 /\ Both(x, y, 1024) = 1024
        /\ Both(x, y, 2048) = 2048 /\ Both(x, y, 4096) = 4096
        /\ Both(x, y, 8192) = 8192
    BY <1>2, HasOfNegative DEF Both
  <2>2. /\ Both(x, y, 1) \in 0 .. 1
        /\ Both(x, y, 2) \in 0 .. 2
        /\ Both(x, y, 4) \in 0 .. 4
    BY DEF Both
  <2>3. BitAnd(x, y) \in Int /\ -8 <= BitAnd(x, y) /\ BitAnd(x, y) <= 8191
    BY <2>1, <2>2, BitSumNegative DEF BitAnd
  <2> QED
    BY <2>3, WordBounds
<1> QED
  BY <1>0, <1>1, <1>2

(* What ORA leaves in the accumulator is a word (execute.c).               *)
THEOREM BitOrInWord ==
  ASSUME NEW x \in Word, NEW y \in Word PROVE BitOr(x, y) \in Word
<1>0. x \in Int /\ y \in Int
  BY WordBounds
<1>1. CASE x >= 0 /\ y >= 0
  <2>1. /\ Either(x, y, 1) \in 0 .. 1
        /\ Either(x, y, 2) \in 0 .. 2
        /\ Either(x, y, 4) \in 0 .. 4
        /\ Either(x, y, 8) \in 0 .. 8
        /\ Either(x, y, 16) \in 0 .. 16
        /\ Either(x, y, 32) \in 0 .. 32
        /\ Either(x, y, 64) \in 0 .. 64
        /\ Either(x, y, 128) \in 0 .. 128
        /\ Either(x, y, 256) \in 0 .. 256
        /\ Either(x, y, 512) \in 0 .. 512
        /\ Either(x, y, 1024) \in 0 .. 1024
        /\ Either(x, y, 2048) \in 0 .. 2048
        /\ Either(x, y, 4096) \in 0 .. 4096
    BY DEF Either
  <2>2. Either(x, y, 8192) = 0
    <3>1. ~Has(x, 8192) /\ ~Has(y, 8192)
      BY <1>1, HasOfNonNegative
    <3> QED
      BY <3>1 DEF Either
  <2> QED
    <3>1. BitOr(x, y)
            = BitSum(Either(x, y, 1), Either(x, y, 2), Either(x, y, 4),
                     Either(x, y, 8), Either(x, y, 16), Either(x, y, 32),
                     Either(x, y, 64), Either(x, y, 128), Either(x, y, 256),
                     Either(x, y, 512), Either(x, y, 1024), Either(x, y, 2048),
                     Either(x, y, 4096), 0)
      BY <2>2 DEF BitOr
    <3>2. Bits(Either(x, y, 1), Either(x, y, 2), Either(x, y, 4),
               Either(x, y, 8), Either(x, y, 16), Either(x, y, 32),
               Either(x, y, 64), Either(x, y, 128), Either(x, y, 256),
               Either(x, y, 512), Either(x, y, 1024), Either(x, y, 2048),
               Either(x, y, 4096))
      BY <2>1, Zenon DEF Bits
    <3> QED
      BY <3>1, <3>2, BitSumPositive
<1>2. CASE x < 0 \/ y < 0
  <2>1. /\ Either(x, y, 8) = 8 /\ Either(x, y, 16) = 16
        /\ Either(x, y, 32) = 32 /\ Either(x, y, 64) = 64
        /\ Either(x, y, 128) = 128 /\ Either(x, y, 256) = 256
        /\ Either(x, y, 512) = 512 /\ Either(x, y, 1024) = 1024
        /\ Either(x, y, 2048) = 2048 /\ Either(x, y, 4096) = 4096
        /\ Either(x, y, 8192) = 8192
    BY <1>2, HasOfNegative DEF Either
  <2>2. /\ Either(x, y, 1) \in 0 .. 1
        /\ Either(x, y, 2) \in 0 .. 2
        /\ Either(x, y, 4) \in 0 .. 4
    BY DEF Either
  <2>3. BitOr(x, y) \in Int /\ -8 <= BitOr(x, y) /\ BitOr(x, y) <= 8191
    BY <2>1, <2>2, BitSumNegative DEF BitOr
  <2> QED
    BY <2>3, WordBounds
<1> QED
  BY <1>0, <1>1, <1>2

(***************************************************************************)
(* Micro-operations                                                        *)
(***************************************************************************)
LAs == [link : Bit, ac : Word]

LEMMA LAIsLA ==
  ASSUME NEW l \in Bit, NEW a \in Word
  PROVE  LA(l, a) \in LAs /\ LA(l, a).link = l /\ LA(l, a).ac = a
BY DEF LA, LAs

LEMMA TwelveBitsInWord ==
  ASSUME NEW w, w \in Int, 0 <= w, w <= 4095 PROVE w \in Word
BY WordBounds

LEMMA TwelveBitsInInt ==
  ASSUME NEW w, w \in 0 .. 4095 PROVE w \in Int /\ 0 <= w /\ w <= 4095
OBVIOUS

LEMMA HltStops == ASSUME Hlt PROVE running' \in BOOLEAN
BY DEF Hlt

LEMMA AddrBounds ==
  ASSUME NEW a, a \in Int, 0 <= a, a < 4096 PROVE a \in Addr
BY DEF Addr, MEM8SIZ

LEMMA Mask12InWord ==
  ASSUME NEW w \in Int PROVE Mask12(w) \in Word
<1>1. Mask12(w) \in Int /\ -8 <= Mask12(w) /\ Mask12(w) <= 8191
  BY DEF Mask12, MEM8SIZ
<1> QED
  BY <1>1, WordBounds

(* Each micro-operation keeps the link a bit and the accumulator a word.   *)
LEMMA MicroOpsType ==
  ASSUME NEW s \in LAs
  PROVE  /\ Cla(s) \in LAs /\ Cll(s) \in LAs /\ Cma(s) \in LAs
         /\ Cml(s) \in LAs /\ Rar(s) \in LAs /\ Ral(s) \in LAs
         /\ Dac(s) \in LAs /\ Iac(s) \in LAs
<1>1. s.link \in Bit /\ s.ac \in Word
  BY DEF LAs
<1>2. s.ac \in Int /\ -8 <= s.ac /\ s.ac <= 8191
  BY <1>1, WordBounds
<1>3. 0 \in Word /\ 0 \in Bit /\ 1 - s.link \in Bit
  BY <1>1, WordBounds DEF Bit
<1>4. Cla(s) \in LAs /\ Cll(s) \in LAs /\ Cml(s) \in LAs
  BY <1>1, <1>3, LAIsLA DEF Cla, Cll, Cml
<1>5. Cma(s) \in LAs
  BY <1>1, <1>2, LAIsLA, Mask12InWord DEF Cma
<1>6. Dac(s) \in LAs /\ Iac(s) \in LAs
  BY <1>1, <1>2, <1>3, LAIsLA, Mask12InWord DEF Dac, Iac
<1>7. Ral(s) \in LAs
  <2>1. 2 * s.ac + s.link \in Int
    BY <1>1, <1>2 DEF Bit
  <2> QED
    BY <2>1, LAIsLA, Mask12InWord DEF Ral, Bit
<1>8. Rar(s) \in LAs
  <2> DEFINE w == IF s.link = 1 /\ ~Has(s.ac, LMASK) THEN s.ac + LMASK ELSE s.ac
  <2>1. w \in Int /\ -8 <= w /\ w <= 12287
    BY <1>2 DEF LMASK
  <2> HIDE DEF w
  <2>2. w % 2 \in Bit
    BY <2>1 DEF Bit
  <2>3. w \div 2 \in Int /\ -8 <= w \div 2 /\ w \div 2 <= 8191
    BY <2>1
  <2>4. Rar(s) = LA(w % 2, w \div 2)
    BY DEF Rar, w
  <2> QED
    BY <2>2, <2>3, <2>4, LAIsLA, WordBounds
<1> QED
  BY <1>4, <1>5, <1>6, <1>7, <1>8

LEMMA Group1Type ==
  ASSUME NEW s \in LAs PROVE MicroOps(s) \in LAs
<1> DEFINE s1 == IF Has(opcode, \o200) THEN Cla(s) ELSE s
           s2 == IF Has(opcode, \o100) THEN Cll(s1) ELSE s1
           s3 == IF Has(opcode, \o040) THEN Cma(s2) ELSE s2
           s4 == IF Has(opcode, \o020) THEN Cml(s3) ELSE s3
           s5 == IF Has(opcode, \o010) THEN Rar(s4) ELSE s4
           s6 == IF Has(opcode, \o004) THEN Ral(s5) ELSE s5
           s7 == IF Has(opcode, \o002) THEN Dac(s6) ELSE s6
           s8 == IF Has(opcode, \o001) THEN Iac(s7) ELSE s7
<1>0. MicroOps(s) = s8
  BY Zenon DEF MicroOps, When
<1>1. s1 \in LAs
  BY MicroOpsType
<1> HIDE DEF s1
<1>2. s2 \in LAs
  BY <1>1, MicroOpsType
<1> HIDE DEF s2
<1>3. s3 \in LAs
  BY <1>2, MicroOpsType
<1> HIDE DEF s3
<1>4. s4 \in LAs
  BY <1>3, MicroOpsType
<1> HIDE DEF s4
<1>5. s5 \in LAs
  BY <1>4, MicroOpsType
<1> HIDE DEF s5
<1>6. s6 \in LAs
  BY <1>5, MicroOpsType
<1> HIDE DEF s6
<1>7. s7 \in LAs
  BY <1>6, MicroOpsType
<1> HIDE DEF s7
<1>8. s8 \in LAs
  BY <1>7, MicroOpsType
<1> HIDE DEF s8
<1> QED
  BY <1>0, <1>8

(***************************************************************************)
(* Memory and addressing                                                   *)
(***************************************************************************)
LEMMA MemWordType ==
  ASSUME TypeOK, NEW a PROVE MemWord(a) \in Word
BY WordBounds DEF TypeOK, MemoryOK, MemWord

LEMMA StoreDef ==
  ASSUME NEW a, NEW w
  PROVE  /\ DOMAIN Store(a, w) = (DOMAIN mem8) \cup {a}
         /\ \A b \in DOMAIN Store(a, w) :
               Store(a, w)[b] = IF b = a THEN w ELSE mem8[b]
BY DEF Store

LEMMA StoreType ==
  ASSUME TypeOK, NEW a \in Addr, NEW w \in Word
  PROVE  /\ DOMAIN Store(a, w) \subseteq Addr
         /\ \A b \in DOMAIN Store(a, w) : Store(a, w)[b] \in Word
<1>1. DOMAIN mem8 \subseteq Addr /\ \A b \in DOMAIN mem8 : mem8[b] \in Word
  BY DEF TypeOK, MemoryOK
<1>2. /\ DOMAIN Store(a, w) = (DOMAIN mem8) \cup {a}
      /\ \A b \in DOMAIN Store(a, w) :
            Store(a, w)[b] = IF b = a THEN w ELSE mem8[b]
  BY DEF Store
<1> HIDE DEF Store
<1> QED
  BY <1>1, <1>2

LEMMA ArgType ==
  ASSUME TypeOK, pc8 \in Addr
  PROVE  arg \in Word
<1>1. opcode \in Int
  BY MemWordType, WordBounds DEF opcode
<1>2. Direct \in Int /\ -8 <= Direct /\ Direct <= 8191
  <2> DEFINE offset == opcode % 128
             base == pc8 - (pc8 % 128)
             page == IF Has(opcode, \o200) THEN base ELSE 0
  <2>1. offset \in Int /\ 0 <= offset /\ offset <= 127
    BY <1>1
  <2>2. page \in Int /\ 0 <= page /\ page <= 4095
    <3>1. base \in Int /\ 0 <= base /\ base <= 4095
      BY DEF Addr, MEM8SIZ
    <3> HIDE DEF base
    <3> QED
      BY <3>1
  <2>3. Direct = offset + page
    BY DEF Direct
  <2> HIDE DEF offset, page
  <2> QED
    BY <2>1, <2>2, <2>3
<1> QED
  BY <1>2, MemWordType, WordBounds DEF arg

LEMMA LargerType ==
  ASSUME NEW x \in Int, NEW y \in Int
  PROVE  /\ Larger(x, y) \in {x, y}
         /\ x <= Larger(x, y) /\ y <= Larger(x, y)
BY DEF Larger

(* memtop never decreases and reaches the operand and the new pc8.         *)
LEMMA FinishType ==
  ASSUME TypeOK, NEW pc \in Word, pc8 \in Addr, Finish(pc)
  PROVE  /\ pc8' \in Word
         /\ memtop' \in 0 .. 8191 /\ memtop <= memtop' /\ arg <= memtop'
         /\ at' = "poll" /\ irq8' \in Bit
<1>1. arg \in Int /\ arg <= 8191
  BY ArgType, WordBounds
<1>2. pc \in Int /\ pc <= 8191
  BY WordBounds
<1>3. memtop \in Int /\ 0 <= memtop /\ memtop <= 8191
  BY DEF TypeOK, RegistersOK
<1>4. /\ Larger(memtop, arg) \in Int /\ memtop <= Larger(memtop, arg)
      /\ arg <= Larger(memtop, arg) /\ Larger(memtop, arg) <= 8191
  BY <1>1, <1>3 DEF Larger
<1>5. memtop' = Larger(Larger(memtop, arg), pc)
  BY DEF Finish
<1>6. /\ memtop' \in Int /\ Larger(memtop, arg) <= memtop' /\ memtop' <= 8191
  BY <1>2, <1>4, <1>5 DEF Larger
<1>7. memtop' \in 0 .. 8191 /\ memtop <= memtop' /\ arg <= memtop'
  BY <1>1, <1>3, <1>4, <1>6
<1> QED
  BY <1>7 DEF Finish, TypeOK, RegistersOK

LEMMA FinishOprType ==
  ASSUME TypeOK, NEW pc \in Word, FinishOpr(pc)
  PROVE  /\ pc8' \in Word
         /\ memtop' \in 0 .. 8191 /\ memtop <= memtop'
         /\ at' = "poll" /\ submod' \in Bit
<1>1. pc \in Int /\ pc <= 8191
  BY WordBounds
<1>2. memtop \in Int /\ 0 <= memtop /\ memtop <= 8191
  BY DEF TypeOK, RegistersOK
<1>3. memtop' = Larger(memtop, pc)
  BY DEF FinishOpr
<1>4. memtop' \in Int /\ memtop <= memtop' /\ memtop' <= 8191
  BY <1>1, <1>2, <1>3 DEF Larger
<1>5. memtop' \in 0 .. 8191 /\ memtop <= memtop'
  BY <1>2, <1>4
<1> QED
  BY <1>5 DEF FinishOpr, Bit

(* Every way on from an instruction of memory leads to a word.             *)
LEMMA PcType ==
  ASSUME NEW p \in Addr, NEW d \in 0 .. 7
  PROVE  /\ p \in Word /\ p + 1 \in Word /\ p + 2 \in Word /\ p - d \in Word
BY WordBounds DEF Addr, MEM8SIZ

(***************************************************************************)
(* The invariant: ranges, and memtop above everything stored.  The second  *)
(* conjunct needs the first (memtop and operands are numbers).             *)
(***************************************************************************)
IInv == TypeOK /\ StoredBelowMemtop

LEMMA InitLoaded == CpuInit => Loadable(mem8, memtop)
BY ImageAssumption DEF ImageAssumption, CpuInit

LEMMA InitInv == CpuInit => IInv
<1> SUFFICES ASSUME CpuInit PROVE IInv
  OBVIOUS
<1>0. Loadable(mem8, memtop)
  BY InitLoaded
<1>1. memtop \in Int /\ 0 <= memtop /\ memtop <= 4096
  BY <1>0 DEF Loadable, MEM8SIZ
<1>2. ASSUME NEW a \in DOMAIN mem8
      PROVE  /\ a \in Addr /\ a <= memtop
             /\ mem8[a] \in Int /\ 0 <= mem8[a] /\ mem8[a] <= 4095
  <2>1. a \in 0 .. memtop - 1
    BY <1>0 DEF Loadable
  <2>2. mem8[a] \in 0 .. 4095
    BY <1>0 DEF Loadable
  <2>3. a \in Int /\ 0 <= a /\ a < 4096 /\ a <= memtop
    BY <1>1, <2>1
  <2>4. a \in Addr
    BY <2>3, AddrBounds
  <2>5. mem8[a] \in Int /\ 0 <= mem8[a] /\ mem8[a] <= 4095
    BY <2>2, TwelveBitsInInt
  <2> QED
    BY <2>3, <2>4, <2>5
<1>3. MemoryOK
  <2>1. ASSUME NEW a \in DOMAIN mem8 PROVE mem8[a] \in Word
    BY <1>2, TwelveBitsInWord
  <2> QED
    BY <1>2, <2>1 DEF MemoryOK
<1>4. ac8 \in Word /\ pc8 \in Word
  <2>1. /\ 0 \in Int /\ -8 <= 0 /\ 0 <= 8191
        /\ Origin \in Int /\ -8 <= Origin /\ Origin <= 8191
    BY DeviceAssumption DEF DeviceAssumption, Addr, MEM8SIZ
  <2> QED
    BY <2>1, WordBounds DEF CpuInit
<1>5. memtop \in 0 .. 8191
  BY <1>1
<1>6. RegistersOK
  <2>1. /\ link8 = 0 /\ ien8 = 0 /\ irq8 = 0 /\ submod = 0
        /\ running = TRUE /\ at = "execute"
    BY DEF CpuInit
  <2> QED
    BY <1>4, <1>5, <2>1 DEF RegistersOK, Bit
<1>7. StoredBelowMemtop
  BY <1>2 DEF StoredBelowMemtop
<1> QED
  BY <1>3, <1>6, <1>7 DEF IInv, TypeOK

(* A step keeps the ranges, and with them memtop above what is stored.     *)
Kept == TypeOK' /\ (StoredBelowMemtop => StoredBelowMemtop')

(* An instruction that stores nothing keeps memory below memtop.           *)
LEMMA KeepsMemory ==
  ASSUME TypeOK, RegistersOK', memtop <= memtop', UNCHANGED mem8
  PROVE  Kept
<1>1. MemoryOK'
  BY DEF TypeOK, MemoryOK
<1>2. \A a \in DOMAIN mem8 : a \in Int
  BY DEF TypeOK, MemoryOK, Addr
<1>3. memtop \in Int /\ memtop' \in Int
  BY DEF TypeOK, RegistersOK
<1>4. StoredBelowMemtop => \A a \in DOMAIN mem8' : a <= memtop'
  BY <1>2, <1>3 DEF StoredBelowMemtop
<1> QED
  BY <1>1, <1>4 DEF Kept, TypeOK, StoredBelowMemtop

(* One that stores does so at an address its memtop reaches.               *)
LEMMA StoresBelow ==
  ASSUME TypeOK, RegistersOK', NEW a \in Addr, NEW w \in Word,
         memtop <= memtop', a <= memtop', mem8' = Store(a, w)
  PROVE  Kept
<1>1. MemoryOK'
  BY StoreType DEF MemoryOK
<1>2. \A b \in DOMAIN mem8 : b \in Int
  BY DEF TypeOK, MemoryOK, Addr
<1>3. memtop \in Int /\ memtop' \in Int
  BY DEF TypeOK, RegistersOK
<1>4. DOMAIN mem8' = (DOMAIN mem8) \cup {a}
  BY DEF Store
<1>5. StoredBelowMemtop => \A b \in DOMAIN mem8' : b <= memtop'
  BY <1>2, <1>3, <1>4 DEF StoredBelowMemtop
<1> QED
  BY <1>1, <1>5 DEF Kept, TypeOK, StoredBelowMemtop

LEMMA NextKeeps ==
  ASSUME TypeOK, [Next]_cpuvars PROVE Kept
<1>a. TypeOK
  OBVIOUS
<1> DEFINE Ats == {"execute", "getc_load", "getc_clear", "poll", "ack",
                   "close", "exit", "wild"}
<1>b. /\ ac8 \in Word /\ pc8 \in Word /\ link8 \in Bit /\ ien8 \in Bit
      /\ irq8 \in Bit /\ submod \in Bit /\ running \in BOOLEAN
      /\ memtop \in 0 .. 8191 /\ at \in Ats
  BY <1>a DEF TypeOK, RegistersOK
<1>c. 0 \in Word /\ 1 \in Word /\ 0 \in Bit /\ 1 \in Bit
  BY WordBounds DEF Bit
<1>d. memtop <= memtop /\ 0 <= memtop
  BY <1>b
<1>e. ASSUME NEW c, Executing(c)
      PROVE  /\ pc8 \in Addr /\ pc8 + 1 \in Word /\ pc8 + 2 \in Word
             /\ arg \in Word /\ at = "execute"
  BY <1>e, <1>a, ArgType, PcType DEF Executing
<1>f. ASSUME arg \in Addr PROVE arg + 1 \in Word
  BY <1>f, PcType
<1>1. ASSUME Rcl PROVE Kept
  <2>1. Executing(0) /\ Finish(pc8 + 1) /\ UNCHANGED mem8
    BY <1>1 DEF Rcl
  <2>2. /\ pc8' \in Word /\ memtop' \in 0 .. 8191 /\ memtop <= memtop'
        /\ at' = "poll" /\ irq8' \in Bit
    BY <2>1, <1>a, <1>e, FinishType
  <2>3. ac8' \in Word
    BY <1>1, <1>a, MemWordType DEF Rcl
  <2>9. RegistersOK'
    BY <1>1, <1>b, <1>c, <2>1, <2>2, <2>3 DEF Rcl, RegistersOK
  <2> QED
    BY <2>1, <2>2, <2>9, KeepsMemory
<1>2. ASSUME Sto PROVE Kept
  <2>1. Executing(1) /\ Finish(pc8 + 1) /\ arg \in Addr /\ mem8' = Store(arg, ac8)
    BY <1>2 DEF Sto
  <2>2. /\ pc8' \in Word /\ memtop' \in 0 .. 8191 /\ memtop <= memtop'
        /\ arg <= memtop' /\ at' = "poll" /\ irq8' \in Bit
    BY <2>1, <1>a, <1>e, FinishType
  <2>3. RegistersOK'
    BY <1>2, <1>b, <1>c, <2>2 DEF Sto, RegistersOK
  <2> QED
    BY <1>b, <2>1, <2>2, <2>3, StoresBelow
<1>3. ASSUME And PROVE Kept
  <2>1. Executing(2) /\ Finish(pc8 + 1) /\ UNCHANGED mem8
    BY <1>3 DEF And
  <2>2. /\ pc8' \in Word /\ memtop' \in 0 .. 8191 /\ memtop <= memtop'
        /\ at' = "poll" /\ irq8' \in Bit
    BY <2>1, <1>a, <1>e, FinishType
  <2>3. ac8' \in Word
    BY <1>3, <1>a, <1>b, MemWordType, BitAndInWord DEF And
  <2>9. RegistersOK'
    BY <1>3, <1>b, <1>c, <2>1, <2>2, <2>3 DEF And, RegistersOK
  <2> QED
    BY <2>1, <2>2, <2>9, KeepsMemory
<1>4. ASSUME Ora PROVE Kept
  <2>1. Executing(3) /\ Finish(pc8 + 1) /\ UNCHANGED mem8
    BY <1>4 DEF Ora
  <2>2. /\ pc8' \in Word /\ memtop' \in 0 .. 8191 /\ memtop <= memtop'
        /\ at' = "poll" /\ irq8' \in Bit
    BY <2>1, <1>a, <1>e, FinishType
  <2>3. ac8' \in Word
    BY <1>4, <1>a, <1>b, MemWordType, BitOrInWord DEF Ora
  <2>9. RegistersOK'
    BY <1>4, <1>b, <1>c, <2>1, <2>2, <2>3 DEF Ora, RegistersOK
  <2> QED
    BY <2>1, <2>2, <2>9, KeepsMemory
<1>5. ASSUME Tad PROVE Kept
  <2>1. Executing(4) /\ Finish(pc8 + 1) /\ UNCHANGED mem8
    BY <1>5 DEF Tad
  <2>2. /\ pc8' \in Word /\ memtop' \in 0 .. 8191 /\ memtop <= memtop'
        /\ at' = "poll" /\ irq8' \in Bit
    BY <2>1, <1>a, <1>e, FinishType
  <2>3. ac8 + link8 + MemWord(arg) \in Int
    BY <1>a, <1>b, MemWordType, WordBounds DEF Bit
  <2>4. ac8' \in Word /\ link8' \in Bit
    BY <1>5, <2>3, Mask12InWord DEF Tad, TadSum, Bit
  <2>9. RegistersOK'
    BY <1>5, <1>b, <1>c, <2>1, <2>2, <2>4 DEF Tad, RegistersOK
  <2> QED
    BY <2>1, <2>2, <2>9, KeepsMemory
<1>6. ASSUME Jmp PROVE Kept
  <2>1. Executing(5) /\ Finish(arg) /\ UNCHANGED mem8
    BY <1>6 DEF Jmp
  <2>2. /\ pc8' \in Word /\ memtop' \in 0 .. 8191 /\ memtop <= memtop'
        /\ at' = "poll" /\ irq8' \in Bit
    BY <2>1, <1>a, <1>e, FinishType
  <2>9. RegistersOK'
    BY <1>6, <1>b, <1>c, <2>1, <2>2 DEF Jmp, RegistersOK
  <2> QED
    BY <2>1, <2>2, <2>9, KeepsMemory
<1>7. ASSUME Jms PROVE Kept
  <2>1. /\ Executing(6) /\ Finish(arg + 1) /\ arg \in Addr
        /\ mem8' = Store(arg, pc8 + 1)
    BY <1>7 DEF Jms
  <2>2. /\ pc8' \in Word /\ memtop' \in 0 .. 8191 /\ memtop <= memtop'
        /\ arg <= memtop' /\ at' = "poll" /\ irq8' \in Bit
    BY <2>1, <1>a, <1>e, <1>f, FinishType
  <2>3. RegistersOK'
    BY <1>7, <1>b, <1>c, <2>2 DEF Jms, RegistersOK
  <2> QED
    BY <1>e, <2>1, <2>2, <2>3, StoresBelow
<1>8. ASSUME Wild PROVE Kept
  <2>1. RegistersOK' /\ UNCHANGED <<mem8, memtop>>
    BY <1>8, <1>b, <1>d DEF Wild, RegistersOK
  <2> QED
    BY <1>d, <2>1, KeepsMemory
<1>9. ASSUME NoCategory PROVE Kept
  <2>1. arg \in Int /\ arg <= 8191 /\ pc8 \in Int /\ pc8 <= 8191
    BY <1>9, <1>a, <1>b, ArgType, WordBounds DEF NoCategory
  <2>2. memtop \in Int /\ 0 <= memtop /\ memtop <= 8191
    BY <1>b
  <2>3. memtop' = Larger(Larger(memtop, arg), pc8) \/ memtop' = Larger(memtop, pc8)
    BY <1>9 DEF NoCategory
  <2>6. /\ Larger(memtop, arg) \in Int /\ memtop <= Larger(memtop, arg)
        /\ Larger(memtop, arg) <= 8191
    BY <2>1, <2>2 DEF Larger
  <2>4. memtop' \in Int /\ memtop <= memtop' /\ memtop' <= 8191
    <3>1. CASE memtop' = Larger(Larger(memtop, arg), pc8)
      BY <2>1, <2>2, <2>6, <3>1 DEF Larger
    <3>2. CASE memtop' = Larger(memtop, pc8)
      BY <2>1, <2>2, <3>2 DEF Larger
    <3> QED
      BY <2>3, <3>1, <3>2
  <2>5. memtop' \in 0 .. 8191
    BY <2>2, <2>4
  <2>9. RegistersOK'
    <3>1. /\ at' = "poll" /\ submod' = 0
          /\ UNCHANGED <<ac8, link8, pc8, ien8, irq8, running>>
      BY <1>9 DEF NoCategory
    <3> QED
      BY <3>1, <1>b, <1>c, <2>5 DEF RegistersOK
  <2> QED
    BY <1>9, <2>4, <2>9, KeepsMemory DEF NoCategory
<1>g. ASSUME NEW pc \in Word, FinishOpr(pc), UNCHANGED mem8,
             ac8' \in Word, link8' \in Bit, ien8' \in Bit, irq8' \in Bit,
             running' \in BOOLEAN
      PROVE  Kept
  <2>1. /\ pc8' \in Word /\ memtop' \in 0 .. 8191 /\ memtop <= memtop'
        /\ at' = "poll" /\ submod' \in Bit
    BY <1>g, <1>a, FinishOprType
  <2>2. RegistersOK'
    BY <1>g, <2>1 DEF RegistersOK
  <2> QED
    BY <1>g, <2>1, <2>2, KeepsMemory
<1>10. ASSUME Group1 PROVE Kept
  <2>1. MicroOps(LA(link8, ac8)) \in LAs
    BY <1>b, LAIsLA, Group1Type
  <2>2. ac8' \in Word /\ link8' \in Bit
    BY <1>10, <2>1 DEF Group1, LAs
  <2> QED
    BY <1>10, <1>b, <1>e, <1>g, <2>2 DEF Group1
<1>11. ASSUME Group2 PROVE Kept
  <2>1. opcode \in Int /\ disp \in 0 .. 7
    BY <1>a, MemWordType, WordBounds DEF opcode, disp
  <2>2. Executing(7)
    BY <1>11 DEF Group2
  <2>3. pc8 + 1 \in Word /\ pc8 + 2 \in Word /\ pc8 - disp \in Word
    <3>1. pc8 \in Addr
      BY <1>e, <2>2
    <3>2. disp \in Int /\ 0 <= disp /\ disp <= 7
      BY <2>1
    <3>3. pc8 \in Int /\ 0 <= pc8 /\ pc8 <= 4095
      BY <3>1 DEF Addr, MEM8SIZ
    <3>4. pc8 - disp \in Int /\ -8 <= pc8 - disp /\ pc8 - disp <= 8191
      BY <3>2, <3>3
    <3> QED
      BY <1>e, <2>2, <3>4, WordBounds
  <2>4. PICK pc \in {pc8 + 1, pc8 + 2, pc8 - disp} : FinishOpr(pc)
    BY <1>11 DEF Group2
  <2> QED
    BY <1>11, <1>b, <1>g, <2>3, <2>4 DEF Group2
<1>12. ASSUME Ion PROVE Kept
  BY <1>12, <1>b, <1>c, <1>e, <1>g DEF Ion, ExecutingIO
<1>13. ASSUME Iof PROVE Kept
  BY <1>13, <1>b, <1>c, <1>e, <1>g DEF Iof, ExecutingIO
<1>14. ASSUME Hlt PROVE Kept
  <2>1. /\ FinishOpr(pc8) /\ running' = FALSE /\ ien8' = 0
        /\ UNCHANGED <<mem8, ac8, link8, irq8>>
    BY <1>14 DEF Hlt
  <2>2. running' \in BOOLEAN
    BY <1>14, HltStops
  <2>3. /\ ac8' \in Word /\ link8' \in Bit /\ ien8' \in Bit
        /\ irq8' \in Bit /\ pc8 \in Word /\ UNCHANGED mem8
    BY <1>b, <1>c, <2>1
  <2> QED
    BY <1>g, <2>1, <2>2, <2>3
<1>15. ASSUME NoFunction PROVE Kept
  BY <1>15, <1>b, <1>e, <1>g DEF NoFunction, ExecutingIO
<1>16. ASSUME Device PROVE Kept
  <2>1. PICK f \in Functions8, skip \in Bit, ac \in DevWords \cup {ac8} :
             Chario(f[1], f[2], skip, ac) /\ UNCHANGED irq8
    BY <1>16 DEF Device
  <2>2. ac \in Word
    <3>1. CASE ac \in DevWords
      <4>1. ac \in 0 .. 4095
        BY <3>1, DeviceAssumption DEF DeviceAssumption
      <4>2. ac \in Int /\ 0 <= ac /\ ac <= 4095
        BY <4>1
      <4> QED
        BY <4>2, TwelveBitsInWord
    <3> QED
      BY <1>b, <3>1
  <2>3. pc8 + 1 + skip \in {pc8 + 1, pc8 + 2} /\ Executing(7)
    BY <2>1, <1>b, WordBounds DEF Chario, ExecutingIO, Bit
  <2>4. pc8 + 1 + skip \in Word
    BY <1>e, <2>3
  <2> QED
    <3>1. /\ FinishOpr(pc8 + 1 + skip) /\ ac8' = ac /\ UNCHANGED mem8
          /\ UNCHANGED <<link8, ien8, running, irq8>>
      BY <2>1 DEF Chario
    <3>2. /\ link8' \in Bit /\ ien8' \in Bit /\ irq8' \in Bit
          /\ running' \in BOOLEAN
      BY <1>b, <3>1
    <3>3. ac8' \in Word
      BY <2>2, <3>1
    <3> DEFINE pc == pc8 + 1 + skip
    <3>4. pc \in Word /\ FinishOpr(pc)
      BY <2>4, <3>1
    <3>5. UNCHANGED mem8
      BY <3>1
    <3> HIDE DEF Kept, pc
    <3> QED
      BY <1>g, <3>2, <3>3, <3>4, <3>5
<1>17. ASSUME NoInterrupt PROVE Kept
  <2>1. RegistersOK' /\ UNCHANGED <<mem8, memtop>>
    BY <1>17, <1>b, <1>d DEF NoInterrupt, NextTurn, RegistersOK
  <2> QED
    BY <1>d, <2>1, KeepsMemory
<1>18. ASSUME Interrupt PROVE Kept
  <2>1. RegistersOK' /\ UNCHANGED <<mem8, memtop>>
    BY <1>18, <1>b, <1>c, <1>d DEF Interrupt, RegistersOK
  <2> QED
    BY <1>d, <2>1, KeepsMemory
<1>19. ASSUME Acknowledge PROVE Kept
  <2>1. 0 \in Addr /\ 0 <= memtop
    BY <1>b DEF Addr, MEM8SIZ
  <2>2. mem8' = Store(0, pc8) /\ UNCHANGED memtop
    BY <1>19 DEF Acknowledge
  <2>3. RegistersOK'
    BY <1>19, <1>b, <1>c DEF Acknowledge, NextTurn, RegistersOK
  <2> QED
    BY <1>b, <1>d, <2>1, <2>2, <2>3, StoresBelow
<1>20. ASSUME Request PROVE Kept
  <2>1. RegistersOK' /\ UNCHANGED <<mem8, memtop>>
    BY <1>20, <1>b, <1>c, <1>d DEF Request, RegistersOK
  <2> QED
    BY <1>d, <2>1, KeepsMemory
<1>21. ASSUME UNCHANGED cpuvars PROVE Kept
  <2>1. RegistersOK' /\ UNCHANGED <<mem8, memtop>>
    BY <1>21, <1>b, <1>d DEF cpuvars, RegistersOK
  <2> QED
    BY <1>d, <2>1, KeepsMemory
<1> QED
  BY <1>1, <1>2, <1>3, <1>4, <1>5, <1>6, <1>7, <1>8, <1>9, <1>10, <1>11, <1>12,
     <1>13, <1>14, <1>15, <1>16, <1>17, <1>18, <1>19, <1>20, <1>21
     DEF Next, Instruction, Turn

LEMMA NextInv ==
  ASSUME IInv, [Next]_cpuvars PROVE IInv'
BY NextKeeps DEF IInv, Kept

(* Every register and memory word of the machine stays in range: what is   *)
(* not twelve bits wide is still at least -8 and fits in thirteen bits     *)
(* (execute.c, operate.c, pepsi.c).                                        *)
THEOREM TypeCorrect == Spec => []TypeOK
<1>1. CpuInit => IInv
  BY InitInv
<1>2. IInv /\ [Next]_cpuvars => IInv'
  BY NextInv
<1>3. IInv => TypeOK
  BY DEF IInv
<1> QED
  BY <1>1, <1>2, <1>3, PTL DEF Spec

(* memtop is at least the highest location ever loaded or stored, whatever *)
(* the program and the interrupts do (pepsi.c:48).                         *)
THEOREM MemtopIsHighest == Spec => []StoredBelowMemtop
<1>1. CpuInit => IInv
  BY InitInv
<1>2. IInv /\ [Next]_cpuvars => IInv'
  BY NextInv
<1>3. IInv => StoredBelowMemtop
  BY DEF IInv
<1> QED
  BY <1>1, <1>2, <1>3, PTL DEF Spec

(***************************************************************************)
(* The manual: the processor does what it says of its instructions, for    *)
(* every word, operand and program that stays within twelve bits.          *)
(***************************************************************************)
Word12 == 0 .. 4095

LEMMA Word12Bounds == \A w : w \in Word12 <=> w \in Int /\ 0 <= w /\ w <= 4095
<1>1. ASSUME NEW w \in Word12 PROVE w \in Int /\ 0 <= w /\ w <= 4095
  BY DEF Word12
<1>2. ASSUME NEW w \in Int, 0 <= w, w <= 4095 PROVE w \in Word12
  BY <1>2 DEF Word12
<1> QED
  BY <1>1, <1>2

(***************************************************************************)
(* What is executed                                                        *)
(***************************************************************************)
LEMMA MemWord12 == ASSUME TwelveBits, NEW a PROVE MemWord(a) \in Word12
<1>1. \A b \in DOMAIN mem8 : mem8[b] \in Word12
  BY DEF TwelveBits, Word12
<1>2. 0 \in Word12
  BY Word12Bounds
<1> QED
  BY <1>1, <1>2 DEF MemWord

LEMMA Opcode12 == TwelveBits => opcode \in Word12 /\ pc8 \in Addr /\ ac8 \in Word12
BY MemWord12 DEF opcode, TwelveBits, Word12, Addr, MEM8SIZ

(* An instruction of category c is that category's action, or an action of *)
(* the four kinds of OPR.                                                  *)
Opr(c) == /\ c = 7
          /\ Group1 \/ Group2 \/ Ion \/ Iof \/ Hlt \/ NoFunction \/ Device

LEMMA ExecutedIs ==
  ASSUME Next, NEW c \in Int, Executed(c)
  PROVE  /\ Executing(c)
         /\ \/ c = 0 /\ Rcl
            \/ c = 1 /\ Sto
            \/ c = 2 /\ And
            \/ c = 3 /\ Ora
            \/ c = 4 /\ Tad
            \/ c = 5 /\ Jmp
            \/ c = 6 /\ Jms
            \/ Opr(c)
<1>1. /\ at = "execute" /\ at' # "execute" /\ at' # "wild" /\ TwelveBits
      /\ opcode \div 512 = c
  BY DEF Executed
<1>2. opcode \in Word12 /\ pc8 \in Addr
  BY <1>1, Opcode12
<1>3. Executing(c) /\ \A d : Executing(d) => d = c
  BY <1>1, <1>2 DEF Executing
<1>4. ~Wild /\ ~NoCategory /\ ~Turn /\ ~Request
  BY <1>1, <1>2 DEF Wild, NoCategory, Turn, NoInterrupt, Interrupt, Acknowledge,
     Request, Word12
<1>5. CASE Rcl \/ Sto \/ And \/ Ora
  BY <1>3, <1>5 DEF Rcl, Sto, And, Ora
<1>6. CASE Tad \/ Jmp \/ Jms
  BY <1>3, <1>6 DEF Tad, Jmp, Jms
<1>7. CASE Group1 \/ Group2 \/ Ion \/ Iof \/ Hlt \/ NoFunction \/ Device
  <2>1. Executing(7)
    BY <1>7 DEF Group1, Group2, Ion, Iof, Hlt, NoFunction, Device, Chario, ExecutingIO
  <2> QED
    BY <1>3, <1>7, <2>1 DEF Opr
<1> QED
  BY <1>3, <1>4, <1>5, <1>6, <1>7 DEF Next, Instruction

(* The address branch of execute forms the address of the manual.          *)
LEMMA ArgIsEffective == TwelveBits => arg = Effective
<1> SUFFICES ASSUME TwelveBits PROVE arg = Effective
  OBVIOUS
<1>1. pc8 \in Int /\ opcode \in Int
  BY Opcode12, Word12Bounds DEF TwelveBits
<1>2. Direct = (opcode % 128)
               + 128 * (IF Has(opcode, \o200) THEN pc8 \div 128 ELSE 0)
  <2>1. pc8 - (pc8 % 128) = 128 * (pc8 \div 128)
    BY <1>1
  <2> QED
    BY <2>1 DEF Direct
<1> QED
  BY <1>2 DEF arg, Effective

(***************************************************************************)
(* Logic, bit by bit                                                       *)
(***************************************************************************)
(* Each argument is the weight of its bit or nothing; s has exactly the    *)
(* bits whose weights are there.                                           *)
Weights(a, b, c, d, e, f, g, h, i, j, k, l) ==
  /\ a \in {0, 1}
  /\ b \in {0, 2}
  /\ c \in {0, 4}
  /\ d \in {0, 8}
  /\ e \in {0, 16}
  /\ f \in {0, 32}
  /\ g \in {0, 64}
  /\ h \in {0, 128}
  /\ i \in {0, 256}
  /\ j \in {0, 512}
  /\ k \in {0, 1024}
  /\ l \in {0, 2048}

HasWeights(s, a, b, c, d, e, f, g, h, i, j, k, l) ==
  /\ Has(s, 1) <=> a = 1
  /\ Has(s, 2) <=> b = 2
  /\ Has(s, 4) <=> c = 4
  /\ Has(s, 8) <=> d = 8
  /\ Has(s, 16) <=> e = 16
  /\ Has(s, 32) <=> f = 32
  /\ Has(s, 64) <=> g = 64
  /\ Has(s, 128) <=> h = 128
  /\ Has(s, 256) <=> i = 256
  /\ Has(s, 512) <=> j = 512
  /\ Has(s, 1024) <=> k = 1024
  /\ Has(s, 2048) <=> l = 2048

LEMMA SumHas ==
  ASSUME NEW a, NEW b, NEW c, NEW d, NEW e, NEW f, NEW g, NEW h, NEW i, NEW j,
         NEW k, NEW l, Weights(a, b, c, d, e, f, g, h, i, j, k, l)
  PROVE  HasWeights(BitSum(a, b, c, d, e, f, g, h, i, j, k, l, 0, 0),
                    a, b, c, d, e, f, g, h, i, j, k, l)
<1> DEFINE s == BitSum(a, b, c, d, e, f, g, h, i, j, k, l, 0, 0)
<1>1. Has(s, 1) <=> a = 1
  BY DEF BitSum, Has, Weights
<1>2. Has(s, 2) <=> b = 2
  BY DEF BitSum, Has, Weights
<1>3. Has(s, 4) <=> c = 4
  BY DEF BitSum, Has, Weights
<1>4. Has(s, 8) <=> d = 8
  BY DEF BitSum, Has, Weights
<1>5. Has(s, 16) <=> e = 16
  BY DEF BitSum, Has, Weights
<1>6. Has(s, 32) <=> f = 32
  BY DEF BitSum, Has, Weights
<1>7. Has(s, 64) <=> g = 64
  BY DEF BitSum, Has, Weights
<1>8. Has(s, 128) <=> h = 128
  BY DEF BitSum, Has, Weights
<1>9. Has(s, 256) <=> i = 256
  BY DEF BitSum, Has, Weights
<1>10. Has(s, 512) <=> j = 512
  BY DEF BitSum, Has, Weights
<1>11. Has(s, 1024) <=> k = 1024
  BY DEF BitSum, Has, Weights
<1>12. Has(s, 2048) <=> l = 2048
  BY DEF BitSum, Has, Weights
<1> QED
  BY <1>1, <1>2, <1>3, <1>4, <1>5, <1>6, <1>7, <1>8, <1>9, <1>10, <1>11, <1>12
     DEF HasWeights

LEMMA NoHighBits ==
  ASSUME NEW w \in Word12 PROVE ~Has(w, 4096) /\ ~Has(w, 8192)
BY Word12Bounds DEF Has

LEMMA AndHas ==
  ASSUME NEW x \in Word12, NEW y \in Word12, NEW m \in Bits12
  PROVE  Has(BitAnd(x, y), m) <=> (Has(x, m) /\ Has(y, m))
<1>1. /\ Both(x, y, 1) \in {0, 1}
      /\ Both(x, y, 2) \in {0, 2}
      /\ Both(x, y, 4) \in {0, 4}
      /\ Both(x, y, 8) \in {0, 8}
      /\ Both(x, y, 16) \in {0, 16}
      /\ Both(x, y, 32) \in {0, 32}
      /\ Both(x, y, 64) \in {0, 64}
      /\ Both(x, y, 128) \in {0, 128}
      /\ Both(x, y, 256) \in {0, 256}
      /\ Both(x, y, 512) \in {0, 512}
      /\ Both(x, y, 1024) \in {0, 1024}
      /\ Both(x, y, 2048) \in {0, 2048}
  BY DEF Both
<1>2. /\ (Both(x, y, 1) = 1 <=> Has(x, 1) /\ Has(y, 1))
      /\ (Both(x, y, 2) = 2 <=> Has(x, 2) /\ Has(y, 2))
      /\ (Both(x, y, 4) = 4 <=> Has(x, 4) /\ Has(y, 4))
      /\ (Both(x, y, 8) = 8 <=> Has(x, 8) /\ Has(y, 8))
      /\ (Both(x, y, 16) = 16 <=> Has(x, 16) /\ Has(y, 16))
      /\ (Both(x, y, 32) = 32 <=> Has(x, 32) /\ Has(y, 32))
      /\ (Both(x, y, 64) = 64 <=> Has(x, 64) /\ Has(y, 64))
      /\ (Both(x, y, 128) = 128 <=> Has(x, 128) /\ Has(y, 128))
      /\ (Both(x, y, 256) = 256 <=> Has(x, 256) /\ Has(y, 256))
      /\ (Both(x, y, 512) = 512 <=> Has(x, 512) /\ Has(y, 512))
      /\ (Both(x, y, 1024) = 1024 <=> Has(x, 1024) /\ Has(y, 1024))
      /\ (Both(x, y, 2048) = 2048 <=> Has(x, 2048) /\ Has(y, 2048))
  BY DEF Both
<1>3. Both(x, y, 4096) = 0 /\ Both(x, y, 8192) = 0
  BY NoHighBits DEF Both
<1>4. BitAnd(x, y) =
         BitSum(Both(x, y, 1), Both(x, y, 2), Both(x, y, 4),
                Both(x, y, 8), Both(x, y, 16), Both(x, y, 32),
                Both(x, y, 64), Both(x, y, 128), Both(x, y, 256),
                Both(x, y, 512), Both(x, y, 1024), Both(x, y, 2048), 0, 0)
  BY <1>3 DEF BitAnd
<1>5. Weights(Both(x, y, 1), Both(x, y, 2), Both(x, y, 4),
                Both(x, y, 8), Both(x, y, 16), Both(x, y, 32),
                Both(x, y, 64), Both(x, y, 128), Both(x, y, 256),
                Both(x, y, 512), Both(x, y, 1024), Both(x, y, 2048))
  BY <1>1, Zenon DEF Weights
<1>6. HasWeights(BitSum(Both(x, y, 1), Both(x, y, 2), Both(x, y, 4),
                Both(x, y, 8), Both(x, y, 16), Both(x, y, 32),
                Both(x, y, 64), Both(x, y, 128), Both(x, y, 256),
                Both(x, y, 512), Both(x, y, 1024), Both(x, y, 2048), 0, 0),
                Both(x, y, 1), Both(x, y, 2), Both(x, y, 4),
                Both(x, y, 8), Both(x, y, 16), Both(x, y, 32),
                Both(x, y, 64), Both(x, y, 128), Both(x, y, 256),
                Both(x, y, 512), Both(x, y, 1024), Both(x, y, 2048))
  BY <1>5, SumHas
<1>7. HasWeights(BitAnd(x, y),
                Both(x, y, 1), Both(x, y, 2), Both(x, y, 4),
                Both(x, y, 8), Both(x, y, 16), Both(x, y, 32),
                Both(x, y, 64), Both(x, y, 128), Both(x, y, 256),
                Both(x, y, 512), Both(x, y, 1024), Both(x, y, 2048))
  BY <1>4, <1>6
<1> QED
  BY <1>2, <1>7 DEF HasWeights, Bits12

LEMMA OrHas ==
  ASSUME NEW x \in Word12, NEW y \in Word12, NEW m \in Bits12
  PROVE  Has(BitOr(x, y), m) <=> (Has(x, m) \/ Has(y, m))
<1>1. /\ Either(x, y, 1) \in {0, 1}
      /\ Either(x, y, 2) \in {0, 2}
      /\ Either(x, y, 4) \in {0, 4}
      /\ Either(x, y, 8) \in {0, 8}
      /\ Either(x, y, 16) \in {0, 16}
      /\ Either(x, y, 32) \in {0, 32}
      /\ Either(x, y, 64) \in {0, 64}
      /\ Either(x, y, 128) \in {0, 128}
      /\ Either(x, y, 256) \in {0, 256}
      /\ Either(x, y, 512) \in {0, 512}
      /\ Either(x, y, 1024) \in {0, 1024}
      /\ Either(x, y, 2048) \in {0, 2048}
  BY DEF Either
<1>2. /\ (Either(x, y, 1) = 1 <=> Has(x, 1) \/ Has(y, 1))
      /\ (Either(x, y, 2) = 2 <=> Has(x, 2) \/ Has(y, 2))
      /\ (Either(x, y, 4) = 4 <=> Has(x, 4) \/ Has(y, 4))
      /\ (Either(x, y, 8) = 8 <=> Has(x, 8) \/ Has(y, 8))
      /\ (Either(x, y, 16) = 16 <=> Has(x, 16) \/ Has(y, 16))
      /\ (Either(x, y, 32) = 32 <=> Has(x, 32) \/ Has(y, 32))
      /\ (Either(x, y, 64) = 64 <=> Has(x, 64) \/ Has(y, 64))
      /\ (Either(x, y, 128) = 128 <=> Has(x, 128) \/ Has(y, 128))
      /\ (Either(x, y, 256) = 256 <=> Has(x, 256) \/ Has(y, 256))
      /\ (Either(x, y, 512) = 512 <=> Has(x, 512) \/ Has(y, 512))
      /\ (Either(x, y, 1024) = 1024 <=> Has(x, 1024) \/ Has(y, 1024))
      /\ (Either(x, y, 2048) = 2048 <=> Has(x, 2048) \/ Has(y, 2048))
  BY DEF Either
<1>3. Either(x, y, 4096) = 0 /\ Either(x, y, 8192) = 0
  BY NoHighBits DEF Either
<1>4. BitOr(x, y) =
         BitSum(Either(x, y, 1), Either(x, y, 2), Either(x, y, 4),
                Either(x, y, 8), Either(x, y, 16), Either(x, y, 32),
                Either(x, y, 64), Either(x, y, 128), Either(x, y, 256),
                Either(x, y, 512), Either(x, y, 1024), Either(x, y, 2048), 0, 0)
  BY <1>3 DEF BitOr
<1>5. Weights(Either(x, y, 1), Either(x, y, 2), Either(x, y, 4),
                Either(x, y, 8), Either(x, y, 16), Either(x, y, 32),
                Either(x, y, 64), Either(x, y, 128), Either(x, y, 256),
                Either(x, y, 512), Either(x, y, 1024), Either(x, y, 2048))
  BY <1>1, Zenon DEF Weights
<1>6. HasWeights(BitSum(Either(x, y, 1), Either(x, y, 2), Either(x, y, 4),
                Either(x, y, 8), Either(x, y, 16), Either(x, y, 32),
                Either(x, y, 64), Either(x, y, 128), Either(x, y, 256),
                Either(x, y, 512), Either(x, y, 1024), Either(x, y, 2048), 0, 0),
                Either(x, y, 1), Either(x, y, 2), Either(x, y, 4),
                Either(x, y, 8), Either(x, y, 16), Either(x, y, 32),
                Either(x, y, 64), Either(x, y, 128), Either(x, y, 256),
                Either(x, y, 512), Either(x, y, 1024), Either(x, y, 2048))
  BY <1>5, SumHas
<1>7. HasWeights(BitOr(x, y),
                Either(x, y, 1), Either(x, y, 2), Either(x, y, 4),
                Either(x, y, 8), Either(x, y, 16), Either(x, y, 32),
                Either(x, y, 64), Either(x, y, 128), Either(x, y, 256),
                Either(x, y, 512), Either(x, y, 1024), Either(x, y, 2048))
  BY <1>4, <1>6
<1> QED
  BY <1>2, <1>7 DEF HasWeights, Bits12

(***************************************************************************)
(* The memory instructions                                                 *)
(***************************************************************************)
Operand == MemWord(Effective)

LEMMA TadAdds ==
  ASSUME TwelveBits, link8 \in Bit, Tad
  PROVE  LinkAc' = ac8 + link8 + Operand /\ ac8' \in 0 .. 4095
<1>1. arg = Effective /\ Operand \in Word12 /\ ac8 \in Word12
  BY ArgIsEffective, MemWord12, Opcode12 DEF Operand
<1> DEFINE sum == ac8 + link8 + Operand
<1>2. sum \in Int /\ 0 <= sum /\ sum <= 8191
  BY <1>1, Word12Bounds DEF Bit
<1>3. TadSum = sum
  BY <1>1 DEF Operand, TadSum
<1>4. ac8' = Mask12(sum) /\ link8' = IF Has(sum, LMASK) THEN 1 ELSE 0
  BY <1>3 DEF Tad
<1> HIDE DEF sum
<1>5. link8' * 4096 + ac8' = sum /\ ac8' \in 0 .. 4095
  BY <1>2, <1>4 DEF Mask12, MEM8SIZ, Has, LMASK
<1> QED
  BY <1>5 DEF LinkAc, sum

(* A store at a writes that word and no other.                             *)
LEMMA StoreKeepsOthers ==
  ASSUME NEW a, NEW w, mem8' = Store(a, w)
  PROVE  OthersKept({a}) /\ mem8'[a] = w
BY DEF Store, OthersKept

(* On words of twelve bits every memory instruction reads and writes what  *)
(* the manual names and nothing else, AND and ORA bit by bit; TAD adds the *)
(* old link as a carry, which the manual has it do for a clear link only   *)
(* (execute.c, against pep8.7:85-147).                                     *)
THEOREM MemoryAsInManual == Spec => MemoryFollowsManual
<1>1. ASSUME TypeOK, [Next]_cpuvars PROVE MemoryStep
  <2> DEFINE Loads  == pc8' = pc8 + 1 /\ UNCHANGED mem8
             Stores == OthersKept({Effective}) /\ UNCHANGED <<ac8, link8>>
  <2>0. ASSUME NEW c \in Int, Executed(c)
        PROVE  TwelveBits /\ Next /\ arg = Effective
    BY <1>1, <2>0, ArgIsEffective DEF Executed, cpuvars
  <2>1. ASSUME Executed(0)
        PROVE  Loads /\ ac8' = Operand /\ link8' = link8 /\ Untouched
    <3>1. Rcl /\ arg = Effective
      BY <2>0, <2>1, ExecutedIs DEF Opr
    <3> QED
      BY <3>1 DEF Rcl, Finish, Operand, Untouched
  <2>2. ASSUME Executed(1)
        PROVE  Stores /\ pc8' = pc8 + 1 /\ mem8'[Effective] = ac8 /\ Untouched
    <3>1. Sto /\ arg = Effective
      BY <2>0, <2>2, ExecutedIs DEF Opr
    <3>2. mem8' = Store(Effective, ac8)
      BY <3>1 DEF Sto
    <3> QED
      BY <3>1, <3>2, StoreKeepsOthers DEF Sto, Finish, Untouched
  <2>3. ASSUME Executed(2)
        PROVE  /\ Loads /\ link8' = link8 /\ Untouched
               /\ \A b \in Bits12 : Has(ac8', b) <=> Has(ac8, b) /\ Has(Operand, b)
    <3>1. And /\ arg = Effective /\ TwelveBits
      BY <2>0, <2>3, ExecutedIs DEF Opr
    <3>2. ac8' = BitAnd(ac8, Operand)
      BY <3>1 DEF And, Operand
    <3>3. ac8 \in Word12 /\ Operand \in Word12
      BY <3>1, Opcode12, MemWord12 DEF Operand
    <3>4. Loads /\ link8' = link8 /\ Untouched
      BY <3>1 DEF And, Finish, Untouched
    <3> QED
      BY <3>2, <3>3, <3>4, AndHas
  <2>4. ASSUME Executed(3)
        PROVE  /\ Loads /\ link8' = link8 /\ Untouched
               /\ \A b \in Bits12 : Has(ac8', b) <=> Has(ac8, b) \/ Has(Operand, b)
    <3>1. Ora /\ arg = Effective /\ TwelveBits
      BY <2>0, <2>4, ExecutedIs DEF Opr
    <3>2. ac8' = BitOr(ac8, Operand)
      BY <3>1 DEF Ora, Operand
    <3>3. ac8 \in Word12 /\ Operand \in Word12
      BY <3>1, Opcode12, MemWord12 DEF Operand
    <3>4. Loads /\ link8' = link8 /\ Untouched
      BY <3>1 DEF Ora, Finish, Untouched
    <3> QED
      BY <3>2, <3>3, <3>4, OrHas
  <2>5. ASSUME Executed(4)
        PROVE  /\ Loads /\ Untouched
               /\ LinkAc' = ac8 + link8 + Operand /\ ac8' \in 0 .. 4095
    <3>1. Tad /\ TwelveBits
      BY <2>0, <2>5, ExecutedIs DEF Opr
    <3>2. link8 \in Bit
      BY <1>1 DEF TypeOK, RegistersOK
    <3>3. Loads /\ Untouched
      BY <3>1 DEF Tad, Finish, Untouched
    <3> QED
      BY <3>1, <3>2, <3>3, TadAdds
  <2>6. ASSUME Executed(5)
        PROVE  pc8' = Effective /\ UNCHANGED <<mem8, ac8, link8>> /\ Untouched
    <3>1. Jmp /\ arg = Effective
      BY <2>0, <2>6, ExecutedIs DEF Opr
    <3> QED
      BY <3>1 DEF Jmp, Finish, Untouched
  <2>7. ASSUME Executed(6)
        PROVE  /\ Stores /\ pc8' = Effective + 1 /\ mem8'[Effective] = pc8 + 1
               /\ Untouched
    <3>1. Jms /\ arg = Effective
      BY <2>0, <2>7, ExecutedIs DEF Opr
    <3>2. mem8' = Store(Effective, pc8 + 1)
      BY <3>1 DEF Jms
    <3> QED
      BY <3>1, <3>2, StoreKeepsOthers DEF Jms, Finish, Untouched
  <2>8. (\E c \in 0 .. 6 : Executed(c)) => Untouched
    BY <2>1, <2>2, <2>3, <2>4, <2>5, <2>6, <2>7
  <2> QED
    BY <2>1, <2>2, <2>3, <2>4, <2>5, <2>6, <2>7, <2>8, SMTT(60) DEF MemoryStep, Operand
<1> QED
  BY <1>1, TypeCorrect, PTL DEF Spec, MemoryFollowsManual

(***************************************************************************)
(* The micro-operations                                                    *)
(***************************************************************************)
(* A link and an accumulator of twelve bits, and the register they make.   *)
LinkAcs == [link : Bit, ac : Word12]
Joined(s) == s.link * 4096 + s.ac

LEMMA JoinedLA ==
  ASSUME NEW l \in Int, NEW a \in Int
  PROVE  /\ Joined(LA(l, a)) = l * 4096 + a
         /\ l \in Bit /\ 0 <= a /\ a <= 4095 => LA(l, a) \in LinkAcs
<1>1. LA(l, a).link = l /\ LA(l, a).ac = a
  BY DEF LA
<1>2. 0 <= a /\ a <= 4095 => a \in Word12
  BY Word12Bounds
<1> QED
  BY <1>1, <1>2 DEF Joined, LinkAcs, LA

LEMMA LinkAcParts ==
  ASSUME NEW s \in LinkAcs
  PROVE  /\ s.link \in {0, 1} /\ s.ac \in Int /\ 0 <= s.ac /\ s.ac <= 4095
         /\ Joined(s) = s.link * 4096 + s.ac
BY Word12Bounds DEF LinkAcs, Bit, Joined

(* An operation of operate.c does to link and accumulator what the manual  *)
(* says of its bit.                                                        *)
Does(Op(_), bit) ==
  \A s \in LinkAcs : /\ Op(s) \in LinkAcs
                     /\ Joined(Op(s)) = Meaning(bit, Joined(s))

LEMMA Meanings ==
  ASSUME NEW v
  PROVE  /\ Meaning(\o200, v) = (v \div 4096) * 4096
         /\ Meaning(\o100, v) = v % 4096
         /\ Meaning(\o040, v) = (v \div 4096) * 4096 + (4095 - (v % 4096))
         /\ Meaning(\o020, v) = (v + 4096) % 8192
         /\ Meaning(\o010, v) = (v % 2) * 4096 + (v \div 2)
         /\ Meaning(\o004, v) = ((v * 2) % 8192) + (v \div 4096)
         /\ Meaning(\o002, v) = (v - 1) % 8192
         /\ Meaning(\o001, v) = (v + 1) % 8192
BY DEF Meaning

(* It is enough to look at the numbers l and a.                            *)
LEMMA DoesBy ==
  ASSUME NEW t, NEW v, NEW l \in Int, NEW a \in Int,
         t = LA(l, a), l \in {0, 1}, 0 <= a, a <= 4095, v = l * 4096 + a
  PROVE  t \in LinkAcs /\ Joined(t) = v
BY JoinedLA DEF Bit

LEMMA ClearsAc == Does(Cla, \o200)
<1> SUFFICES ASSUME NEW s \in LinkAcs
             PROVE  Cla(s) \in LinkAcs /\ Joined(Cla(s)) = Meaning(\o200, Joined(s))
  BY DEF Does
<1> DEFINE l == s.link
           a == s.ac
           l2 == l
           a2 == 0
<1>1. /\ l \in {0, 1} /\ a \in Int /\ 0 <= a /\ a <= 4095
      /\ Joined(s) = l * 4096 + a
  BY LinkAcParts
<1>2. Cla(s) = LA(l2, a2)
  BY DEF Cla
<1> HIDE DEF l, a
<1> DEFINE v == l * 4096 + a
<1>3. Meaning(\o200, v) = (v \div 4096) * 4096
  BY Meanings
<1>4. v \in Int /\ ((l = 0 /\ v = a) \/ (l = 1 /\ v = 4096 + a))
  BY <1>1
<1>5. l2 \in {0, 1} /\ a2 \in Int /\ 0 <= a2 /\ a2 <= 4095
  BY <1>1
<1> HIDE DEF v
<1>6. (v \div 4096) * 4096 = l2 * 4096 + a2
  <2>1. CASE l = 0
    BY <1>1, <1>4, <2>1
  <2>2. CASE l = 1
    BY <1>1, <1>4, <2>2
  <2> QED
    BY <1>1, <2>1, <2>2
<1> HIDE DEF l2, a2
<1>7. Joined(s) = v
  BY <1>1 DEF v
<1> QED
  BY <1>2, <1>3, <1>5, <1>6, <1>7, DoesBy

LEMMA ClearsLink == Does(Cll, \o100)
<1> SUFFICES ASSUME NEW s \in LinkAcs
             PROVE  Cll(s) \in LinkAcs /\ Joined(Cll(s)) = Meaning(\o100, Joined(s))
  BY DEF Does
<1> DEFINE l == s.link
           a == s.ac
           l2 == 0
           a2 == a
<1>1. /\ l \in {0, 1} /\ a \in Int /\ 0 <= a /\ a <= 4095
      /\ Joined(s) = l * 4096 + a
  BY LinkAcParts
<1>2. Cll(s) = LA(l2, a2)
  BY DEF Cll
<1> HIDE DEF l, a
<1> DEFINE v == l * 4096 + a
<1>3. Meaning(\o100, v) = v % 4096
  BY Meanings
<1>4. v \in Int /\ ((l = 0 /\ v = a) \/ (l = 1 /\ v = 4096 + a))
  BY <1>1
<1>5. l2 \in {0, 1} /\ a2 \in Int /\ 0 <= a2 /\ a2 <= 4095
  BY <1>1
<1> HIDE DEF v
<1>6. v % 4096 = l2 * 4096 + a2
  <2>1. CASE l = 0
    BY <1>1, <1>4, <2>1
  <2>2. CASE l = 1
    BY <1>1, <1>4, <2>2
  <2> QED
    BY <1>1, <2>1, <2>2
<1> HIDE DEF l2, a2
<1>7. Joined(s) = v
  BY <1>1 DEF v
<1> QED
  BY <1>2, <1>3, <1>5, <1>6, <1>7, DoesBy

LEMMA ComplementsAc == Does(Cma, \o040)
<1> SUFFICES ASSUME NEW s \in LinkAcs
             PROVE  Cma(s) \in LinkAcs /\ Joined(Cma(s)) = Meaning(\o040, Joined(s))
  BY DEF Does
<1> DEFINE l == s.link
           a == s.ac
           l2 == l
           a2 == 4095 - a
<1>1. /\ l \in {0, 1} /\ a \in Int /\ 0 <= a /\ a <= 4095
      /\ Joined(s) = l * 4096 + a
  BY LinkAcParts
<1>2. Cma(s) = LA(l2, a2)
  BY <1>1 DEF Cma, Mask12, MEM8SIZ
<1> HIDE DEF l, a
<1> DEFINE v == l * 4096 + a
<1>3. Meaning(\o040, v) = (v \div 4096) * 4096 + (4095 - (v % 4096))
  BY Meanings
<1>4. v \in Int /\ ((l = 0 /\ v = a) \/ (l = 1 /\ v = 4096 + a))
  BY <1>1
<1>5. l2 \in {0, 1} /\ a2 \in Int /\ 0 <= a2 /\ a2 <= 4095
  BY <1>1
<1> HIDE DEF v
<1>6. (v \div 4096) * 4096 + (4095 - (v % 4096)) = l2 * 4096 + a2
  <2>1. CASE l = 0
    BY <1>1, <1>4, <2>1
  <2>2. CASE l = 1
    BY <1>1, <1>4, <2>2
  <2> QED
    BY <1>1, <2>1, <2>2
<1> HIDE DEF l2, a2
<1>7. Joined(s) = v
  BY <1>1 DEF v
<1> QED
  BY <1>2, <1>3, <1>5, <1>6, <1>7, DoesBy

LEMMA ComplementsLink == Does(Cml, \o020)
<1> SUFFICES ASSUME NEW s \in LinkAcs
             PROVE  Cml(s) \in LinkAcs /\ Joined(Cml(s)) = Meaning(\o020, Joined(s))
  BY DEF Does
<1> DEFINE l == s.link
           a == s.ac
           l2 == 1 - l
           a2 == a
<1>1. /\ l \in {0, 1} /\ a \in Int /\ 0 <= a /\ a <= 4095
      /\ Joined(s) = l * 4096 + a
  BY LinkAcParts
<1>2. Cml(s) = LA(l2, a2)
  BY DEF Cml
<1> HIDE DEF l, a
<1> DEFINE v == l * 4096 + a
<1>3. Meaning(\o020, v) = (v + 4096) % 8192
  BY Meanings
<1>4. v \in Int /\ ((l = 0 /\ v = a) \/ (l = 1 /\ v = 4096 + a))
  BY <1>1
<1>5. l2 \in {0, 1} /\ a2 \in Int /\ 0 <= a2 /\ a2 <= 4095
  BY <1>1
<1> HIDE DEF v
<1>6. (v + 4096) % 8192 = l2 * 4096 + a2
  <2>1. CASE l = 0
    BY <1>1, <1>4, <2>1
  <2>2. CASE l = 1
    BY <1>1, <1>4, <2>2
  <2> QED
    BY <1>1, <2>1, <2>2
<1> HIDE DEF l2, a2
<1>7. Joined(s) = v
  BY <1>1 DEF v
<1> QED
  BY <1>2, <1>3, <1>5, <1>6, <1>7, DoesBy

LEMMA RotatesRight == Does(Rar, \o010)
<1> SUFFICES ASSUME NEW s \in LinkAcs
             PROVE  Rar(s) \in LinkAcs /\ Joined(Rar(s)) = Meaning(\o010, Joined(s))
  BY DEF Does
<1> DEFINE l == s.link
           a == s.ac
           l2 == a % 2
           a2 == l * 2048 + (a \div 2)
<1>1. /\ l \in {0, 1} /\ a \in Int /\ 0 <= a /\ a <= 4095
      /\ Joined(s) = l * 4096 + a
  BY LinkAcParts
<1>2. Rar(s) = LA(l2, a2)
  <2>1. ~Has(a, LMASK)
    BY <1>1 DEF Has, LMASK
  <2>2. Rar(s) = LET w == IF l = 1 THEN a + 4096 ELSE a IN LA(w % 2, w \div 2)
    BY <2>1 DEF Rar, LMASK
  <2>3. CASE l = 1
    <3>1. (a + 4096) % 2 = a % 2 /\ (a + 4096) \div 2 = l * 2048 + (a \div 2)
      BY <1>1, <2>3
    <3> QED
      BY <2>2, <2>3, <3>1
  <2>4. CASE l = 0
    BY <1>1, <2>2, <2>4
  <2> QED
    BY <1>1, <2>3, <2>4
<1> HIDE DEF l, a
<1> DEFINE v == l * 4096 + a
<1>3. Meaning(\o010, v) = (v % 2) * 4096 + (v \div 2)
  BY Meanings
<1>4. v \in Int /\ ((l = 0 /\ v = a) \/ (l = 1 /\ v = 4096 + a))
  BY <1>1
<1>5. l2 \in {0, 1} /\ a2 \in Int /\ 0 <= a2 /\ a2 <= 4095
  BY <1>1
<1> HIDE DEF v
<1>6. (v % 2) * 4096 + (v \div 2) = l2 * 4096 + a2
  <2>1. CASE l = 0
    BY <1>1, <1>4, <2>1
  <2>2. CASE l = 1
    BY <1>1, <1>4, <2>2
  <2> QED
    BY <1>1, <2>1, <2>2
<1> HIDE DEF l2, a2
<1>7. Joined(s) = v
  BY <1>1 DEF v
<1> QED
  BY <1>2, <1>3, <1>5, <1>6, <1>7, DoesBy

LEMMA RotatesLeft == Does(Ral, \o004)
<1> SUFFICES ASSUME NEW s \in LinkAcs
             PROVE  Ral(s) \in LinkAcs /\ Joined(Ral(s)) = Meaning(\o004, Joined(s))
  BY DEF Does
<1> DEFINE l == s.link
           a == s.ac
           l2 == a \div 2048
           a2 == ((2 * a) % 4096) + l
<1>1. /\ l \in {0, 1} /\ a \in Int /\ 0 <= a /\ a <= 4095
      /\ Joined(s) = l * 4096 + a
  BY LinkAcParts
<1>2. Ral(s) = LA(l2, a2)
  <2>1. Ral(s) = LA(IF Has(2 * a + l, LMASK) THEN 1 ELSE 0, Mask12(2 * a + l))
    BY DEF Ral
  <2>2. (2 * a + l) \div 4096 = a \div 2048 /\ a \div 2048 \in {0, 1}
    BY <1>1
  <2>3. (IF Has(2 * a + l, LMASK) THEN 1 ELSE 0) = a \div 2048
    BY <2>2 DEF Has, LMASK
  <2>4. Mask12(2 * a + l) = ((2 * a) % 4096) + l
    <3>1. (2 * a + 1) % 4096 = ((2 * a) % 4096) + 1
      BY <1>1
    <3>2. CASE l = 1
      BY <1>1, <3>1, <3>2 DEF Mask12, MEM8SIZ
    <3>3. CASE l = 0
      BY <1>1, <3>3 DEF Mask12, MEM8SIZ
    <3> QED
      BY <1>1, <3>2, <3>3
  <2> QED
    BY <2>1, <2>3, <2>4
<1> HIDE DEF l, a
<1> DEFINE v == l * 4096 + a
<1>3. Meaning(\o004, v) = ((v * 2) % 8192) + (v \div 4096)
  BY Meanings
<1>4. v \in Int /\ ((l = 0 /\ v = a) \/ (l = 1 /\ v = 4096 + a))
  BY <1>1
<1>5. l2 \in {0, 1} /\ a2 \in Int /\ 0 <= a2 /\ a2 <= 4095
  BY <1>1
<1> HIDE DEF v
<1>6. ((v * 2) % 8192) + (v \div 4096) = l2 * 4096 + a2
  <2>1. CASE l = 0
    BY <1>1, <1>4, <2>1
  <2>2. CASE l = 1
    BY <1>1, <1>4, <2>2
  <2> QED
    BY <1>1, <2>1, <2>2
<1> HIDE DEF l2, a2
<1>7. Joined(s) = v
  BY <1>1 DEF v
<1> QED
  BY <1>2, <1>3, <1>5, <1>6, <1>7, DoesBy

LEMMA Decrements == Does(Dac, \o002)
<1> SUFFICES ASSUME NEW s \in LinkAcs
             PROVE  Dac(s) \in LinkAcs /\ Joined(Dac(s)) = Meaning(\o002, Joined(s))
  BY DEF Does
<1> DEFINE l == s.link
           a == s.ac
           l2 == IF a = 0 THEN 1 - l ELSE l
           a2 == IF a = 0 THEN 4095 ELSE a - 1
<1>1. /\ l \in {0, 1} /\ a \in Int /\ 0 <= a /\ a <= 4095
      /\ Joined(s) = l * 4096 + a
  BY LinkAcParts
<1>2. Dac(s) = LA(l2, a2)
  BY <1>1 DEF Dac, Mask12, MEM8SIZ
<1> HIDE DEF l, a
<1> DEFINE v == l * 4096 + a
<1>3. Meaning(\o002, v) = (v - 1) % 8192
  BY Meanings
<1>4. v \in Int /\ ((l = 0 /\ v = a) \/ (l = 1 /\ v = 4096 + a))
  BY <1>1
<1>5. l2 \in {0, 1} /\ a2 \in Int /\ 0 <= a2 /\ a2 <= 4095
  BY <1>1
<1> HIDE DEF v
<1>6. (v - 1) % 8192 = l2 * 4096 + a2
  <2>1. CASE l = 0
    BY <1>1, <1>4, <2>1
  <2>2. CASE l = 1
    BY <1>1, <1>4, <2>2
  <2> QED
    BY <1>1, <2>1, <2>2
<1> HIDE DEF l2, a2
<1>7. Joined(s) = v
  BY <1>1 DEF v
<1> QED
  BY <1>2, <1>3, <1>5, <1>6, <1>7, DoesBy

LEMMA Increments == Does(Iac, \o001)
<1> SUFFICES ASSUME NEW s \in LinkAcs
             PROVE  Iac(s) \in LinkAcs /\ Joined(Iac(s)) = Meaning(\o001, Joined(s))
  BY DEF Does
<1> DEFINE l == s.link
           a == s.ac
           l2 == IF a = 4095 THEN 1 - l ELSE l
           a2 == IF a = 4095 THEN 0 ELSE a + 1
<1>1. /\ l \in {0, 1} /\ a \in Int /\ 0 <= a /\ a <= 4095
      /\ Joined(s) = l * 4096 + a
  BY LinkAcParts
<1>2. Iac(s) = LA(l2, a2)
  BY <1>1 DEF Iac, Mask12, MEM8SIZ
<1> HIDE DEF l, a
<1> DEFINE v == l * 4096 + a
<1>3. Meaning(\o001, v) = (v + 1) % 8192
  BY Meanings
<1>4. v \in Int /\ ((l = 0 /\ v = a) \/ (l = 1 /\ v = 4096 + a))
  BY <1>1
<1>5. l2 \in {0, 1} /\ a2 \in Int /\ 0 <= a2 /\ a2 <= 4095
  BY <1>1
<1> HIDE DEF v
<1>6. (v + 1) % 8192 = l2 * 4096 + a2
  <2>1. CASE l = 0
    BY <1>1, <1>4, <2>1
  <2>2. CASE l = 1
    BY <1>1, <1>4, <2>2
  <2> QED
    BY <1>1, <2>1, <2>2
<1> HIDE DEF l2, a2
<1>7. Joined(s) = v
  BY <1>1 DEF v
<1> QED
  BY <1>2, <1>3, <1>5, <1>6, <1>7, DoesBy

(* The value after the first n micro-operations of the manual's order.     *)
UpTo(n, v) ==
  LET f[k \in 0 .. 8] ==
        IF k = 0 THEN v
        ELSE IF Has(opcode, MicroOpBits[k]) THEN Meaning(MicroOpBits[k], f[k - 1])
        ELSE f[k - 1]
  IN  f[n]

LEMMA UpToSteps ==
  ASSUME NEW v
  PROVE  /\ UpTo(0, v) = v
         /\ UpTo(1, v) = IF Has(opcode, \o200) THEN Meaning(\o200, UpTo(0, v)) ELSE UpTo(0, v)
         /\ UpTo(2, v) = IF Has(opcode, \o100) THEN Meaning(\o100, UpTo(1, v)) ELSE UpTo(1, v)
         /\ UpTo(3, v) = IF Has(opcode, \o040) THEN Meaning(\o040, UpTo(2, v)) ELSE UpTo(2, v)
         /\ UpTo(4, v) = IF Has(opcode, \o020) THEN Meaning(\o020, UpTo(3, v)) ELSE UpTo(3, v)
         /\ UpTo(5, v) = IF Has(opcode, \o010) THEN Meaning(\o010, UpTo(4, v)) ELSE UpTo(4, v)
         /\ UpTo(6, v) = IF Has(opcode, \o004) THEN Meaning(\o004, UpTo(5, v)) ELSE UpTo(5, v)
         /\ UpTo(7, v) = IF Has(opcode, \o002) THEN Meaning(\o002, UpTo(6, v)) ELSE UpTo(6, v)
         /\ UpTo(8, v) = IF Has(opcode, \o001) THEN Meaning(\o001, UpTo(7, v)) ELSE UpTo(7, v)
<1> DEFINE Step(k, w) == IF Has(opcode, MicroOpBits[k]) THEN Meaning(MicroOpBits[k], w)
                         ELSE w
           v1 == Step(1, v)
           v2 == Step(2, v1)
           v3 == Step(3, v2)
           v4 == Step(4, v3)
           v5 == Step(5, v4)
           v6 == Step(6, v5)
           v7 == Step(7, v6)
           v8 == Step(8, v7)
           g == [k \in 0 .. 8 |-> CASE k = 0 -> v [] k = 1 -> v1 [] k = 2 -> v2
                   [] k = 3 -> v3 [] k = 4 -> v4 [] k = 5 -> v5 [] k = 6 -> v6
                   [] k = 7 -> v7 [] k = 8 -> v8]
           Solves(h) == h = [k \in 0 .. 8 |->
                               IF k = 0 THEN v
                               ELSE IF Has(opcode, MicroOpBits[k])
                                    THEN Meaning(MicroOpBits[k], h[k - 1])
                                    ELSE h[k - 1]]
           f == CHOOSE h : Solves(h)
<1>1. \A n : UpTo(n, v) = f[n]
  BY DEF UpTo
<1>2. Solves(g)
  <2> DEFINE r == [k \in 0 .. 8 |-> IF k = 0 THEN v ELSE Step(k, g[k - 1])]
  <2>1. /\ g[0] = v /\ g[1] = v1 /\ g[2] = v2 /\ g[3] = v3 /\ g[4] = v4
        /\ g[5] = v5 /\ g[6] = v6 /\ g[7] = v7 /\ g[8] = v8
    <3> HIDE DEF v1, v2, v3, v4, v5, v6, v7, v8
    <3> QED
      OBVIOUS
  <2>2. /\ v1 = Step(1, v) /\ v2 = Step(2, v1) /\ v3 = Step(3, v2)
        /\ v4 = Step(4, v3) /\ v5 = Step(5, v4) /\ v6 = Step(6, v5)
        /\ v7 = Step(7, v6) /\ v8 = Step(8, v7)
    OBVIOUS
  <2>3. DOMAIN g = 0 .. 8 /\ g = [k \in 0 .. 8 |-> g[k]]
    OBVIOUS
  <2> HIDE DEF v1, v2, v3, v4, v5, v6, v7, v8, g, Step
  <2>4. ASSUME NEW k \in 0 .. 8 PROVE g[k] = IF k = 0 THEN v ELSE Step(k, g[k - 1])
    <3>1. k \in {0, 1, 2, 3, 4, 5, 6, 7, 8}
      OBVIOUS
    <3>2. /\ 1 - 1 = 0 /\ 2 - 1 = 1 /\ 3 - 1 = 2 /\ 4 - 1 = 3 /\ 5 - 1 = 4
          /\ 6 - 1 = 5 /\ 7 - 1 = 6 /\ 8 - 1 = 7
      OBVIOUS
    <3> QED
      BY <2>1, <2>2, <3>1, <3>2
  <2>5. g = r
    BY <2>3, <2>4
  <2> QED
    BY <2>5 DEF Step
<1>3. Solves(f)
  <2> HIDE DEF Solves, g
  <2> QED
    BY <1>2
<1> HIDE DEF f, g
<1>4. f[0] = v /\ \A k \in 1 .. 8 : f[k] = Step(k, f[k - 1])
  <2>1. f[0] = v
    BY <1>3
  <2>2. ASSUME NEW k \in 1 .. 8 PROVE f[k] = Step(k, f[k - 1])
    BY <1>3
  <2> QED
    BY <2>1, <2>2
<1>5. /\ f[1] = Step(1, f[0]) /\ f[2] = Step(2, f[1]) /\ f[3] = Step(3, f[2])
      /\ f[4] = Step(4, f[3]) /\ f[5] = Step(5, f[4]) /\ f[6] = Step(6, f[5])
      /\ f[7] = Step(7, f[6]) /\ f[8] = Step(8, f[7])
  <2> HIDE DEF Step
  <2> QED
    BY <1>4
<1>6. /\ MicroOpBits[1] = \o200 /\ MicroOpBits[2] = \o100
      /\ MicroOpBits[3] = \o040 /\ MicroOpBits[4] = \o020
      /\ MicroOpBits[5] = \o010 /\ MicroOpBits[6] = \o004
      /\ MicroOpBits[7] = \o002 /\ MicroOpBits[8] = \o001
  BY DEF MicroOpBits
<1> QED
  BY <1>1, <1>4, <1>5, <1>6

(* MicroOps does the operations of the opcode in the manual's order.       *)
LEMMA MicroOpsMean ==
  ASSUME NEW s \in LinkAcs
  PROVE  /\ MicroOps(s) \in LinkAcs
         /\ Joined(MicroOps(s)) = Selected(opcode, Joined(s))
<1> DEFINE s1 == IF Has(opcode, \o200) THEN Cla(s) ELSE s
           s2 == IF Has(opcode, \o100) THEN Cll(s1) ELSE s1
           s3 == IF Has(opcode, \o040) THEN Cma(s2) ELSE s2
           s4 == IF Has(opcode, \o020) THEN Cml(s3) ELSE s3
           s5 == IF Has(opcode, \o010) THEN Rar(s4) ELSE s4
           s6 == IF Has(opcode, \o004) THEN Ral(s5) ELSE s5
           s7 == IF Has(opcode, \o002) THEN Dac(s6) ELSE s6
           s8 == IF Has(opcode, \o001) THEN Iac(s7) ELSE s7
<1>0. MicroOps(s) = s8
  BY Zenon DEF MicroOps, When
<1>1. s1 \in LinkAcs /\ Joined(s1) = UpTo(1, Joined(s))
  BY ClearsAc, UpToSteps DEF Does
<1> HIDE DEF s1
<1>2. s2 \in LinkAcs /\ Joined(s2) = UpTo(2, Joined(s))
  BY <1>1, ClearsLink, UpToSteps DEF Does
<1> HIDE DEF s2
<1>3. s3 \in LinkAcs /\ Joined(s3) = UpTo(3, Joined(s))
  BY <1>2, ComplementsAc, UpToSteps DEF Does
<1> HIDE DEF s3
<1>4. s4 \in LinkAcs /\ Joined(s4) = UpTo(4, Joined(s))
  BY <1>3, ComplementsLink, UpToSteps DEF Does
<1> HIDE DEF s4
<1>5. s5 \in LinkAcs /\ Joined(s5) = UpTo(5, Joined(s))
  BY <1>4, RotatesRight, UpToSteps DEF Does
<1> HIDE DEF s5
<1>6. s6 \in LinkAcs /\ Joined(s6) = UpTo(6, Joined(s))
  BY <1>5, RotatesLeft, UpToSteps DEF Does
<1> HIDE DEF s6
<1>7. s7 \in LinkAcs /\ Joined(s7) = UpTo(7, Joined(s))
  BY <1>6, Decrements, UpToSteps DEF Does
<1> HIDE DEF s7
<1>8. s8 \in LinkAcs /\ Joined(s8) = UpTo(8, Joined(s))
  BY <1>7, Increments, UpToSteps DEF Does
<1> HIDE DEF s8
<1>9. Selected(opcode, Joined(s)) = UpTo(8, Joined(s))
  BY DEF Selected, UpTo
<1> QED
  BY <1>0, <1>8, <1>9

(* Group 1 works on the thirteen-bit register.                             *)
LEMMA Group1Composes ==
  ASSUME TwelveBits, link8 \in Bit, Group1
  PROVE  /\ LinkAc' = Selected(opcode, LinkAc) /\ pc8' = pc8 + 1
         /\ UNCHANGED mem8 /\ Untouched
<1> DEFINE s == LA(link8, ac8)
           t == MicroOps(s)
<1>1. s \in LinkAcs /\ Joined(s) = LinkAc
  <2>1. /\ link8 \in Int /\ link8 \in {0, 1}
        /\ ac8 \in Int /\ 0 <= ac8 /\ ac8 <= 4095
    BY Opcode12, Word12Bounds DEF Bit
  <2>2. LA(link8, ac8) \in LinkAcs
    BY <2>1, JoinedLA DEF Bit
  <2>3. Joined(LA(link8, ac8)) = link8 * 4096 + ac8
    BY <2>1, JoinedLA
  <2> QED
    BY <2>2, <2>3 DEF LinkAc
<1>2. Joined(t) = Selected(opcode, LinkAc)
  BY <1>1, MicroOpsMean
<1>3. link8' = t.link /\ ac8' = t.ac /\ pc8' = pc8 + 1
  BY DEF Group1, FinishOpr
<1>4. UNCHANGED mem8 /\ Untouched
  BY DEF Group1, FinishOpr, Untouched
<1> HIDE DEF t
<1> QED
  BY <1>2, <1>3, <1>4 DEF LinkAc, Joined

(* A condition of the code is one of the manual's that holds.              *)
LEMMA ConditionIs ==
  TwelveBits => (Condition <=> \E b \in Conditions : Holds(b))
<1> SUFFICES ASSUME TwelveBits PROVE Condition <=> \E b \in Conditions : Holds(b)
  OBVIOUS
<1>1. Has(ac8, SIGNBIT) <=> ac8 > 2047
  BY Opcode12, Word12Bounds DEF Has, SIGNBIT
<1>2. /\ Holds(\o040) <=> ac8 > 2047
      /\ Holds(\o020) <=> ac8 = 0
      /\ Holds(\o010) <=> link8 = 1
  BY DEF Holds
<1>3. Condition <=> \/ Has(opcode, \o040) /\ Holds(\o040)
                    \/ Has(opcode, \o020) /\ Holds(\o020)
                    \/ Has(opcode, \o010) /\ Holds(\o010)
  BY <1>1, <1>2 DEF Condition
<1> QED
  BY <1>3 DEF Conditions

LEMMA Group2Skips ==
  ASSUME TwelveBits, Group2, opcode % 8 = 0
  PROVE  LET skips == IF Has(opcode, \o100) THEN \A b \in Conditions : ~Holds(b)
                                            ELSE \E b \in Conditions : Holds(b)
         IN  /\ pc8' = pc8 + (IF skips THEN 2 ELSE 1)
             /\ UNCHANGED <<mem8, ac8, link8>> /\ Untouched
<1> DEFINE some == \E b \in Conditions : Holds(b)
<1>1. Condition \in BOOLEAN /\ Has(opcode, \o100) \in BOOLEAN
  BY DEF Condition, Has
<1>2. SkipTaken <=> IF Has(opcode, \o100) THEN ~Condition ELSE Condition
  BY <1>1, Zenon DEF SkipTaken
<1>3. SkipTaken <=> IF Has(opcode, \o100) THEN ~some ELSE some
  BY <1>2, ConditionIs
<1>4. pc8' = (IF ~SkipTaken THEN pc8 + 1 ELSE pc8 + 2)
  BY DEF Group2, FinishOpr, disp
<1>5. UNCHANGED <<mem8, ac8, link8>> /\ Untouched
  BY DEF Group2, FinishOpr, Untouched
<1> QED
  BY <1>3, <1>4, <1>5

LEMMA ExecutedOpr ==
  ASSUME Next, Executed(7)
  PROVE  /\ TwelveBits
         /\ ~Has(opcode, \o400) => Group1
         /\ Has(opcode, \o400) /\ ~Has(opcode, \o200) => Group2
<1>1. TwelveBits /\ Opr(7)
  BY ExecutedIs DEF Executed
<1>2. Ion \/ Iof \/ Hlt \/ NoFunction \/ Device
      => Has(opcode, \o400) /\ Has(opcode, \o200)
  BY DEF Ion, Iof, Hlt, NoFunction, Device, Chario, ExecutingIO
<1>3. Group1 => ~Has(opcode, \o400)
  BY DEF Group1
<1>4. Group2 => Has(opcode, \o400) /\ ~Has(opcode, \o200)
  BY DEF Group2
<1> QED
  BY <1>1, <1>2, <1>3, <1>4 DEF Opr

(* Each of the micro-operations' combinations is the composition of its    *)
(* parts, in the manual's order and on its thirteen-bit register, and each *)
(* of the skips is taken when the manual says (operate.c, against          *)
(* pep8.7:183-258).                                                        *)
THEOREM OprAsInManual == Spec => OprFollowsManual
<1>1. ASSUME TypeOK, [Next]_cpuvars PROVE MicroOpsStep /\ SkipStep
  <2>1. ASSUME Executed(7) PROVE Next /\ link8 \in Bit
    BY <1>1, <2>1 DEF Executed, cpuvars, TypeOK, RegistersOK
  <2>2. MicroOpsStep
    BY <2>1, ExecutedOpr, Group1Composes DEF MicroOpsStep
  <2>3. SkipStep
    BY <2>1, ExecutedOpr, Group2Skips DEF SkipStep
  <2> QED
    BY <2>2, <2>3
<1> QED
  BY <1>1, TypeCorrect, PTL DEF Spec, OprFollowsManual, MicroOpsCompose, SkipsFollowManual
=============================================================================
