---------------------------- MODULE PepsiProofs ----------------------------
(***************************************************************************)
(* The simulator with its devices and threads, for every program, tape and *)
(* typist: it implements the processor with instantaneous devices, and     *)
(* keeps the processor's invariants.                                       *)
(***************************************************************************)
EXTENDS Pepsi, Pep8CpuProofs

(***************************************************************************)
(* The invariant: inside tty_getc the loop is still at its DGA, which no   *)
(* thread can change, and in_ch holds what was typed.                      *)
(***************************************************************************)
InGetc  == at \in {"getc_load", "getc_clear"}
AtDga   == /\ pc8 \in Addr /\ opcode \div \o1000 = 7
           /\ Has(opcode, \o400) /\ Has(opcode, \o200)
           /\ dev = 0 /\ iop = 2

GetcInv == /\ InGetc => AtDga
           /\ in_ch \in KeyBytes \cup {T!BIT7}
           /\ at = "getc_load" => in_ch \in KeyBytes
           /\ taken \in Nat /\ typed \in Nat
           /\ taken <= typed /\ typed <= Len(Keys)
           /\ tape \in Nat

(***************************************************************************)
(* Outside tty_getc the two machines are the same                          *)
(***************************************************************************)
Plain == at \notin {"getc_load", "getc_clear", "exit"}

LEMMA PlainState ==
  Plain => AbsAt = at /\ AbsPc = pc8 /\ AbsMemtop = memtop /\ AbsSubmod = submod
BY DEF Plain, Getting, AbsAt, AbsPc, AbsMemtop, AbsSubmod

LEMMA PlainStep ==
  Plain' => AbsAt' = at' /\ AbsPc' = pc8' /\ AbsMemtop' = memtop' /\ AbsSubmod' = submod'
BY DEF Plain, Getting, AbsAt, AbsPc, AbsMemtop, AbsSubmod

(* Operators that the refinement mapping does not touch.                   *)
LEMMA SameConstants ==
  /\ Processor!Addr = Addr /\ Processor!Bit = Bit
  /\ Processor!LMASK = LMASK /\ Processor!SIGNBIT = SIGNBIT
BY DEF Processor!Addr, Addr, Processor!MEM8SIZ, MEM8SIZ, Processor!Bit, Bit,
   Processor!LMASK, LMASK, Processor!SIGNBIT, SIGNBIT

LEMMA SameBits ==
  /\ \A w, m : Processor!Has(w, m) = Has(w, m)
  /\ \A w : Processor!Mask12(w) = Mask12(w)
  /\ \A x, y : Processor!Larger(x, y) = Larger(x, y)
BY DEF Processor!Has, Has, Processor!Mask12, Mask12, Processor!MEM8SIZ, MEM8SIZ,
   Processor!Larger, Larger

LEMMA SameLogic ==
  /\ \A x, y : Processor!BitAnd(x, y) = BitAnd(x, y)
  /\ \A x, y : Processor!BitOr(x, y) = BitOr(x, y)
<1>1. \A x, y, m : /\ Processor!Both(x, y, m) = Both(x, y, m)
                   /\ Processor!Either(x, y, m) = Either(x, y, m)
  BY SameBits DEF Processor!Both, Both, Processor!Either, Either
<1> QED
  BY <1>1 DEF Processor!BitAnd, BitAnd, Processor!BitOr, BitOr, Processor!BitSum, BitSum

LEMMA SameMemory ==
  /\ \A a : Processor!MemWord(a) = MemWord(a)
  /\ \A a, w : Processor!Store(a, w) = Store(a, w)
BY DEF Processor!MemWord, MemWord, Processor!Store, Store

LEMMA SameFetch ==
  ASSUME AbsPc = pc8
  PROVE  /\ Processor!opcode = opcode /\ Processor!arg = arg
         /\ Processor!disp = disp /\ Processor!iop = iop /\ Processor!dev = dev
         /\ Processor!SkipTaken = SkipTaken
<1>1. Processor!opcode = opcode
  BY SameMemory DEF Processor!opcode, opcode
<1>2. Processor!Direct = Direct
  BY <1>1, SameBits DEF Processor!Direct, Direct
<1>3. Processor!arg = arg
  BY <1>1, <1>2, SameMemory, SameBits DEF Processor!arg, arg
<1>4. Processor!disp = disp /\ Processor!iop = iop /\ Processor!dev = dev
  BY <1>1 DEF Processor!disp, disp, Processor!iop, iop, Processor!dev, dev
<1>5. Processor!Condition = Condition
  BY <1>1, SameBits, SameConstants DEF Processor!Condition, Condition
<1>6. Processor!SkipTaken = SkipTaken
  BY <1>1, <1>5, SameBits DEF Processor!SkipTaken, SkipTaken
<1> QED
  BY <1>1, <1>3, <1>4, <1>6

LEMMA SameExecuting ==
  ASSUME Plain
  PROVE  /\ \A c : Executing(c) => Processor!Executing(c)
         /\ ExecutingIO => Processor!ExecutingIO
<1>1. \A c : Executing(c) => Processor!Executing(c)
  BY PlainState, SameFetch, SameConstants DEF Executing, Processor!Executing
<1> QED
  BY <1>1, PlainState, SameFetch, SameBits DEF ExecutingIO, Processor!ExecutingIO

LEMMA SameFinish ==
  ASSUME Plain, Plain'
  PROVE  /\ \A pc : Finish(pc) => Processor!Finish(pc)
         /\ \A pc : FinishOpr(pc) => Processor!FinishOpr(pc)
BY PlainState, PlainStep, SameFetch, SameBits
   DEF Finish, Processor!Finish, FinishOpr, Processor!FinishOpr

LEMMA SameMicroOps ==
  ASSUME Plain, NEW s
  PROVE  Processor!MicroOps(s) = MicroOps(s)
<1>1. \A t : /\ Processor!Cla(t) = Cla(t) /\ Processor!Cll(t) = Cll(t)
             /\ Processor!Cma(t) = Cma(t) /\ Processor!Cml(t) = Cml(t)
             /\ Processor!Dac(t) = Dac(t) /\ Processor!Iac(t) = Iac(t)
  BY SameBits DEF Processor!Cla, Cla, Processor!Cll, Cll, Processor!Cma, Cma, Processor!Cml,
     Cml, Processor!Dac, Dac, Processor!Iac, Iac, Processor!LA, LA
<1>2. \A t : Processor!Rar(t) = Rar(t) /\ Processor!Ral(t) = Ral(t)
  BY SameBits, SameConstants DEF Processor!Rar, Rar, Processor!Ral, Ral, Processor!LA, LA
<1>3. \A m : Processor!Has(Processor!opcode, m) = Has(opcode, m)
  BY PlainState, SameFetch, SameBits
<1> DEFINE s1 == IF Has(opcode, \o200) THEN Cla(s) ELSE s
           s2 == IF Has(opcode, \o100) THEN Cll(s1) ELSE s1
           s3 == IF Has(opcode, \o040) THEN Cma(s2) ELSE s2
           s4 == IF Has(opcode, \o020) THEN Cml(s3) ELSE s3
           s5 == IF Has(opcode, \o010) THEN Rar(s4) ELSE s4
           s6 == IF Has(opcode, \o004) THEN Ral(s5) ELSE s5
           s7 == IF Has(opcode, \o002) THEN Dac(s6) ELSE s6
           s8 == IF Has(opcode, \o001) THEN Iac(s7) ELSE s7
           p1 == IF Processor!Has(Processor!opcode, \o200) THEN Processor!Cla(s) ELSE s
           p2 == IF Processor!Has(Processor!opcode, \o100) THEN Processor!Cll(p1) ELSE p1
           p3 == IF Processor!Has(Processor!opcode, \o040) THEN Processor!Cma(p2) ELSE p2
           p4 == IF Processor!Has(Processor!opcode, \o020) THEN Processor!Cml(p3) ELSE p3
           p5 == IF Processor!Has(Processor!opcode, \o010) THEN Processor!Rar(p4) ELSE p4
           p6 == IF Processor!Has(Processor!opcode, \o004) THEN Processor!Ral(p5) ELSE p5
           p7 == IF Processor!Has(Processor!opcode, \o002) THEN Processor!Dac(p6) ELSE p6
           p8 == IF Processor!Has(Processor!opcode, \o001) THEN Processor!Iac(p7) ELSE p7
<1>4. MicroOps(s) = s8
  BY Zenon DEF MicroOps, When
<1>5. Processor!MicroOps(s) = p8
  BY Zenon DEF Processor!MicroOps, Processor!When
<1>6. p1 = s1
  BY <1>1, <1>3
<1> HIDE DEF s1, p1
<1>7. p2 = s2
  BY <1>1, <1>3, <1>6
<1> HIDE DEF s2, p2
<1>8. p3 = s3
  BY <1>1, <1>3, <1>7
<1> HIDE DEF s3, p3
<1>9. p4 = s4
  BY <1>1, <1>3, <1>8
<1> HIDE DEF s4, p4
<1>10. p5 = s5
  BY <1>2, <1>3, <1>9
<1> HIDE DEF s5, p5
<1>11. p6 = s6
  BY <1>2, <1>3, <1>10
<1> HIDE DEF s6, p6
<1>12. p7 = s7
  BY <1>1, <1>3, <1>11
<1> HIDE DEF s7, p7
<1>13. p8 = s8
  BY <1>1, <1>3, <1>12
<1> HIDE DEF s8, p8
<1> QED
  BY <1>4, <1>5, <1>13

(***************************************************************************)
(* Instructions and interrupts are the processor's own                     *)
(***************************************************************************)
LEMMA InstructionPlain ==
  ASSUME Instruction PROVE Plain /\ Plain'
<1>1. at = "execute"
  BY DEF Instruction, Rcl, Sto, And, Ora, Tad, Jmp, Jms, Wild, NoCategory, Group1,
     Group2, Ion, Iof, Hlt, NoFunction, ExecutingIO, Executing
<1>2. at' \in {"poll", "wild"}
  BY DEF Instruction, Rcl, Sto, And, Ora, Tad, Jmp, Jms, Wild, NoCategory, Group1,
     Group2, Ion, Iof, Hlt, NoFunction, Finish, FinishOpr
<1> QED
  BY <1>1, <1>2 DEF Plain

LEMMA MemoryInstruction ==
  ASSUME Rcl \/ Sto \/ And \/ Ora \/ Tad \/ Jmp \/ Jms, Plain, Plain'
  PROVE  Processor!Instruction
<1> USE PlainState, PlainStep, SameConstants, SameMemory, SameFetch, SameExecuting,
        SameFinish DEF Processor!Instruction
<1>1. CASE Rcl
  BY <1>1 DEF Rcl, Processor!Rcl
<1>2. CASE Sto
  BY <1>2 DEF Sto, Processor!Sto
<1>3. CASE And
  BY <1>3, SameLogic DEF And, Processor!And
<1>4. CASE Ora
  BY <1>4, SameLogic DEF Ora, Processor!Ora
<1>5. CASE Tad
  BY <1>5, SameBits DEF Tad, Processor!Tad, TadSum, Processor!TadSum
<1>6. CASE Jmp
  BY <1>6 DEF Jmp, Processor!Jmp
<1>7. CASE Jms
  BY <1>7 DEF Jms, Processor!Jms
<1> QED
  BY <1>1, <1>2, <1>3, <1>4, <1>5, <1>6, <1>7

LEMMA OprInstruction ==
  ASSUME Group1 \/ Group2 \/ Ion \/ Iof \/ Hlt \/ NoFunction, Plain, Plain'
  PROVE  Processor!Instruction
<1> USE PlainState, PlainStep, SameConstants, SameFetch, SameBits, SameExecuting,
        SameFinish DEF Processor!Instruction
<1>1. CASE Group1
  BY <1>1, SameMicroOps DEF Group1, Processor!Group1, Processor!LA, LA
<1>2. CASE Group2
  BY <1>2 DEF Group2, Processor!Group2
<1>3. CASE Ion \/ Iof
  BY <1>3 DEF Ion, Processor!Ion, Iof, Processor!Iof
<1>4. CASE Hlt
  BY <1>4 DEF Hlt, Processor!Hlt
<1>5. CASE NoFunction
  BY <1>5 DEF NoFunction, Processor!NoFunction
<1> QED
  BY <1>1, <1>2, <1>3, <1>4, <1>5

LEMMA OutsideInstruction ==
  ASSUME Wild \/ NoCategory, Plain, Plain'
  PROVE  Processor!Instruction
<1> USE PlainState, PlainStep, SameConstants, SameFetch, SameBits, SameExecuting
        DEF Processor!Instruction
<1>1. CASE Wild
  BY <1>1 DEF Wild, Processor!Wild
<1>2. CASE NoCategory
  BY <1>2 DEF NoCategory, Processor!NoCategory
<1> QED
  BY <1>1, <1>2

LEMMA TurnStep ==
  ASSUME Turn PROVE Processor!Turn
<1>1. Plain /\ Plain'
  BY DEF Turn, NoInterrupt, Interrupt, Acknowledge, NextTurn, Plain
<1> USE <1>1, PlainState, PlainStep DEF Processor!Turn, NextTurn, Processor!NextTurn
<1>2. CASE NoInterrupt
  BY <1>2 DEF NoInterrupt, Processor!NoInterrupt
<1>3. CASE Interrupt
  BY <1>3 DEF Interrupt, Processor!Interrupt
<1>4. CASE Acknowledge
  BY <1>4, SameMemory DEF Acknowledge, Processor!Acknowledge
<1> QED
  BY <1>2, <1>3, <1>4 DEF Turn

(***************************************************************************)
(* A device function is one step of the processor, DGA's load the only one *)
(* of tty_getc's; what the threads do is a request or nothing.             *)
(***************************************************************************)
LEMMA ChariosStep ==
  ASSUME NEW d, NEW o, NEW skip \in Bit, NEW ac \in DevWords \cup {ac8},
         <<d, o>> \in Functions8, Chario(d, o, skip, ac), UNCHANGED irq8
  PROVE  Processor!Device
<1>1. Plain /\ Plain'
  BY DEF Chario, ExecutingIO, Executing, FinishOpr, Plain
<1>2. Processor!Chario(d, o, skip, ac)
  BY <1>1, PlainState, PlainStep, SameFetch, SameExecuting, SameFinish
     DEF Chario, Processor!Chario
<1>3. <<d, o>>[1] = d /\ <<d, o>>[2] = o
  OBVIOUS
<1>4. \E f \in Functions8, k \in Processor!Bit, a \in DevWords \cup {ac8} :
        Processor!Chario(f[1], f[2], k, a)
  BY <1>2, <1>3, SameConstants
<1> QED
  BY <1>4 DEF Processor!Device

LEMMA FunctionsOK ==
  /\ <<0, 0>> \in Functions8 /\ <<0, 1>> \in Functions8 /\ <<0, 2>> \in Functions8
  /\ <<0, 3>> \in Functions8 /\ <<0, 6>> \in Functions8
  /\ <<1, 0>> \in Functions8 /\ <<1, 2>> \in Functions8
BY DevicesAssumption DEF DevicesAssumption

LEMMA SkipOK == ASSUME NEW b PROVE Skip(b) \in Bit
BY DEF Skip, Bit

LEMMA TapeByte ==
  ASSUME tape < Len(Tape), tape \in Nat PROVE Tape[tape + 1] \in DevWords
<1>1. tape + 1 \in 1 .. Len(Tape)
  BY TapeAssumption DEF TapeAssumption
<1>2. Tape[tape + 1] \in TapeBytes
  BY <1>1 DEF TapeBytes
<1> QED
  BY <1>2, DevicesAssumption DEF DevicesAssumption

LEMMA KeyByte ==
  ASSUME NEW n \in Nat, n < Len(Keys) PROVE Keys[n + 1] \in KeyBytes
<1>1. n + 1 \in 1 .. Len(Keys)
  BY DevicesAssumption DEF DevicesAssumption
<1> QED
  BY <1>1 DEF KeyBytes

LEMMA WordsOK == 0 \in DevWords /\ 255 \in DevWords /\ KeyBytes \subseteq DevWords
BY DevicesAssumption DEF DevicesAssumption

LEMMA DeviceStep ==
  ASSUME tape \in Nat, Sri \/ Sro \/ Dpa \/ Dsm \/ TapeSri \/ TapeDga
  PROVE  Processor!Device
<1>1. CASE Sri
  BY <1>1, ChariosStep, FunctionsOK, SkipOK DEF Sri
<1>2. CASE Sro
  BY <1>2, ChariosStep, FunctionsOK, SkipOK DEF Sro
<1>3. CASE Dpa
  BY <1>3, ChariosStep, FunctionsOK DEF Dpa, T!TtyPutc, Bit
<1>4. CASE Dsm
  BY <1>4, ChariosStep, FunctionsOK DEF Dsm, T!TtySmask, Bit
<1>5. CASE TapeSri
  BY <1>5, ChariosStep, FunctionsOK, SkipOK DEF TapeSri
<1>6. CASE TapeDga
  <2>1. UNCHANGED irq8 /\ 0 \in Bit
    BY <1>6 DEF TapeDga, Bit
  <2>2. CASE tape < Len(Tape)
    BY <1>6, <2>1, <2>2, ChariosStep, FunctionsOK, TapeByte DEF TapeDga
  <2>3. CASE ~(tape < Len(Tape))
    BY <1>6, <2>1, <2>3, ChariosStep, FunctionsOK, WordsOK DEF TapeDga
  <2> QED
    BY <2>2, <2>3
<1> QED
  BY <1>1, <1>2, <1>3, <1>4, <1>5, <1>6

Still == UNCHANGED <<mem8, ac8, link8, AbsPc, ien8, irq8, running, AbsSubmod, AbsMemtop, AbsAt>>

LEMMA DgaTestStep ==
  ASSUME DgaTest PROVE Still \/ Processor!Device
<1>1. at = "execute" /\ UNCHANGED <<mem8, link8, pc8, ien8, irq8, running, submod, memtop>>
  BY DEF DgaTest, ExecutingIO, Executing
<1>2. Plain
  BY <1>1 DEF Plain
<1>3. CASE at' = "getc_load" /\ ac8' = ac8
  BY <1>1, <1>2, <1>3, PlainState DEF Still, AbsAt, AbsPc, AbsMemtop, AbsSubmod, Getting
<1>4. CASE at' = "getc_clear" /\ ac8' = 0
  <2>1. ExecutingIO /\ dev = 0 /\ iop = 2
    BY DEF DgaTest
  <2>2. Processor!ExecutingIO /\ Processor!dev = 0 /\ Processor!iop = 2
    BY <1>2, <2>1, PlainState, SameExecuting, SameFetch
  <2>3. /\ AbsPc' = pc8 + 1 /\ AbsMemtop' = Larger(memtop, pc8 + 1)
        /\ AbsSubmod' = 0 /\ AbsAt' = "poll"
    BY <1>1, <1>4 DEF AbsAt, AbsPc, AbsMemtop, AbsSubmod, Getting, Larger
  <2>4. pc8 + 1 + 0 = pc8 + 1
    BY <2>1 DEF ExecutingIO, Executing, Addr
  <2>5. Processor!FinishOpr(AbsPc + 1 + 0)
    BY <1>2, <2>3, <2>4, PlainState, SameBits DEF Processor!FinishOpr
  <2>6. Processor!Chario(0, 2, 0, 0)
    BY <1>1, <1>4, <2>2, <2>5 DEF Processor!Chario
  <2>7. <<0, 2>>[1] = 0 /\ <<0, 2>>[2] = 2 /\ 0 \in Processor!Bit
    BY DEF Processor!Bit
  <2>8. Processor!Chario(<<0, 2>>[1], <<0, 2>>[2], 0, 0)
    BY <2>6, <2>7
  <2> QED
    BY <1>1, <2>7, <2>8, FunctionsOK, WordsOK DEF Processor!Device
<1> QED
  BY <1>3, <1>4 DEF DgaTest

LEMMA DgaLoadStep ==
  ASSUME GetcInv, DgaLoad PROVE Processor!Device
<1>1. /\ at = "getc_load" /\ at' = "getc_clear" /\ ac8' = in_ch
      /\ UNCHANGED <<mem8, link8, pc8, ien8, irq8, running, submod, memtop>>
  BY DEF DgaLoad
<1>2. /\ AbsAt = "execute" /\ AbsPc = pc8 /\ AbsMemtop = memtop
      /\ AbsAt' = "poll" /\ AbsPc' = pc8 + 1 /\ AbsSubmod' = 0
      /\ AbsMemtop' = Larger(memtop, pc8 + 1)
  BY <1>1 DEF AbsAt, AbsPc, AbsMemtop, AbsSubmod, Getting, Larger
<1>3. AtDga
  BY <1>1 DEF GetcInv, InGetc
<1>4. /\ Processor!Executing(7) /\ Processor!dev = 0 /\ Processor!iop = 2
      /\ Processor!Has(Processor!opcode, \o400) /\ Processor!Has(Processor!opcode, \o200)
  BY <1>2, <1>3, SameFetch, SameConstants, SameBits DEF AtDga, Processor!Executing
<1>5. pc8 + 1 + 0 = pc8 + 1
  BY <1>3 DEF AtDga, Addr
<1>6. Processor!FinishOpr(AbsPc + 1 + 0)
  BY <1>2, <1>5, SameBits DEF Processor!FinishOpr
<1>7. Processor!Chario(0, 2, 0, in_ch)
  BY <1>1, <1>4, <1>6 DEF Processor!Chario, Processor!ExecutingIO
<1>8. <<0, 2>>[1] = 0 /\ <<0, 2>>[2] = 2 /\ 0 \in Processor!Bit
  BY DEF Processor!Bit
<1>9. Processor!Chario(<<0, 2>>[1], <<0, 2>>[2], 0, in_ch)
  BY <1>7, <1>8
<1>10. in_ch \in DevWords
  BY <1>1, WordsOK DEF GetcInv
<1> QED
  BY <1>1, <1>8, <1>9, <1>10, FunctionsOK DEF Processor!Device

LEMMA DgaClearStep ==
  ASSUME GetcInv, DgaClear PROVE Still
<1>1. /\ at = "getc_clear" /\ at' = "poll" /\ pc8' = pc8 + 1
      /\ memtop' = Larger(memtop, pc8 + 1) /\ submod' = 0
      /\ UNCHANGED <<mem8, ac8, link8, ien8, irq8, running>>
  BY DEF DgaClear, FinishOpr, T!TtyGetcClear
<1> QED
  BY <1>1 DEF Still, AbsAt, AbsPc, AbsMemtop, AbsSubmod, Getting

LEMMA CloseStep == ASSUME Close PROVE Still
<1>1. /\ at = "close" /\ at' = "exit"
      /\ UNCHANGED <<mem8, ac8, link8, pc8, ien8, irq8, running, submod, memtop>>
  BY DEF Close
<1> QED
  BY <1>1 DEF Still, AbsAt, AbsPc, AbsMemtop, AbsSubmod, Getting

(* The threads and the terminal touch nothing of the processor but irq8.   *)
Beside == WriterThread \/ ReaderThread \/ Typist \/ Hangup

LEMMA BesideKeeps ==
  ASSUME Beside
  PROVE  /\ UNCHANGED processor
         /\ UNCHANGED irq8 \/ irq8' = 1
BY DEF Beside, WriterThread, ReaderThread, Typist, Hangup, T!Writer, T!WriterTest,
   T!WriterWrite, T!WriterClear, T!Reader, T!ReaderSocket, T!ReaderConnect,
   T!ReaderRead, T!ReaderMask, T!ReaderRequest, T!ReaderClose, T!Type, T!Hangup,
   T!buffers

LEMMA BesideStep == ASSUME Beside PROVE Still \/ Processor!Request
<1>1. UNCHANGED <<mem8, ac8, link8, pc8, ien8, running, submod, memtop, at>>
  BY BesideKeeps DEF processor
<1>2. UNCHANGED <<AbsAt, AbsPc, AbsMemtop, AbsSubmod>>
  BY <1>1 DEF AbsAt, AbsPc, AbsMemtop, AbsSubmod, Getting
<1> QED
  BY <1>1, <1>2, BesideKeeps DEF Still, Processor!Request

LEMMA RefinementStep ==
  ASSUME GetcInv, [PepsiNext]_vars
  PROVE  [Processor!Next]_Processor!cpuvars
<1>s. Still => UNCHANGED Processor!cpuvars
  BY DEF Still, Processor!cpuvars
<1>1. CASE Instruction
  <2>1. Processor!Instruction
    BY <1>1, InstructionPlain, MemoryInstruction, OprInstruction, OutsideInstruction
       DEF Instruction
  <2> QED
    BY <2>1 DEF Processor!Next
<1>2. CASE Turn
  BY <1>2, TurnStep DEF Processor!Next
<1>3. CASE Sri \/ Sro \/ Dpa \/ Dsm \/ TapeSri \/ TapeDga
  BY <1>3, DeviceStep DEF Processor!Next, GetcInv
<1>4. CASE DgaTest \/ DgaLoad \/ DgaClear
  BY <1>4, <1>s, DgaTestStep, DgaLoadStep, DgaClearStep DEF Processor!Next
<1>5. CASE Close
  BY <1>5, <1>s, CloseStep
<1>6. CASE Beside
  BY <1>6, <1>s, BesideStep DEF Processor!Next
<1>7. CASE UNCHANGED vars
  <2>1. Still
    BY <1>7 DEF vars, cpuvars, Still, AbsAt, AbsPc, AbsMemtop, AbsSubmod, Getting
  <2> QED
    BY <2>1, <1>s
<1> QED
  BY <1>1, <1>2, <1>3, <1>4, <1>5, <1>6, <1>7 DEF PepsiNext, MainLoop, Beside

(***************************************************************************)
(* The invariant is inductive                                              *)
(***************************************************************************)
LEMMA DgaKept ==
  ASSUME AtDga, UNCHANGED <<mem8, pc8>> PROVE AtDga'
BY DEF AtDga, opcode, MemWord, dev, iop

(* A step that changes in_ch only by invalidating it, outside tty_getc or  *)
(* at its DGA.                                                             *)
LEMMA GetcKept ==
  ASSUME GetcInv, UNCHANGED <<taken, typed>>, tape' \in Nat,
         in_ch' \in {in_ch, T!BIT7}, at' # "getc_load", at' = "getc_clear" => AtDga'
  PROVE  GetcInv'
BY DEF GetcInv, InGetc

LEMMA GetcStep == ASSUME GetcInv, [PepsiNext]_vars PROVE GetcInv'
<1>t. tape \in Nat
  BY DEF GetcInv
<1>1. CASE (Instruction \/ Turn) /\ UNCHANGED devvars
  <2>1. at' \notin {"getc_load", "getc_clear"}
    BY <1>1, InstructionPlain DEF Plain, Turn, NoInterrupt, Interrupt, Acknowledge, NextTurn
  <2> QED
    BY <1>1, <1>t, <2>1, GetcKept DEF devvars, pptvars
<1>2. CASE Sri \/ Sro \/ Dpa \/ Dsm \/ TapeSri
  <2>1. at' = "poll"
    BY <1>2 DEF Sri, Sro, Dpa, Dsm, TapeSri, Chario, FinishOpr
  <2>2. UNCHANGED <<taken, typed, tape, in_ch>>
    BY <1>2 DEF Sri, Sro, Dpa, Dsm, TapeSri, devvars, pptvars, T!TtyPutc, T!TtySmask,
       T!threads, T!wire
  <2> QED
    BY <1>t, <2>1, <2>2, GetcKept
<1>3. CASE TapeDga
  <2>1. at' = "poll"
    BY <1>3 DEF TapeDga, Chario, FinishOpr
  <2>2. UNCHANGED <<taken, typed, in_ch>> /\ tape' \in Nat
    BY <1>3, <1>t DEF TapeDga
  <2> QED
    BY <2>1, <2>2, GetcKept
<1>4. CASE DgaTest
  <2>1. AtDga /\ UNCHANGED <<mem8, pc8, taken, typed, in_ch, tape>>
    BY <1>4 DEF DgaTest, ExecutingIO, Executing, AtDga, devvars, pptvars
  <2>2. AtDga'
    BY <2>1, DgaKept
  <2>3. at' = "getc_load" => in_ch \in KeyBytes
    BY <1>4 DEF DgaTest, T!TtyRdyin, GetcInv, T!BIT7
  <2> QED
    BY <2>1, <2>2, <2>3 DEF GetcInv, InGetc
<1>5. CASE DgaLoad
  <2>1. at = "getc_load" /\ at' = "getc_clear"
        /\ UNCHANGED <<mem8, pc8, taken, typed, in_ch, tape>>
    BY <1>5 DEF DgaLoad, devvars, pptvars
  <2>2. AtDga'
    BY <2>1, DgaKept DEF GetcInv, InGetc
  <2> QED
    BY <1>t, <2>1, <2>2, GetcKept
<1>6. CASE DgaClear
  <2>1. at' = "poll" /\ in_ch' = T!BIT7 /\ UNCHANGED <<taken, typed, tape>>
    BY <1>6 DEF DgaClear, FinishOpr, T!TtyGetcClear, T!threads, T!wire, pptvars
  <2> QED
    BY <1>t, <2>1, GetcKept
<1>7. CASE Close
  <2>1. at' = "exit" /\ UNCHANGED <<taken, typed, tape, in_ch>>
    BY <1>7 DEF Close, pptvars
  <2> QED
    BY <1>t, <2>1, GetcKept
<1>8. CASE Beside
  <2>1. UNCHANGED <<mem8, pc8, at, tape>>
    BY <1>8, BesideKeeps DEF processor, pptvars
  <2>2. InGetc' => AtDga'
    BY <2>1, DgaKept DEF GetcInv, InGetc
  <2>3. CASE T!ReaderRead
    <3>1. taken' = taken + 1 /\ typed' = typed /\ taken < typed /\ in_ch' = Keys[taken + 1]
      BY <2>3 DEF T!ReaderRead
    <3>2. in_ch' \in KeyBytes
      <4>1. Len(Keys) \in Nat
        BY DevicesAssumption DEF DevicesAssumption
      <4>2. taken \in Nat /\ taken < Len(Keys)
        BY <3>1, <4>1 DEF GetcInv
      <4> QED
        BY <3>1, <4>2, KeyByte
    <3> QED
      BY <2>1, <2>2, <3>1, <3>2 DEF GetcInv, InGetc
  <2>4. CASE T!Type
    <3>1. typed' = typed + 1 /\ typed < Len(Keys) /\ UNCHANGED <<taken, in_ch>>
      BY <2>4 DEF T!Type, T!buffers
    <3>2. typed' \in Nat /\ taken <= typed' /\ typed' <= Len(Keys)
      BY <3>1, DevicesAssumption DEF GetcInv, DevicesAssumption
    <3> QED
      BY <2>1, <2>2, <3>1, <3>2 DEF GetcInv, InGetc
  <2>5. CASE ~T!ReaderRead /\ ~T!Type
    <3>1. UNCHANGED <<taken, typed, in_ch>>
      BY <1>8, <2>5 DEF Beside, WriterThread, ReaderThread, Typist, Hangup, T!Writer,
         T!WriterTest, T!WriterWrite, T!WriterClear, T!Reader, T!ReaderSocket,
         T!ReaderConnect, T!ReaderMask, T!ReaderRequest, T!ReaderClose, T!Hangup,
         T!buffers, T!wire
    <3> QED
      BY <2>1, <2>2, <3>1 DEF GetcInv, InGetc
  <2> QED
    BY <2>3, <2>4, <2>5
<1>9. CASE UNCHANGED vars
  <2>1. UNCHANGED <<mem8, pc8, at, tape, taken, typed, in_ch>>
    BY <1>9 DEF vars, cpuvars, devvars, pptvars
  <2>2. InGetc' => AtDga'
    BY <2>1, DgaKept DEF GetcInv, InGetc
  <2> QED
    BY <2>1, <2>2 DEF GetcInv, InGetc
<1> QED
  BY <1>1, <1>2, <1>3, <1>4, <1>5, <1>6, <1>7, <1>8, <1>9 DEF PepsiNext, MainLoop, Beside

LEMMA GetcInit == PepsiInit => GetcInv
<1>1. Len(Keys) \in Nat
  BY DevicesAssumption DEF DevicesAssumption
<1> QED
  BY <1>1 DEF PepsiInit, CpuInit, T!TtyInit, GetcInv, InGetc

(***************************************************************************)
(* The theorems                                                            *)
(***************************************************************************)

(* The main loop, chario and the teletype's threads together are a         *)
(* processor with instantaneous devices, for every image, script of the    *)
(* typist and tape: every step is one instruction, one step of the         *)
(* interrupt branch, one device function or request, or invisible.         *)
THEOREM PepsiImplementsProcessor == PepsiSpec => ImplementsProcessor
<1>1. PepsiInit => GetcInv /\ Processor!CpuInit
  <2>1. ASSUME PepsiInit PROVE Processor!CpuInit
    <3>1. Plain /\ CpuInit
      BY <2>1 DEF PepsiInit, CpuInit, Plain
    <3> QED
      BY <3>1, PlainState DEF CpuInit, Processor!CpuInit
  <2> QED
    BY <2>1, GetcInit
<1>2. GetcInv /\ [PepsiNext]_vars => GetcInv' /\ [Processor!Next]_Processor!cpuvars
  BY GetcStep, RefinementStep
<1> QED
  BY <1>1, <1>2, PTL DEF PepsiSpec, ImplementsProcessor, Processor!Spec

(***************************************************************************)
(* The processor's invariants hold of the simulator                        *)
(***************************************************************************)
LEMMA ByteInWord == ASSUME NEW b \in DevWords PROVE b \in Word
<1>1. b \in 0 .. 4095
  BY DeviceAssumption DEF DeviceAssumption
<1>2. b \in Int /\ 0 <= b /\ b <= 4095
  BY <1>1
<1> QED
  BY <1>2, TwelveBitsInWord

LEMMA RunningKept ==
  ASSUME RegistersOK, running' = running PROVE running' \in BOOLEAN
<1>1. running \in BOOLEAN
  BY DEF RegistersOK
<1> QED
  BY <1>1, Zenon

LEMMA GetcType ==
  ASSUME IInv, GetcInv, DgaTest \/ DgaLoad PROVE IInv'
<1>1. /\ UNCHANGED <<mem8, link8, pc8, ien8, irq8, running, submod, memtop>>
      /\ at' \in {"getc_load", "getc_clear"}
  BY DEF DgaTest, DgaLoad
<1>2. ac8' \in Word
  <2>1. CASE ac8' = ac8
    BY <2>1 DEF IInv, TypeOK, RegistersOK
  <2>2. CASE ac8' \in DevWords
    BY <2>2, ByteInWord
  <2>3. ac8' = ac8 \/ ac8' \in DevWords
    BY WordsOK DEF DgaTest, DgaLoad, GetcInv
  <2> QED
    BY <2>1, <2>2, <2>3
<1>3. RegistersOK
  BY DEF IInv, TypeOK
<1>4. running' \in BOOLEAN
  BY <1>1, <1>3, RunningKept
<1>5. RegistersOK'
  BY <1>1, <1>2, <1>3, <1>4 DEF RegistersOK
<1>6. memtop <= memtop'
  BY <1>1, <1>3 DEF RegistersOK
<1> QED
  BY <1>1, <1>5, <1>6, KeepsMemory DEF IInv, Kept

LEMMA GetcClearType ==
  ASSUME IInv, GetcInv, DgaClear PROVE IInv'
<1>1. /\ FinishOpr(pc8 + 1) /\ pc8 \in Addr
      /\ UNCHANGED <<mem8, ac8, link8, ien8, irq8, running>>
  BY DEF DgaClear, T!TtyGetcClear, GetcInv, InGetc, AtDga
<1>2. TypeOK /\ pc8 + 1 \in Word
  BY <1>1, PcType DEF IInv
<1>3. /\ pc8' \in Word /\ memtop' \in 0 .. 8191 /\ memtop <= memtop'
      /\ at' = "poll" /\ submod' \in Bit
  BY <1>1, <1>2, FinishOprType
<1>4. RegistersOK
  BY <1>2 DEF TypeOK
<1>5. running' \in BOOLEAN
  BY <1>1, <1>4, RunningKept
<1>6. RegistersOK'
  BY <1>1, <1>3, <1>4, <1>5 DEF RegistersOK
<1> QED
  BY <1>1, <1>3, <1>6, KeepsMemory DEF IInv, Kept

LEMMA CharioType ==
  ASSUME IInv, NEW d, NEW o, NEW skip \in Bit, NEW ac \in DevWords \cup {ac8},
         <<d, o>> \in Functions8, Chario(d, o, skip, ac), UNCHANGED irq8
  PROVE  IInv'
<1>1. Chario(<<d, o>>[1], <<d, o>>[2], skip, ac)
  OBVIOUS
<1>2. Device
  BY <1>1 DEF Device
<1> QED
  BY <1>2, NextInv DEF Next

LEMMA PepsiType ==
  ASSUME IInv, GetcInv, [PepsiNext]_vars PROVE IInv'
<1>1. CASE Instruction \/ Turn
  BY <1>1, NextInv DEF Next
<1>2. CASE Sri \/ Sro \/ Dpa \/ Dsm \/ TapeSri
  <2>0. 0 \in Bit
    BY DEF Bit
  <2>1. CASE Sri
    BY <2>1, CharioType, FunctionsOK, SkipOK DEF Sri
  <2>2. CASE Sro
    BY <2>2, CharioType, FunctionsOK, SkipOK DEF Sro
  <2>3. CASE Dpa
    BY <2>0, <2>3, CharioType, FunctionsOK DEF Dpa, T!TtyPutc
  <2>4. CASE Dsm
    BY <2>0, <2>4, CharioType, FunctionsOK DEF Dsm, T!TtySmask
  <2>5. CASE TapeSri
    BY <2>5, CharioType, FunctionsOK, SkipOK DEF TapeSri
  <2> QED
    BY <1>2, <2>1, <2>2, <2>3, <2>4, <2>5
<1>3. CASE TapeDga
  <2>0. 0 \in Bit /\ UNCHANGED irq8
    BY <1>3 DEF TapeDga, Bit
  <2>1. CASE tape < Len(Tape)
    <3>1. Tape[tape + 1] \in DevWords
      BY <2>1, TapeByte DEF GetcInv
    <3> QED
      BY <1>3, <2>0, <2>1, <3>1, CharioType, FunctionsOK DEF TapeDga
  <2>2. CASE ~(tape < Len(Tape))
    BY <1>3, <2>0, <2>2, CharioType, FunctionsOK, WordsOK DEF TapeDga
  <2> QED
    BY <2>1, <2>2
<1>4. CASE DgaTest \/ DgaLoad \/ DgaClear
  BY <1>4, GetcType, GetcClearType
<1>5. CASE Close
  <2>1. /\ at' = "exit"
        /\ UNCHANGED <<mem8, ac8, link8, pc8, ien8, irq8, running, submod, memtop>>
    BY <1>5 DEF Close
  <2>2. RegistersOK
    BY DEF IInv, TypeOK
  <2>3. running' \in BOOLEAN
    BY <2>1, <2>2, RunningKept
  <2>4. RegistersOK' /\ memtop <= memtop'
    BY <2>1, <2>2, <2>3 DEF RegistersOK
  <2> QED
    BY <2>1, <2>4, KeepsMemory DEF IInv, Kept
<1>6. CASE Beside
  <2>1. UNCHANGED <<mem8, ac8, link8, pc8, ien8, running, submod, memtop, at>>
    BY <1>6, BesideKeeps DEF processor
  <2>2. UNCHANGED cpuvars \/ Request
    BY <1>6, <2>1, BesideKeeps DEF cpuvars, Request
  <2> QED
    BY <2>2, NextInv DEF Next
<1>7. CASE UNCHANGED vars
  BY <1>7, NextInv DEF vars
<1> QED
  BY <1>1, <1>2, <1>3, <1>4, <1>5, <1>6, <1>7 DEF PepsiNext, MainLoop, Beside

LEMMA PepsiAlways == PepsiSpec => [](IInv /\ GetcInv)
<1>1. PepsiInit => IInv /\ GetcInv
  BY InitInv, GetcInit DEF PepsiInit
<1>2. (IInv /\ GetcInv) /\ [PepsiNext]_vars => (IInv /\ GetcInv)'
  BY PepsiType, GetcStep
<1> QED
  BY <1>1, <1>2, PTL DEF PepsiSpec

(* With the teletype's and the papertape's functions in the place of the   *)
(* processor's free environment, registers and memory still stay in range, *)
(* also in the middle of tty_getc and while a thread requests interrupts.  *)
THEOREM PepsiTypeCorrect == PepsiSpec => []TypeOK
<1>1. IInv => TypeOK
  BY DEF IInv
<1> QED
  BY PepsiAlways, <1>1, PTL

(* memtop stays the highest location touched when the whole simulator runs *)
(* (pepsi.c:48).                                                           *)
THEOREM PepsiMemtopIsHighest == PepsiSpec => []StoredBelowMemtop
<1>1. IInv => StoredBelowMemtop
  BY DEF IInv
<1> QED
  BY PepsiAlways, <1>1, PTL
=============================================================================
