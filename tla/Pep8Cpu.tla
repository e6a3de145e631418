------------------------------ MODULE Pep8Cpu ------------------------------
(***************************************************************************)
(* The processor of the simulator: the instructions of execute.c and       *)
(* operate.c and the interrupt part of the main loop of pepsi.c.           *)
(*                                                                         *)
(* The main loop is one thread.  Its registers are its own; irq8 is also   *)
(* set by the reader thread of the teletype, so the loop's test of irq8    *)
(* and its reset of irq8 are two steps.  `at' is where the loop stands:    *)
(*   execute     before execute( mem8[pc8] )                               *)
(*   getc_load, getc_clear   inside tty_getc, which a composition adds     *)
(*   poll        before the test of ien8 & irq8                            *)
(*   ack         inside the interrupt branch                               *)
(*   close       after the loop, inside chario_close                       *)
(*   exit        the process has ended                                     *)
(*   wild        mem8 was accessed outside 0 .. MEM8SIZ-1: the C program   *)
(*               has no defined behaviour from here on                     *)
(*                                                                         *)
(* mem8 is a C array of zeros into which an image was loaded; the function *)
(* mem8 holds the words that were ever loaded or stored, the others are 0. *)
(***************************************************************************)
EXTENDS Word8

CONSTANTS
  Images,       \* what may be loaded: words, a function from addresses, and
                \* len8, their number as the loader computes it from the size
  Origin,       \* the address execution starts at
  Functions8,   \* the <<device, operation>> pairs with a function in devices[]
  DevWords      \* the words a device function may leave in the accumulator

Loadable(words, len8) == /\ len8 \in 0 .. MEM8SIZ
                         /\ DOMAIN words \subseteq 0 .. len8 - 1
                         /\ \A a \in DOMAIN words : words[a] \in 0 .. 4095

ASSUME ImageAssumption == \A image \in Images : Loadable(image.words, image.len8)

ASSUME DeviceAssumption ==
  /\ Origin \in Addr
  /\ Functions8 \subseteq (0 .. 14) \X (0 .. 7)
  /\ DevWords \subseteq 0 .. 4095

VARIABLES mem8, ac8, link8, pc8, ien8, irq8, running, submod, memtop, at

cpuvars   == <<mem8, ac8, link8, pc8, ien8, irq8, running, submod, memtop, at>>

Larger(x, y) == IF x > y THEN x ELSE y

(***************************************************************************)
(* Operands and addressing                                                 *)
(***************************************************************************)
MemWord(a) == IF a \in DOMAIN mem8 THEN mem8[a] ELSE 0
Store(a, w) == [b \in (DOMAIN mem8) \cup {a} |-> IF b = a THEN w ELSE mem8[b]]

opcode == MemWord(pc8)

Direct == (opcode % 128) + (IF Has(opcode, \o200) THEN pc8 - (pc8 % 128) ELSE 0)

arg == IF Has(opcode, \o400) THEN MemWord(Direct) ELSE Direct

(* The loop is about to execute an instruction of category c (opcode >> 9) *)
Executing(c) == /\ at = "execute"
                /\ pc8 \in Addr
                /\ opcode \div \o1000 = c

(* A slip: the operand does not count for memtop.                          *)
FinishWithoutArg(pc) == /\ pc8' = pc
                        /\ memtop' = Larger(memtop, pc)
                        /\ at' = "poll"
                        /\ UNCHANGED irq8

(* The tail of every memory reference instruction that leaves pc8 at pc:   *)
(* both updates of memtop, the one for the operand and the main loop's.    *)
Finish(pc) == /\ pc8' = pc
              /\ memtop' = Larger(Larger(memtop, arg), pc)
              /\ at' = "poll"
              /\ UNCHANGED irq8

(* The same for OPR, which has no operand.                                 *)
FinishOpr(pc) == /\ pc8' = pc
                 /\ memtop' = Larger(memtop, pc)
                 /\ submod' = 0
                 /\ at' = "poll"

(***************************************************************************)
(* execute: the seven memory reference instructions                        *)
(***************************************************************************)
Rcl == /\ Executing(0)
       /\ arg \in Addr
       /\ ac8' = MemWord(arg)
       /\ submod' = 0
       /\ Finish(pc8 + 1)
       /\ UNCHANGED <<mem8, link8, ien8, running>>

Sto == /\ Executing(1)
       /\ arg \in Addr
       /\ mem8' = Store(arg, ac8)
       /\ submod' = 0
       /\ Finish(pc8 + 1)
       /\ UNCHANGED <<ac8, link8, ien8, running>>

And == /\ Executing(2)
       /\ arg \in Addr
       /\ ac8' = BitAnd(ac8, MemWord(arg))
       /\ submod' = 0
       /\ Finish(pc8 + 1)
       /\ UNCHANGED <<mem8, link8, ien8, running>>

Ora == /\ Executing(3)
       /\ arg \in Addr
       /\ ac8' = BitOr(ac8, MemWord(arg))
       /\ submod' = 0
       /\ Finish(pc8 + 1)
       /\ UNCHANGED <<mem8, link8, ien8, running>>

(* The link is carried in, and overwritten with the carry out; the slip of *)
(* adding without it.                                                      *)
TadSumAlone == ac8 + MemWord(arg)
TadSum == ac8 + link8 + MemWord(arg)

Tad == /\ Executing(4)
       /\ arg \in Addr
       /\ ac8' = Mask12(TadSum)
       /\ link8' = IF Has(TadSum, LMASK) THEN 1 ELSE 0
       /\ submod' = 0
       /\ Finish(pc8 + 1)
       /\ UNCHANGED <<mem8, ien8, running>>

Jmp == /\ Executing(5)
       /\ submod' = 0
       /\ Finish(arg)
       /\ UNCHANGED <<mem8, ac8, link8, ien8, running>>

Jms == /\ Executing(6)
       /\ arg \in Addr
       /\ mem8' = Store(arg, pc8 + 1)
       /\ submod' = 1
       /\ Finish(arg + 1)
       /\ UNCHANGED <<ac8, link8, ien8, running>>

(* An access outside mem8, by the fetch or by the operand.                 *)
Wild == /\ at = "execute"
        /\ \/ pc8 \notin Addr
           \/ /\ \E c \in {0, 1, 2, 3, 4, 6} : Executing(c)
              /\ arg \notin Addr
        /\ at' = "wild"
        /\ UNCHANGED <<mem8, ac8, link8, pc8, ien8, irq8, running, submod, memtop>>

(* A word that is no twelve-bit instruction has no case in execute: pc8    *)
(* stays.  A negative one still takes the address branch before the switch.*)
NoCategory == /\ at = "execute"
              /\ pc8 \in Addr
              /\ opcode \notin 0 .. 4095
              /\ memtop' = IF opcode < 0 THEN Larger(Larger(memtop, arg), pc8)
                                         ELSE Larger(memtop, pc8)
              /\ submod' = 0
              /\ at' = "poll"
              /\ UNCHANGED <<mem8, ac8, link8, pc8, ien8, irq8, running>>

(***************************************************************************)
(* decodeopr, group 1: the micro-operations on link and accumulator, done  *)
(* from bit CLA down to bit IAC.                                           *)
(***************************************************************************)
LA(l, a) == [link |-> l, ac |-> a]

Cla(s) == LA(s.link, 0)
Cll(s) == LA(0, s.ac)
Cma(s) == LA(s.link, Mask12(-1 - s.ac))
Cml(s) == LA(1 - s.link, s.ac)
Rar(s) == LET w == IF s.link = 1 /\ ~Has(s.ac, LMASK) THEN s.ac + LMASK ELSE s.ac
          IN  LA(w % 2, w \div 2)
Ral(s) == LET w == 2 * s.ac + s.link
          IN  LA(IF Has(w, LMASK) THEN 1 ELSE 0, Mask12(w))
Dac(s) == LA(IF s.ac - 1 < 0 THEN 1 - s.link ELSE s.link, Mask12(s.ac - 1))
(* A slip: the carry comes one too early.                                  *)
IacEarly(s) == LA(IF s.ac >= 4095 - 1 THEN 1 - s.link ELSE s.link, Mask12(s.ac + 1))
Iac(s) == LA(IF s.ac + 1 > 4095 THEN 1 - s.link ELSE s.link, Mask12(s.ac + 1))

When(bit, Op(_), s) == IF Has(opcode, bit) THEN Op(s) ELSE s

MicroOps(s) ==
  When(\o001, Iac, When(\o002, Dac, When(\o004, Ral, When(\o010, Rar,
  When(\o020, Cml, When(\o040, Cma, When(\o100, Cll, When(\o200, Cla, s))))))))

Group1 == /\ Executing(7)
          /\ ~Has(opcode, \o400)
          /\ LET s == MicroOps(LA(link8, ac8))
             IN  link8' = s.link /\ ac8' = s.ac
          /\ FinishOpr(pc8 + 1)
          /\ UNCHANGED <<mem8, ien8, irq8, running>>

(***************************************************************************)
(* Group 2: skips, and branches back by the displacement in the last bits  *)
(***************************************************************************)
Condition == \/ Has(opcode, \o040) /\ Has(ac8, SIGNBIT)        \* SMA
             \/ Has(opcode, \o020) /\ ac8 = 0                  \* SZA
             \/ Has(opcode, \o010) /\ link8 = 1                \* SNL

SkipTaken == Condition # Has(opcode, \o100)                     \* LOGGRP

disp == opcode % 8

Group2 == /\ Executing(7)
          /\ Has(opcode, \o400) /\ ~Has(opcode, \o200)
          /\ FinishOpr(IF ~SkipTaken THEN pc8 + 1
                       ELSE IF disp = 0 THEN pc8 + 2 ELSE pc8 - disp)
          /\ UNCHANGED <<mem8, ac8, link8, ien8, irq8, running>>

(***************************************************************************)
(* Group 3: the processor as device 15, and the other devices              *)
(***************************************************************************)
iop == (opcode \div 16) % 8
dev == opcode % 16

ExecutingIO == Executing(7) /\ Has(opcode, \o400) /\ Has(opcode, \o200)

Ion == /\ ExecutingIO /\ dev = 15 /\ iop = 1
       /\ ien8' = 1
       /\ FinishOpr(pc8 + 1)
       /\ UNCHANGED <<mem8, ac8, link8, irq8, running>>

Iof == /\ ExecutingIO /\ dev = 15 /\ iop = 2
       /\ ien8' = 0
       /\ FinishOpr(pc8 + 1)
       /\ UNCHANGED <<mem8, ac8, link8, irq8, running>>

(* pc8 is left at the HLT instruction.                                     *)
Hlt == /\ ExecutingIO /\ dev = 15 /\ iop = 7
       /\ running' = FALSE
       /\ ien8' = 0
       /\ FinishOpr(pc8)
       /\ UNCHANGED <<mem8, ac8, link8, irq8>>

(* Device 15 and the devices of devices[] ignore what they have no         *)
(* function for.                                                           *)
NoFunction == /\ ExecutingIO
              /\ \/ dev = 15 /\ iop \notin {1, 2, 7}
                 \/ dev # 15 /\ <<dev, iop>> \notin Functions8
              /\ FinishOpr(pc8 + 1)
              /\ UNCHANGED <<mem8, ac8, link8, ien8, irq8, running>>

(* devices[] of a build without GPIO: teletype, papertape and scope.       *)
DeviceTable == ({0} \X {0, 1, 2, 3, 6}) \cup ({1} \X {0, 2}) \cup ({2} \X {1, 2, 3, 4})

(* The processor's side of chario: function o of device d returns skip and *)
(* leaves ac in the accumulator.                                           *)
Chario(d, o, skip, ac) == /\ ExecutingIO /\ dev = d /\ iop = o
                          /\ ac8' = ac
                          /\ FinishOpr(pc8 + 1 + skip)
                          /\ UNCHANGED <<mem8, link8, ien8, running>>

(***************************************************************************)
(* The main loop after an instruction                                      *)
(***************************************************************************)
NextTurn == at' = IF running THEN "execute" ELSE "close"

NoInterrupt == /\ at = "poll"
               /\ ien8 = 0 \/ irq8 = 0
               /\ NextTurn
               /\ UNCHANGED <<mem8, ac8, link8, pc8, ien8, irq8, running, submod, memtop>>

Interrupt == /\ at = "poll"
             /\ ien8 = 1 /\ irq8 = 1
             /\ ien8' = 0
             /\ at' = "ack"
             /\ UNCHANGED <<mem8, ac8, link8, pc8, irq8, running, submod, memtop>>

(* A slip: the return address is that of the next instruction but one.     *)
AcknowledgeLate == /\ at = "ack"
                   /\ irq8' = 0
                   /\ mem8' = Store(0, pc8 + 1)
                   /\ pc8' = 1
                   /\ NextTurn
                   /\ UNCHANGED <<ac8, link8, ien8, running, submod, memtop>>

Acknowledge == /\ at = "ack"
               /\ irq8' = 0
               /\ mem8' = Store(0, pc8)
               /\ pc8' = 1
               /\ NextTurn
               /\ UNCHANGED <<ac8, link8, ien8, running, submod, memtop>>

(***************************************************************************)
(* The processor alone: its instructions, and an environment in which any  *)
(* device function may return anything and request interrupts.             *)
(***************************************************************************)
CpuInit == /\ \E image \in Images : mem8 = image.words /\ memtop = image.len8
           /\ ac8 = 0 /\ link8 = 0 /\ pc8 = Origin
           /\ ien8 = 0 /\ irq8 = 0
           /\ running = TRUE
           /\ submod = 0
           /\ at = "execute"

Instruction == \/ Rcl \/ Sto \/ And \/ Ora \/ Tad \/ Jmp \/ Jms
               \/ Wild \/ NoCategory
               \/ Group1 \/ Group2 \/ Ion \/ Iof \/ Hlt \/ NoFunction

Turn == NoInterrupt \/ Interrupt \/ Acknowledge

Device == /\ \E f \in Functions8, skip \in Bit, ac \in DevWords \cup {ac8} :
               Chario(f[1], f[2], skip, ac)
          /\ UNCHANGED irq8

Request == /\ irq8' = 1
           /\ UNCHANGED <<mem8, ac8, link8, pc8, ien8, running, submod, memtop, at>>

Next == Instruction \/ Turn \/ Device \/ Request

Spec == CpuInit /\ [][Next]_cpuvars

(* Every register and every word stays in the range of Word, however the   *)
(* program runs: twelve bits everywhere but where the unmasked pc8 leaks.  *)
MemoryOK == /\ DOMAIN mem8 \subseteq Addr
            /\ \A a \in DOMAIN mem8 : mem8[a] \in Word

RegistersOK == /\ ac8 \in Word /\ pc8 \in Word
               /\ link8 \in Bit /\ ien8 \in Bit /\ irq8 \in Bit /\ submod \in Bit
               /\ running \in BOOLEAN
               /\ memtop \in 0 .. 8191
               /\ at \in {"execute", "getc_load", "getc_clear", "poll", "ack",
                          "close", "exit", "wild"}

TypeOK == MemoryOK /\ RegistersOK

(* pepsi.c:48 calls memtop the "highest touched mem location": no word     *)
(* above it has been loaded or stored, by an instruction or an interrupt.  *)
StoredBelowMemtop == \A a \in DOMAIN mem8 : a <= memtop
=============================================================================
