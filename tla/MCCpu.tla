------------------------------- MODULE MCCpu -------------------------------
(***************************************************************************)
(* The processor on two kinds of instances.                                *)
(*   Single    every OPR instruction, and every memory instruction in      *)
(*             every addressing mode, executed once: from addresses on     *)
(*             page zero, on a later page and at the end of memory, on     *)
(*             accumulators and operands at the boundaries                 *)
(*   Programs  every program of four instructions out of Code, started at  *)
(*             word 0, with a pointer to the end of memory in word 4 and   *)
(*             interrupts requested at any time: the programs run off both *)
(*             ends of memory, modify themselves, and feed saved program   *)
(*             counters back into the accumulator                          *)
(***************************************************************************)
EXTENDS Pep8Manual, TLC

CONSTANT MaxSteps               \* steps of the main loop: a turn has two or three

VARIABLE steps

NoImages == {}
Bytes    == {0, 127}

Corners  == {0, 1, 2047, 2048, 2730, 4094, 4095}
Places   == {0, 5, 130, 4095}
MemOps   == {c * 512 + m * 128 + o : c \in 0 .. 6, m \in 0 .. 3, o \in {0, 5, 127}}
OprOps   == 3584 .. 4095
Operands == {0, 1, 5, 127, 128, 133, 255, 3968, 3973, 4095, 2047, 2048, 2730, 4094}

Single == /\ \E p \in Places, op \in MemOps \cup OprOps,
                m \in Corners : /\ op \in OprOps => m = 0
                                /\ pc8 = p
                                /\ mem8 = (p :> op) @@ [a \in Operands |-> m]
          /\ ac8 \in Corners /\ link8 \in Bit
          /\ memtop = MEM8SIZ
          /\ steps = MaxSteps - 1

Code == { \o0000,               \* RCL 0
          \o1404,               \* STO I 4
          \o1000,               \* STO 0
          \o2004, \o3004,       \* AND 4, ORA 4
          \o4004,               \* TAD 4
          \o5404,               \* JMP I 4
          \o6404, \o6003,       \* JMS I 4, JMS 3
          \o7004, \o7240,       \* RAL, CLA CMA
          \o7507,               \* SKP, back by 7
          \o7637, \o7777 }      \* ION, HLT

Programs == /\ \E f \in [0 .. 3 -> Code] : mem8 = (4 :> 4094) @@ f
            /\ pc8 = 0 /\ ac8 = 0 /\ link8 = 0
            /\ memtop = 6
            /\ steps = 0

MCInit == /\ Single \/ Programs
          /\ ien8 = 0 /\ irq8 = 0
          /\ running = TRUE /\ submod = 0
          /\ at = "execute"

MCNext == \/ steps < MaxSteps /\ (Instruction \/ Turn \/ Device) /\ steps' = steps + 1
          \/ irq8 = 0 /\ ien8 = 1 /\ Request /\ UNCHANGED steps

MCSpec == MCInit /\ [][MCNext]_<<cpuvars, steps>>
=============================================================================
