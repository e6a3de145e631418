--------------------------- MODULE DebuggerProofs ---------------------------
(***************************************************************************)
(* The simulator with its prompt, for every program and every user: no     *)
(* breakpoint is passed, who only looks does not change what the program   *)
(* does, and no command puts a register or a word out of its range.        *)
(***************************************************************************)
EXTENDS MCDebugger, Pep8CpuProofs, WellFoundedInduction, FiniteSetTheorems,
        SequenceTheorems

(* A step of the debugger without the history variables.                   *)
LEMMA StepIsDebuggers ==
  [MCNext]_watchedvars => [DebuggerNext]_vars
BY DEF MCNext, watchedvars

(* pc8 and the breakpoints stay: the same address is a breakpoint.         *)
LEMMA SameBreakpoints ==
  ASSUME UNCHANGED breaks PROVE Breakpoints' = Breakpoints
BY DEF breaks, Breakpoints

(***************************************************************************)
(* Breakpoints                                                             *)
(***************************************************************************)
(* Between the check at the end of the loop and the next instruction, the  *)
(* simulator single-steps if pc8 is a breakpoint.                          *)
Checked == stage = "top" /\ ~singlestep => pc8 \notin Breakpoints

LEMMA InstructionPlaces ==
  ASSUME Instruction PROVE at = "execute" /\ at' \in {"poll", "wild"}
<1>1. at = "execute"
  BY DEF Instruction, Rcl, Sto, And, Ora, Tad, Jmp, Jms, Wild, NoCategory, Group1,
     Group2, Ion, Iof, Hlt, NoFunction, ExecutingIO, Executing
<1>2. at' \in {"poll", "wild"}
  BY DEF Instruction, Rcl, Sto, And, Ora, Tad, Jmp, Jms, Wild, NoCategory, Group1,
     Group2, Ion, Iof, Hlt, NoFunction, Finish, FinishOpr
<1> QED
  BY <1>1, <1>2

(* Every command is typed at the prompt, and leaves it only for the turn.  *)
LEMMA CommandPlace ==
  ASSUME Command \/ EndOfInput
  PROVE  /\ stage = "prompt" /\ at = "execute" /\ stage' \in {"prompt", "turn"}
<1>1. CASE Return \/ Go \/ Run \/ Quit \/ EndOfInput
  BY <1>1 DEF Return, Go, Run, Quit, EndOfInput, Typed, Done
<1>2. CASE Verbose \/ ClearWatch
  BY <1>2 DEF Verbose, ClearWatch, UnchangedBut, Typed
<1>3. CASE Look
  BY <1>3 DEF Look, GoWild, Typed
<1>4. ASSUME NEW a, SetOrigin(a) \/ SetBreak(a) \/ ClearBreak(a)
      PROVE  /\ stage = "prompt" /\ at = "execute" /\ stage' = stage
  BY <1>4 DEF SetOrigin, SetBreak, ClearBreak, GoWild, UnchangedBut, Typed
<1>5. ASSUME NEW a, NEW n, Watch(a, n) \/ Deposit(a, n)
      PROVE  /\ stage = "prompt" /\ at = "execute" /\ stage' = stage
  BY <1>5 DEF Watch, Deposit, GoWild, UnchangedBut, Typed
<1> QED
  BY <1>1, <1>2, <1>3, <1>4, <1>5 DEF Command

LEMMA CheckedStep == Checked /\ [DebuggerNext]_vars => Checked'
<1> SUFFICES ASSUME Checked, [DebuggerNext]_vars, stage' = "top", ~singlestep'
             PROVE  pc8' \notin Breakpoints'
  BY DEF Checked
<1>1. ASSUME stage = "top", UNCHANGED <<pc8, singlestep>>, UNCHANGED breaks
      PROVE  pc8' \notin Breakpoints'
  BY <1>1, SameBreakpoints DEF Checked
<1>2. CASE Top
  BY <1>2 DEF Top
<1>3. CASE TopWild
  BY <1>1, <1>3 DEF TopWild, GoWild, registers, modes
<1>4. CASE Execute
  BY <1>4 DEF Execute
<1>5. CASE End
  <2>1. ~Hit /\ UNCHANGED pc8 /\ UNCHANGED breaks
    BY <1>5 DEF End
  <2> QED
    BY <2>1, SameBreakpoints DEF Hit, HitHere
<1>6. CASE Exit
  BY <1>1, <1>6 DEF Exit, registers, modes
<1>7. CASE Command \/ EndOfInput
  BY <1>7, CommandPlace
<1>8. CASE Interruption
  BY <1>1, <1>8 DEF Interruption, Request, modes
<1>9. CASE UNCHANGED vars
  BY <1>1, <1>9 DEF vars, cpuvars, modes
<1> QED
  BY <1>2, <1>3, <1>4, <1>5, <1>6, <1>7, <1>8, <1>9 DEF DebuggerNext, Loop

(* Whatever the program, its interrupts and the commands do, and whichever *)
(* way pc8 came there, an instruction at a breakpoint is executed only     *)
(* after a prompt (pepsi.c, end of the main loop; interact.c).             *)
THEOREM BreakpointsHold == MCSpec => NeverPassesBreakpoint
<1>1. MCInit => Checked
  BY DEF MCInit, DebuggerInit, Checked
<1>2. Checked /\ [MCNext]_watchedvars => Checked'
  BY CheckedStep, StepIsDebuggers
<1>3. ASSUME Checked, [DebuggerNext]_vars, stage = "top", stage' = "turn"
      PROVE  pc8 \notin Breakpoints
  <2>1. CASE Top
    BY <1>3, <2>1 DEF Top, Checked
  <2>2. CASE TopWild \/ Exit \/ Interruption \/ UNCHANGED vars
    BY <1>3, <2>2 DEF TopWild, GoWild, Exit, Interruption, vars
  <2>3. CASE Execute \/ End
    BY <1>3, <2>3 DEF Execute, End
  <2>4. CASE Command \/ EndOfInput
    BY <1>3, <2>4, CommandPlace
  <2> QED
    BY <1>3, <2>1, <2>2, <2>3, <2>4 DEF DebuggerNext, Loop
<1>4. Checked /\ [MCNext]_watchedvars
      => [stage = "top" /\ stage' = "turn" => pc8 \notin Breakpoints]_watchedvars
  BY <1>3, StepIsDebuggers
<1> QED
  BY <1>1, <1>2, <1>4, PTL DEF MCSpec, NeverPassesBreakpoint

(***************************************************************************)
(* Ranges                                                                  *)
(***************************************************************************)
Ranges == TypeOK /\ interactive \in BOOLEAN /\ user \in Users

LEMMA UserIsUser == user \in Users => user \in User
BY DebuggerAssumption DEF DebuggerAssumption

LEMMA UserTypes ==
  ASSUME user \in Users
  PROVE  /\ user.addresses \subseteq Addr /\ user.counts \subseteq Nat
         /\ user.interactive \in BOOLEAN
<1>1. user \in User
  BY UserIsUser
<1>2. user.addresses \in SUBSET Addr /\ user.counts \in SUBSET Nat
      /\ user.interactive \in BOOLEAN
  BY <1>1, Zenon DEF User
<1> QED
  BY <1>2

(* A step that moves the loop, and changes pc8 or running at most.         *)
LEMMA MovesOnly ==
  ASSUME TypeOK, UNCHANGED <<mem8, ac8, link8, ien8, irq8, submod, memtop>>,
         pc8' \in Word, running' \in BOOLEAN,
         at' \in {at, "execute", "close", "exit", "wild"}
  PROVE  TypeOK'
<1>1. MemoryOK'
  BY DEF TypeOK, MemoryOK
<1>2. at' \in {"execute", "getc_load", "getc_clear", "poll", "ack",
               "close", "exit", "wild"}
  BY DEF TypeOK, RegistersOK
<1>3. /\ ac8' \in Word /\ link8' \in Bit /\ ien8' \in Bit /\ irq8' \in Bit
      /\ submod' \in Bit /\ memtop' \in 0 .. 8191
  BY DEF TypeOK, RegistersOK
<1> QED
  BY <1>1, <1>2, <1>3 DEF TypeOK, RegistersOK

LEMMA RegisterTypes == TypeOK => pc8 \in Word /\ running \in BOOLEAN
BY DEF TypeOK, RegistersOK

(* What does not touch the machine.                                        *)
LEMMA StaysInRange ==
  ASSUME TypeOK, UNCHANGED registers, at' \in {at, "exit", "wild"}
  PROVE  TypeOK'
<1>1. /\ UNCHANGED <<mem8, ac8, link8, ien8, irq8, submod, memtop>>
      /\ pc8' = pc8 /\ running' = running
  BY DEF registers
<1>2. pc8' \in Word /\ running' \in BOOLEAN
  BY <1>1, RegisterTypes
<1>3. at' \in {at, "execute", "close", "exit", "wild"}
  OBVIOUS
<1> QED
  BY <1>1, <1>2, <1>3, MovesOnly

LEMMA EndInRange == ASSUME TypeOK, interactive \in BOOLEAN, End PROVE TypeOK'
<1>1. running' \in BOOLEAN
  <2>1. running' = (running \/ interactive)
    BY DEF End, StillRunning
  <2> QED
    BY <2>1, Zenon
<1>2. at' \in {"execute", "close"} /\ pc8' = pc8
      /\ UNCHANGED <<mem8, ac8, link8, ien8, irq8, submod, memtop>>
  BY DEF End
<1> QED
  BY <1>1, <1>2, RegisterTypes, MovesOnly

LEMMA DoneInRange ==
  ASSUME TypeOK, NEW run \in BOOLEAN, Done(run) PROVE TypeOK'
<1>1. /\ UNCHANGED <<mem8, ac8, link8, ien8, irq8, submod, memtop>>
      /\ pc8' = pc8 /\ at' = at /\ running' = run
  BY DEF Done
<1> QED
  BY <1>1, RegisterTypes, MovesOnly

LEMMA SetOriginInRange ==
  ASSUME TypeOK, NEW a \in Addr, SetOrigin(a) PROVE TypeOK'
<1>1. /\ UNCHANGED <<mem8, ac8, link8, ien8, irq8, submod, memtop>>
      /\ pc8' = a /\ at' \in {at, "wild"} /\ running' = running
  BY DEF SetOrigin
<1>2. a \in Word
  <2>1. a \in Int /\ 0 <= a /\ a <= 4095
    BY DEF Addr, MEM8SIZ
  <2> QED
    BY <2>1, TwelveBitsInWord
<1> QED
  BY <1>1, <1>2, RegisterTypes, MovesOnly

LEMMA DepositInRange ==
  ASSUME TypeOK, NEW a \in Addr, NEW v \in Nat, Deposit(a, v) PROVE TypeOK'
<1>1. mem8' = Store(a, Mask12(v))
      /\ UNCHANGED <<ac8, link8, pc8, ien8, irq8, running, submod, memtop, at>>
  BY DEF Deposit
<1>2. Mask12(v) \in Word
  BY Mask12InWord
<1>3. MemoryOK'
  BY <1>1, <1>2, StoreType DEF TypeOK, MemoryOK
<1>4. RegistersOK'
  <2>1. running' \in BOOLEAN
    BY <1>1, RegisterTypes, Zenon
  <2> QED
    BY <2>1, <1>1 DEF TypeOK, RegistersOK
<1> QED
  BY <1>3, <1>4 DEF TypeOK

LEMMA CommandInRange ==
  ASSUME TypeOK, user \in Users, Command \/ EndOfInput PROVE TypeOK'
<1>1. CASE Return \/ Go \/ Run \/ Quit \/ EndOfInput
  <2>1. \E run \in {running, FALSE} : Done(run)
    BY <1>1 DEF Return, Go, Run, Quit, EndOfInput
  <2> QED
    BY <2>1, RegisterTypes, DoneInRange
<1>2. CASE Verbose \/ ClearWatch \/ Look
  BY <1>2, StaysInRange
     DEF Verbose, ClearWatch, Look, GoWild, UnchangedBut, cpuvars, registers
<1>3. ASSUME NEW a \in user.addresses, SetOrigin(a) \/ SetBreak(a) \/ ClearBreak(a)
      PROVE  TypeOK'
  <2>1. a \in Addr
    BY UserTypes
  <2>2. CASE SetBreak(a)
    BY <2>2, StaysInRange DEF SetBreak, GoWild, UnchangedBut
  <2>3. CASE ClearBreak(a)
    BY <2>3, StaysInRange DEF ClearBreak, UnchangedBut
  <2> QED
    BY <1>3, <2>1, <2>2, <2>3, SetOriginInRange
<1>4. ASSUME NEW a \in user.addresses, NEW n \in user.counts,
             Watch(a, n) \/ Deposit(a, n)
      PROVE  TypeOK'
  <2>1. a \in Addr /\ n \in Nat
    BY UserTypes
  <2>2. CASE Watch(a, n)
    BY <2>2, StaysInRange DEF Watch, GoWild, UnchangedBut
  <2> QED
    BY <1>4, <2>1, <2>2, DepositInRange
<1> QED
  BY <1>1, <1>2, <1>3, <1>4 DEF Command

LEMMA InteractiveKept ==
  ASSUME DebuggerNext PROVE interactive' \in {interactive, FALSE}
<1>1. CASE Loop \/ Interruption
  BY <1>1 DEF Loop, Top, TopWild, GoWild, Execute, End, Exit, Interruption, modes
<1>2. CASE Command \/ EndOfInput
  BY <1>2 DEF Command, Return, Go, Run, Quit, Verbose, SetOrigin, SetBreak, ClearBreak,
     Watch, Deposit, ClearWatch, Look, EndOfInput, GoWild, UnchangedBut, modes
<1> QED
  BY <1>1, <1>2 DEF DebuggerNext

LEMMA RangesStep == Ranges /\ [DebuggerNext]_vars => Ranges'
<1> SUFFICES ASSUME Ranges, [DebuggerNext]_vars PROVE Ranges'
  OBVIOUS
<1>0. TypeOK /\ interactive \in BOOLEAN /\ user \in Users
  BY DEF Ranges
<1>1. user' = user
  BY DEF DebuggerNext, vars
<1>2. interactive' \in BOOLEAN
  <2>1. interactive' \in {interactive, FALSE}
    BY InteractiveKept DEF vars, modes
  <2> QED
    BY <1>0, <2>1, Zenon
<1>3. TypeOK'
  <2>1. CASE Top \/ UNCHANGED vars
    BY <1>0, <2>1, StaysInRange DEF Top, vars, cpuvars, registers
  <2>2. CASE TopWild \/ Exit
    BY <1>0, <2>2, StaysInRange DEF TopWild, GoWild, Exit
  <2>3. CASE Execute \/ Interruption
    BY <1>0, <2>3, NextKeeps DEF Execute, Interruption, Next, Kept
  <2>4. CASE End
    BY <1>0, <2>4, EndInRange
  <2>5. CASE Command \/ EndOfInput
    BY <1>0, <2>5, CommandInRange
  <2> QED
    BY <2>1, <2>2, <2>3, <2>4, <2>5 DEF DebuggerNext, Loop
<1> QED
  BY <1>0, <1>1, <1>2, <1>3 DEF Ranges

LEMMA RangesInit == MCInit => Ranges
<1> SUFFICES ASSUME MCInit PROVE Ranges
  OBVIOUS
<1>1. user \in Users /\ interactive = user.interactive /\ CpuInit
  BY DEF MCInit, DebuggerInit
<1> QED
  BY <1>1, UserTypes, InitInv DEF Ranges, IInv

(* Neither o nor d, the commands that set a register and a word, nor what  *)
(* the prompt does to running puts anything out of the processor's range   *)
(* (interact.c; the main loop of pepsi.c).                                 *)
THEOREM PromptTypeCorrect == MCSpec => []TypeOK
<1>1. Ranges /\ [MCNext]_watchedvars => Ranges'
  BY RangesStep, StepIsDebuggers
<1>2. Ranges => TypeOK
  BY DEF Ranges
<1> QED
  BY RangesInit, <1>1, <1>2, PTL DEF MCSpec

(***************************************************************************)
(* Transparency                                                            *)
(***************************************************************************)
(* -i is the user's, the input ends only if he ends it, and at the end of  *)
(* the turn the loop is where the processor alone would be.                *)
AsUser == /\ interactive => user.interactive
          /\ input = "eof" => "eof" \in user.commands
          /\ stage = "end" => at = IF running THEN "execute" ELSE "close"

LEMMA AsUserStep == AsUser /\ [DebuggerNext]_vars => AsUser'
<1> SUFFICES ASSUME AsUser, [DebuggerNext]_vars PROVE AsUser'
  OBVIOUS
<1>1. user' = user
  BY DEF DebuggerNext, vars
<1>2. interactive' => user'.interactive
  <2>1. interactive' \in {interactive, FALSE}
    BY InteractiveKept DEF vars, modes
  <2> QED
    BY <1>1, <2>1 DEF AsUser
<1>3. input' = "eof" => "eof" \in user'.commands
  <2>1. CASE Loop \/ Interruption \/ UNCHANGED vars
    <3>1. input' = input
      BY <2>1 DEF Loop, Top, TopWild, GoWild, Execute, End, Exit, Interruption, modes, vars
    <3> QED
      BY <1>1, <3>1 DEF AsUser
  <2>2. CASE Command
    <3>1. input' = input
      BY <2>2 DEF Command, Return, Go, Run, Quit, Verbose, SetOrigin, SetBreak,
         ClearBreak, Watch, Deposit, ClearWatch, Look, GoWild, UnchangedBut, modes
    <3> QED
      BY <1>1, <3>1 DEF AsUser
  <2>3. CASE EndOfInput
    BY <1>1, <2>3 DEF EndOfInput, AsUser
  <2> QED
    BY <2>1, <2>2, <2>3 DEF DebuggerNext
<1>4. ASSUME stage' = "end" PROVE at' = IF running' THEN "execute" ELSE "close"
  <2>1. CASE Execute
    <3>1. at' \in {"execute", "close"} /\ Turn
      BY <1>4, <2>1, InstructionPlaces DEF Execute
    <3>2. running' = running /\ NextTurn
      BY <3>1 DEF Turn, NoInterrupt, Interrupt, Acknowledge
    <3> QED
      BY <3>2 DEF NextTurn
  <2>2. CASE Top \/ End
    BY <1>4, <2>2 DEF Top, End
  <2>3. CASE TopWild \/ Exit
    BY <1>4, <2>3 DEF TopWild, GoWild, Exit
  <2>4. CASE Interruption \/ UNCHANGED vars
    <3>1. stage' = stage /\ at' = at /\ running' = running
      BY <2>4 DEF Interruption, Request, vars, cpuvars
    <3> QED
      BY <1>4, <3>1 DEF AsUser
  <2>5. CASE Command \/ EndOfInput
    BY <1>4, <2>5, CommandPlace
  <2> QED
    BY <2>1, <2>2, <2>3, <2>4, <2>5 DEF DebuggerNext, Loop
<1> QED
  BY <1>2, <1>3, <1>4 DEF AsUser

(* The end of the turn leaves the machine alone when -i is not given.      *)
LEMMA EndLooks == ASSUME TypeOK, AsUser, OnlyLooks, End PROVE UNCHANGED cpuvars
<1>1. ~interactive
  BY DEF AsUser, OnlyLooks
<1>2. running' = (running \/ interactive)
  BY DEF End, StillRunning
<1>3. running' = running
  BY <1>1, <1>2, RegisterTypes, Zenon
<1>4. at' = at
  BY <1>3 DEF End, AsUser
<1> QED
  BY <1>3, <1>4 DEF End, cpuvars

LEMMA CommandLooks ==
  ASSUME AsUser, OnlyLooks, Command \/ EndOfInput
  PROVE  UNCHANGED cpuvars \/ ReadsOutside
<1>0. stage = "prompt"
  BY CommandPlace
<1>1. CASE Return \/ Go \/ Run
  BY <1>1 DEF Return, Go, Run, Done, cpuvars
<1>2. ~Quit /\ ~EndOfInput
  BY DEF Quit, EndOfInput, Typed, OnlyLooks, AsUser
<1>3. CASE Verbose \/ ClearWatch \/ Look
  BY <1>0, <1>3
     DEF Verbose, ClearWatch, Look, GoWild, UnchangedBut, cpuvars, registers, ReadsOutside
<1>4. ASSUME NEW a, SetOrigin(a) \/ SetBreak(a) \/ ClearBreak(a)
      PROVE  UNCHANGED cpuvars \/ ReadsOutside
  <2>1. ~SetOrigin(a)
    BY DEF SetOrigin, Typed, OnlyLooks
  <2>2. CASE SetBreak(a)
    BY <1>0, <2>2 DEF SetBreak, GoWild, UnchangedBut, cpuvars, registers, ReadsOutside
  <2>3. CASE ClearBreak(a)
    BY <2>3 DEF ClearBreak, UnchangedBut, cpuvars, registers
  <2> QED
    BY <1>4, <2>1, <2>2, <2>3
<1>5. ASSUME NEW a, NEW n, Watch(a, n) \/ Deposit(a, n)
      PROVE  UNCHANGED cpuvars \/ ReadsOutside
  <2>1. ~Deposit(a, n)
    BY DEF Deposit, Typed, OnlyLooks
  <2>2. CASE Watch(a, n)
    BY <1>0, <2>2 DEF Watch, GoWild, UnchangedBut, cpuvars, registers, ReadsOutside
  <2> QED
    BY <1>5, <2>1, <2>2
<1> QED
  BY <1>1, <1>2, <1>3, <1>4, <1>5 DEF Command

(* Who gives no command that edits the machine or ends it debugs the       *)
(* program he would have run: the loop with display, interact and the      *)
(* breakpoint check takes the steps of the loop without them.              *)
THEOREM DebuggerIsTransparent == MCSpec => DebuggingIsTransparent
<1>1. MCInit => CpuInit /\ AsUser
  <2>1. MCInit => CpuInit
    BY DEF MCInit, DebuggerInit
  <2>2. MCInit => AsUser
    BY DEF MCInit, DebuggerInit, AsUser
  <2> QED
    BY <2>1, <2>2
<1>2. AsUser /\ [MCNext]_watchedvars => AsUser'
  BY AsUserStep, StepIsDebuggers
<1>3. Ranges /\ [MCNext]_watchedvars => Ranges'
  BY RangesStep, StepIsDebuggers
<1>4. ASSUME Ranges, AsUser, [DebuggerNext]_vars, OnlyLooks
      PROVE  [Next]_cpuvars \/ Exit \/ ReadsOutside
  <2>1. CASE Top \/ UNCHANGED vars
    BY <2>1 DEF Top, vars
  <2>2. CASE TopWild
    BY <2>2 DEF TopWild, GoWild, ReadsOutside
  <2>3. CASE Execute \/ Interruption
    BY <2>3 DEF Execute, Interruption, Next
  <2>4. CASE End
    BY <1>4, <2>4, EndLooks DEF Ranges
  <2>5. CASE Command \/ EndOfInput
    BY <1>4, <2>5, CommandLooks
  <2> QED
    BY <1>4, <2>1, <2>2, <2>3, <2>4, <2>5 DEF DebuggerNext, Loop
<1>5. Ranges /\ AsUser /\ [MCNext]_watchedvars
      => [OnlyLooks => [Next]_cpuvars \/ Exit \/ ReadsOutside]_watchedvars
  BY <1>4, StepIsDebuggers
<1> QED
  BY <1>1, <1>2, <1>3, <1>5, RangesInit, PTL DEF MCSpec, DebuggingIsTransparent

(***************************************************************************)
(* Linked lists.  What follows a pointer through a list is a recursive     *)
(* function; that it finds the elements one expects is shown by the least  *)
(* place at which it would not.                                            *)
(***************************************************************************)

(* The elements of list h from `first' on are the cells of s, in order.    *)
Links(h, first, s) ==
  /\ s \in Seq(Cells)
  /\ \A i, j \in 1 .. Len(s) : s[i] = s[j] => i = j
  /\ h = [c \in DOMAIN h |-> h[c]]
  /\ \A c : c \in DOMAIN h <=> \E i \in 1 .. Len(s) : c = s[i]
  /\ \A c \in DOMAIN h : {"addr", "next"} \subseteq DOMAIN h[c]
  /\ first = IF Len(s) = 0 THEN NULL ELSE s[1]
  /\ \A i \in 1 .. Len(s) : h[s[i]].next = IF i = Len(s) THEN NULL ELSE s[i + 1]

(* Every set of natural numbers has a least one.                           *)
LEMMA Least ==
  ASSUME NEW T \in SUBSET Nat, T # {}
  PROVE  \E x \in T : \A y \in T : x <= y
<1> DEFINE R == {p \in Nat \X Nat : p[1] < p[2]}
<1>1. IsWellFoundedOn(R, Nat)
  BY NatLessThanWellFounded DEF OpToRel
<1>2. \A x, y \in Nat : <<y, x>> \in R <=> y < x
  OBVIOUS
<1> HIDE DEF R
<1>3. PICK x \in T : \A y \in T : ~ (<<y, x>> \in R)
  <2>1. T \subseteq Nat
    OBVIOUS
  <2> QED
    BY <1>1, <2>1, WFMin, Zenon
<1>4. \A y \in T : ~ (y < x)
  BY <1>2, <1>3
<1> QED
  BY <1>3, <1>4

(* No more elements can be linked than there are cells.                    *)
LEMMA LinksFit ==
  ASSUME NEW s \in Seq(Cells), \A i, j \in 1 .. Len(s) : s[i] = s[j] => i = j
  PROVE  Cardinality(Cells) \in Nat /\ Len(s) \in Nat /\ Len(s) <= Cardinality(Cells)
<1>1. IsFiniteSet(Cells) /\ Cardinality(Cells) \in Nat
  BY DebuggerAssumption, FS_CardinalityType DEF DebuggerAssumption
<1>2. Len(s) \in Nat /\ s \in [1 .. Len(s) -> Cells]
  OBVIOUS
<1>3. s \in Injection(1 .. Len(s), Cells)
  BY <1>2 DEF Injection, IsInjective
<1>4. Cardinality(1 .. Len(s)) <= Cardinality(Cells)
  BY <1>1, <1>3, FS_Injection
<1>5. Cardinality(1 .. Len(s)) = Len(s)
  BY <1>2, FS_Interval
<1> QED
  BY <1>1, <1>2, <1>4, <1>5

(* Following the links gives the elements in order, and then NULL.         *)
LEMMA ChainIs ==
  ASSUME NEW h, NEW first, NEW s, Links(h, first, s)
  PROVE  Chain(h, first) = s
<1> DEFINE N == Cardinality(Cells)
           Follows(g) == g = [n \in 0 .. N |->
                               IF n = 0 THEN first
                               ELSE IF g[n - 1] \in DOMAIN h THEN h[g[n - 1]].next ELSE NULL]
           nth == CHOOSE g : Follows(g)
           w == [n \in 0 .. N |-> IF n < Len(s) THEN s[n + 1] ELSE NULL]
<1>0. /\ s \in Seq(Cells) /\ N \in Nat /\ Len(s) \in Nat /\ Len(s) <= N
      /\ \A i, j \in 1 .. Len(s) : s[i] = s[j] => i = j
      /\ \A i \in 1 .. Len(s) : s[i] \in Cells /\ s[i] # NULL
      /\ NULL \notin DOMAIN h
  BY LinksFit, DebuggerAssumption DEF Links, DebuggerAssumption
<1>1. Follows(w)
  <2>1. ASSUME NEW n \in 0 .. N
        PROVE  w[n] = IF n = 0 THEN first
                      ELSE IF w[n - 1] \in DOMAIN h THEN h[w[n - 1]].next ELSE NULL
    <3>1. CASE n = 0
      BY <1>0, <3>1 DEF Links
    <3>2. CASE n > 0 /\ n <= Len(s)
      <4>1. n \in 1 .. Len(s) /\ w[n - 1] = s[n]
        BY <1>0, <3>2
      <4>2. s[n] \in DOMAIN h /\ h[s[n]].next = IF n = Len(s) THEN NULL ELSE s[n + 1]
        BY <4>1 DEF Links
      <4> QED
        BY <1>0, <3>2, <4>1, <4>2
    <3>3. CASE n > Len(s)
      <4>1. w[n - 1] = NULL /\ w[n] = NULL /\ n # 0
        BY <1>0, <3>3
      <4> QED
        BY <1>0, <4>1
    <3> QED
      BY <1>0, <3>1, <3>2, <3>3
  <2> HIDE DEF N
  <2> QED
    BY <2>1
<1>2. ASSUME NEW g, Follows(g) PROVE g = w
  <2> DEFINE T == {n \in 0 .. N : g[n] # w[n]}
  <2>1. /\ \A n \in 0 .. N : g[n] = IF n = 0 THEN first
              ELSE IF g[n - 1] \in DOMAIN h THEN h[g[n - 1]].next ELSE NULL
        /\ DOMAIN g = 0 .. N /\ g = [n \in 0 .. N |-> g[n]]
    BY <1>2
  <2>2. \A n \in 0 .. N : w[n] = IF n = 0 THEN first
              ELSE IF w[n - 1] \in DOMAIN h THEN h[w[n - 1]].next ELSE NULL
    BY <1>1
  <2>3. w = [n \in 0 .. N |-> w[n]]
    OBVIOUS
  <2> HIDE DEF w, N
  <2>4. T = {}
    <3> SUFFICES ASSUME T # {} PROVE FALSE
      OBVIOUS
    <3>1. PICK n \in T : \A m \in T : n <= m
      <4>1. T \in SUBSET Nat
        BY <1>0
      <4> HIDE DEF T
      <4> QED
        BY <4>1, Least
    <3>2. n \in 0 .. N /\ g[n] # w[n]
      OBVIOUS
    <3>3. n # 0 => n - 1 \in 0 .. N /\ n - 1 \notin T
      BY <1>0, <3>1, <3>2
    <3>4. n # 0 => g[n - 1] = w[n - 1]
      BY <3>3
    <3> QED
      BY <2>1, <2>2, <3>2, <3>4
  <2>5. \A n \in 0 .. N : g[n] = w[n]
    BY <2>4
  <2> QED
    BY <2>1, <2>3, <2>5
<1>3. nth = w
  <2>1. Follows(nth)
    BY <1>1
  <2> QED
    BY <1>2, <2>1
<1>4. Chain(h, first) = [i \in 1 .. Cardinality({n \in 0 .. N : nth[n] # NULL}) |-> nth[i - 1]]
  BY DEF Chain
<1>5. {n \in 0 .. N : w[n] # NULL} = 0 .. Len(s) - 1
  <2>1. \A n \in 0 .. N : w[n] # NULL <=> n \in 0 .. Len(s) - 1
    BY <1>0
  <2> HIDE DEF w, N
  <2> QED
    BY <1>0, <2>1
<1>6. Cardinality(0 .. Len(s) - 1) = Len(s)
  <2>1. Len(s) - 1 \in Int /\ (0 > Len(s) - 1 <=> Len(s) = 0) /\ (Len(s) - 1) - 0 + 1 = Len(s)
    BY <1>0
  <2>2. Cardinality(0 .. Len(s) - 1) = IF 0 > Len(s) - 1 THEN 0 ELSE (Len(s) - 1) - 0 + 1
    BY <2>1, FS_Interval
  <2> QED
    BY <2>1, <2>2
<1>7. \A i \in 1 .. Len(s) : w[i - 1] = s[i]
  BY <1>0
<1> HIDE DEF w, N, nth
<1>8. Chain(h, first) = [i \in 1 .. Len(s) |-> s[i]]
  BY <1>3, <1>4, <1>5, <1>6, <1>7
<1> QED
  BY <1>0, <1>8

LEMMA AddressesAre ==
  ASSUME NEW h, NEW first, NEW s, Links(h, first, s)
  PROVE  Addresses(h, first) = [i \in 1 .. Len(s) |-> h[s[i]].addr]
BY ChainIs DEF Addresses

(* A new element goes behind the last one.                                 *)
LEMMA FirstLinked ==
  ASSUME NEW h, NEW c \in Cells, NEW e, e.next = NULL, {"addr", "next"} \subseteq DOMAIN e,
         DOMAIN h = {}
  PROVE  LET g == Allocated(h, c, e) IN Links(g, c, <<c>>) /\ g[c] = e
<1> DEFINE g == Allocated(h, c, e)
<1>1. /\ DOMAIN g = {c} /\ g[c] = e /\ g = [d \in {c} |-> g[d]]
  BY DEF Allocated
<1>3. <<c>> \in Seq(Cells) /\ Len(<<c>>) = 1 /\ <<c>>[1] = c
  OBVIOUS
<1> HIDE DEF g
<1>4. Links(g, c, <<c>>)
  BY <1>1, <1>3 DEF Links
<1> QED
  BY <1>1, <1>4 DEF g

LEMMA OneLinked ==
  ASSUME NEW h, NEW first, NEW s, Links(h, first, s), Len(s) > 0,
         NEW c \in Cells, c \notin DOMAIN h,
         NEW e, e.next = NULL, {"addr", "next"} \subseteq DOMAIN e
  PROVE  LET g == Linked(h, s[Len(s)], c, e)
         IN  /\ Links(g, first, Append(s, c))
             /\ g[c] = e
             /\ \A d \in DOMAIN h : g[d].addr = h[d].addr
<1> DEFINE n == Len(s)
           last == s[n]
           g == Linked(h, last, c, e)
           t == Append(s, c)
<1>1. /\ n \in Nat /\ n > 0 /\ s \in Seq(Cells)
      /\ \A i, j \in 1 .. n : s[i] = s[j] => i = j
      /\ \A d : d \in DOMAIN h <=> \E i \in 1 .. n : d = s[i]
      /\ \A d \in DOMAIN h : {"addr", "next"} \subseteq DOMAIN h[d]
      /\ first = s[1]
      /\ \A i \in 1 .. n : h[s[i]].next = IF i = n THEN NULL ELSE s[i + 1]
      /\ h = [d \in DOMAIN h |-> h[d]]
  BY DEF Links
<1>2. last \in DOMAIN h /\ last # c
  BY <1>1
<1>3. /\ DOMAIN g = (DOMAIN h) \cup {c} /\ g = [d \in DOMAIN g |-> g[d]]
      /\ g[c] = e
      /\ g[last] = [h[last] EXCEPT !.next = c]
      /\ \A d \in DOMAIN h : d # last => g[d] = h[d]
  <2> DEFINE f == [h EXCEPT ![last].next = c]
  <2>1. /\ DOMAIN f = DOMAIN h /\ f[last] = [h[last] EXCEPT !.next = c]
        /\ \A d \in DOMAIN h : d # last => f[d] = h[d]
    BY <1>1, <1>2
  <2>2. g = [d \in (DOMAIN f) \cup {c} |-> IF d = c THEN e ELSE f[d]]
    BY DEF Linked, Allocated
  <2> HIDE DEF f, g, last
  <2> QED
    BY <1>1, <1>2, <2>1, <2>2
<1>4. g[last].next = c /\ g[last].addr = h[last].addr /\ {"addr", "next"} \subseteq DOMAIN g[last]
  BY <1>1, <1>2, <1>3
<1>5. /\ t \in Seq(Cells) /\ Len(t) = n + 1 /\ t[n + 1] = c
      /\ \A i \in 1 .. n : t[i] = s[i]
  BY <1>1
<1> HIDE DEF g, t, n, last
<1>6. \A i \in 1 .. n + 1 : i \in 1 .. n \/ i = n + 1
  BY <1>1
<1>7. \A i, j \in 1 .. n + 1 : t[i] = t[j] => i = j
  BY <1>1, <1>5, <1>6
<1>8. \A d : d \in DOMAIN g <=> \E i \in 1 .. n + 1 : d = t[i]
  <2>1. \A d : d \in DOMAIN g <=> d = c \/ \E i \in 1 .. n : d = s[i]
    BY <1>1, <1>3
  <2>2. \A i \in 1 .. n : i \in 1 .. n + 1
    BY <1>1
  <2>3. n + 1 \in 1 .. n + 1
    BY <1>1
  <2> QED
    BY <1>5, <1>6, <2>1, <2>2, <2>3
<1>9. \A d \in DOMAIN g : {"addr", "next"} \subseteq DOMAIN g[d]
  BY <1>1, <1>3, <1>4
<1>10. \A i \in 1 .. n + 1 : g[t[i]].next = IF i = n + 1 THEN NULL ELSE t[i + 1]
  <2>2. ASSUME NEW i \in 1 .. n, i < n PROVE g[t[i]].next = t[i + 1]
    <3>1. s[i] # last /\ s[i] \in DOMAIN h /\ i + 1 \in 1 .. n /\ h[s[i]].next = s[i + 1]
      BY <1>1, <2>2 DEF last
    <3> QED
      BY <1>3, <1>5, <3>1
  <2>3. g[t[n]].next = t[n + 1]
    BY <1>1, <1>4, <1>5 DEF last
  <2>4. g[t[n + 1]].next = NULL
    BY <1>3, <1>5
  <2> QED
    BY <1>1, <1>6, <2>2, <2>3, <2>4
<1>11. first = IF Len(t) = 0 THEN NULL ELSE t[1]
  BY <1>1, <1>5
<1>12. Links(g, first, t)
  BY <1>3, <1>5, <1>7, <1>8, <1>9, <1>10, <1>11 DEF Links
<1>13. \A d \in DOMAIN h : g[d].addr = h[d].addr
  BY <1>3, <1>4
<1> QED
  BY <1>3, <1>12, <1>13 DEF g, t, last, n

(* s without its k-th element.                                             *)
Dropped(s, k) == [i \in 1 .. Len(s) - 1 |-> IF i < k THEN s[i] ELSE s[i + 1]]

LEMMA ElementByElement ==
  ASSUME NEW S, NEW s \in Seq(S) PROVE s = [i \in 1 .. Len(s) |-> s[i]]
OBVIOUS

LEMMA WithoutIs ==
  ASSUME NEW S, NEW s \in Seq(S), NEW k \in 1 .. Len(s)
  PROVE  SubSeq(s, 1, k - 1) \o SubSeq(s, k + 1, Len(s)) = Dropped(s, k)
<1> DEFINE a == SubSeq(s, 1, k - 1)
           b == SubSeq(s, k + 1, Len(s))
           n == Len(s)
<1>1. n \in Nat /\ k \in Nat /\ 1 <= k /\ k <= n
  OBVIOUS
<1>2. a \in Seq(S) /\ Len(a) = k - 1 /\ \A i \in 1 .. k - 1 : a[i] = s[i]
  BY <1>1
<1>3. b \in Seq(S) /\ Len(b) = n - k /\ \A i \in 1 .. n - k : b[i] = s[k + i]
  BY <1>1
<1> HIDE DEF a, b
<1>4. a \o b \in Seq(S) /\ Len(a \o b) = Len(a) + Len(b)
  BY <1>2, <1>3, ConcatProperties
<1>5. a \o b = [i \in 1 .. n - 1 |-> (a \o b)[i]]
  <2>1. Len(a \o b) = n - 1
    BY <1>1, <1>2, <1>3, <1>4
  <2>2. a \o b = [i \in 1 .. Len(a \o b) |-> (a \o b)[i]]
    BY <1>4, ElementByElement
  <2> QED
    BY <2>1, <2>2
<1>6. ASSUME NEW i \in 1 .. n - 1
      PROVE  (a \o b)[i] = IF i < k THEN s[i] ELSE s[i + 1]
  <2>1. CASE i < k
    <3>1. i \in 1 .. Len(a) /\ i \in 1 .. k - 1
      BY <1>1, <1>2, <2>1
    <3>2. (a \o b)[i] = a[i]
      BY <1>1, <1>2, <1>3, <3>1
    <3> QED
      BY <1>2, <2>1, <3>1, <3>2
  <2>2. CASE ~(i < k)
    <3>1. i - (k - 1) \in 1 .. n - k /\ k + (i - (k - 1)) = i + 1 /\ i \in Nat
      BY <1>1, <2>2
    <3>2. (a \o b)[i] = b[i - (k - 1)]
      BY <1>1, <1>2, <1>3, <2>2, <3>1
    <3> QED
      BY <1>3, <2>2, <3>1, <3>2
  <2> QED
    BY <2>1, <2>2
<1> QED
  BY <1>5, <1>6 DEF Dropped, a, b

(* An element is taken out, and the one before it linked to the next.      *)
(* List h, whose elements are those of s, without the k-th one, and its    *)
(* first element then; what the user sees of it.                           *)
Taken(h, s, k) == IF k = 1 THEN Freed(h, s[1])
                  ELSE Freed([h EXCEPT ![s[k - 1]].next = h[s[k]].next], s[k])

FirstThen(h, first, k) == IF k = 1 THEN h[first].next ELSE first

Less(E, k) == SubSeq(E, 1, k - 1) \o SubSeq(E, k + 1, Len(E))

LEMMA OneFreed ==
  ASSUME NEW h, NEW first, NEW s, Links(h, first, s), NEW k, k \in 1 .. Len(s)
  PROVE  /\ Links(Taken(h, s, k), FirstThen(h, first, k), Dropped(s, k))
         /\ \A d : d \in DOMAIN Taken(h, s, k) <=> d \in DOMAIN h /\ d # s[k]
         /\ \A d \in DOMAIN Taken(h, s, k) : Taken(h, s, k)[d].addr = h[d].addr
<1> DEFINE n == Len(s)
           f == [h EXCEPT ![s[k - 1]].next = h[s[k]].next]
           g == IF k = 1 THEN Freed(h, s[1]) ELSE Freed(f, s[k])
           t == Dropped(s, k)
           first2 == IF k = 1 THEN h[first].next ELSE first
<1>1. /\ n \in Nat /\ k \in Nat /\ 1 <= k /\ k <= n /\ s \in Seq(Cells)
      /\ \A i, j \in 1 .. n : s[i] = s[j] => i = j
      /\ \A d : d \in DOMAIN h <=> \E i \in 1 .. n : d = s[i]
      /\ \A d \in DOMAIN h : {"addr", "next"} \subseteq DOMAIN h[d]
      /\ first = s[1]
      /\ \A i \in 1 .. n : h[s[i]].next = IF i = n THEN NULL ELSE s[i + 1]
      /\ h = [d \in DOMAIN h |-> h[d]]
  BY DEF Links
<1>2. \A i \in 1 .. n : s[i] \in DOMAIN h
  BY <1>1
<1>3. /\ DOMAIN g = (DOMAIN h) \ {s[k]} /\ g = [d \in DOMAIN g |-> g[d]]
      /\ \A d \in DOMAIN g : k = 1 \/ d # s[k - 1] => g[d] = h[d]
      /\ k # 1 => g[s[k - 1]] = [h[s[k - 1]] EXCEPT !.next = h[s[k]].next]
  <2>1. CASE k = 1
    BY <2>1 DEF Freed
  <2>2. CASE k # 1
    <3>1. k - 1 \in 1 .. n /\ s[k - 1] \in DOMAIN h /\ s[k - 1] # s[k]
      BY <1>1, <1>2, <2>2
    <3>2. /\ DOMAIN f = DOMAIN h
          /\ f[s[k - 1]] = [h[s[k - 1]] EXCEPT !.next = h[s[k]].next]
          /\ \A d \in DOMAIN h : d # s[k - 1] => f[d] = h[d]
      BY <1>1, <3>1
    <3>3. g = [d \in (DOMAIN f) \ {s[k]} |-> f[d]]
      BY <2>2 DEF Freed
    <3> HIDE DEF f, g
    <3> QED
      BY <2>2, <3>1, <3>2, <3>3
  <2> QED
    BY <2>1, <2>2
<1>4. /\ \A d \in DOMAIN g : g[d].addr = h[d].addr /\ {"addr", "next"} \subseteq DOMAIN g[d]
      /\ k # 1 => g[s[k - 1]].next = h[s[k]].next
  <2>1. ASSUME k # 1
        PROVE  /\ g[s[k - 1]].next = h[s[k]].next /\ g[s[k - 1]].addr = h[s[k - 1]].addr
               /\ {"addr", "next"} \subseteq DOMAIN g[s[k - 1]]
    <3>1. k - 1 \in 1 .. n /\ {"addr", "next"} \subseteq DOMAIN h[s[k - 1]]
      BY <1>1, <1>2, <2>1
    <3>2. g[s[k - 1]] = [h[s[k - 1]] EXCEPT !.next = h[s[k]].next]
      BY <1>3, <2>1
    <3> HIDE DEF g
    <3> QED
      BY <3>1, <3>2
  <2> HIDE DEF g
  <2> QED
    BY <1>1, <1>3, <2>1
<1>5. /\ t = [i \in 1 .. n - 1 |-> IF i < k THEN s[i] ELSE s[i + 1]]
      /\ t \in Seq(Cells) /\ Len(t) = n - 1
  <2>1. \A i \in 1 .. n - 1 : (IF i < k THEN s[i] ELSE s[i + 1]) \in Cells
    BY <1>1
  <2>2. t = [i \in 1 .. n - 1 |-> IF i < k THEN s[i] ELSE s[i + 1]]
    BY DEF Dropped
  <2>3. n - 1 \in Nat
    BY <1>1
  <2> HIDE DEF t, n
  <2>4. t \in [1 .. n - 1 -> Cells]
    BY <2>1, <2>2
  <2> QED
    BY <2>2, <2>3, <2>4
<1> HIDE DEF g, t, n, f
<1>6. \A i \in 1 .. n - 1 : t[i] = IF i < k THEN s[i] ELSE s[i + 1]
  BY <1>5
<1>7. \A i, j \in 1 .. n - 1 : t[i] = t[j] => i = j
  <2>1. \A i \in 1 .. n - 1 : i \in 1 .. n /\ i + 1 \in 1 .. n
    BY <1>1
  <2> QED
    BY <1>1, <1>6, <2>1
<1>8. \A d : d \in DOMAIN g <=> \E i \in 1 .. n - 1 : d = t[i]
  <2>1. ASSUME NEW d \in DOMAIN g PROVE \E i \in 1 .. n - 1 : d = t[i]
    <3>1. PICK i \in 1 .. n : d = s[i] /\ i # k
      BY <1>1, <1>3
    <3>2. CASE i < k
      <4>1. i \in 1 .. n - 1
        BY <1>1, <3>2
      <4> QED
        BY <1>6, <3>1, <3>2, <4>1
    <3>3. CASE i > k
      <4>1. i - 1 \in 1 .. n - 1 /\ ~(i - 1 < k) /\ (i - 1) + 1 = i
        BY <1>1, <3>3
      <4> QED
        BY <1>6, <3>1, <4>1
    <3> QED
      BY <1>1, <3>1, <3>2, <3>3
  <2>2. ASSUME NEW i \in 1 .. n - 1 PROVE t[i] \in DOMAIN g
    <3>1. i \in 1 .. n /\ i + 1 \in 1 .. n
      BY <1>1
    <3>2. \A j \in 1 .. n : j # k => s[j] \in DOMAIN g
      <4>1. \A j \in 1 .. n : j # k => s[j] # s[k]
        BY <1>1
      <4> QED
        BY <1>2, <1>3, <4>1
    <3>3. (i < k => i # k) /\ (~(i < k) => i + 1 # k)
      BY <1>1
    <3>4. t[i] = IF i < k THEN s[i] ELSE s[i + 1]
      BY <1>6
    <3> QED
      BY <3>1, <3>2, <3>3, <3>4
  <2> QED
    BY <2>1, <2>2
<1>9. ASSUME NEW i \in 1 .. n - 1
      PROVE  g[t[i]].next = IF i = n - 1 THEN NULL ELSE t[i + 1]
  <2>0. i \in 1 .. n /\ i + 1 \in 1 .. n /\ t[i] \in DOMAIN g
    BY <1>1, <1>8
  <2>1. CASE i < k - 1
    <3>1. /\ i < k /\ i + 1 < k /\ i # n - 1 /\ i + 1 \in 1 .. n - 1 /\ i # n
          /\ k - 1 \in 1 .. n /\ i # k - 1
      BY <1>1, <2>0, <2>1
    <3>2. t[i] = s[i] /\ t[i + 1] = s[i + 1] /\ s[i] # s[k - 1]
      BY <1>1, <1>6, <2>0, <3>1
    <3>3. g[t[i]] = h[s[i]]
      BY <1>3, <2>0, <3>2
    <3> QED
      BY <1>1, <2>0, <3>1, <3>2, <3>3
  <2>2. CASE i = k - 1
    <3>1. t[i] = s[k - 1] /\ k # 1 /\ k \in 1 .. n
      BY <1>1, <1>6, <2>2
    <3>2. g[t[i]].next = IF k = n THEN NULL ELSE s[k + 1]
      BY <1>1, <1>4, <3>1
    <3>3. CASE k = n
      BY <1>1, <2>2, <3>2, <3>3
    <3>4. CASE k # n
      <4>1. i + 1 = k /\ k \in 1 .. n - 1 /\ t[k] = s[k + 1] /\ i # n - 1
        BY <1>1, <1>6, <2>2, <3>4
      <4> QED
        BY <3>2, <3>4, <4>1
    <3> QED
      BY <3>3, <3>4
  <2>3. CASE i >= k
    <3>1. t[i] = s[i + 1] /\ (k = 1 \/ s[i + 1] # s[k - 1])
      <4>1. k # 1 => k - 1 \in 1 .. n /\ k - 1 # i + 1
        BY <1>1, <2>3
      <4> QED
        BY <1>1, <1>6, <2>0, <2>3, <4>1
    <3>2. g[t[i]].next = IF i + 1 = n THEN NULL ELSE s[i + 2]
      <4>1. g[t[i]] = h[s[i + 1]] /\ (i + 1) + 1 = i + 2
        BY <1>3, <2>0, <3>1
      <4> QED
        BY <1>1, <2>0, <4>1
    <3>3. CASE i + 1 = n
      BY <1>1, <3>2, <3>3
    <3>4. CASE i + 1 # n
      <4>1. i + 1 \in 1 .. n - 1 /\ i # n - 1 /\ ~(i + 1 < k) /\ (i + 1) + 1 = i + 2
        BY <1>1, <2>3, <3>4
      <4>2. t[i + 1] = s[i + 2]
        BY <1>6, <4>1
      <4> QED
        BY <3>2, <3>4, <4>1, <4>2
    <3> QED
      BY <3>3, <3>4
  <2> QED
    BY <1>1, <2>1, <2>2, <2>3
<1>10. first2 = IF n - 1 = 0 THEN NULL ELSE t[1]
  <2>1. CASE k = 1
    <3>1. first2 = IF 1 = n THEN NULL ELSE s[2]
      BY <1>1, <2>1
    <3>2. ASSUME n # 1 PROVE 1 \in 1 .. n - 1 /\ t[1] = s[2]
      <4>1. 1 \in 1 .. n - 1 /\ ~(1 < k) /\ 1 + 1 = 2
        BY <1>1, <2>1, <3>2
      <4> QED
        BY <1>6, <4>1
    <3> QED
      BY <1>1, <3>1, <3>2
  <2>2. CASE k # 1
    <3>1. 1 \in 1 .. n - 1 /\ t[1] = s[1]
      BY <1>1, <1>6, <2>2
    <3> QED
      BY <1>1, <2>2, <3>1
  <2> QED
    BY <2>1, <2>2
<1> HIDE DEF first2
<1>11. Links(g, first2, t)
  <2>1. Len(t) = n - 1 /\ t \in Seq(Cells)
    BY <1>5
  <2>2. \A i, j \in 1 .. Len(t) : t[i] = t[j] => i = j
    BY <1>7, <2>1
  <2>3. \A d : d \in DOMAIN g <=> \E i \in 1 .. Len(t) : d = t[i]
    BY <1>8, <2>1
  <2>4. g = [d \in DOMAIN g |-> g[d]] /\ \A d \in DOMAIN g : {"addr", "next"} \subseteq DOMAIN g[d]
    BY <1>3, <1>4
  <2>5. first2 = IF Len(t) = 0 THEN NULL ELSE t[1]
    BY <1>10, <2>1
  <2>6. \A i \in 1 .. Len(t) : g[t[i]].next = IF i = Len(t) THEN NULL ELSE t[i + 1]
    BY <1>9, <2>1
  <2> QED
    BY <2>1, <2>2, <2>3, <2>4, <2>5, <2>6 DEF Links
<1>12. Taken(h, s, k) = g /\ FirstThen(h, first, k) = first2
  BY DEF Taken, FirstThen, g, f, first2
<1> QED
  BY <1>3, <1>4, <1>11, <1>12 DEF t

(* What the user sees of a list with one element more, or one less.        *)
LEMMA EntriesLinked ==
  ASSUME NEW h, NEW first, NEW s, Links(h, first, s), NEW c \in Cells, NEW a,
         NEW g, NEW first2, Links(g, first2, Append(s, c)),
         \A d \in DOMAIN h : g[d].addr = h[d].addr, g[c].addr = a
  PROVE  Addresses(g, first2) = Append(Addresses(h, first), a)
<1> DEFINE n == Len(s)
           t == Append(s, c)
           E == Addresses(h, first)
<1>1. n \in Nat /\ s \in Seq(Cells) /\ \A i \in 1 .. n : s[i] \in DOMAIN h
  BY DEF Links
<1>2. Len(t) = n + 1 /\ t[n + 1] = c /\ \A i \in 1 .. n : t[i] = s[i]
  BY <1>1
<1>3. E = [i \in 1 .. n |-> h[s[i]].addr]
  BY AddressesAre
<1>4. Addresses(g, first2) = [i \in 1 .. n + 1 |-> g[t[i]].addr]
  <2>1. Links(g, first2, t)
    OBVIOUS
  <2> HIDE DEF t
  <2>2. Addresses(g, first2) = [i \in 1 .. Len(t) |-> g[t[i]].addr]
    BY <2>1, AddressesAre
  <2> QED
    BY <1>2, <2>2
<1> DEFINE S == {h[s[i]].addr : i \in 1 .. n} \cup {a}
<1>5. Append(E, a) = [i \in 1 .. n + 1 |-> IF i \in 1 .. n THEN E[i] ELSE a]
  <2>1. E \in [1 .. n -> S] /\ a \in S
    BY <1>3
  <2> HIDE DEF t, n, E, S
  <2>2. E \in Seq(S) /\ Len(E) = n
    BY <1>1, <2>1
  <2>3. /\ Append(E, a) \in Seq(S) /\ Len(Append(E, a)) = n + 1
        /\ \A i \in 1 .. n : Append(E, a)[i] = E[i]
        /\ Append(E, a)[n + 1] = a
    BY <2>1, <2>2, AppendProperties
  <2>4. Append(E, a) = [i \in 1 .. n + 1 |-> Append(E, a)[i]]
    BY <2>3, ElementByElement
  <2>5. \A i \in 1 .. n + 1 : Append(E, a)[i] = IF i \in 1 .. n THEN E[i] ELSE a
    BY <1>1, <2>3
  <2> QED
    BY <2>4, <2>5
<1> HIDE DEF t, n, E
<1>6. ASSUME NEW i \in 1 .. n + 1 PROVE g[t[i]].addr = IF i \in 1 .. n THEN E[i] ELSE a
  <2>1. CASE i \in 1 .. n
    BY <1>1, <1>2, <1>3, <2>1
  <2>2. CASE i = n + 1
    BY <1>1, <1>2, <2>2
  <2> QED
    BY <1>1, <2>1, <2>2
<1> QED
  BY <1>4, <1>5, <1>6 DEF E

LEMMA EntriesFreed ==
  ASSUME NEW h, NEW first, NEW s, Links(h, first, s), NEW k, k \in 1 .. Len(s),
         NEW g, NEW first2, Links(g, first2, Dropped(s, k)),
         \A d \in DOMAIN g : g[d].addr = h[d].addr, NEW E, E = Addresses(h, first)
  PROVE  /\ Len(E) = Len(s)
         /\ Addresses(g, first2) = Less(E, k)
<1> DEFINE n == Len(s)
           t == Dropped(s, k)
           S == {h[s[i]].addr : i \in 1 .. n}
<1>1. n \in Nat /\ k \in Nat /\ k <= n /\ n - 1 \in Nat
  BY DEF Links
<1>2. E = [i \in 1 .. n |-> h[s[i]].addr]
  BY AddressesAre
<1>3. E \in Seq(S) /\ Len(E) = n
  <2>1. E \in [1 .. n -> S]
    BY <1>2
  <2> HIDE DEF S, n
  <2> QED
    BY <1>1, <2>1
<1>4. t = [i \in 1 .. n - 1 |-> IF i < k THEN s[i] ELSE s[i + 1]]
  BY DEF Dropped
<1>5. Len(t) = n - 1
  BY <1>1, <1>4
<1>6. Addresses(g, first2) = [i \in 1 .. n - 1 |-> g[t[i]].addr]
  BY <1>5, AddressesAre
<1>7. ASSUME NEW i \in 1 .. n - 1
      PROVE  g[t[i]].addr = IF i < k THEN E[i] ELSE E[i + 1]
  <2>1. t[i] \in DOMAIN g
    BY <1>5 DEF Links
  <2>2. i \in 1 .. n /\ i + 1 \in 1 .. n
    BY <1>1
  <2> HIDE DEF t, n
  <2> QED
    BY <1>2, <1>4, <2>1, <2>2
<1>8. Addresses(g, first2) = Dropped(E, k)
  <2> HIDE DEF t, n
  <2> QED
    BY <1>3, <1>6, <1>7 DEF Dropped
<1>9. Less(E, k) = Dropped(E, k)
  <2> HIDE DEF S
  <2> QED
    BY <1>3, WithoutIs DEF Less
<1> QED
  BY <1>3, <1>8, <1>9

LEMMA NoLinks ==
  ASSUME NEW h, NEW first, h = << >>, first = NULL
  PROVE  Links(h, first, << >>) /\ Addresses(h, first) = << >>
<1>1. Links(h, first, << >>)
  <2>1. DOMAIN h = {} /\ h = [c \in DOMAIN h |-> h[c]]
    OBVIOUS
  <2> QED
    BY <2>1 DEF Links
<1>2. Addresses(h, first) = [i \in 1 .. 0 |-> h[(<< >>)[i]].addr]
  BY <1>1, AddressesAre
<1> QED
  BY <1>1, <1>2

(***************************************************************************)
(* The two lists                                                           *)
(***************************************************************************)
BreaksLinked ==
  /\ brklast \in Cells \cup {NULL}
  /\ \E s : /\ Links(brk, brkfirst, s)
            /\ brklast \in DOMAIN brk => brklast = s[Len(s)]

WatchesLinked ==
  /\ lastwatch \in Cells \cup {NULL}
  /\ \E s : /\ Links(watch, watched, s)
            /\ lastwatch \in DOMAIN watch => lastwatch = s[Len(s)]
            /\ lastwatch = NULL => Len(s) = 0

LEMMA SetBreakLinks ==
  ASSUME BreaksLinked, NEW a, SetBreak(a)
  PROVE  \/ UNCHANGED breaks
         \/ BreaksLinked' /\ Addresses(brk, brkfirst)' = Append(Addresses(brk, brkfirst), a)
<1>1. CASE brkfirst # NULL /\ brklast \notin DOMAIN brk
  BY <1>1 DEF SetBreak, GoWild
<1>2. CASE ~(brkfirst # NULL /\ brklast \notin DOMAIN brk)
  <2> DEFINE element == [addr |-> a, next |-> NULL]
  <2>1. PICK s : /\ Links(brk, brkfirst, s)
                 /\ brklast \in DOMAIN brk => brklast = s[Len(s)]
    BY DEF BreaksLinked
  <2>2. PICK c \in Cells \ DOMAIN brk :
          /\ brklast' = c
          /\ IF brkfirst = NULL
             THEN brkfirst' = c /\ brk' = Allocated(brk, c, element)
             ELSE brkfirst' = brkfirst /\ brk' = Linked(brk, brklast, c, element)
    BY <1>2 DEF SetBreak
  <2>3. element.next = NULL /\ element.addr = a /\ {"addr", "next"} \subseteq DOMAIN element
    OBVIOUS
  <2> HIDE DEF element
  <2>4. s \in Seq(Cells) /\ Len(s) \in Nat /\ (brkfirst = NULL <=> Len(s) = 0)
    <3>1. s \in Seq(Cells) /\ Len(s) \in Nat
      BY <2>1 DEF Links
    <3>2. Len(s) # 0 => s[1] # NULL /\ brkfirst = s[1]
      BY <2>1, <3>1, DebuggerAssumption DEF Links, DebuggerAssumption
    <3> QED
      BY <2>1, <3>1, <3>2 DEF Links
  <2>5. /\ Links(brk', brkfirst', Append(s, c)) /\ brk'[c] = element
        /\ \A d \in DOMAIN brk : brk'[d].addr = brk[d].addr
    <3>1. CASE brkfirst = NULL
      <4>1. DOMAIN brk = {} /\ Append(s, c) = <<c>>
        <5>1. s = << >>
          BY <2>4, <3>1
        <5>2. DOMAIN brk = {}
          BY <2>1, <2>4, <3>1 DEF Links
        <5>3. Append(<< >>, c) = <<c>>
          OBVIOUS
        <5> QED
          BY <5>1, <5>2, <5>3
      <4> QED
        BY <2>2, <2>3, <3>1, <4>1, FirstLinked
    <3>2. CASE brkfirst # NULL
      <4>1. Len(s) > 0 /\ brklast = s[Len(s)]
        BY <1>2, <2>1, <2>4, <3>2
      <4> QED
        BY <2>1, <2>2, <2>3, <3>2, <4>1, OneLinked
    <3> QED
      BY <3>1, <3>2
  <2>6. Addresses(brk', brkfirst') = Append(Addresses(brk, brkfirst), a)
    BY <2>1, <2>2, <2>3, <2>5, EntriesLinked
  <2>7. BreaksLinked'
    <3>1. brklast' = Append(s, c)[Len(Append(s, c))]
      BY <2>2, <2>4
    <3> QED
      BY <2>2, <2>5, <3>1 DEF BreaksLinked
  <2> QED
    BY <2>6, <2>7
<1> QED
  BY <1>1, <1>2

LEMMA ClearBreakLinks ==
  ASSUME BreaksLinked, NEW a, ClearBreak(a)
  PROVE  /\ BreaksLinked'
         /\ \A E : E = Addresses(brk, brkfirst) =>
              \E i \in 1 .. Len(E) :
                 /\ E[i] = a /\ \A j \in 1 .. i - 1 : E[j] # a
                 /\ Addresses(brk, brkfirst)' = Less(E, i)
<1>1. PICK s : /\ Links(brk, brkfirst, s)
               /\ brklast \in DOMAIN brk => brklast = s[Len(s)]
  BY DEF BreaksLinked
<1>2. Chain(brk, brkfirst) = s
  BY <1>1, ChainIs
<1>3. PICK k \in 1 .. Len(s) :
        /\ brk[s[k]].addr = a /\ \A j \in 1 .. k - 1 : brk[s[j]].addr # a
        /\ IF k = 1 /\ s[1] = brklast
           THEN brkfirst' = NULL /\ brklast' = NULL /\ brk' = Freed(brk, s[1])
           ELSE /\ brklast' = brklast
                /\ brkfirst' = IF k = 1 THEN brk[s[1]].next ELSE brkfirst
                /\ brk' = IF k = 1 THEN Freed(brk, s[1])
                          ELSE Freed([brk EXCEPT ![s[k - 1]].next = brk[s[k]].next], s[k])
  BY <1>2 DEF ClearBreak
<1>4. /\ Len(s) \in Nat /\ s \in Seq(Cells) /\ \A i, j \in 1 .. Len(s) : s[i] = s[j] => i = j
      /\ \A i \in 1 .. Len(s) : s[i] \in DOMAIN brk
      /\ \A i \in 1 .. Len(s) : brk[s[i]].next = IF i = Len(s) THEN NULL ELSE s[i + 1]
  BY <1>1 DEF Links
<1>5. k = 1 /\ s[1] = brklast => Len(s) = 1
  <2>1. SUFFICES ASSUME s[1] = brklast PROVE Len(s) = 1
    OBVIOUS
  <2>2. 1 \in 1 .. Len(s) /\ Len(s) \in 1 .. Len(s)
    BY <1>3, <1>4
  <2>3. s[1] \in DOMAIN brk
    BY <1>4, <2>2
  <2>4. s[1] = s[Len(s)]
    BY <1>1, <2>1, <2>3
  <2> QED
    BY <1>4, <2>2, <2>4
<1>6. brkfirst' = FirstThen(brk, brkfirst, k) /\ brk' = Taken(brk, s, k)
  <2>1. k = 1 => brkfirst = s[1]
    BY <1>1, <1>3, <1>4 DEF Links
  <2>2. CASE k = 1 /\ s[1] = brklast
    <3>1. brkfirst' = NULL /\ brk' = Freed(brk, s[1]) /\ k = 1 /\ brk[s[1]].next = NULL
      BY <1>3, <1>4, <1>5, <2>2
    <3> QED
      BY <2>1, <3>1 DEF Taken, FirstThen
  <2>3. CASE ~(k = 1 /\ s[1] = brklast)
    <3>1. /\ brkfirst' = IF k = 1 THEN brk[s[1]].next ELSE brkfirst
          /\ brk' = Taken(brk, s, k)
      BY <1>3, <2>3 DEF Taken
    <3> QED
      BY <2>1, <3>1 DEF FirstThen
  <2> QED
    BY <2>2, <2>3
<1>8. /\ Links(brk', brkfirst', Dropped(s, k))
      /\ \A d : d \in DOMAIN brk' <=> d \in DOMAIN brk /\ d # s[k]
      /\ \A d \in DOMAIN brk' : brk'[d].addr = brk[d].addr
  BY <1>1, <1>6, OneFreed
<1>9. BreaksLinked'
  <2>1. brklast' \in Cells \cup {NULL}
    BY <1>3 DEF BreaksLinked
  <2>2. ASSUME brklast' \in DOMAIN brk'
        PROVE  brklast' = Dropped(s, k)[Len(Dropped(s, k))]
    <3>1. brklast' = brklast /\ brklast = s[Len(s)] /\ k # Len(s)
      <4>1. brklast' # NULL
        BY <1>4, <1>8, <2>2, DebuggerAssumption DEF DebuggerAssumption, Links
      <4> QED
        BY <1>1, <1>3, <1>8, <2>2, <4>1
    <3>2. Dropped(s, k) = [i \in 1 .. Len(s) - 1 |-> IF i < k THEN s[i] ELSE s[i + 1]]
      BY DEF Dropped
    <3>3. Len(s) - 1 \in 1 .. Len(s) - 1 /\ ~(Len(s) - 1 < k) /\ (Len(s) - 1) + 1 = Len(s)
      BY <1>4, <3>1
    <3>4. Len(Dropped(s, k)) = Len(s) - 1
      BY <3>2, <3>3
    <3> QED
      BY <3>1, <3>2, <3>3, <3>4
  <2> QED
    BY <1>8, <2>1, <2>2 DEF BreaksLinked
<1>10. ASSUME NEW E, E = Addresses(brk, brkfirst)
       PROVE  \E i \in 1 .. Len(E) :
                 /\ E[i] = a /\ \A j \in 1 .. i - 1 : E[j] # a
                 /\ Addresses(brk, brkfirst)' = Less(E, i)
  <2>1. Links(brk, brkfirst, s) /\ Links(brk', brkfirst', Dropped(s, k))
    BY <1>1, <1>8
  <2>2. \A d \in DOMAIN brk' : brk'[d].addr = brk[d].addr
    BY <1>8
  <2>3. Len(E) = Len(s) /\ Addresses(brk', brkfirst') = Less(E, k)
    BY <1>10, <2>1, <2>2, EntriesFreed
  <2>4. E = [i \in 1 .. Len(s) |-> brk[s[i]].addr]
    BY <1>1, <1>10, AddressesAre
  <2>5. E[k] = a /\ \A j \in 1 .. k - 1 : E[j] # a
    BY <1>3, <1>4, <2>4
  <2> QED
    BY <2>3, <2>5
<1> QED
  BY <1>9, <1>10

LEMMA WatchLinks ==
  ASSUME WatchesLinked, NEW a, NEW n, Watch(a, n)
  PROVE  \/ UNCHANGED watches
         \/ /\ WatchesLinked'
            /\ Addresses(watch, watched)' = Append(Addresses(watch, watched), a)
<1>1. CASE lastwatch # NULL /\ lastwatch \notin DOMAIN watch
  BY <1>1 DEF Watch, GoWild
<1>2. CASE ~(lastwatch # NULL /\ lastwatch \notin DOMAIN watch)
  <2> DEFINE element == [addr |-> a, cnt |-> n, next |-> NULL]
  <2>1. PICK s : /\ Links(watch, watched, s)
                 /\ lastwatch \in DOMAIN watch => lastwatch = s[Len(s)]
                 /\ lastwatch = NULL => Len(s) = 0
    BY DEF WatchesLinked
  <2>2. PICK c \in Cells \ DOMAIN watch :
          /\ lastwatch' = c
          /\ IF lastwatch = NULL
             THEN watched' = c /\ watch' = Allocated(<< >>, c, element)
             ELSE watched' = watched /\ watch' = Linked(watch, lastwatch, c, element)
    BY <1>2 DEF Watch
  <2>3. element.next = NULL /\ element.addr = a /\ {"addr", "next"} \subseteq DOMAIN element
    OBVIOUS
  <2> HIDE DEF element
  <2>4. s \in Seq(Cells) /\ Len(s) \in Nat
    BY <2>1 DEF Links
  <2>5. /\ Links(watch', watched', Append(s, c)) /\ watch'[c] = element
        /\ \A d \in DOMAIN watch : watch'[d].addr = watch[d].addr
    <3>1. CASE lastwatch = NULL
      <4>1. DOMAIN watch = {} /\ Append(s, c) = <<c>>
        <5>1. s = << >>
          BY <2>1, <2>4, <3>1
        <5>2. DOMAIN watch = {}
          <6>1. \A d : d \in DOMAIN watch <=> \E i \in 1 .. Len(s) : d = s[i]
            BY <2>1 DEF Links
          <6>2. Len(s) = 0
            BY <2>1, <3>1
          <6>3. ~ \E i \in 1 .. Len(s) : TRUE
            BY <6>2
          <6>4. \A d : d \notin DOMAIN watch
            BY <6>1, <6>3
          <6> QED
            BY <6>4
        <5>3. Append(<< >>, c) = <<c>>
          OBVIOUS
        <5> QED
          BY <5>1, <5>2, <5>3
      <4>2. watched' = c /\ watch' = Allocated(<< >>, c, element)
        BY <2>2, <3>1
      <4>3. Links(watch', watched', <<c>>) /\ watch'[c] = element
        <5>1. DOMAIN (<< >>) = {}
          OBVIOUS
        <5> QED
          BY <2>3, <4>2, <5>1, FirstLinked
      <4> QED
        BY <4>1, <4>3
    <3>2. CASE lastwatch # NULL
      <4>1. Len(s) > 0 /\ lastwatch = s[Len(s)]
        <5>1. lastwatch \in DOMAIN watch
          BY <1>2, <3>2
        <5>2. \E i \in 1 .. Len(s) : lastwatch = s[i]
          BY <2>1, <5>1 DEF Links
        <5> QED
          BY <2>1, <2>4, <5>1, <5>2
      <4> QED
        BY <2>1, <2>2, <2>3, <3>2, <4>1, OneLinked
    <3> QED
      BY <3>1, <3>2
  <2>6. Addresses(watch', watched') = Append(Addresses(watch, watched), a)
    BY <2>1, <2>2, <2>3, <2>5, EntriesLinked
  <2>7. WatchesLinked'
    <3>1. lastwatch' = Append(s, c)[Len(Append(s, c))] /\ lastwatch' # NULL
      BY <2>2, <2>4, DebuggerAssumption DEF DebuggerAssumption
    <3> QED
      BY <2>2, <2>5, <3>1 DEF WatchesLinked
  <2> QED
    BY <2>6, <2>7
<1> QED
  BY <1>1, <1>2

LEMMA ClearWatchLinks ==
  ASSUME WatchesLinked, ClearWatch
  PROVE  WatchesLinked' /\ Addresses(watch, watched)' = << >>
<1>1. watched' = NULL /\ watch' = << >> /\ lastwatch' = lastwatch
  BY DEF ClearWatch
<1>2. Links(watch', watched', << >>) /\ Addresses(watch', watched') = << >>
  BY <1>1, NoLinks
<1>3. WatchesLinked'
  <2>1. lastwatch' \in Cells \cup {NULL}
    BY <1>1 DEF WatchesLinked
  <2>2. lastwatch' \notin DOMAIN watch' /\ Len(<< >>) = 0
    BY <1>1
  <2> QED
    BY <1>2, <2>1, <2>2 DEF WatchesLinked
<1> QED
  BY <1>2, <1>3

(***************************************************************************)
(* The lists are edited                                                    *)
(***************************************************************************)
(* Both lists, and the counts of their edits.                              *)
ListsLinked == /\ BreaksLinked /\ WatchesLinked /\ user \in Users
               /\ edits.breaks \in Nat /\ edits.watches \in Nat

BreaksEdited == BreakList!Add \/ BreakList!Remove
WatchesEdited == WatchList!Add \/ WatchList!RemoveAll

LEMMA SameLists ==
  /\ UNCHANGED breaks => UNCHANGED Addresses(brk, brkfirst) /\ (BreaksLinked => BreaksLinked')
  /\ UNCHANGED watches => UNCHANGED Addresses(watch, watched) /\ (WatchesLinked => WatchesLinked')
BY DEF breaks, watches, BreaksLinked, WatchesLinked

LEMMA AddressOfUser ==
  ASSUME user \in Users, NEW a \in user.addresses
  PROVE  a \in UNION {u.addresses : u \in Users}
OBVIOUS

LEMMA BreaksStep ==
  ASSUME BreaksLinked, user \in Users, [DebuggerNext]_vars
  PROVE  BreaksLinked' /\ (UNCHANGED breaks \/ BreaksEdited)
<1>1. CASE \E a \in user.addresses : SetBreak(a)
  <2>1. PICK a \in user.addresses : SetBreak(a)
    BY <1>1
  <2>2. CASE UNCHANGED breaks
    BY <2>2, SameLists
  <2>3. CASE /\ BreaksLinked'
             /\ Addresses(brk, brkfirst)' = Append(Addresses(brk, brkfirst), a)
    <3>1. BreakList!Add
      BY <2>1, <2>3, AddressOfUser DEF BreakList!Add
    <3> QED
      BY <2>3, <3>1 DEF BreaksEdited
  <2> QED
    BY <2>1, <2>2, <2>3, SetBreakLinks
<1>2. CASE \E a \in user.addresses : ClearBreak(a)
  <2>1. PICK a \in user.addresses : ClearBreak(a)
    BY <1>2
  <2> DEFINE E == Addresses(brk, brkfirst)
  <2>2. PICK i \in 1 .. Len(E) : /\ E[i] = a /\ \A j \in 1 .. i - 1 : E[j] # a
                                /\ Addresses(brk, brkfirst)' = Less(E, i)
    BY <2>1, ClearBreakLinks
  <2>3. BreakList!Remove
    BY <2>2 DEF BreakList!Remove, BreakList!Without, Less
  <2> QED
    BY <2>1, <2>3, ClearBreakLinks DEF BreaksEdited
<1>3. CASE ~(\E a \in user.addresses : SetBreak(a) \/ ClearBreak(a))
  <2>1. UNCHANGED breaks
    <3>1. CASE Loop \/ Interruption \/ EndOfInput \/ UNCHANGED vars
      BY <3>1 DEF Loop, Top, TopWild, GoWild, Execute, End, Exit, Interruption, EndOfInput,
         Done, vars
    <3>2. CASE Command
      BY <1>3, <3>2 DEF Command, Return, Go, Run, Quit, Verbose, SetOrigin, Watch, Deposit,
         ClearWatch, Look, Done, GoWild
    <3> QED
      BY <3>1, <3>2 DEF DebuggerNext
  <2> QED
    BY <2>1, SameLists
<1> QED
  BY <1>1, <1>2, <1>3

LEMMA WatchesStep ==
  ASSUME WatchesLinked, user \in Users, [DebuggerNext]_vars
  PROVE  WatchesLinked' /\ (UNCHANGED watches \/ WatchesEdited)
<1>1. CASE \E a \in user.addresses, n \in user.counts : Watch(a, n)
  <2>1. PICK a \in user.addresses, n \in user.counts : Watch(a, n)
    BY <1>1
  <2>2. CASE UNCHANGED watches
    BY <2>2, SameLists
  <2>3. CASE /\ WatchesLinked'
             /\ Addresses(watch, watched)' = Append(Addresses(watch, watched), a)
    <3>1. WatchList!Add
      BY <2>1, <2>3, AddressOfUser DEF WatchList!Add
    <3> QED
      BY <2>3, <3>1 DEF WatchesEdited
  <2> QED
    BY <2>1, <2>2, <2>3, WatchLinks
<1>2. CASE ClearWatch
  <2>1. WatchList!RemoveAll
    BY <1>2, ClearWatchLinks DEF WatchList!RemoveAll
  <2> QED
    BY <1>2, <2>1, ClearWatchLinks DEF WatchesEdited
<1>3. CASE ~(ClearWatch \/ \E a \in user.addresses, n \in user.counts : Watch(a, n))
  <2>1. UNCHANGED watches
    <3>1. CASE Loop \/ Interruption \/ EndOfInput \/ UNCHANGED vars
      BY <3>1 DEF Loop, Top, TopWild, GoWild, Execute, End, Exit, Interruption, EndOfInput,
         Done, vars
    <3>2. CASE Command
      BY <1>3, <3>2 DEF Command, Return, Go, Run, Quit, Verbose, SetOrigin, SetBreak,
         ClearBreak, Deposit, Look, Done, GoWild
    <3> QED
      BY <3>1, <3>2 DEF DebuggerNext
  <2> QED
    BY <2>1, SameLists
<1> QED
  BY <1>1, <1>2, <1>3

LEMMA ListsInit == MCInit => ListsLinked
<1> SUFFICES ASSUME MCInit PROVE ListsLinked
  OBVIOUS
<1>1. /\ brkfirst = NULL /\ brklast = NULL /\ brk = << >> /\ user \in Users
      /\ watched = NULL /\ lastwatch = NULL /\ watch = << >>
      /\ edits.breaks = 0 /\ edits.watches = 0
  BY DEF MCInit, DebuggerInit, NoEdits
<1>2. Links(brk, brkfirst, << >>) /\ Links(watch, watched, << >>)
  BY <1>1, NoLinks
<1>3. DOMAIN brk = {} /\ DOMAIN watch = {} /\ Len(<< >>) = 0
  BY <1>1
<1>4. BreaksLinked
  BY <1>1, <1>2, <1>3 DEF BreaksLinked
<1>5. WatchesLinked
  BY <1>1, <1>2, <1>3 DEF WatchesLinked
<1> QED
  BY <1>1, <1>4, <1>5 DEF ListsLinked

LEMMA EditsCounted ==
  ASSUME [MCNext]_watchedvars, edits.breaks \in Nat, edits.watches \in Nat
  PROVE  /\ UNCHANGED breaks => UNCHANGED edits.breaks
         /\ ~ UNCHANGED breaks => edits.breaks' = edits.breaks + 1
         /\ UNCHANGED watches => UNCHANGED edits.watches
         /\ ~ UNCHANGED watches => edits.watches' = edits.watches + 1
<1>1. CASE UNCHANGED watchedvars
  BY <1>1 DEF watchedvars, vars
<1>2. CASE Watching
  <2>1. /\ edits.breaks' = edits.breaks + One(breaks' # breaks)
        /\ edits.watches' = edits.watches + One(watches' # watches)
    BY <1>2 DEF Watching
  <2>2. One(TRUE) = 1 /\ One(FALSE) = 0
    BY DEF One
  <2>3. /\ UNCHANGED breaks => One(breaks' # breaks) = 0
        /\ ~ UNCHANGED breaks => One(breaks' # breaks) = 1
        /\ UNCHANGED watches => One(watches' # watches) = 0
        /\ ~ UNCHANGED watches => One(watches' # watches) = 1
    BY DEF One
  <2> QED
    BY <2>1, <2>3
<1> QED
  BY <1>1, <1>2 DEF MCNext

LEMMA ListsStep ==
  ASSUME ListsLinked, [MCNext]_watchedvars
  PROVE  /\ ListsLinked'
         /\ [BreakList!Edit]_<<Addresses(brk, brkfirst), edits.breaks>>
         /\ [WatchList!Edit]_<<Addresses(watch, watched), edits.watches>>
<1>1. /\ BreaksLinked /\ WatchesLinked /\ user \in Users
      /\ edits.breaks \in Nat /\ edits.watches \in Nat
  BY DEF ListsLinked
<1>2. [DebuggerNext]_vars
  BY StepIsDebuggers
<1>3. /\ BreaksLinked' /\ (UNCHANGED breaks \/ BreaksEdited)
      /\ WatchesLinked' /\ (UNCHANGED watches \/ WatchesEdited)
  BY <1>1, <1>2, BreaksStep, WatchesStep
<1>4. user' = user
  BY <1>2 DEF DebuggerNext, vars
<1>5. edits.breaks' \in Nat /\ edits.watches' \in Nat
  BY <1>1, EditsCounted
<1>6. ListsLinked'
  BY <1>1, <1>3, <1>4, <1>5 DEF ListsLinked
<1>7. [BreakList!Edit]_<<Addresses(brk, brkfirst), edits.breaks>>
  <2>1. CASE UNCHANGED breaks
    BY <1>1, <2>1, SameLists, EditsCounted
  <2>2. CASE ~ UNCHANGED breaks
    BY <1>1, <1>3, <2>2, EditsCounted DEF BreakList!Edit, BreaksEdited
  <2> QED
    BY <2>1, <2>2
<1>8. [WatchList!Edit]_<<Addresses(watch, watched), edits.watches>>
  <2>1. CASE UNCHANGED watches
    BY <1>1, <2>1, SameLists, EditsCounted
  <2>2. CASE ~ UNCHANGED watches
    BY <1>1, <1>3, <2>2, EditsCounted DEF WatchList!Edit, WatchesEdited
  <2> QED
    BY <2>1, <2>2
<1> QED
  BY <1>6, <1>7, <1>8

(* However often elements are linked in, taken out and freed, and wherever *)
(* malloc puts them, the user's two lists are what his commands made them; *)
(* a command that could not is a wild access (setbreak, clearbreak, watch, *)
(* clearwatch).                                                            *)
THEOREM ListsFollowEdits == MCSpec => ListsAreEdited
<1>1. MCInit => /\ Addresses(brk, brkfirst) = << >> /\ edits.breaks = 0
                /\ Addresses(watch, watched) = << >> /\ edits.watches = 0
  <2> SUFFICES ASSUME MCInit
               PROVE  /\ Addresses(brk, brkfirst) = << >> /\ edits.breaks = 0
                      /\ Addresses(watch, watched) = << >> /\ edits.watches = 0
    OBVIOUS
  <2>1. /\ brkfirst = NULL /\ brk = << >> /\ watched = NULL /\ watch = << >>
        /\ edits.breaks = 0 /\ edits.watches = 0
    BY DEF MCInit, DebuggerInit, NoEdits
  <2> QED
    BY <2>1, NoLinks
<1>2. ListsLinked /\ [MCNext]_watchedvars
      => /\ ListsLinked'
         /\ [BreakList!Edit]_<<Addresses(brk, brkfirst), edits.breaks>>
         /\ [WatchList!Edit]_<<Addresses(watch, watched), edits.watches>>
  BY ListsStep
<1> QED
  BY <1>1, <1>2, ListsInit, PTL
     DEF MCSpec, ListsAreEdited, BreakList!ListSpec, WatchList!ListSpec

(* A list that is linked is one whose type is right.                       *)
LEMMA LinkedListOK ==
  ASSUME NEW h, NEW first, NEW s, Links(h, first, s) PROVE ListOK(h, first)
<1>1. Chain(h, first) = s
  BY ChainIs
<1>2. /\ s \in Seq(Cells) /\ Len(s) \in Nat
      /\ \A c : c \in DOMAIN h <=> \E i \in 1 .. Len(s) : c = s[i]
      /\ \A i \in 1 .. Len(s) : h[s[i]].next = IF i = Len(s) THEN NULL ELSE s[i + 1]
  BY DEF Links
<1>3. DOMAIN h \subseteq Cells
  BY <1>2
<1>4. {s[i] : i \in 1 .. Len(s)} = DOMAIN h
  BY <1>2
<1>5. ASSUME NEW c \in DOMAIN h PROVE h[c].next \in (DOMAIN h) \cup {NULL}
  <2>1. PICK i \in 1 .. Len(s) : c = s[i]
    BY <1>2
  <2>2. i # Len(s) => i + 1 \in 1 .. Len(s)
    BY <1>2
  <2>3. i # Len(s) => s[i + 1] \in DOMAIN h
    BY <1>2, <2>2
  <2> QED
    BY <1>2, <2>1, <2>3
<1> QED
  BY <1>1, <1>3, <1>4, <1>5 DEF ListOK

(* Where the loop stands, and how it goes on.                              *)
Modes == /\ stage \in {"top", "prompt", "turn", "end"}
         /\ singlestep \in BOOLEAN /\ verbose \in BOOLEAN

LEMMA ModesStep == Modes /\ [DebuggerNext]_vars => Modes'
<1> SUFFICES ASSUME Modes, [DebuggerNext]_vars PROVE Modes'
  OBVIOUS
<1>1. stage' \in {"top", "prompt", "turn", "end"}
  <2>1. CASE Loop \/ Interruption \/ UNCHANGED vars
    BY <2>1 DEF Modes, Loop, Top, TopWild, GoWild, Execute, End, Exit, Interruption, vars
  <2>2. CASE Command \/ EndOfInput
    BY <2>2, CommandPlace
  <2> QED
    BY <2>1, <2>2 DEF DebuggerNext
<1>2. /\ singlestep' = singlestep \/ singlestep' = FALSE
         \/ singlestep' = (singlestep \/ Hit \/ Resume)
      /\ verbose' = verbose \/ verbose' = FALSE \/ verbose' = ~verbose
         \/ verbose' = (verbose \/ Hit \/ Resume)
  <2>1. CASE Loop \/ Interruption \/ UNCHANGED vars
    BY <2>1, Zenon DEF Loop, Top, TopWild, GoWild, Execute, End, Exit, Interruption,
       modes, vars
  <2>2. CASE Command \/ EndOfInput
    BY <2>2, Zenon DEF Command, Return, Go, Run, Quit, Verbose, SetOrigin, SetBreak,
       ClearBreak, Watch, Deposit, ClearWatch, Look, EndOfInput, GoWild, UnchangedBut,
       modes
  <2> QED
    BY <2>1, <2>2, Zenon DEF DebuggerNext
<1>3. singlestep' \in BOOLEAN /\ verbose' \in BOOLEAN
  <2>1. (singlestep \/ Hit \/ Resume) \in BOOLEAN /\ (verbose \/ Hit \/ Resume) \in BOOLEAN
        /\ (~verbose) \in BOOLEAN /\ FALSE \in BOOLEAN
    BY Zenon
  <2> QED
    BY <1>2, <2>1, Zenon DEF Modes
<1> QED
  BY <1>1, <1>3 DEF Modes

(* Whatever is typed in whatever order, no link and no pointer to a first  *)
(* element dangles, none of the elements is lost, and the loop stands      *)
(* where it can go on (interact.c; the main loop of pepsi.c).              *)
THEOREM DebuggerTypeCorrect == MCSpec => []DebuggerTypeOK
<1>1. MCInit => Modes
  BY RangesInit, Zenon DEF MCInit, DebuggerInit, Modes, Ranges
<1>2. Modes /\ [MCNext]_watchedvars => Modes'
  BY ModesStep, StepIsDebuggers
<1>3. Ranges /\ [MCNext]_watchedvars => Ranges'
  BY RangesStep, StepIsDebuggers
<1>4. ListsLinked /\ [MCNext]_watchedvars => ListsLinked'
  BY ListsStep
<1>5. Ranges /\ Modes /\ ListsLinked => DebuggerTypeOK
  <2> SUFFICES ASSUME Ranges, Modes, ListsLinked PROVE DebuggerTypeOK
    OBVIOUS
  <2>1. ListOK(brk, brkfirst) /\ brklast \in Cells \cup {NULL}
    BY LinkedListOK DEF ListsLinked, BreaksLinked
  <2>2. ListOK(watch, watched) /\ lastwatch \in Cells \cup {NULL}
    BY LinkedListOK DEF ListsLinked, WatchesLinked
  <2>3. {singlestep, verbose, interactive} \subseteq BOOLEAN
    BY Zenon DEF Ranges, Modes
  <2>4. TypeOK /\ stage \in {"top", "prompt", "turn", "end"}
    BY DEF Ranges, Modes
  <2>5. {brklast, lastwatch} \subseteq Cells \cup {NULL}
    BY <2>1, <2>2
  <2> QED
    BY <2>1, <2>2, <2>3, <2>4, <2>5 DEF DebuggerTypeOK
<1> QED
  BY RangesInit, ListsInit, <1>1, <1>2, <1>3, <1>4, <1>5, PTL DEF MCSpec
=============================================================================
