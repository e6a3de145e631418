------------------------------ MODULE Debugger ------------------------------
(***************************************************************************)
(* The simulator with its prompt: the main loop of pepsi.c around the      *)
(* processor, with display and interact before an instruction and the      *)
(* breakpoint check after it.  `stage' is where the loop stands:           *)
(*   top      before the loop condition, display and interact              *)
(*   prompt   inside interact, waiting for a command                       *)
(*   turn     execute and the interrupt check, whose steps are Pep8Cpu's   *)
(*   end      before the breakpoint check                                  *)
(*                                                                         *)
(* Breakpoints and watches are linked lists with a pointer to the last     *)
(* element.  A list is a function from the allocated elements to their     *)
(* contents; following or writing through a pointer to a freed element is  *)
(* a wild access, as reading text or mem8 out of their bounds is.          *)
(* Commands that print and stay in bounds change nothing and are left out. *)
(***************************************************************************)
EXTENDS Pep8Cpu, Sequences, FiniteSets

CONSTANTS
  Cells,        \* what malloc returns for list elements
  NULL,         \* the null pointer
  Users         \* the kinds of user: the commands one types, with which
                \* addresses and numbers of words; whether -i is given
                \* (-t otherwise); maxtxt, the lines of source text, 0 when
                \* none was loaded; whether devices request interrupts; and
                \* careful: no breakpoint is set after the last of several
                \* was cleared, and no watch after the watches were cleared

User == [commands : SUBSET STRING, addresses : SUBSET Addr, counts : SUBSET Nat,
         interactive : BOOLEAN, maxtxt : 0 .. MEM8SIZ,
         interrupts : BOOLEAN, careful : BOOLEAN]

ASSUME DebuggerAssumption == /\ NULL \notin Cells /\ IsFiniteSet(Cells)
                             /\ Users \subseteq User

VARIABLES
  user,                         \* one of Users
  stage, singlestep, verbose, interactive,
  input,                        \* the standard input: open or eof
  brkfirst, brklast, brk,       \* the breakpoints
  watched, lastwatch, watch     \* the watches

modes   == <<singlestep, verbose, interactive, input>>
breaks  == <<brkfirst, brklast, brk>>
watches == <<watched, lastwatch, watch>>
registers == <<mem8, ac8, link8, pc8, ien8, irq8, running, submod, memtop>>
vars    == <<cpuvars, user, stage, modes, breaks, watches>>

DebuggerInit == /\ CpuInit
                /\ stage = "top"
                /\ user \in Users /\ interactive = user.interactive
                /\ singlestep = TRUE /\ verbose = interactive
                /\ input = "open"
                /\ brkfirst = NULL /\ brklast = NULL /\ brk = << >>
                /\ watched = NULL /\ lastwatch = NULL /\ watch = << >>

(***************************************************************************)
(* Linked lists                                                            *)
(***************************************************************************)
(* The elements of the list h from element c on, in order.                 *)
Chain(h, c) ==
  LET nth[n \in 0 .. Cardinality(Cells)] ==
        IF n = 0 THEN c
        ELSE IF nth[n - 1] \in DOMAIN h THEN h[nth[n - 1]].next ELSE NULL
      size == Cardinality({n \in 0 .. Cardinality(Cells) : nth[n] # NULL})
  IN  [i \in 1 .. size |-> nth[i - 1]]

Addresses(h, c) == LET s == Chain(h, c) IN [i \in 1 .. Len(s) |-> h[s[i]].addr]

Breakpoints == {brk[c].addr : c \in {Chain(brk, brkfirst)[i] :
                                       i \in 1 .. Len(Chain(brk, brkfirst))}}

(* The list h with element at c; linked behind the last one; with the      *)
(* element at c freed.                                                     *)
Allocated(h, c, element) ==
  [d \in (DOMAIN h) \cup {c} |-> IF d = c THEN element ELSE h[d]]

Unlinked(h, last, c, element) == Allocated(h, c, element)   \* a slip
Linked(h, last, c, element) == Allocated([h EXCEPT ![last].next = c], c, element)

Unfreed(h, c) == h                                          \* a slip
Freed(h, c) == [d \in (DOMAIN h) \ {c} |-> h[d]]

(***************************************************************************)
(* What display reads                                                      *)
(***************************************************************************)
TextInBounds(a) == a \in 0 .. user.maxtxt - 1

(* The source lines of the instruction and, behind a JMS, of the word      *)
(* before it.  When no text was loaded usesource is off.                   *)
SourceInBounds == user.maxtxt # 0 => TextInBounds(pc8) /\ TextInBounds(pc8 - submod)

OperandInBounds == /\ pc8 \in Addr
                   /\ opcode \div \o1000 < 5 /\ Has(opcode, \o400)
                        => MemWord(Direct) \in Addr

WatchInBounds == \A c \in DOMAIN watch : watch[c].addr + watch[c].cnt <= MEM8SIZ

DisplayInBounds == SourceInBounds /\ OperandInBounds /\ WatchInBounds

GoWild == /\ at' = "wild"
          /\ UNCHANGED <<registers, stage, modes, breaks, watches>>

(***************************************************************************)
(* The main loop                                                           *)
(***************************************************************************)
Top == /\ stage = "top" /\ at = "execute"
       /\ singlestep \/ verbose => DisplayInBounds
       /\ stage' = IF singlestep THEN "prompt" ELSE "turn"
       /\ UNCHANGED <<cpuvars, modes, breaks, watches>>

TopWild == /\ stage = "top" /\ at = "execute"
           /\ singlestep \/ verbose
           /\ ~DisplayInBounds
           /\ GoWild

Execute == /\ stage = "turn"
           /\ Instruction \/ Turn
           /\ stage' = IF at' \in {"execute", "close"} THEN "end" ELSE "turn"
           /\ UNCHANGED <<modes, breaks, watches>>

(* A breakpoint stops at its address, and behind a JMS at the next one.    *)
(* Either test alone is a slip.                                            *)
HitHere  == pc8 \in Breakpoints
HitEntry == pc8 - submod \in Breakpoints
Hit      == HitHere \/ HitEntry

(* With -i a program that has stopped goes on.                             *)
Resume       == ~running /\ interactive
Always       == TRUE                                            \* a slip
StillRunning == running \/ interactive

End == /\ stage = "end"
       /\ stage' = "top"
       /\ singlestep' = (singlestep \/ Hit \/ Resume)
       /\ verbose' = (verbose \/ Hit \/ Resume)
       /\ running' = StillRunning
       /\ at' = IF running' THEN "execute" ELSE "close"
       /\ UNCHANGED <<mem8, ac8, link8, pc8, ien8, irq8, submod, memtop,
                      interactive, input, breaks, watches>>

Exit == /\ stage = "top" /\ at = "close"
        /\ at' = "exit"
        /\ UNCHANGED <<registers, stage, modes, breaks, watches>>

(***************************************************************************)
(* The commands of interact.  Those that are done leave the prompt: the    *)
(* instruction at pc8 is executed, even after q and at the end of input.   *)
(***************************************************************************)
Typed(c) == stage = "prompt" /\ at = "execute" /\ input = "open" /\ c \in user.commands

Done(run) == /\ stage' = "turn"
             /\ running' = run
             /\ UNCHANGED <<mem8, ac8, link8, pc8, ien8, irq8, submod, memtop, at,
                            breaks, watches>>

Return == Typed("return") /\ Done(running) /\ UNCHANGED modes

Go == /\ Typed("g")
      /\ singlestep' = FALSE /\ verbose' = FALSE
      /\ Done(running)
      /\ UNCHANGED <<interactive, input>>

Run == /\ Typed("r")
       /\ singlestep' = FALSE
       /\ Done(running)
       /\ UNCHANGED <<verbose, interactive, input>>

(* A slip: q leaves the mode in which the loop resumes.                    *)
QuitStays == Typed("q") /\ Done(FALSE) /\ UNCHANGED modes

Quit == /\ Typed("q")
        /\ interactive' = FALSE
        /\ Done(FALSE)
        /\ UNCHANGED <<singlestep, verbose, input>>

EndOfInput == /\ stage = "prompt" /\ at = "execute"
              /\ input = "eof" \/ "eof" \in user.commands
              /\ input' = "eof"
              /\ Done(FALSE)
              /\ UNCHANGED <<singlestep, verbose, interactive>>

Verbose == /\ Typed("v")
           /\ verbose' = ~verbose
           /\ UNCHANGED <<cpuvars, stage, singlestep, interactive, input, breaks, watches>>

Deposit(a, v) == /\ Typed("d")
                 /\ mem8' = Store(a, Mask12(v))
                 /\ UNCHANGED <<ac8, link8, pc8, ien8, irq8, running, submod, memtop,
                                at, stage, modes, breaks, watches>>

(* o sets pc8 and displays the new state.                                  *)
SetOrigin(a) == /\ Typed("o")
                /\ pc8' = a
                /\ UNCHANGED <<mem8, ac8, link8, ien8, irq8, running, submod, memtop,
                               stage, modes, breaks, watches>>
                /\ at' = IF DisplayInBounds' THEN at ELSE "wild"

UnchangedBut == UNCHANGED <<registers, stage, modes>>

SetBreak(a) ==
  /\ Typed("b")
  /\ IF brkfirst # NULL /\ brklast \notin DOMAIN brk THEN ~user.careful /\ GoWild
     ELSE \E c \in Cells \ DOMAIN brk :
            /\ brklast' = c
            /\ LET element == [addr |-> a, next |-> NULL]
               IN  IF brkfirst = NULL THEN brkfirst' = c /\ brk' = Allocated(brk, c, element)
                   ELSE brkfirst' = brkfirst /\ brk' = Linked(brk, brklast, c, element)
            /\ UNCHANGED <<at, watches>> /\ UnchangedBut

(* bc takes out the first element with the address.  brklast changes only  *)
(* with the only element.                                                  *)
ClearBreak(a) ==
  LET list == Chain(brk, brkfirst)
      Found(i) == /\ brk[list[i]].addr = a
                  /\ \A j \in 1 .. i - 1 : brk[list[j]].addr # a
  IN  /\ Typed("bc")
      /\ \E i \in 1 .. Len(list) :
           /\ Found(i)
           /\ IF i = 1 /\ list[1] = brklast
              THEN brkfirst' = NULL /\ brklast' = NULL /\ brk' = Freed(brk, list[1])
              ELSE /\ brklast' = brklast
                   /\ brkfirst' = IF i = 1 THEN brk[list[1]].next ELSE brkfirst
                   /\ brk' = IF i = 1 THEN Freed(brk, list[1])
                             ELSE Freed([brk EXCEPT ![list[i - 1]].next =
                                           brk[list[i]].next], list[i])
      /\ UNCHANGED <<at, watches>> /\ UnchangedBut

Watch(a, n) ==
  /\ Typed("w")
  /\ IF lastwatch # NULL /\ lastwatch \notin DOMAIN watch THEN ~user.careful /\ GoWild
     ELSE \E c \in Cells \ DOMAIN watch :
            /\ lastwatch' = c
            /\ LET element == [addr |-> a, cnt |-> n, next |-> NULL]
               IN  IF lastwatch = NULL THEN watched' = c /\ watch' = Allocated(<< >>, c, element)
                   ELSE watched' = watched /\ watch' = Linked(watch, lastwatch, c, element)
            /\ UNCHANGED <<at, breaks>> /\ UnchangedBut

(* wc frees the list and leaves lastwatch.                                 *)
ClearWatch == /\ Typed("wc")
              /\ watched' = NULL
              /\ watch' = << >>
              /\ UNCHANGED <<at, lastwatch, breaks>> /\ UnchangedBut

(* . and x a n and p a n and bl read out of bounds.                        *)
Look == /\ \/ Typed(".") /\ ~DisplayInBounds
           \/ Typed("x") /\ \E a \in user.addresses, n \in user.counts : a + n > MEM8SIZ
           \/ /\ Typed("p") /\ user.maxtxt # 0
              /\ \E a \in user.addresses \cup {pc8}, n \in user.counts \cup {10} :
                   a <= user.maxtxt /\ a + n > user.maxtxt
           \/ Typed("bl") /\ user.maxtxt \in Breakpoints
        /\ GoWild

Command == \/ Return \/ Go \/ Run \/ Quit \/ Verbose
           \/ \E a \in user.addresses : SetOrigin(a) \/ SetBreak(a) \/ ClearBreak(a)
           \/ \E a \in user.addresses, n \in user.counts : Watch(a, n) \/ Deposit(a, n)
           \/ ClearWatch \/ Look

Loop == Top \/ TopWild \/ Execute \/ End \/ Exit

Interruption == /\ user.interrupts /\ irq8 = 0
                /\ Request
                /\ UNCHANGED <<stage, modes, breaks, watches>>

DebuggerNext == /\ UNCHANGED user
                /\ Loop \/ Command \/ EndOfInput \/ Interruption

DebuggerSpec == DebuggerInit /\ [][DebuggerNext]_vars

(* Whatever is typed, the pointers into the lists and their links point to *)
(* allocated elements, except for the two pointers to last elements, and   *)
(* every element is reached from the first one, so that none leaks.        *)
ListOK(h, first) == /\ DOMAIN h \subseteq Cells
                    /\ {Chain(h, first)[i] : i \in 1 .. Len(Chain(h, first))} = DOMAIN h
                    /\ \A c \in DOMAIN h : h[c].next \in (DOMAIN h) \cup {NULL}

DebuggerTypeOK == /\ TypeOK
                  /\ stage \in {"top", "prompt", "turn", "end"}
                  /\ {singlestep, verbose, interactive} \subseteq BOOLEAN
                  /\ {brklast, lastwatch} \subseteq Cells \cup {NULL}
                  /\ ListOK(brk, brkfirst) /\ ListOK(watch, watched)
=============================================================================
