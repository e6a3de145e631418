----------------------------- MODULE MCDebugger -----------------------------
(***************************************************************************)
(* The prompt with a program that allows interrupts, calls a subroutine    *)
(* at word 7 and halts; word 1 leads to an interrupt routine that returns  *)
(* at once.  Word 0 holds the return address of interrupts.                *)
(***************************************************************************)
EXTENDS Debugger

CONSTANT MaxEdits               \* how many commands edit lists and machine

Program == [a \in 0 .. 8 |-> <<\o0000,  \o5005,         \* 1: JMP 5
                               \o7637,  \o6007,         \* 2: ION, JMS 7
                               \o7777,                  \* 4: HLT
                               \o7637,  \o5400,         \* 5: ION, JMP I 0
                               \o0000,  \o5407>>[a + 1]]        \* 7: the subroutine
Devices   == {}
Programs  == {[words |-> Program, len8 |-> 10]}

(* One who traces a program with interrupts, one who calls it and waits in *)
(* the subroutine, and one who types everything but has no interrupts.     *)
Tracer == [commands |-> {"return", "g", "r", "v", "b", "bc"}, addresses |-> {1, 7, 8},
           counts |-> {1}, interactive |-> FALSE, maxtxt |-> 0, interrupts |-> TRUE,
           careful |-> TRUE]
Caller == [commands |-> {"g", "b"}, addresses |-> {7, 8}, counts |-> {1},
           interactive |-> TRUE, maxtxt |-> 10, interrupts |-> TRUE, careful |-> TRUE]
Everything == {"return", "g", "q", "eof", "w", "wc", "b", "bc", "d", "o", ".", "x", "p", "bl"}
Typist(i, commands) ==
  [commands |-> commands, addresses |-> {0, 7}, counts |-> {4090},
   interactive |-> i, maxtxt |-> 10, interrupts |-> FALSE, careful |-> FALSE]

Callers    == {Caller}
AllTypists == {Tracer, Typist(TRUE, Everything),
               Typist(FALSE, Everything \ {"w", "wc", "d"})}

VARIABLES
  entered,      \* the subroutine a JMS has just called, or NULL
  quitted,      \* whether q was typed
  edits         \* how many commands edited each list and the machine

NoEdits == [breaks |-> 0, watches |-> 0, machine |-> 0]
One(changed) == IF changed THEN 1 ELSE 0

Watching ==
  /\ entered' = CASE stage = "turn" /\ at = "execute" /\ submod' = 1 -> pc8' - 1
                  [] stage = "top" -> NULL
                  [] OTHER         -> entered
  /\ quitted' = \/ quitted
                \/ stage = "prompt" /\ stage' = "turn" /\ ~running' /\ input' = "open"
  /\ edits' = [breaks  |-> edits.breaks + One(breaks' # breaks),
                watches |-> edits.watches + One(watches' # watches),
                machine |-> edits.machine
                            + One(stage = "prompt" /\ <<mem8, pc8>>' # <<mem8, pc8>>)]
  /\ edits'.breaks + edits'.watches + edits'.machine <= MaxEdits

MCNext == DebuggerNext /\ Watching

MCInit == DebuggerInit /\ entered = NULL /\ quitted = FALSE /\ edits = NoEdits

watchedvars == <<vars, entered, quitted, edits>>

(* The loop runs; the user may leave the prompt waiting, but an input that *)
(* has ended does not.                                                     *)
MCSpec == /\ MCInit /\ [][MCNext]_watchedvars
          /\ WF_watchedvars(UNCHANGED user /\ Loop /\ Watching)
          /\ WF_watchedvars(input = "eof" /\ UNCHANGED user /\ EndOfInput /\ Watching)

(***************************************************************************)
(* Properties                                                              *)
(***************************************************************************)
(* No instruction at a breakpoint is executed without a prompt before it,  *)
(* whichever way the program gets there: in sequence, by a jump, a return, *)
(* an interrupt, or as the next one when the simulator is told to go on    *)
(* (the check at the end of the main loop, interact).                      *)
NeverPassesBreakpoint ==
  [][stage = "top" /\ stage' = "turn" => pc8 \notin Breakpoints]_watchedvars

(* pepsi.1:170-173: a breakpoint on the word in which a subroutine stores  *)
(* its return address stops the program before the first instruction.      *)
(* (An interrupt between the JMS and that instruction is in the way.)      *)
EntryStops ==
  [][stage = "top" /\ stage' = "turn" => entered \notin Breakpoints]_watchedvars

(* After q, or when -i was not given after the end of the input, no prompt *)
(* stops the simulator any more, and it ends: a user may wait at any       *)
(* prompt there is, but one more instruction is executed (interact, the    *)
(* end of the main loop; pepsi.1:264-266; interact.c:401 "EOF, quit the    *)
(* simulator").                                                            *)
Over == at \in {"exit", "wild"}
QuitEnds == (quitted \/ (input = "eof" /\ ~interactive)) ~> Over

(* The two lists as the user sees them.                                    *)
BreakList == INSTANCE AddressList WITH
               Address <- UNION {u.addresses : u \in Users},
               entries <- Addresses(brk, brkfirst),
               edits <- edits.breaks

WatchList == INSTANCE AddressList WITH
               Address <- UNION {u.addresses : u \in Users},
               entries <- Addresses(watch, watched),
               edits <- edits.watches

(* The breakpoints and the watches are the lists that the commands edit,   *)
(* until a command writes through a pointer to a freed last element: b     *)
(* after bc of the last of several, w after wc (setbreak, clearbreak,      *)
(* watch, clearwatch).                                                     *)
ListsAreEdited == BreakList!ListSpec /\ WatchList!ListSpec

(* Stepping, running and stopping at breakpoints never alters what the     *)
(* program does, when -i does not resume it after HLT and the user gives   *)
(* no command that edits the machine or ends it: every step is one of the  *)
(* processor alone, leaves it as it is, ends the process, or is display or *)
(* a command reading outside its arrays.                                   *)
OnlyLooks == /\ ~user.interactive
             /\ {"d", "o", "q", "eof"} \cap user.commands = {}

ReadsOutside == at' = "wild" /\ stage # "turn"

DebuggingIsTransparent ==
  /\ CpuInit
  /\ [][OnlyLooks => [Next]_cpuvars \/ Exit \/ ReadsOutside]_watchedvars
=============================================================================
