------------------------------ MODULE MCPepsi ------------------------------
(***************************************************************************)
(* pepsi running programs of the repository's examples, as pot assembles   *)
(* them: hello.pps, which prints a text and halts; ioi.pps, which echoes   *)
(* until ESC; irq0.pps, whose interrupt routine puts characters into a     *)
(* buffer that its main program prints, until a dot; and a program that    *)
(* copies the papertape to the teletype.  The rest is what these runs      *)
(* watch.                                                                  *)
(***************************************************************************)
EXTENDS Pepsi, TLC

Block(a, ws) == [x \in a .. a + Len(ws) - 1 |-> ws[x - a + 1]]

Hello == Block(0,
  <<\o5016, \o0014, \o5045, \o5454, \o5700, \o6757, \o6254, \o4401, \o0000, \o0015,
    \o0012, \o0040, \o0077, \o0002, \o0001, \o1010, \o6052, \o0415, \o7110, \o7110,
    \o7110, \o7110, \o7110, \o7110, \o7100, \o4013, \o6062, \o6052, \o0415, \o2014,
    \o7100, \o4013, \o6062, \o0015, \o7001, \o1015, \o5020, \o0011, \o6062, \o0012,
    \o6062, \o7777, \o7000, \o0010, \o7520, \o5045, \o7041, \o7040, \o1010, \o5452,
    \o7000, \o7620, \o5063, \o7660, \o5462>>)

Ioi == Block(0,
  <<\o7300, \o7600, \o5001, \o7640, \o7620, \o5004, \o7660, \o7141, \o4014, \o7420,
    \o5000, \o7777, \o0033>>)

Irq0 ==
  Block(0,
    <<\o7000, \o5402, \o0200, \o0400, \o0000, \o0000, \o0056, \o0012, \o0015, \o0000,
      \o0600, \o0077, \o0000, \o0600, \o0600>>) @@
  Block(\o200,
    <<\o0003, \o1002, \o7330, \o7740, \o7637, \o0015, \o7141, \o4012, \o7520, \o5205,
      \o0415, \o6236, \o7141, \o4010, \o7520, \o6232, \o6223, \o5205, \o7777, \o0000,
      \o0015, \o7101, \o2013, \o4016, \o1015, \o5623, \o0000, \o0007, \o6236, \o5632,
      \o0000, \o7620, \o5237, \o7660, \o5636>>) @@
  Block(\o400,
    <<\o1004, \o7210, \o1005, \o7600, \o7500, \o5207, \o7777, \o7640, \o1011, \o7041,
      \o4006, \o7520, \o7777, \o0011, \o1412, \o0012, \o7101, \o2013, \o4016, \o1012,
      \o5225, \o0005, \o7004, \o0004, \o7637, \o5400>>)

(* SRI 1; HLT; DGA 1; SRO 0; JMP .-1; DPA 0; JMP 0                         *)
Copy == Block(0, <<\o7601, \o7777, \o7641, \o7620, \o5003, \o7660, \o5000>>)

Program(name) == CASE name = "hello" -> [words |-> Hello, len8 |-> 56]
                   [] name = "ioi"   -> [words |-> Ioi, len8 |-> 14]
                   [] name = "irq0"  -> [words |-> Irq0, len8 |-> 386]
                   [] name = "copy"  -> [words |-> Copy, len8 |-> 8]

Examples == {Program(name) : name \in {"hello", "ioi", "irq0", "copy"}}

Devices  == ({0} \X {0, 1, 2, 3, 6}) \cup ({1} \X {0, 2})

HelloWorld == <<72, 69, 76, 76, 79, 32, 87, 79, 82, 76, 68, 33, 13, 10>>
Esc == 27
Dot == 46
TypedKeys == <<65, 66, Dot, Esc>>
Punched   == <<66, 193>>

CONSTANT Sessions       \* <<program, typist>> pairs

PatientSessions == {"hello", "ioi", "irq0", "copy"} \X {"patient"}
AllSessions     == PatientSessions \cup {<<"ioi", "hasty">>}
HastyIrq0       == {<<"irq0", "hasty">>}

VARIABLES
  program, typist,      \* the session
  saved                 \* what ac8, link8 and pc8 were when the interrupt being
                        \* served came, from the acknowledgement until the
                        \* JMP I 0 in irq0.pps

session == <<program, typist>>

ReturnAt == \o431

Returning == program = "irq0" /\ at = "execute" /\ at' = "poll" /\ pc8 = ReturnAt

Watch == /\ saved' = CASE at = "ack" /\ at' # "ack" -> <<ac8, link8, pc8>>
                       [] Returning                 -> << >>
                       [] OTHER                     -> saved
         /\ UNCHANGED session

(* A patient typist waits until each character has been echoed.  Nobody    *)
(* types while irq0.pps has interrupts off, nor to a program that reads no *)
(* teletype.                                                               *)
Patience == /\ program \in {"ioi", "irq0"}
            /\ typist = "patient" => typed = Len(sent)
            /\ program = "irq0" => ien8 = 1

watched == <<vars, session, saved>>

MCInit == /\ \E s \in Sessions : program = s[1] /\ typist = s[2]
          /\ PepsiInit /\ mem8 = Program(program).words
          /\ saved = << >>

(* The terminal is there and does not hang up, except under hello.pps.     *)
GoodLine == program # "hello" => conn' # "hungup" /\ process' # "failed"

MCNext == /\ PepsiNext /\ Watch /\ GoodLine
          /\ typed' # typed => Patience

MCSpec == /\ MCInit /\ [][MCNext]_watched
          /\ WF_watched(MainLoop /\ Watch)
          /\ WF_watched(WriterThread /\ Watch)
          /\ WF_watched(ReaderThread /\ Watch /\ GoodLine)
          /\ WF_watched(Typist /\ Watch /\ Patience)

(***************************************************************************)
(* Properties                                                              *)
(***************************************************************************)
Exited == process = "exited"

(* The whole text is at the terminal when the simulator ends, because      *)
(* tty_close waits for the last character (hello.pps; chario.c).           *)
HelloPrinted ==
  program = "hello" /\ Exited /\ conn = "connected" => sent = HelloWorld

(* doc/pepsi.1: the simulator ends when it executes HLT.                   *)
HaltEnds == ~running ~> process # "up"

(* What the terminal shows is what was typed, in that order: nothing twice *)
(* and nothing else, however the typist and the two threads interleave     *)
(* with the program's two waiting loops (ioi.pps).                         *)
KeyAt(c) == CHOOSE i \in 1 .. Len(Keys) : Keys[i] = c
EchoInOrder ==
  program = "ioi" =>
    /\ \A i \in 1 .. Len(sent) : \E k \in 1 .. taken : sent[i] = Keys[k]
    /\ \A i, j \in 1 .. Len(sent) : i < j => KeyAt(sent[i]) < KeyAt(sent[j])

(* The interrupt routine is invisible to the main program: when it returns *)
(* the accumulator, the link and the program counter are as they were      *)
(* (interrupt branch of pepsi.c, ION and IOF of operate.c).                *)
Transparent == [][Returning => <<ac8', link8', pc8'>> = saved]_watched

(* doc/pep8.7:366-368: interrupts are blocked during the service, so that  *)
(* the return address in location 0 is not overwritten by another one.     *)
ReturnAddressKept == at = "ack" => saved = << >>

(* Nothing is echoed twice or out of order; a patient typist sees          *)
(* everything echoed by ioi.pps, and everything before the dot printed by  *)
(* irq0.pps: each character has its request when it can be read, and that  *)
(* request its service.  Both programs end.                                *)
AllEchoed ==
  /\ []EchoInOrder
  /\ session = <<"ioi", "patient">> ~> Exited /\ sent = Keys
  /\ session = <<"irq0", "patient">> ~> Exited /\ sent = <<65, 66>>

(* What is on the papertape arrives at the teletype, whole, in order and  *)
(* seven bits a character, and the program ends (ppt_rdyin, ppt_getc),     *)
(* unless the simulator is killed for writing to a socket that is not      *)
(* connected yet.  doc/pep8.7:435-436 has the reader not ready at the end  *)
(* of the file, so nothing more should come; ppt_rdyin asks feof, which    *)
(* knows the end only after a read has failed, so one DGA gets the end of  *)
(* the file as a character.  The property allows that word.                *)
OnTape == [i \in 1 .. Len(Tape) |-> Tape[i] % 128]
AtEnd  == 127       \* seven bits of EOF, masked by ppt_getc

TapeCopied ==
  program = "copy" ~> \/ process = "killed"
                      \/ Exited /\ sent \in {OnTape, Append(OnTape, AtEnd)}
=============================================================================
