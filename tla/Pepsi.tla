------------------------------- MODULE Pepsi -------------------------------
(***************************************************************************)
(* pepsi with a teletype and a papertape: the main loop of pepsi.c,        *)
(* executing the program in memory, the two threads of the teletype, which *)
(* it reaches through chario and which reach it through irq8, and the file *)
(* that is the tape.                                                       *)
(***************************************************************************)
EXTENDS Pep8Cpu, Sequences

CONSTANTS Keys, Enabled,        \* see Tty
          Tape                  \* the bytes of the file behind -e 1

ASSUME TapeAssumption == Tape \in Seq(0 .. 255)

(* devices[] has the functions of the teletype and of the papertape, and   *)
(* what they return is a character that was typed or is on the tape, or 0, *)
(* or the low bits of EOF.                                                 *)
KeyBytes  == {Keys[i] : i \in 1 .. Len(Keys)}
TapeBytes == {Tape[i] : i \in 1 .. Len(Tape)}

ASSUME DevicesAssumption ==
  /\ Keys \in Seq(0 .. 255)
  /\ ({0} \X {0, 1, 2, 3, 6}) \cup ({1} \X {0, 2}) \subseteq Functions8
  /\ {0, 255} \cup KeyBytes \cup TapeBytes \subseteq DevWords

VARIABLES csd, in_ch, out_ch, tty_mask, writer, reader, conn, typed, taken,
          sent, process,
          tape, tape_eof        \* the position in ppt_file, and its feof

T == INSTANCE Tty

(* The devices' variables but irq8, which the processor has too.           *)
pptvars == <<tape, tape_eof>>
devvars == <<csd, in_ch, out_ch, tty_mask, writer, reader, conn, typed, taken,
             sent, process, pptvars>>
vars    == <<cpuvars, devvars>>

PepsiInit == CpuInit /\ T!TtyInit /\ tape = 0 /\ tape_eof = FALSE

Skip(ready) == IF ready THEN 1 ELSE 0

Sri == Chario(0, 0, Skip(T!TtyRdyin), ac8) /\ UNCHANGED <<irq8, devvars>>
Sro == Chario(0, 1, Skip(T!TtyRdyout), ac8) /\ UNCHANGED <<irq8, devvars>>
Dpa == Chario(0, 3, 0, ac8) /\ T!TtyPutc(ac8) /\ UNCHANGED pptvars
Dsm == Chario(0, 6, 0, ac8) /\ T!TtySmask(ac8) /\ UNCHANGED pptvars

(* DGA: tty_getc tests in_ch, loads it and invalidates it.                 *)
DgaTest == /\ ExecutingIO /\ dev = 0 /\ iop = 2
           /\ IF T!TtyRdyin THEN at' = "getc_load" /\ ac8' = ac8
                            ELSE at' = "getc_clear" /\ ac8' = 0
           /\ UNCHANGED <<mem8, link8, pc8, ien8, irq8, running, submod, memtop, devvars>>

DgaLoad == /\ at = "getc_load"
           /\ ac8' = in_ch
           /\ at' = "getc_clear"
           /\ UNCHANGED <<mem8, link8, pc8, ien8, irq8, running, submod, memtop, devvars>>

(* A slip: DGA skips, as if it returned what SRI returns.                  *)
DgaClearSkips == /\ at = "getc_clear"
                 /\ T!TtyGetcClear
                 /\ FinishOpr(pc8 + 2)
                 /\ UNCHANGED <<mem8, ac8, link8, ien8, running, pptvars>>

DgaClear == /\ at = "getc_clear"
            /\ T!TtyGetcClear
            /\ FinishOpr(pc8 + 1)
            /\ UNCHANGED <<mem8, ac8, link8, ien8, running, pptvars>>

(* The papertape is ready until a read has met the end of the file; that   *)
(* read returns EOF & 0377.                                                *)
PptRdyin == ~tape_eof

(* A slip: a character is read to find out, and not put back.              *)
TapeSriReads == /\ Chario(1, 0, Skip(tape < Len(Tape)), ac8)
                /\ tape' = IF tape < Len(Tape) THEN tape + 1 ELSE tape
                /\ UNCHANGED <<irq8, csd, in_ch, out_ch, tty_mask, writer, reader,
                               conn, typed, taken, sent, process, tape_eof>>

TapeSri == /\ Chario(1, 0, Skip(PptRdyin), ac8)
           /\ UNCHANGED <<irq8, devvars>>

TapeDga == /\ IF tape < Len(Tape)
              THEN /\ Chario(1, 2, 0, Tape[tape + 1])
                   /\ tape' = tape + 1
                   /\ UNCHANGED tape_eof
              ELSE /\ Chario(1, 2, 0, 255)
                   /\ tape_eof' = TRUE
                   /\ UNCHANGED tape
           /\ UNCHANGED <<irq8, csd, in_ch, out_ch, tty_mask, writer, reader, conn,
                          typed, taken, sent, process>>

(* After the loop chario_close runs tty_close, which spins until out_ch is *)
(* empty; then the process ends, and its threads with it.                  *)
Close == /\ at = "close"
         /\ T!TtyDrained
         /\ at' = "exit"
         /\ process' = "exited"
         /\ UNCHANGED <<mem8, ac8, link8, pc8, ien8, irq8, running, submod, memtop,
                        csd, in_ch, out_ch, tty_mask, writer, reader, conn,
                        typed, taken, sent, pptvars>>

MainLoop == /\ process = "up"
            /\ \/ (Instruction \/ Turn) /\ UNCHANGED devvars
               \/ Sri \/ Sro \/ Dpa \/ Dsm \/ DgaTest \/ DgaLoad \/ DgaClear
               \/ TapeSri \/ TapeDga
               \/ Close

processor == <<mem8, ac8, link8, pc8, ien8, running, submod, memtop, at, pptvars>>

WriterThread == T!Writer /\ UNCHANGED processor
ReaderThread == T!Reader /\ UNCHANGED processor
Typist       == T!Type /\ UNCHANGED processor
Hangup       == T!Hangup /\ UNCHANGED processor

PepsiNext == MainLoop \/ WriterThread \/ ReaderThread \/ Typist \/ Hangup

PepsiSpec == PepsiInit /\ [][PepsiNext]_vars

(***************************************************************************)
(* The threads change nothing that a program could tell from a processor   *)
(* with instantaneous devices: DGA takes effect when tty_getc loads in_ch, *)
(* and the reader is a source of interrupt requests.                       *)
(***************************************************************************)
Getting == at = "getc_clear"

AbsAt     == CASE at = "getc_load" -> "execute"
               [] Getting          -> "poll"
               [] at = "exit"      -> "close"
               [] OTHER            -> at
AbsPc     == IF Getting THEN pc8 + 1 ELSE pc8
AbsMemtop == IF Getting THEN Larger(memtop, pc8 + 1) ELSE memtop
AbsSubmod == IF Getting THEN 0 ELSE submod

Processor == INSTANCE Pep8Cpu WITH
  at <- AbsAt, pc8 <- AbsPc, memtop <- AbsMemtop, submod <- AbsSubmod

ImplementsProcessor == Processor!Spec
=============================================================================
