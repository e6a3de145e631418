------------------------------- MODULE TtyUse -------------------------------
(***************************************************************************)
(* The teletype and an arbitrary program that uses it as doc/pep8.7 has it *)
(* used and the examples do: DPA only after a SRO that skipped.  DSM, the  *)
(* acknowledgement of an interrupt and, unless the use is careful, DGA may *)
(* come at any time.                                                       *)
(***************************************************************************)
EXTENDS Tty

CONSTANTS
  Chars,        \* what the program prints
  Masks         \* what it sets the interrupt mask to

ASSUME TtyUseAssumption == /\ Chars \subseteq 0 .. 4095
                           /\ Masks \subseteq 0 .. 4095

VARIABLES
  getc,         \* where the main loop stands in tty_getc: no, load or clear
  skipped,      \* SRO has skipped and no DPA came after it; SRI and no DGA
  put,          \* the characters printed, in seven bits
  got,          \* the numbers of the characters DGA has returned
  use           \* any, or careful: the typist waits until each character has
                \* been returned, and DGA comes only after a SRI that skipped

usevars == <<getc, skipped, put, got>>
vars    == <<ttyvars, usevars, use>>

Uses == {"any", "careful"}

UseInit == /\ TtyInit
           /\ use \in Uses
           /\ getc = "no" /\ skipped = {}
           /\ put = << >> /\ got = << >>

Calling == process = "up" /\ getc = "no"

Sro == /\ Calling /\ TtyRdyout
       /\ skipped' = skipped \cup {"SRO"}
       /\ UNCHANGED <<ttyvars, getc, put, got>>

Dpa == /\ Calling /\ "SRO" \in skipped
       /\ \E c \in Chars : TtyPutc(c) /\ put' = Append(put, c % BIT7)
       /\ skipped' = skipped \ {"SRO"}
       /\ UNCHANGED <<getc, got>>

Dsm == /\ Calling
       /\ \E m \in Masks : TtySmask(m)
       /\ UNCHANGED usevars

Sri == /\ Calling /\ TtyRdyin
       /\ skipped' = skipped \cup {"SRI"}
       /\ UNCHANGED <<ttyvars, getc, put, got>>

DgaTest == /\ Calling /\ (use = "careful" => "SRI" \in skipped)
           /\ getc' = IF TtyRdyin THEN "load" ELSE "clear"
           /\ skipped' = skipped \ {"SRI"}
           /\ UNCHANGED <<ttyvars, put, got>>

DgaLoad == /\ process = "up" /\ getc = "load"
           /\ getc' = "clear"
           /\ got' = Append(got, taken)
           /\ UNCHANGED <<ttyvars, skipped, put>>

DgaClear == /\ process = "up" /\ getc = "clear"
            /\ getc' = "no"
            /\ TtyGetcClear
            /\ UNCHANGED <<skipped, put, got>>

Ack == /\ Calling /\ irq8 = 1
       /\ irq8' = 0
       /\ UNCHANGED <<in_ch, out_ch, tty_mask, threads, usevars>>

Program == Sro \/ Dpa \/ Dsm \/ Sri \/ DgaTest \/ DgaLoad \/ DgaClear \/ Ack

Typist == /\ use = "careful" => Len(got) = typed /\ getc = "no"
          /\ Type /\ UNCHANGED usevars

WriterStep == Writer /\ UNCHANGED usevars
ReaderStep == Reader /\ UNCHANGED usevars

Step == \/ Program \/ WriterStep \/ ReaderStep \/ Typist
        \/ Hangup /\ UNCHANGED usevars

Next == Step /\ UNCHANGED use

Spec == UseInit /\ [][Next]_vars

UseOK == /\ getc \in {"no", "load", "clear"}
         /\ skipped \in SUBSET {"SRI", "SRO"}
         /\ put \in Seq(Char)
         /\ got \in Seq(Nat)

TypeOK == TtyTypeOK /\ UseOK /\ use \in Uses

(***************************************************************************)
(* Properties                                                              *)
(***************************************************************************)
(* The line is lost when the terminal hangs up or the process ends.        *)
Lost == conn \in {"hungup", "closed"} \/ process # "up"

(* The two unsynchronised threads and the program together implement the   *)
(* channel: no character is lost, repeated or reordered on a good line,    *)
(* although the writer reads out_ch once to test and once to write it and  *)
(* empties it only later (tty_write_sock, tty_putc, tty_rdyout).           *)
Channel == INSTANCE Channel WITH Message <- Char, delivered <- sent, lost <- Lost
ImplementsChannel == Channel!ChannelSpec

(* The terminal never shows anything the program did not print: what has   *)
(* arrived is a prefix of what was printed, one character behind at most   *)
(* as long as the line is good.                                            *)
OutputInOrder == /\ Len(sent) <= Len(put)
                 /\ \A i \in 1 .. Len(sent) : sent[i] = put[i]
                 /\ ~Lost => Len(put) <= Len(sent) + 1

(* DGA returns no character twice and keeps their order, even when the     *)
(* reader overwrites in_ch between the accesses of tty_getc.               *)
NoCharacterTwice == \A i, j \in 1 .. Len(got) : i < j => got[i] < got[j]

(* Careful use with seven bit characters loses nothing: every character    *)
(* read from the socket has been returned or is in in_ch.  A DGA without   *)
(* SRI can invalidate a character that arrives after its test of in_ch     *)
(* (tty_getc, tty_read_sock).                                              *)
SevenBits == \A i \in 1 .. taken : Keys[i] < BIT7

NothingOverrun ==
  use = "careful" /\ SevenBits
    => taken = Len(got) + (IF TtyRdyin /\ getc # "clear" THEN 1 ELSE 0)

(* Every character that was printed leaves out_ch, so that SRO skips again *)
(* and tty_close ends, whether or not the line stays good.                 *)
OutputDrains == ~TtyRdyout ~> (TtyRdyout \/ process # "up")
=============================================================================
