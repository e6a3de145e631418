-------------------------------- MODULE Tty --------------------------------
(***************************************************************************)
(* The teletype, device 0 of chario.c: one character of input, one of      *)
(* output, an interrupt mask, and the two threads that move characters     *)
(* between them and a socket.  Nothing is locked: every access to in_ch,   *)
(* out_ch, tty_mask, csd and irq8 that another thread can come before or   *)
(* after is a step of its own.  The device functions run in the thread of  *)
(* the main loop; they are operators that the user of this module makes    *)
(* steps of.                                                               *)
(*                                                                         *)
(* The socket and the terminal at its other end are external.  The typist  *)
(* types the characters of Keys in order; a character is in the socket     *)
(* until the reader takes it.                                              *)
(***************************************************************************)
EXTENDS Naturals, Sequences

CONSTANTS
  Keys,         \* what is typed at the terminal, eight bits a character
  Enabled       \* whether pepsi was started with -e 0

BIT7   == 128           \* a buffer with this bit holds no character
TTYKIE == \o4000

Char == 0 .. BIT7 - 1
Byte == 0 .. 255

ASSUME TtyAssumption == Keys \in Seq(Byte) /\ Enabled \in BOOLEAN

VARIABLES
  csd,          \* the socket descriptor, -1 before there is one
  in_ch, out_ch, tty_mask,
  irq8,         \* the interrupt request of the processor
  writer,       \* where tty_write_sock stands
  reader,       \* where tty_read_sock stands
  conn,         \* the socket: none, fresh, connected, hungup or closed
  typed, taken, \* how many characters were typed, and read from the socket
  sent,         \* what arrived at the terminal
  process       \* up, failed (exit(1)), killed (by SIGPIPE) or exited

buffers == <<in_ch, out_ch, tty_mask, irq8>>
wire    == <<conn, typed, taken, sent, process>>
ttyvars == <<csd, in_ch, out_ch, tty_mask, irq8, writer, reader, conn,
             typed, taken, sent, process>>

Connected == conn = "connected"

(* Without -e 0 tty_init is not called and neither thread exists.          *)
TtyInit == /\ csd = 0 - 1
           /\ in_ch = BIT7 /\ out_ch = BIT7 /\ tty_mask = 0
           /\ irq8 = 0
           /\ writer = IF Enabled THEN "test" ELSE "none"
           /\ reader = IF Enabled THEN "socket" ELSE "none"
           /\ conn = "none"
           /\ typed = 0 /\ taken = 0
           /\ sent = << >>
           /\ process = "up"

(***************************************************************************)
(* tty_write_sock                                                          *)
(***************************************************************************)
(* When the test fails the thread only sleeps and tests again.             *)
(* A slip: the character is sent whether or not there is one.              *)
WriterTestsSocket == /\ process = "up" /\ writer = "test"
                     /\ csd > 0
                     /\ writer' = "write"
                     /\ UNCHANGED <<csd, buffers, reader, wire>>

WriterTest == /\ process = "up" /\ writer = "test"
              /\ csd > 0
              /\ out_ch < BIT7
              /\ writer' = "write"
              /\ UNCHANGED <<csd, buffers, reader, wire>>

(* A slip: the thread ends when a write fails, as that of the scope does.  *)
WriterGivesUp == /\ process = "up" /\ writer = "write"
                 /\ \/ /\ Connected
                       /\ sent' = Append(sent, out_ch)
                       /\ writer' = "clear"
                    \/ /\ conn \in {"hungup", "closed"}
                       /\ writer' = "none"
                       /\ UNCHANGED sent
                 /\ UNCHANGED <<csd, buffers, reader, conn, typed, taken, process>>

(* A write to a socket that is not connected yet raises SIGPIPE, one to a  *)
(* closed descriptor fails, and one after the other end has gone may do    *)
(* either or lose the character; the result is not looked at.              *)
WriterWrite == /\ process = "up" /\ writer = "write"
               /\ writer' = "clear"
               /\ \/ /\ Connected
                     /\ sent' = Append(sent, out_ch)
                     /\ UNCHANGED process
                  \/ /\ conn \in {"hungup", "closed"}
                     /\ UNCHANGED <<sent, process>>
                  \/ /\ conn \in {"fresh", "hungup"}
                     /\ process' = "killed"
                     /\ UNCHANGED sent
               /\ UNCHANGED <<csd, buffers, reader, conn, typed, taken>>

WriterClear == /\ process = "up" /\ writer = "clear"
               /\ out_ch' = BIT7
               /\ writer' = "test"
               /\ UNCHANGED <<csd, in_ch, tty_mask, irq8, reader, wire>>

Writer == WriterTest \/ WriterWrite \/ WriterClear

(***************************************************************************)
(* tty_read_sock                                                           *)
(***************************************************************************)
ReaderSocket == /\ process = "up" /\ reader = "socket"
                /\ csd' = 3
                /\ conn' = "fresh"
                /\ reader' = "connect"
                /\ UNCHANGED <<buffers, writer, typed, taken, sent, process>>

ReaderConnect == /\ process = "up" /\ reader = "connect"
                 /\ \/ /\ conn' = "connected"
                       /\ reader' = "read"
                       /\ UNCHANGED process
                    \/ /\ process' = "failed"
                       /\ UNCHANGED <<conn, reader>>
                 /\ UNCHANGED <<csd, buffers, writer, typed, taken, sent>>

(* read stores into in_ch; what was there is gone.                         *)
ReaderRead == /\ process = "up" /\ reader = "read"
              /\ taken < typed
              /\ taken' = taken + 1
              /\ in_ch' = Keys[taken + 1]
              /\ reader' = "mask"
              /\ UNCHANGED <<csd, out_ch, tty_mask, irq8, writer, conn, typed,
                             sent, process>>

(* A slip: the mask is tested for the wrong bit.                           *)
ReaderMaskShifted == /\ process = "up" /\ reader = "mask"
                     /\ reader' = IF (tty_mask \div (2 * TTYKIE)) % 2 = 1
                                  THEN "request" ELSE "read"
                     /\ UNCHANGED <<csd, buffers, writer, wire>>

ReaderMask == /\ process = "up" /\ reader = "mask"
              /\ reader' = IF (tty_mask \div TTYKIE) % 2 = 1 THEN "request" ELSE "read"
              /\ UNCHANGED <<csd, buffers, writer, wire>>

ReaderRequest == /\ process = "up" /\ reader = "request"
                 /\ irq8' = 1
                 /\ reader' = "read"
                 /\ UNCHANGED <<csd, in_ch, out_ch, tty_mask, writer, wire>>

(* End of file, or an error that loses what was not read: the descriptor   *)
(* is closed, but csd keeps its number.  No signal handler is installed,   *)
(* so read is never interrupted.                                           *)
ReaderClose == /\ process = "up" /\ reader = "read"
               /\ conn = "hungup"
               /\ conn' = "closed"
               /\ reader' = "done"
               /\ UNCHANGED <<csd, buffers, writer, typed, taken, sent, process>>

Reader == \/ ReaderSocket \/ ReaderConnect \/ ReaderRead
          \/ ReaderMask \/ ReaderRequest \/ ReaderClose

(***************************************************************************)
(* The terminal                                                            *)
(***************************************************************************)
Type == /\ process = "up" /\ Connected
        /\ typed < Len(Keys)
        /\ typed' = typed + 1
        /\ UNCHANGED <<csd, buffers, writer, reader, conn, taken, sent, process>>

Hangup == /\ process = "up" /\ Connected
          /\ conn' = "hungup"
          /\ UNCHANGED <<csd, buffers, writer, reader, typed, taken, sent, process>>

(***************************************************************************)
(* The device functions.  tty_getc is a test, a load and an invalidation   *)
(* of in_ch; the load is left out when there is no character.              *)
(***************************************************************************)
TtyRdyin  == in_ch < BIT7

(* A slip: ready is what is connected.                                     *)
Opened == csd > 0

TtyRdyout == out_ch >= BIT7

threads == <<csd, writer, reader, wire>>

(* A slip: the buffer is not invalidated.                                  *)
TtyGetcKeep == UNCHANGED <<in_ch, out_ch, tty_mask, irq8, threads>>

TtyGetcClear == /\ in_ch' = BIT7
                /\ UNCHANGED <<out_ch, tty_mask, irq8, threads>>

(* A slip: eight bits are sent.                                            *)
TtyPutc8(ac) == /\ out_ch' = ac % 256
                /\ UNCHANGED <<in_ch, tty_mask, irq8, threads>>

TtyPutc(ac) == /\ out_ch' = ac % BIT7
               /\ UNCHANGED <<in_ch, tty_mask, irq8, threads>>

TtySmask(ac) == /\ tty_mask' = ac
                /\ UNCHANGED <<in_ch, out_ch, irq8, threads>>

(* What tty_close waits for.                                               *)
TtyDrained == out_ch >= BIT7

BuffersOK == /\ csd \in {0 - 1, 3}
             /\ in_ch \in Byte
             /\ out_ch \in Char \cup {BIT7}
             /\ irq8 \in {0, 1}

ThreadsOK == /\ writer \in {"none", "test", "write", "clear"}
             /\ reader \in {"none", "socket", "connect", "read", "mask", "request", "done"}
             /\ conn \in {"none", "fresh", "connected", "hungup", "closed"}
             /\ process \in {"up", "failed", "killed", "exited"}

TrafficOK == /\ taken \in Nat /\ typed \in Nat
             /\ taken <= typed /\ typed <= Len(Keys)
             /\ sent \in Seq(Char)

TtyTypeOK == BuffersOK /\ ThreadsOK /\ TrafficOK
=============================================================================
