---------------------------- MODULE TtyUseProofs ----------------------------
(***************************************************************************)
(* The teletype's guarantees, for every script of the typist and every     *)
(* program that waits for SRO before DPA.                                  *)
(***************************************************************************)
EXTENDS TtyUse, TLAPS

(***************************************************************************)
(* The invariant behind the output: the writer owns out_ch from its test   *)
(* until it clears it, a SRO that has skipped keeps skipping, and as long  *)
(* as the line is good the one character between put and sent is in out_ch.*)
(***************************************************************************)
Unsent == out_ch \in Char /\ writer # "clear"

OwnerInv == /\ writer \in {"write", "clear"} => out_ch \in Char
            /\ "SRO" \in skipped => out_ch = BIT7

LineInv == /\ reader = "socket" => conn = "none"
           /\ reader = "connect" => conn = "fresh"

WireInv == ~Lost => put = IF Unsent THEN Append(sent, out_ch) ELSE sent

PrefixInv == /\ Len(sent) <= Len(put)
             /\ \A i \in 1 .. Len(sent) : sent[i] = put[i]

OutInv == TypeOK /\ OwnerInv /\ LineInv /\ WireInv /\ PrefixInv

LEMMA CharOK == ASSUME NEW c \in Nat PROVE c % BIT7 \in Char
  BY DEF BIT7, Char

LEMMA KeyOK == ASSUME NEW n \in Nat, n < Len(Keys)
               PROVE  Keys[n + 1] \in Byte
  BY TtyAssumption DEF TtyAssumption

LEMMA EmptyOK == BIT7 \in Byte /\ BIT7 \in Nat /\ BIT7 \notin Char
  BY DEF BIT7, Byte, Char

LEMMA NoChange ==
  /\ UNCHANGED <<csd, in_ch, out_ch, irq8>> /\ BuffersOK => BuffersOK'
  /\ UNCHANGED <<writer, reader, conn, process>> /\ ThreadsOK => ThreadsOK'
  /\ UNCHANGED <<taken, typed, sent>> /\ TrafficOK => TrafficOK'
  /\ UNCHANGED usevars /\ UseOK => UseOK'
<1>1. UNCHANGED <<csd, in_ch, out_ch, irq8>> /\ BuffersOK => BuffersOK'
  BY DEF BuffersOK
<1>2. UNCHANGED <<writer, reader, conn, process>> /\ ThreadsOK => ThreadsOK'
  BY DEF ThreadsOK
<1>3. UNCHANGED <<taken, typed, sent>> /\ TrafficOK => TrafficOK'
  BY DEF TrafficOK
<1>4. UNCHANGED usevars /\ UseOK => UseOK'
  BY DEF UseOK, usevars
<1> QED
  BY <1>1, <1>2, <1>3, <1>4

LEMMA TypeStep ==
  ASSUME TypeOK, OwnerInv, Next PROVE TypeOK'
<1> USE DEF usevars, threads, wire, buffers, ttyvars
<1>a. BuffersOK /\ ThreadsOK /\ TrafficOK /\ UseOK
  BY DEF TypeOK, TtyTypeOK
<1>q. (BuffersOK /\ ThreadsOK /\ TrafficOK /\ UseOK)' => TypeOK'
  BY DEF TypeOK, TtyTypeOK, Next
<1>1. CASE Program
  <2>1. CASE Sro
    BY <2>1, <1>a, <1>q, NoChange DEF Sro, UseOK
  <2>2. CASE Dpa
    <3>1. PICK c \in Chars : TtyPutc(c) /\ put' = Append(put, c % BIT7)
      BY <2>2 DEF Dpa
    <3>2. c % BIT7 \in Char
      <4>1. c \in Nat
        BY TtyUseAssumption DEF TtyUseAssumption
      <4> QED
        BY <4>1, CharOK
    <3>3. put' \in Seq(Char)
      BY <1>a, <3>1, <3>2 DEF UseOK
    <3>4. BuffersOK'
      BY <1>a, <3>1, <3>2 DEF TtyPutc, BuffersOK
    <3>5. UseOK'
      BY <1>a, <2>2, <3>3 DEF Dpa, UseOK
    <3> QED
      BY <1>a, <1>q, <3>1, <3>4, <3>5, NoChange DEF TtyPutc
  <2>3. CASE Dsm
    BY <2>3, <1>a, <1>q, NoChange DEF Dsm, TtySmask
  <2>4. CASE Sri
    BY <2>4, <1>a, <1>q, NoChange DEF Sri, UseOK
  <2>5. CASE DgaTest
    <3>1. getc' \in {"load", "clear"}
      BY <2>5 DEF DgaTest, TtyRdyin
    <3>2. UseOK'
      BY <2>5, <3>1, <1>a DEF DgaTest, UseOK
    <3> QED
      BY <2>5, <3>2, <1>a, <1>q, NoChange DEF DgaTest
  <2>6. CASE DgaLoad
    <3>1. UseOK'
      BY <2>6, <1>a DEF DgaLoad, UseOK, TrafficOK
    <3> QED
      BY <2>6, <3>1, <1>a, <1>q, NoChange DEF DgaLoad
  <2>7. CASE DgaClear
    BY <2>7, <1>a, <1>q, NoChange, EmptyOK DEF DgaClear, TtyGetcClear, UseOK, BuffersOK
  <2>8. CASE Ack
    BY <2>8, <1>a, <1>q, NoChange DEF Ack, BuffersOK
  <2> QED
    BY <1>1, <2>1, <2>2, <2>3, <2>4, <2>5, <2>6, <2>7, <2>8 DEF Program
<1>2. CASE WriterStep
  <2>1. CASE WriterTest
    BY <1>2, <2>1, <1>a, <1>q, NoChange DEF WriterStep, WriterTest, ThreadsOK
  <2>2. CASE WriterWrite
    <3>1. writer = "write" /\ UNCHANGED <<csd, buffers, reader, conn, typed, taken, usevars>>
      BY <1>2, <2>2 DEF WriterStep, WriterWrite
    <3>2. ThreadsOK'
      <4>1. writer' = "clear" /\ process' \in {process, "killed"}
        BY <2>2 DEF WriterWrite
      <4> QED
        BY <3>1, <4>1, <1>a DEF ThreadsOK
    <3>3. sent' \in Seq(Char)
      <4>1. sent' = sent \/ sent' = Append(sent, out_ch)
        BY <2>2 DEF WriterWrite
      <4>2. out_ch \in Char
        BY <3>1, OwnerInv DEF OwnerInv
      <4>3. sent \in Seq(Char)
        BY <1>a DEF TrafficOK
      <4>4. Append(sent, out_ch) \in Seq(Char)
        BY <4>2, <4>3
      <4>5. CASE sent' = sent
        BY <4>3, <4>5
      <4>6. CASE sent' = Append(sent, out_ch)
        BY <4>4, <4>6
      <4> QED
        BY <4>1, <4>5, <4>6
    <3>4. TrafficOK'
      BY <3>1, <3>3, <1>a DEF TrafficOK
    <3> QED
      BY <3>1, <3>2, <3>4, <1>a, <1>q, NoChange
  <2>3. CASE WriterClear
    BY <1>2, <2>3, <1>a, <1>q, NoChange, EmptyOK
       DEF WriterStep, WriterClear, BuffersOK, ThreadsOK
  <2> QED
    BY <1>2, <2>1, <2>2, <2>3 DEF WriterStep, Writer
<1>3. CASE ReaderStep
  <2>1. UseOK'
    BY <1>3, <1>a, NoChange DEF ReaderStep
  <2>2. CASE ReaderSocket
    BY <2>1, <2>2, <1>a, <1>q, NoChange DEF ReaderSocket, BuffersOK, ThreadsOK
  <2>3. CASE ReaderConnect
    BY <2>1, <2>3, <1>a, <1>q, NoChange DEF ReaderConnect, ThreadsOK
  <2>4. CASE ReaderRead
    <3>1. taken \in Nat /\ taken < Len(Keys)
      BY <2>4, <1>a DEF ReaderRead, TrafficOK
    <3>2. in_ch' \in Byte
      BY <2>4, <3>1, KeyOK DEF ReaderRead
    <3>3. BuffersOK'
      BY <2>4, <3>2, <1>a DEF ReaderRead, BuffersOK
    <3>4. ThreadsOK'
      BY <2>4, <1>a DEF ReaderRead, ThreadsOK
    <3>5. TrafficOK'
      BY <2>4, <1>a DEF ReaderRead, TrafficOK
    <3> QED
      BY <2>1, <3>3, <3>4, <3>5, <1>q
  <2>5. CASE ReaderMask
    BY <2>1, <2>5, <1>a, <1>q, NoChange DEF ReaderMask, ThreadsOK
  <2>6. CASE ReaderRequest
    BY <2>1, <2>6, <1>a, <1>q, NoChange DEF ReaderRequest, BuffersOK, ThreadsOK
  <2>7. CASE ReaderClose
    BY <2>1, <2>7, <1>a, <1>q, NoChange DEF ReaderClose, ThreadsOK
  <2> QED
    BY <1>3, <2>2, <2>3, <2>4, <2>5, <2>6, <2>7 DEF ReaderStep, Reader
<1>4. CASE Typist
  <2>1. TrafficOK'
    BY <1>4, <1>a, TtyAssumption DEF Typist, Type, TrafficOK, TtyAssumption
  <2> QED
    BY <1>4, <2>1, <1>a, <1>q, NoChange DEF Typist, Type
<1>5. CASE Hangup /\ UNCHANGED usevars
  BY <1>5, <1>a, <1>q, NoChange DEF Hangup, ThreadsOK
<1> QED
  BY <1>1, <1>2, <1>3, <1>4, <1>5 DEF Next, Step

(***************************************************************************)
(* The invariant of the output is inductive                                *)
(***************************************************************************)
LEMMA OutInit == UseInit => OutInv
<1> SUFFICES ASSUME UseInit PROVE OutInv
  OBVIOUS
<1>1. TypeOK
  BY EmptyOK, TtyAssumption DEF TtyAssumption, UseInit, TtyInit, TypeOK, TtyTypeOK, BuffersOK,
     ThreadsOK, TrafficOK, UseOK
<1>2. OwnerInv /\ LineInv
  BY DEF UseInit, TtyInit, OwnerInv, LineInv
<1>3. sent = << >> /\ put = << >> /\ ~Unsent
  BY EmptyOK DEF UseInit, TtyInit, Unsent
<1>4. WireInv /\ PrefixInv
  BY <1>3 DEF WireInv, PrefixInv
<1> QED
  BY <1>1, <1>2, <1>4 DEF OutInv

(* out_ch holds a character or it is empty, and TtyRdyout tells which.     *)
LEMMA Rdyout == BuffersOK => /\ TtyRdyout <=> out_ch = BIT7
                             /\ out_ch < BIT7 <=> out_ch \in Char
BY DEF BuffersOK, TtyRdyout, Char, BIT7

LEMMA PrefixOfAppend ==
  ASSUME NEW s \in Seq(Char), NEW p \in Seq(Char), NEW c \in Char,
         Len(s) <= Len(p), \A i \in 1 .. Len(s) : s[i] = p[i]
  PROVE  /\ Len(s) <= Len(Append(p, c))
         /\ \A i \in 1 .. Len(s) : s[i] = Append(p, c)[i]
OBVIOUS

LEMMA OwnerStep == ASSUME TypeOK, OwnerInv, Next PROVE OwnerInv'
<1>a. BuffersOK /\ ThreadsOK
  BY DEF TypeOK, TtyTypeOK
<1> USE EmptyOK, OwnerInv DEF OwnerInv, usevars, threads, wire, buffers, ttyvars
<1>1. CASE Program
  <2>1. CASE Sro
    BY <2>1, <1>a, Rdyout DEF Sro
  <2>2. CASE Dpa
    <3>1. PICK c \in Chars : TtyPutc(c) /\ put' = Append(put, c % BIT7)
      BY <2>2 DEF Dpa
    <3>2. writer' = writer /\ out_ch = BIT7
      BY <2>2, <3>1 DEF Dpa, TtyPutc
    <3>3. writer \notin {"write", "clear"}
      BY <3>2
    <3>4. "SRO" \notin skipped'
      BY <2>2 DEF Dpa
    <3> QED
      BY <3>2, <3>3, <3>4
  <2>3. CASE Dsm \/ Sri \/ DgaTest \/ DgaLoad \/ DgaClear \/ Ack
    BY <2>3 DEF Dsm, Sri, DgaTest, DgaLoad, DgaClear, Ack, TtySmask, TtyGetcClear
  <2> QED
    BY <1>1, <2>1, <2>2, <2>3 DEF Program
<1>2. CASE WriterStep
  <2>1. CASE WriterTest
    <3>1. out_ch \in Char
      BY <2>1, <1>a, Rdyout DEF WriterTest
    <3> QED
      BY <1>2, <2>1, <3>1 DEF WriterStep, WriterTest
  <2>2. CASE WriterWrite
    BY <1>2, <2>2 DEF WriterStep, WriterWrite
  <2>3. CASE WriterClear
    BY <1>2, <2>3 DEF WriterStep, WriterClear
  <2> QED
    BY <1>2, <2>1, <2>2, <2>3 DEF WriterStep, Writer
<1>3. CASE ReaderStep
  BY <1>3 DEF ReaderStep, Reader, ReaderSocket, ReaderConnect, ReaderRead,
     ReaderMask, ReaderRequest, ReaderClose
<1>4. CASE Typist \/ (Hangup /\ UNCHANGED usevars)
  BY <1>4 DEF Typist, Type, Hangup
<1> QED
  BY <1>1, <1>2, <1>3, <1>4 DEF Next, Step

LEMMA LineStep == ASSUME LineInv, Next PROVE LineInv' /\ (Lost => Lost')
<1> USE LineInv DEF LineInv, Lost, usevars, threads, wire, buffers, ttyvars
<1>1. CASE Program
  BY <1>1 DEF Program, Sro, Dpa, Dsm, Sri, DgaTest, DgaLoad, DgaClear, Ack,
     TtyPutc, TtySmask, TtyGetcClear, Calling
<1>2. CASE WriterStep
  BY <1>2 DEF WriterStep, Writer, WriterTest, WriterWrite, WriterClear
<1>3. CASE ReaderStep
  BY <1>3 DEF ReaderStep, Reader, ReaderSocket, ReaderConnect, ReaderRead,
     ReaderMask, ReaderRequest, ReaderClose
<1>4. CASE Typist \/ (Hangup /\ UNCHANGED usevars)
  BY <1>4 DEF Typist, Type, Hangup, Connected
<1> QED
  BY <1>1, <1>2, <1>3, <1>4 DEF Next, Step

(* A step with these effects on put, sent and out_ch is invisible.         *)
LEMMA WireKept ==
  ASSUME WireInv, PrefixInv, Lost => Lost', UNCHANGED <<put, sent>>,
         Lost' \/ (UNCHANGED out_ch /\ (writer' = "clear" <=> writer = "clear"))
  PROVE  WireInv' /\ PrefixInv'
BY DEF WireInv, PrefixInv, Unsent

(* The two steps that are not: a DPA, and a write to the socket.           *)
LEMMA DpaWire ==
  ASSUME TypeOK, OwnerInv, LineInv, WireInv, PrefixInv, Dpa
  PROVE  /\ WireInv' /\ PrefixInv'
         /\ \E c \in Char : put' = Append(put, c)
         /\ UNCHANGED <<sent, conn, process>>
         /\ ~Lost => Len(put) = Len(sent)
<1>1. PICK c \in Chars : TtyPutc(c) /\ put' = Append(put, c % BIT7)
  BY DEF Dpa
<1>2. c % BIT7 \in Char
  <2>1. c \in Nat
    BY TtyUseAssumption DEF TtyUseAssumption
  <2> QED
    BY <2>1, CharOK
<1>3. sent \in Seq(Char) /\ put \in Seq(Char)
  BY DEF TypeOK, TtyTypeOK, TrafficOK, UseOK
<1>4. out_ch = BIT7 /\ writer \notin {"write", "clear"}
  BY EmptyOK, OwnerInv DEF Dpa, OwnerInv
<1>5. UNCHANGED <<sent, conn, process, writer>> /\ out_ch' = c % BIT7
  BY <1>1 DEF TtyPutc, threads, wire
<1>6. ~Lost => put = sent
  BY <1>4, EmptyOK, WireInv DEF WireInv, Unsent
<1>7. Unsent' /\ (Lost' <=> Lost)
  BY <1>2, <1>4, <1>5 DEF Unsent, Lost
<1>8. WireInv'
  BY <1>1, <1>5, <1>6, <1>7 DEF WireInv
<1>9. PrefixInv'
  <2> DEFINE d == c % BIT7
  <2>1. d \in Char /\ put' = Append(put, d) /\ sent' = sent
    BY <1>1, <1>2, <1>5
  <2> HIDE DEF d
  <2> QED
    BY <1>3, <2>1, PrefixInv, PrefixOfAppend DEF PrefixInv
<1> QED
  BY <1>1, <1>2, <1>5, <1>6, <1>8, <1>9

LEMMA WriteWire ==
  ASSUME TypeOK, OwnerInv, LineInv, WireInv, PrefixInv, WriterWrite, UNCHANGED usevars
  PROVE  /\ WireInv' /\ PrefixInv'
         /\ \/ ~Lost /\ ~Lost' /\ put = Append(sent, out_ch) /\ sent' = put
            \/ Lost' /\ UNCHANGED sent
<1>1. out_ch \in Char
  BY OwnerInv DEF OwnerInv, WriterWrite
<1>2. writer = "write" /\ writer' = "clear" /\ UNCHANGED <<put, out_ch, conn>>
  BY DEF WriterWrite, usevars, buffers
<1>3. CASE Connected /\ sent' = Append(sent, out_ch) /\ UNCHANGED process
  <2>1. process = "up" /\ ~Lost /\ ~Lost'
    BY <1>2, <1>3 DEF WriterWrite, Lost, Connected
  <2>2. put = Append(sent, out_ch)
    BY <1>1, <1>2, <2>1, WireInv DEF WireInv, Unsent
  <2>3. sent' = put /\ ~Unsent'
    BY <1>2, <1>3, <2>2 DEF Unsent
  <2>4. WireInv' /\ PrefixInv'
    BY <1>2, <2>3 DEF WireInv, PrefixInv
  <2> QED
    BY <2>1, <2>2, <2>3, <2>4
<1>4. CASE UNCHANGED sent /\ (conn \in {"hungup", "closed"} \/ process' = "killed")
  <2>1. Lost'
    BY <1>2, <1>4 DEF Lost
  <2> QED
    BY <1>2, <1>4, <2>1, PrefixInv DEF WireInv, PrefixInv
<1> QED
  BY <1>3, <1>4 DEF WriterWrite

ChannelStep == [Channel!ChannelNext]_<<put, sent, Lost>>

(* Every step of the system is, for the channel, a Put, a Deliver, a Lose  *)
(* or nothing.                                                             *)
LEMMA OutStep ==
  ASSUME OutInv, Next
  PROVE  OutInv' /\ ChannelStep
<1> USE DEF usevars, threads, wire, buffers, ttyvars
<1>a. TypeOK /\ OwnerInv /\ LineInv /\ WireInv /\ PrefixInv
  BY DEF OutInv
<1>b. TypeOK' /\ OwnerInv' /\ LineInv' /\ (Lost => Lost')
  <2>1. TypeOK'
    BY <1>a, TypeStep
  <2>2. OwnerInv'
    BY <1>a, OwnerStep
  <2>3. LineInv' /\ (Lost => Lost')
    BY <1>a, LineStep
  <2> QED
    BY <2>1, <2>2, <2>3
<1>q. ASSUME UNCHANGED <<put, sent>>,
             Lost' \/ (UNCHANGED out_ch /\ (writer' = "clear" <=> writer = "clear"))
      PROVE  OutInv' /\ ChannelStep
  <2>1. WireInv' /\ PrefixInv'
    BY <1>a, <1>b, <1>q, WireKept
  <2>2. CASE Lost \/ ~Lost'
    <3>1. Lost' = Lost
      BY <1>b, <2>2 DEF Lost
    <3> QED
      BY <1>b, <1>q, <2>1, <3>1 DEF OutInv, ChannelStep
  <2>3. CASE ~Lost /\ Lost'
    <3>1. Channel!Lose
      BY <1>q, <2>3 DEF Channel!Lose
    <3> QED
      BY <1>b, <2>1, <3>1 DEF OutInv, ChannelStep, Channel!ChannelNext
  <2> QED
    BY <1>b, <2>2, <2>3
<1>1. CASE Dpa
  <2>1. /\ WireInv' /\ PrefixInv'
        /\ \E c \in Char : put' = Append(put, c)
        /\ UNCHANGED <<sent, conn, process>>
        /\ ~Lost => Len(put) = Len(sent)
    BY <1>1, <1>a, DpaWire
  <2>2. Channel!Put
    <3>1. PICK c \in Char : put' = Append(put, c)
      BY <2>1
    <3>2. Lost \/ Len(put) - Len(sent) = 0
      BY <1>a, <2>1 DEF TypeOK, TtyTypeOK, TrafficOK, UseOK
    <3>3. UNCHANGED <<sent, Lost>>
      BY <2>1 DEF Lost
    <3> QED
      BY <3>1, <3>2, <3>3 DEF Channel!Put, Channel!InFlight
  <2> QED
    BY <1>b, <2>1, <2>2 DEF OutInv, ChannelStep, Channel!ChannelNext
<1>2. CASE Program /\ ~Dpa
  BY <1>2, <1>q DEF Program, Sro, Dsm, Sri, DgaTest, DgaLoad, DgaClear, Ack,
     TtySmask, TtyGetcClear
<1>3. CASE WriterStep
  <2>1. CASE WriterTest
    <3>1. /\ writer = "test" /\ writer' = "write"
          /\ UNCHANGED <<put, sent, out_ch>>
      BY <1>3, <2>1 DEF WriterStep, WriterTest
    <3> QED
      BY <3>1, <1>q
  <2>2. CASE WriterWrite
    <3>1. /\ WireInv' /\ PrefixInv'
          /\ \/ ~Lost /\ ~Lost' /\ put = Append(sent, out_ch) /\ sent' = put
             \/ Lost' /\ UNCHANGED sent
      BY <1>3, <2>2, <1>a, WriteWire DEF WriterStep
    <3>2. CASE ~Lost /\ ~Lost' /\ put = Append(sent, out_ch) /\ sent' = put
      <4>1. Len(put) = Len(sent) + 1
        BY <3>2, <1>a DEF TypeOK, TtyTypeOK, TrafficOK
      <4>2. put' = put /\ Lost' = Lost
        BY <1>3, <3>2 DEF WriterStep, Lost
      <4>3. Channel!Deliver
        BY <3>2, <4>1, <4>2, <1>a DEF Channel!Deliver, Channel!InFlight,
           TypeOK, TtyTypeOK, TrafficOK
      <4> QED
        BY <1>b, <3>1, <4>3 DEF OutInv, ChannelStep, Channel!ChannelNext
    <3>3. CASE Lost' /\ UNCHANGED sent
      <4>1. UNCHANGED <<put, sent>>
        BY <1>3, <3>3 DEF WriterStep
      <4> QED
        BY <3>3, <4>1, <1>q
    <3> QED
      BY <3>1, <3>2, <3>3
  <2>3. CASE WriterClear
    <3>1. /\ writer = "clear" /\ writer' = "test" /\ out_ch' = BIT7
          /\ UNCHANGED <<put, sent, conn, process>>
      BY <1>3, <2>3 DEF WriterStep, WriterClear
    <3>2. ~Unsent /\ ~Unsent' /\ Lost' = Lost
      BY <3>1, EmptyOK DEF Unsent, Lost
    <3>3. WireInv' /\ PrefixInv'
      BY <1>a, <3>1, <3>2 DEF WireInv, PrefixInv
    <3> QED
      BY <1>b, <3>1, <3>2, <3>3 DEF OutInv, ChannelStep
  <2> QED
    BY <1>3, <2>1, <2>2, <2>3 DEF WriterStep, Writer
<1>4. CASE ReaderStep
  BY <1>4, <1>q DEF ReaderStep, Reader, ReaderSocket, ReaderConnect, ReaderRead,
     ReaderMask, ReaderRequest, ReaderClose
<1>5. CASE Typist \/ (Hangup /\ UNCHANGED usevars)
  BY <1>5, <1>q DEF Typist, Type, Hangup
<1> QED
  BY <1>1, <1>2, <1>3, <1>4, <1>5 DEF Next, Step

LEMMA OutStutter ==
  ASSUME OutInv, UNCHANGED vars
  PROVE  OutInv' /\ ChannelStep
<1>1. UNCHANGED <<csd, in_ch, out_ch, irq8, writer, reader, conn, process, taken,
                  typed, sent, getc, skipped, put, got, use>>
  BY DEF vars, ttyvars, usevars
<1>2. TypeOK'
  BY <1>1, NoChange DEF OutInv, TypeOK, TtyTypeOK, usevars
<1>3. Lost' = Lost
  BY <1>1 DEF Lost
<1>4. OwnerInv' /\ LineInv' /\ PrefixInv'
  BY <1>1 DEF OutInv, OwnerInv, LineInv, PrefixInv
<1>5. WireInv'
  BY <1>1, <1>3 DEF OutInv, WireInv, Unsent
<1> QED
  BY <1>1, <1>2, <1>3, <1>4, <1>5 DEF OutInv, ChannelStep

(***************************************************************************)
(* The theorems                                                            *)
(***************************************************************************)

(* The teletype's buffers, threads and traffic stay in range: in_ch a      *)
(* byte, out_ch seven bits or empty, for every script and program          *)
(* (chario.c, tty_read_sock, tty_write_sock and the device functions).     *)
THEOREM TypeCorrect == Spec => []TypeOK
<1>1. UseInit => OutInv
  BY OutInit
<1>2. OutInv /\ [Next]_vars => OutInv'
  BY OutStep, OutStutter
<1>3. OutInv => TypeOK
  BY DEF OutInv
<1> QED
  BY <1>1, <1>2, <1>3, PTL DEF Spec

(* Nothing but what the program printed, in its order, reaches the         *)
(* terminal, and all of it but the last character has while the line is    *)
(* good (tty_write_sock against tty_putc).                                 *)
THEOREM PrintedInOrder == Spec => []OutputInOrder
<1>1. UseInit => OutInv
  BY OutInit
<1>2. OutInv /\ [Next]_vars => OutInv'
  BY OutStep, OutStutter
<1>3. OutInv => OutputInOrder
  <2> SUFFICES ASSUME OutInv PROVE OutputInOrder
    OBVIOUS
  <2>1. sent \in Seq(Char) /\ put \in Seq(Char)
    BY DEF OutInv, TypeOK, TtyTypeOK, TrafficOK, UseOK
  <2>2. ~Lost => Len(put) <= Len(sent) + 1
    BY <2>1 DEF OutInv, WireInv
  <2> QED
    BY <2>2 DEF OutInv, PrefixInv, OutputInOrder
<1> QED
  BY <1>1, <1>2, <1>3, PTL DEF Spec

(* The teletype implements the one-character channel: the initial state is *)
(* the channel's, and every step one of its steps or none.                 *)
THEOREM TtyIsChannel == Spec => ImplementsChannel
<1>1. UseInit => OutInv /\ Channel!ChannelInit
  <2>1. UseInit => OutInv
    BY OutInit
  <2>2. UseInit => Channel!ChannelInit
    BY DEF UseInit, TtyInit, Channel!ChannelInit, Lost
  <2> QED
    BY <2>1, <2>2
<1>2. OutInv /\ [Next]_vars => OutInv' /\ ChannelStep
  BY OutStep, OutStutter
<1> QED
  BY <1>1, <1>2, PTL DEF Spec, ChannelStep, ImplementsChannel, Channel!ChannelSpec

(***************************************************************************)
(* Input: the characters returned are older than the one in in_ch, if      *)
(* there is one that will be returned.                                     *)
(***************************************************************************)
Fresh == TtyRdyin /\ getc # "clear"

GotInv == /\ \A i \in 1 .. Len(got) : got[i] <= taken
          /\ Fresh \/ getc = "load" => \A i \in 1 .. Len(got) : got[i] < taken
          /\ NoCharacterTwice

InInv == OutInv /\ GotInv

(* A step that returns nothing keeps GotInv, unless it makes an old        *)
(* character valid.                                                        *)
LEMMA GotKept ==
  ASSUME TypeOK, GotInv, taken' \in Nat, UNCHANGED got,
         \/ taken' = taken + 1
         \/ taken' = taken /\ (Fresh' \/ getc' = "load" => Fresh \/ getc = "load")
  PROVE  GotInv'
<1>1. taken \in Nat /\ \A i \in 1 .. Len(got) : got[i] \in Nat
  BY DEF TypeOK, TtyTypeOK, TrafficOK, UseOK
<1>2. NoCharacterTwice'
  BY DEF GotInv, NoCharacterTwice
<1>3. CASE taken' = taken + 1
  BY <1>1, <1>2, <1>3 DEF GotInv
<1>4. CASE taken' = taken /\ (Fresh' \/ getc' = "load" => Fresh \/ getc = "load")
  BY <1>2, <1>4 DEF GotInv
<1> QED
  BY <1>3, <1>4

LEMMA GotAppend ==
  ASSUME NEW g \in Seq(Nat), NEW t \in Nat,
         \A i \in 1 .. Len(g) : g[i] < t,
         \A i, j \in 1 .. Len(g) : i < j => g[i] < g[j]
  PROVE  /\ \A i \in 1 .. Len(Append(g, t)) : Append(g, t)[i] <= t
         /\ \A i, j \in 1 .. Len(Append(g, t)) : i < j => Append(g, t)[i] < Append(g, t)[j]
<1> DEFINE h == Append(g, t)
<1>1. Len(h) = Len(g) + 1 /\ Len(g) \in Nat /\ h[Len(g) + 1] = t
  OBVIOUS
<1>2. \A i \in 1 .. Len(g) : h[i] = g[i] /\ g[i] \in Nat
  OBVIOUS
<1> HIDE DEF h
<1>3. \A i \in 1 .. Len(h) : i \in 1 .. Len(g) \/ i = Len(g) + 1
  BY <1>1
<1>4. \A i \in 1 .. Len(h) : h[i] <= t
  BY <1>1, <1>2, <1>3
<1>5. ASSUME NEW i \in 1 .. Len(h), NEW j \in 1 .. Len(h), i < j PROVE h[i] < h[j]
  <2>1. i \in 1 .. Len(g)
    BY <1>1, <1>5
  <2>2. CASE j \in 1 .. Len(g)
    BY <1>2, <1>5, <2>1, <2>2
  <2>3. CASE j = Len(g) + 1
    BY <1>1, <1>2, <2>1, <2>3
  <2> QED
    BY <1>3, <2>2, <2>3
<1> QED
  BY <1>4, <1>5 DEF h

LEMMA InStep == ASSUME InInv, Next PROVE InInv'
<1> USE DEF usevars, threads, wire, buffers, ttyvars
<1>a. OutInv' /\ TypeOK /\ GotInv
  BY OutStep DEF InInv, OutInv
<1>b. taken' \in Nat
  BY <1>a DEF OutInv, TypeOK, TtyTypeOK, TrafficOK
<1>q. ASSUME UNCHANGED <<got, taken, getc>>, TtyRdyin' => TtyRdyin
      PROVE  InInv'
  <2>1. Fresh' \/ getc' = "load" => Fresh \/ getc = "load"
    BY <1>q DEF Fresh
  <2>2. GotInv'
    BY <1>a, <1>b, <1>q, <2>1, GotKept
  <2> QED
    BY <1>a, <2>2 DEF InInv
<1>1. CASE Sro \/ Dpa \/ Dsm \/ Sri \/ Ack
  BY <1>1, <1>q DEF Sro, Dpa, Dsm, Sri, Ack, TtyPutc, TtySmask, TtyRdyin
<1>2. CASE DgaTest
  <2>1. getc = "no" /\ getc' = (IF TtyRdyin THEN "load" ELSE "clear")
        /\ UNCHANGED <<got, taken, in_ch>>
    BY <1>2 DEF DgaTest, Calling
  <2>2. Fresh' \/ getc' = "load" => Fresh \/ getc = "load"
    BY <2>1 DEF Fresh, TtyRdyin
  <2>3. GotInv'
    BY <1>a, <1>b, <2>1, <2>2, GotKept
  <2> QED
    BY <1>a, <2>3 DEF InInv
<1>3. CASE DgaLoad
  <2>1. got' = Append(got, taken) /\ taken' = taken /\ getc = "load" /\ getc' = "clear"
    BY <1>3 DEF DgaLoad
  <2>2. got \in Seq(Nat) /\ taken \in Nat
    BY <1>a DEF TypeOK, TtyTypeOK, TrafficOK, UseOK
  <2>3. /\ \A i \in 1 .. Len(got) : got[i] < taken
        /\ \A i, j \in 1 .. Len(got) : i < j => got[i] < got[j]
    BY <1>a, <2>1 DEF GotInv, NoCharacterTwice
  <2>4. GotInv'
    BY <2>1, <2>2, <2>3, GotAppend DEF GotInv, NoCharacterTwice, Fresh
  <2> QED
    BY <1>a, <2>4 DEF InInv
<1>4. CASE DgaClear
  <2>1. UNCHANGED <<got, taken>> /\ ~Fresh' /\ getc' = "no"
    BY <1>4 DEF DgaClear, TtyGetcClear, Fresh, TtyRdyin, BIT7
  <2>2. GotInv'
    BY <1>a, <1>b, <2>1, GotKept
  <2> QED
    BY <1>a, <2>2 DEF InInv
<1>5. CASE WriterStep
  BY <1>5, <1>q DEF WriterStep, Writer, WriterTest, WriterWrite, WriterClear, TtyRdyin
<1>6. CASE ReaderStep /\ ~ReaderRead
  BY <1>6, <1>q DEF ReaderStep, Reader, ReaderSocket, ReaderConnect,
     ReaderMask, ReaderRequest, ReaderClose, TtyRdyin
<1>7. CASE ReaderRead /\ UNCHANGED usevars
  <2>1. taken' = taken + 1 /\ UNCHANGED got
    BY <1>7 DEF ReaderRead
  <2>2. GotInv'
    BY <1>a, <1>b, <2>1, GotKept
  <2> QED
    BY <1>a, <2>2 DEF InInv
<1>8. CASE Typist \/ (Hangup /\ UNCHANGED usevars)
  BY <1>8, <1>q DEF Typist, Type, Hangup, TtyRdyin
<1> QED
  BY <1>1, <1>2, <1>3, <1>4, <1>5, <1>6, <1>7, <1>8 DEF Next, Step, Program, ReaderStep

LEMMA InStutter == ASSUME InInv, UNCHANGED vars PROVE InInv'
<1>1. OutInv'
  BY OutStutter DEF InInv
<1>2. UNCHANGED <<got, taken, getc, in_ch>>
  BY DEF vars, ttyvars, usevars
<1>3. GotInv'
  BY <1>2 DEF InInv, GotInv, NoCharacterTwice, Fresh, TtyRdyin
<1> QED
  BY <1>1, <1>3 DEF InInv

(* DGA never returns a character twice or out of order, although the       *)
(* reader may overwrite in_ch between any two accesses of tty_getc.        *)
THEOREM ReturnedOnce == Spec => []NoCharacterTwice
<1>1. UseInit => InInv
  <2> SUFFICES ASSUME UseInit PROVE InInv
    OBVIOUS
  <2>1. got = << >>
    BY DEF UseInit
  <2>2. GotInv
    BY <2>1 DEF GotInv, NoCharacterTwice
  <2> QED
    BY <2>2, OutInit DEF InInv
<1>2. InInv /\ [Next]_vars => InInv'
  BY InStep, InStutter
<1>3. InInv => NoCharacterTwice
  BY DEF InInv, GotInv
<1> QED
  BY <1>1, <1>2, <1>3, PTL DEF Spec

(***************************************************************************)
(* Careful use: at most one character is on its way, and none can arrive   *)
(* while tty_getc is about to invalidate in_ch.                            *)
(***************************************************************************)
OnItsWay == /\ taken = Len(got) + (IF Fresh THEN 1 ELSE 0)
            /\ typed <= Len(got) + 1
            /\ getc = "clear" => typed = Len(got)
            /\ getc = "load" => TtyRdyin
            /\ "SRI" \in skipped => TtyRdyin /\ getc = "no"

CarefulInv == InInv /\ (use = "careful" /\ SevenBits => OnItsWay)

LEMMA CarefulStep ==
  ASSUME InInv, use = "careful", SevenBits', OnItsWay, Next PROVE OnItsWay'
<1> USE DEF usevars, threads, wire, buffers, ttyvars
<1>a. /\ taken \in Nat /\ typed \in Nat /\ taken <= typed /\ typed <= Len(Keys)
      /\ got \in Seq(Nat) /\ Len(got) \in Nat
  BY DEF InInv, OutInv, TypeOK, TtyTypeOK, TrafficOK, UseOK
<1>q. ASSUME UNCHANGED <<got, taken, typed, getc>>, TtyRdyin' = TtyRdyin,
             "SRI" \in skipped' => "SRI" \in skipped
      PROVE  OnItsWay'
  BY <1>q, OnItsWay DEF OnItsWay, Fresh
<1>1. CASE Sro \/ Dpa \/ Dsm \/ Ack
  BY <1>1, <1>q DEF Sro, Dpa, Dsm, Ack, TtyPutc, TtySmask, TtyRdyin
<1>2. CASE Sri
  BY <1>2, OnItsWay DEF Sri, Calling, OnItsWay, Fresh, TtyRdyin
<1>3. CASE DgaTest
  <2>1. TtyRdyin /\ getc = "no"
    BY <1>3, OnItsWay, use = "careful" DEF DgaTest, OnItsWay
  <2>2. /\ getc' = "load" /\ UNCHANGED <<in_ch, got, taken, typed>>
        /\ "SRI" \notin skipped'
    BY <1>3, <2>1 DEF DgaTest
  <2>3. Fresh /\ Fresh' /\ TtyRdyin'
    BY <2>1, <2>2 DEF Fresh, TtyRdyin
  <2> QED
    BY <2>2, <2>3, OnItsWay DEF OnItsWay
<1>4. CASE DgaLoad
  <2>1. /\ got' = Append(got, taken) /\ getc = "load" /\ getc' = "clear"
        /\ UNCHANGED <<in_ch, taken, typed, skipped>>
    BY <1>4 DEF DgaLoad
  <2>2. Fresh /\ ~Fresh' /\ "SRI" \notin skipped'
    BY <2>1, OnItsWay DEF OnItsWay, Fresh
  <2>3. Len(got') = Len(got) + 1
    BY <1>a, <2>1
  <2> QED
    BY <1>a, <2>1, <2>2, <2>3, OnItsWay DEF OnItsWay
<1>5. CASE DgaClear
  <2>1. /\ getc = "clear" /\ getc' = "no" /\ in_ch' = BIT7
        /\ UNCHANGED <<got, taken, typed, skipped>>
    BY <1>5 DEF DgaClear, TtyGetcClear
  <2>2. ~Fresh /\ ~Fresh' /\ "SRI" \notin skipped'
    BY <2>1, OnItsWay DEF OnItsWay, Fresh, TtyRdyin, BIT7
  <2> QED
    BY <1>a, <2>1, <2>2, OnItsWay DEF OnItsWay
<1>6. CASE WriterStep
  BY <1>6, <1>q DEF WriterStep, Writer, WriterTest, WriterWrite, WriterClear, TtyRdyin
<1>7. CASE ReaderStep /\ ~ReaderRead
  BY <1>7, <1>q DEF ReaderStep, Reader, ReaderSocket, ReaderConnect,
     ReaderMask, ReaderRequest, ReaderClose, TtyRdyin
<1>8. CASE ReaderRead /\ UNCHANGED usevars
  <2>1. /\ taken < typed /\ taken' = taken + 1 /\ in_ch' = Keys[taken + 1]
        /\ UNCHANGED <<got, typed, getc, skipped>>
    BY <1>8 DEF ReaderRead
  <2>2. ~Fresh /\ taken = Len(got)
    BY <1>a, <2>1, OnItsWay DEF OnItsWay
  <2>3. getc # "clear" /\ getc # "load" /\ "SRI" \notin skipped
    BY <1>a, <2>1, <2>2, OnItsWay DEF OnItsWay, Fresh
  <2>4. in_ch' < BIT7
    <3>1. taken + 1 \in 1 .. Len(Keys)
      BY <1>a, <2>1
    <3> QED
      BY <2>1, <3>1, SevenBits' DEF SevenBits
  <2>5. Fresh'
    BY <2>1, <2>3, <2>4 DEF Fresh, TtyRdyin
  <2> QED
    BY <1>a, <2>1, <2>2, <2>3, <2>5, OnItsWay DEF OnItsWay
<1>9. CASE Typist
  <2>1. /\ Len(got) = typed /\ getc = "no" /\ typed' = typed + 1
        /\ UNCHANGED <<in_ch, got, taken, getc, skipped>>
    BY <1>9, use = "careful" DEF Typist, Type
  <2>2. TtyRdyin' = TtyRdyin /\ Fresh' = Fresh
    BY <2>1 DEF Fresh, TtyRdyin
  <2> QED
    BY <1>a, <2>1, <2>2, OnItsWay DEF OnItsWay
<1>10. CASE Hangup /\ UNCHANGED usevars
  BY <1>10, <1>q DEF Hangup, TtyRdyin
<1> QED
  BY <1>1, <1>2, <1>3, <1>4, <1>5, <1>6, <1>7, <1>8, <1>9, <1>10
     DEF Next, Step, Program, ReaderStep

LEMMA TakenGrows ==
  ASSUME taken \in Nat, [Next]_vars PROVE taken <= taken'
<1> USE DEF usevars, threads, wire, buffers, ttyvars
<1>1. CASE Program
  BY <1>1 DEF Program, Sro, Dpa, Dsm, Sri, DgaTest, DgaLoad, DgaClear, Ack,
     TtyPutc, TtySmask, TtyGetcClear
<1>2. CASE WriterStep
  BY <1>2 DEF WriterStep, Writer, WriterTest, WriterWrite, WriterClear
<1>3. CASE ReaderStep
  BY <1>3 DEF ReaderStep, Reader, ReaderSocket, ReaderConnect, ReaderRead,
     ReaderMask, ReaderRequest, ReaderClose
<1>4. CASE Typist \/ (Hangup /\ UNCHANGED usevars)
  BY <1>4 DEF Typist, Type, Hangup
<1>5. CASE UNCHANGED vars
  BY <1>5 DEF vars
<1> QED
  BY <1>1, <1>2, <1>3, <1>4, <1>5 DEF Next, Step

(* A typist who waits and a program that does SRI before DGA lose no       *)
(* character: the reader never overwrites in_ch, and tty_getc never        *)
(* invalidates a character it has not returned.                            *)
THEOREM CarefulUseLosesNothing == Spec => []NothingOverrun
<1>1. UseInit => CarefulInv
  <2> SUFFICES ASSUME UseInit PROVE CarefulInv
    OBVIOUS
  <2>1. got = << >> /\ taken = 0 /\ typed = 0 /\ skipped = {} /\ getc = "no" /\ in_ch = BIT7
    BY DEF UseInit, TtyInit
  <2>2. ~Fresh
    BY <2>1 DEF Fresh, TtyRdyin, BIT7
  <2>3. GotInv
    BY <2>1 DEF GotInv, NoCharacterTwice
  <2> QED
    BY <2>1, <2>2, <2>3, OutInit DEF CarefulInv, InInv, OnItsWay
<1>2. CarefulInv /\ [Next]_vars => CarefulInv'
  <2> SUFFICES ASSUME CarefulInv, [Next]_vars PROVE CarefulInv'
    OBVIOUS
  <2>1. InInv'
    BY InStep, InStutter DEF CarefulInv
  <2>a. UNCHANGED use
    BY DEF Next, vars
  <2>b. SevenBits' => SevenBits
    <3>1. taken \in Nat /\ taken' \in Nat
      BY <2>1 DEF CarefulInv, InInv, OutInv, TypeOK, TtyTypeOK, TrafficOK
    <3>2. taken <= taken'
      BY <3>1, TakenGrows
    <3> QED
      BY <3>1, <3>2 DEF SevenBits
  <2>2. ASSUME use = "careful", SevenBits', Next PROVE OnItsWay'
    BY <2>b, <2>2, CarefulStep DEF CarefulInv
  <2>3. ASSUME use = "careful", SevenBits', UNCHANGED vars PROVE OnItsWay'
    <3>1. UNCHANGED <<got, taken, typed, getc, in_ch, skipped>>
      BY <2>3 DEF vars, ttyvars, usevars
    <3> QED
      BY <2>b, <2>3, <3>1 DEF CarefulInv, OnItsWay, Fresh, TtyRdyin
  <2> QED
    BY <2>a, <2>1, <2>2, <2>3 DEF CarefulInv
<1>3. CarefulInv => NothingOverrun
  BY DEF CarefulInv, OnItsWay, NothingOverrun, Fresh
<1> QED
  BY <1>1, <1>2, <1>3, PTL DEF Spec
=============================================================================
