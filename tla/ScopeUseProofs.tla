--------------------------- MODULE ScopeUseProofs ---------------------------
(***************************************************************************)
(* The scope's guarantees, for every set of coordinates and every number   *)
(* of answers a program waits for.                                         *)
(***************************************************************************)
EXTENDS ScopeUse, TLAPS

(***************************************************************************)
(* The invariant.  The delay is what keeps program and thread apart: while *)
(* a DUS is waiting to be drawn, the count cannot run down to the zero at  *)
(* which SRO latches.  PaceInv says how far it has got in that time, and   *)
(* that the thread's load and store of the count never meet a new DGA.     *)
(***************************************************************************)
Pending == out_si > 0
Inside  == {"signx", "valuex", "signy", "valuey", "write", "clear"}

WiredInv == /\ drawer = "socket" => line = "none"
            /\ drawer = "connect" => line = "fresh"
            /\ drawer \notin {"socket", "connect"} => line \notin {"none", "fresh"}
            /\ drawer = "done" => line = "closed"
            /\ drawer # "socket" => ssd = 3

PaceInv ==
  /\ skips \in Nat
  /\ skips > 0 => prog \in {"SRO", "latch", "latched", "DUS"}
  /\ prog = "DUS" => skips = asks
  /\ prog # "DUS" => skips < asks
  /\ prog \in {"DGA", "latch", "DUS"} \/ skips > 0 => rdydly = 0
  /\ drawer \in {"load", "store"} => rdydly >= 1
  /\ drawer = "store" => count \in {1, 2}
  /\ drawer \in Inside => Pending
  /\ Pending /\ prog # "DGA" =>
       \/ rdydly = 2 /\ (drawer = "store" => count = 2)
       \/ rdydly = 1 /\ drawer \in Inside \cup {"test", "done"}

(* The coordinates the program has set, and what the thread has made of    *)
(* the ones that are latched.                                              *)
Coord(c) == c \in -1 .. MASK9

BufInv == /\ prog # "DGA" => \E w \in Words : buf_sx = w % (MASK9 + 1)
          /\ prog \notin {"DGA", "DPA"} => \E w \in Words : buf_sy = w % (MASK9 + 1)

SetInv == Coord(out_sx) /\ Coord(out_sy) /\ Coord(buf_sx) /\ Coord(buf_sy)

BeamX(w) == PosX(Negative(w), w)
BeamY(w) == PosY(Negative(w), w)

BeamInv == /\ drawer = "valuex" => sign = Negative(out_sx)
           /\ drawer \in {"signy", "valuey", "write"} => posx = BeamX(out_sx)
           /\ drawer = "valuey" => sign = Negative(out_sy)
           /\ drawer = "write" => posy = BeamY(out_sy)

(* The latched point is the initial one, has been plotted, or is the one   *)
(* that is about to be, when its y is latched too; a second skip makes     *)
(* sure that it is the last.                                               *)
Known(p) == p = Home \/ \E j \in 1 .. Len(plotted) : p = plotted[j]
Aimed    == out_sx = buf_sx /\ out_sy = buf_sy

LatchInv == /\ prog = "latch" => out_sx = buf_sx
            /\ \/ prog = "latch"
               \/ Known(Point(out_sx, out_sy))
               \/ prog \in {"latched", "SRO", "DUS"} /\ rdydly = 0 /\ Aimed
            /\ skips > 1 \/ (skips > 0 /\ prog = "latched") => Aimed

(* As long as the line is good, all that was plotted and not drawn is the  *)
(* point that is pending.                                                  *)
Undrawn == Pending /\ drawer # "clear"

CountInv == ~Lost => Len(plotted) = Len(drawn) + (IF Undrawn THEN 1 ELSE 0)

WireInv == asks > 1 /\ ~Lost =>
             plotted = IF Undrawn THEN Append(drawn, Point(out_sx, out_sy)) ELSE drawn

ScopeInv == /\ TypeOK /\ WiredInv /\ PaceInv /\ BufInv /\ BeamInv /\ LatchInv
            /\ Untorn /\ CountInv /\ WireInv

(***************************************************************************)
(* Coordinates                                                             *)
(***************************************************************************)
LEMMA WordOK == ASSUME NEW w \in Words PROVE w \in 0 .. 4095
  BY ScopeUseAssumption DEF ScopeUseAssumption

LEMMA MaskOK == ASSUME NEW w \in Words PROVE Coord(w % (MASK9 + 1))
<1>1. w \in 0 .. 4095
  BY WordOK
<1>2. w % 512 \in 0 .. 511
  BY <1>1
<1> QED
  BY <1>2 DEF Coord, MASK9

LEMMA AsksOK == ASSUME asks \in Asks PROVE asks \in Nat /\ asks >= 1
  BY ScopeUseAssumption DEF ScopeUseAssumption

LEMMA BeamOK == ASSUME NEW w, Coord(w)
                PROVE  BeamX(w) \in 0 .. 511 /\ BeamY(w) \in 1 .. 512
<1>1. w \in -1 .. 511
  BY DEF Coord, MASK9
<1>2. CASE w \in 0 .. 255
  <2>1. ~Negative(w)
    BY <1>2 DEF Negative, BIT9
  <2> QED
    BY <1>2, <2>1 DEF BeamX, BeamY, PosX, PosY, SGNOFF
<1>3. CASE w \in 256 .. 511 \cup {-1}
  <2>1. Negative(w)
    BY <1>3 DEF Negative, BIT9
  <2> QED
    BY <1>3, <2>1 DEF BeamX, BeamY, PosX, PosY, SGNOFF
<1> QED
  BY <1>1, <1>2, <1>3

LEMMA PointIsBeam == \A x, y : Point(x, y) = <<BeamX(x), BeamY(y)>>
  BY DEF Point, BeamX, BeamY

LEMMA HomeIsInitial == Point(0 - 1, 0 - 1) = Home
  BY DEF Point, PosX, PosY, Negative, Home, BIT9, SGNOFF

(***************************************************************************)
(* The line and the pace                                                   *)
(***************************************************************************)
LEMMA WiredStep == ASSUME WiredInv, Next PROVE WiredInv'
<1> USE DEF WiredInv
<1>1. CASE Program
  BY <1>1 DEF Program, Dga, Dpa, Sro, Latch, SroReturn, Dus, ScoPutx, ScoPuty, ScoLatchX, ScoLatchY,
     ScoPuti, thread, scovars
<1>2. CASE Socket \/ Connect \/ Test \/ Sleep \/ Load \/ StoreCount
  BY <1>2 DEF Socket, Connect, Test, Sleep, Load, StoreCount, At
<1>3. CASE SignX \/ ValueX \/ SignY \/ ValueY \/ Clear
  BY <1>3 DEF SignX, ValueX, SignY, ValueY, Clear, At
<1>4. CASE Write
  BY <1>4 DEF Write
<1>5. CASE Hangup
  BY <1>5 DEF Hangup
<1> QED
  BY <1>1, <1>2, <1>3, <1>4, <1>5 DEF Next, DrawerStep, Drawer, Drawing

(* What PaceInv needs of the types.                                        *)
PaceOK == /\ rdydly \in 0 .. 2 /\ count \in 0 .. 2 /\ out_si \in {0 - 1, 1}
          /\ prog \in {"DGA", "DPA", "SRO", "latch", "latched", "DUS"}
          /\ asks \in Nat /\ asks >= 1

LEMMA PaceStep == ASSUME PaceOK, WiredInv, PaceInv, Next PROVE PaceInv'
<1> USE DEF PaceOK, PaceInv, Pending, Inside
<1>1. CASE Program
  <2>1. CASE Dga
    BY <2>1 DEF Dga, Step, ScoPutx, thread, locals
  <2>2. CASE Dpa
    BY <2>2 DEF Dpa, Step, ScoPuty, thread, locals
  <2>3. CASE Sro
    BY <2>3 DEF Sro, Step, ScoReady, ScoLatchX, scovars, thread, locals
  <2>6. CASE Latch
    BY <2>6 DEF Latch, Step, ScoLatchY, thread, locals
  <2>4. CASE SroReturn
    BY <2>4 DEF SroReturn, ScoReady, scovars, locals
  <2>5. CASE Dus
    BY <2>5 DEF Dus, Step, ScoPuti, thread, locals
  <2> QED
    BY <1>1, <2>1, <2>2, <2>3, <2>4, <2>5, <2>6 DEF Program
<1>2. CASE DrawerStep
  <2> USE DEF At, locals, unused
  <2>1. CASE Socket \/ Connect
    BY <1>2, <2>1 DEF DrawerStep, Socket, Connect
  <2>2. CASE Test
    BY <1>2, <2>2 DEF DrawerStep, Test, WiredInv
  <2>3. CASE SignX \/ ValueX \/ SignY \/ ValueY
    BY <1>2, <2>3 DEF DrawerStep, SignX, ValueX, SignY, ValueY
  <2>4. CASE Write
    BY <1>2, <2>4 DEF DrawerStep, Write
  <2>5. CASE Clear
    BY <1>2, <2>5 DEF DrawerStep, Clear
  <2>6. CASE Sleep
    BY <1>2, <2>6 DEF DrawerStep, Sleep
  <2>7. CASE Load
    BY <1>2, <2>7 DEF DrawerStep, Load
  <2>8. CASE StoreCount
    BY <1>2, <2>8 DEF DrawerStep, StoreCount
  <2> QED
    BY <1>2, <2>1, <2>2, <2>3, <2>4, <2>5, <2>6, <2>7, <2>8 DEF DrawerStep, Drawer, Drawing
<1>3. CASE Hangup /\ UNCHANGED unused
  BY <1>3 DEF Hangup, unused, locals
<1> QED
  BY <1>1, <1>2, <1>3 DEF Next

(* While a point is pending no SRO latches.                                *)
LEMMA PendingSteady ==
  ASSUME PaceOK, PaceInv, Pending, Next PROVE UNCHANGED latched
<1>1. CASE Program
  <2>1. CASE Sro
    <3>1. rdydly >= 1
      BY <2>1 DEF PaceOK, PaceInv, Sro, Step
    <3> QED
      BY <2>1, <3>1 DEF PaceOK, Sro, scovars, ScoReady, latched
  <2>3. ~Latch
    BY DEF PaceOK, PaceInv, Latch, Step
  <2>2. CASE Dga \/ Dpa \/ SroReturn \/ Dus
    BY <2>2 DEF Dga, Dpa, SroReturn, Dus, ScoPutx, ScoPuty, ScoPuti, scovars, latched
  <2> QED
    BY <1>1, <2>1, <2>2, <2>3 DEF Program
<1>2. CASE Drawer
  BY <1>2 DEF Drawer, Drawing, Socket, Connect, Test, SignX, ValueX, SignY, ValueY,
     Write, Clear, Sleep, Load, StoreCount
<1>3. CASE Hangup
  BY <1>3 DEF Hangup
<1> QED
  BY <1>1, <1>2, <1>3 DEF Next, DrawerStep

(***************************************************************************)
(* The beam: what the thread has computed belongs to the latched point     *)
(***************************************************************************)
LEMMA BeamStep ==
  ASSUME PaceOK, PaceInv, BeamInv, Next PROVE BeamInv'
<1>p. Pending => UNCHANGED latched
  BY PendingSteady
<1> USE DEF BeamInv, BeamX, BeamY
<1>1. CASE UNCHANGED <<drawer, sign, posx, posy>>
  <2>1. CASE drawer \in Inside
    BY <1>1, <1>p, <2>1 DEF PaceInv, latched
  <2>2. CASE drawer \notin Inside
    BY <1>1, <2>2 DEF Inside
  <2> QED
    BY <2>1, <2>2
<1>2. CASE DrawerStep
  <2> USE DEF At, locals, latched
  <2>1. CASE Socket \/ Connect \/ Test \/ Sleep \/ Load \/ StoreCount
    BY <1>1, <2>1 DEF Socket, Connect, Test, Sleep, Load, StoreCount
  <2>2. CASE SignX
    BY <2>2 DEF SignX
  <2>3. CASE ValueX
    BY <2>3 DEF ValueX
  <2>4. CASE SignY
    BY <2>4 DEF SignY
  <2>5. CASE ValueY
    BY <2>5 DEF ValueY
  <2>6. CASE Write \/ Clear
    BY <1>1, <2>6 DEF Write, Clear
  <2> QED
    BY <1>2, <2>1, <2>2, <2>3, <2>4, <2>5, <2>6 DEF DrawerStep, Drawer, Drawing
<1>3. CASE Program \/ Hangup
  BY <1>1, <1>3 DEF Program, Dga, Dpa, Sro, Latch, SroReturn, Dus, ScoPutx, ScoPuty,
     ScoLatchX, ScoLatchY, ScoPuti, thread, scovars, locals, Hangup
<1> QED
  BY <1>2, <1>3 DEF Next

(***************************************************************************)
(* Types                                                                   *)
(***************************************************************************)
BufferOK == /\ out_si \in {0 - 1, 1}
            /\ rdydly \in 0 .. 2
LocalsOK == /\ count \in 0 .. 2
            /\ sign \in BOOLEAN /\ posx \in 0 .. 511 /\ posy \in 0 .. 512
ThreadOK == /\ ssd \in {0 - 1, 3}
            /\ drawer \in {"socket", "connect", "test", "signx", "valuex", "signy",
                           "valuey", "write", "clear", "sleep", "load", "store", "done"}
            /\ line \in {"none", "fresh", "connected", "hungup", "closed"}
            /\ process \in {"up", "failed", "killed"}
Dots     == (0 .. 511) \X (1 .. 512)
UseOK    == /\ prog \in {"DGA", "DPA", "SRO", "latch", "latched", "DUS"}
            /\ asks \in Asks /\ skips \in 0 .. asks

LEMMA TypeParts ==
  TypeOK <=> /\ BufferOK /\ SetInv /\ LocalsOK /\ ThreadOK /\ UseOK
             /\ drawn \in Seq(Dots) /\ plotted \in Seq(Dots)
BY DEF TypeOK, ScoTypeOK, BufferOK, SetInv, Coord, Coordinate, LocalsOK, ThreadOK, UseOK, Dots

LEMMA PointOK ==
  ASSUME NEW x, NEW y, Coord(x), Coord(y) PROVE Point(x, y) \in Dots
BY BeamOK, PointIsBeam DEF Dots

LEMMA SetStep ==
  ASSUME SetInv, BufferOK, LocalsOK, PaceInv, Next
  PROVE  SetInv' /\ BufferOK'
<1> USE DEF SetInv, BufferOK, LocalsOK
<1>1. CASE Program
  <2>1. CASE Dga
    <3>1. PICK w \in Words : ScoPutx(w)
      BY <2>1 DEF Dga
    <3> QED
      BY <3>1, MaskOK DEF ScoPutx, latched
  <2>2. CASE Dpa
    <3>1. PICK w \in Words : ScoPuty(w)
      BY <2>2 DEF Dpa
    <3> QED
      BY <3>1, MaskOK DEF ScoPuty, latched
  <2>3. CASE Sro \/ Latch \/ SroReturn \/ Dus
    BY <2>3 DEF Sro, Latch, SroReturn, Dus, ScoLatchX, ScoLatchY, ScoPuti, scovars, latched
  <2> QED
    BY <1>1, <2>1, <2>2, <2>3 DEF Program
<1>2. CASE Drawer
  <2> USE DEF latched
  <2>1. CASE StoreCount
    <3>1. count \in {1, 2}
      BY <2>1 DEF StoreCount, At, PaceInv
    <3> QED
      BY <2>1, <3>1 DEF StoreCount
  <2>2. CASE Clear
    BY <2>2 DEF Clear
  <2>3. CASE Drawer /\ ~StoreCount /\ ~Clear
    BY <2>3 DEF Drawer, Drawing, Socket, Connect, Test, SignX, ValueX, SignY,
       ValueY, Write, Sleep, Load
  <2> QED
    BY <1>2, <2>1, <2>2, <2>3
<1>3. CASE Hangup
  BY <1>3 DEF Hangup, latched
<1> QED
  BY <1>1, <1>2, <1>3 DEF Next, DrawerStep

LEMMA LocalsStep ==
  ASSUME SetInv, BufferOK, LocalsOK, BeamInv, Next
  PROVE  LocalsOK'
<1> USE DEF LocalsOK
<1>0. CASE UNCHANGED locals
  BY <1>0 DEF locals
<1>1. CASE SignX \/ SignY
  <2>1. \A w : Negative(w) \in BOOLEAN
    BY DEF Negative
  <2>2. sign' \in BOOLEAN
    BY <1>1, <2>1, Zenon DEF SignX, SignY
  <2>3. UNCHANGED <<posx, posy, count>>
    BY <1>1 DEF SignX, SignY
  <2> QED
    BY <2>2, <2>3
<1>2. CASE ValueX
  <2>1. posx' = BeamX(out_sx)
    BY <1>2 DEF ValueX, At, BeamInv, BeamX
  <2>2. posx' \in 0 .. 511
    BY <2>1, BeamOK DEF SetInv
  <2> QED
    BY <1>2, <2>2 DEF ValueX
<1>3. CASE ValueY
  <2>1. posy' = BeamY(out_sy)
    BY <1>3 DEF ValueY, At, BeamInv, BeamY
  <2>2. posy' \in 1 .. 512
    BY <2>1, BeamOK DEF SetInv
  <2> QED
    BY <1>3, <2>2 DEF ValueY
<1>4. CASE Load
  BY <1>4 DEF Load, BufferOK
<1>5. CASE Socket \/ Connect \/ Test \/ Sleep \/ StoreCount \/ Write \/ Clear
  <2>1. UNCHANGED locals
    BY <1>5 DEF Socket, Connect, Test, Sleep, StoreCount, Write, Clear
  <2> QED
    BY <1>0, <2>1
<1>6. CASE Program \/ Hangup
  <2>1. UNCHANGED locals
    BY <1>6 DEF Program, Dga, Dpa, Sro, Latch, SroReturn, Dus, ScoPutx, ScoPuty,
       ScoLatchX, ScoLatchY, ScoPuti, thread, scovars, locals, Hangup
  <2> QED
    BY <1>0, <2>1
<1> QED
  BY <1>1, <1>2, <1>3, <1>4, <1>5, <1>6 DEF Next, DrawerStep, Drawer, Drawing

LEMMA ThreadStep == ASSUME ThreadOK, Next PROVE ThreadOK'
<1> USE DEF ThreadOK
<1>1. CASE Program \/ Hangup
  BY <1>1 DEF Program, Dga, Dpa, Sro, Latch, SroReturn, Dus, ScoPutx, ScoPuty,
     ScoLatchX, ScoLatchY, ScoPuti, thread, scovars, Hangup
<1>2. CASE Socket \/ Connect \/ Test \/ Sleep \/ Load \/ StoreCount
  BY <1>2 DEF Socket, Connect, Test, Sleep, Load, StoreCount, At
<1>3. CASE SignX \/ ValueX \/ SignY \/ ValueY \/ Write \/ Clear
  BY <1>3 DEF SignX, ValueX, SignY, ValueY, Write, Clear, At
<1> QED
  BY <1>1, <1>2, <1>3 DEF Next, DrawerStep, Drawer, Drawing

LEMMA UseStep == ASSUME UseOK, PaceInv, Next PROVE UseOK'
<1>a. asks \in Nat /\ asks >= 1
  BY AsksOK DEF UseOK
<1> USE DEF UseOK
<1>1. CASE Program
  BY <1>1, <1>a DEF Program, Dga, Dpa, Sro, Latch, SroReturn, Dus, Step, PaceInv
<1>2. CASE UNCHANGED unused
  BY <1>2 DEF unused
<1> QED
  BY <1>1, <1>2 DEF Next, DrawerStep

(* Only a DUS plots and only a write draws.                                *)
LEMMA PlotStep ==
  ASSUME Next
  PROVE  (Dus /\ UNCHANGED drawn) \/ UNCHANGED plotted
<1>1. CASE Dus
  BY <1>1 DEF Dus, ScoPuti, thread
<1>2. CASE Dga \/ Dpa \/ Sro \/ Latch \/ SroReturn
  BY <1>2 DEF Dga, Dpa, Sro, Latch, SroReturn
<1>3. CASE UNCHANGED unused
  BY <1>3 DEF unused
<1> QED
  BY <1>1, <1>2, <1>3 DEF Next, DrawerStep, Program

Draws == /\ Write /\ line = "connected"
         /\ drawn' = Append(drawn, <<posx, posy>>)
         /\ UNCHANGED <<line, process>>

LEMMA DrawStep ==
  ASSUME Next
  PROVE  (Draws /\ UNCHANGED plotted) \/ UNCHANGED drawn
<1>1. CASE Program \/ Hangup
  BY <1>1 DEF Program, Dga, Dpa, Sro, Latch, SroReturn, Dus, ScoPutx, ScoPuty,
     ScoLatchX, ScoLatchY, ScoPuti, thread, scovars, Hangup
<1>2. CASE DrawerStep /\ ~Write
  BY <1>2 DEF DrawerStep, Drawer, Drawing, Socket, Connect, Test, SignX, ValueX,
     SignY, ValueY, Clear, Sleep, Load, StoreCount
<1>3. CASE DrawerStep /\ Write
  BY <1>3 DEF DrawerStep, unused, Write, Draws
<1> QED
  BY <1>1, <1>2, <1>3 DEF Next

(* What is drawn is the latched point.                                     *)
LEMMA DrawnIsLatched ==
  ASSUME BeamInv, Draws PROVE <<posx, posy>> = Point(out_sx, out_sy)
BY PointIsBeam DEF BeamInv, Draws, Write

LEMMA TypeStep == ASSUME TypeOK, PaceInv, BeamInv, Next PROVE TypeOK'
<1>a. /\ BufferOK /\ SetInv /\ LocalsOK /\ ThreadOK /\ UseOK
      /\ drawn \in Seq(Dots) /\ plotted \in Seq(Dots)
  BY TypeParts
<1>1. BufferOK' /\ SetInv' /\ LocalsOK' /\ ThreadOK' /\ UseOK'
  BY <1>a, SetStep, LocalsStep, ThreadStep, UseStep
<1>2. drawn' \in Seq(Dots)
  <2>1. Point(out_sx, out_sy) \in Dots
    BY <1>a, PointOK DEF SetInv
  <2>2. CASE Draws
    BY <1>a, <2>1, <2>2, DrawnIsLatched DEF Draws
  <2> QED
    BY <1>a, <2>2, DrawStep
<1>3. plotted' \in Seq(Dots)
  <2>1. Point(buf_sx, buf_sy) \in Dots
    BY <1>a, PointOK DEF SetInv
  <2>2. CASE Dus
    BY <1>a, <2>1, <2>2 DEF Dus
  <2> QED
    BY <1>a, <2>2, PlotStep
<1>4. TypeOK' <=> /\ BufferOK' /\ SetInv' /\ LocalsOK' /\ ThreadOK' /\ UseOK'
                  /\ drawn' \in Seq(Dots) /\ plotted' \in Seq(Dots)
  BY DEF TypeOK, ScoTypeOK, BufferOK, SetInv, Coord, Coordinate, LocalsOK, ThreadOK, UseOK, Dots
<1> QED
  BY <1>1, <1>2, <1>3, <1>4

(***************************************************************************)
(* The set coordinates and the latched ones                                *)
(***************************************************************************)
LEMMA BufStep == ASSUME BufInv, Next PROVE BufInv'
<1> USE DEF BufInv
<1>1. CASE Dga
  BY <1>1 DEF Dga, Step, ScoPutx
<1>2. CASE Dpa
  BY <1>2 DEF Dpa, Step, ScoPuty
<1>3. CASE Sro \/ Latch \/ SroReturn \/ Dus
  BY <1>3 DEF Sro, Latch, SroReturn, Dus, Step, ScoLatchX, ScoLatchY, ScoPuti, scovars
<1>4. CASE DrawerStep
  <2>1. UNCHANGED <<prog, buf_sx, buf_sy>>
    BY <1>4 DEF DrawerStep, unused, Drawer, Drawing, Socket, Connect, Test, SignX,
       ValueX, SignY, ValueY, Write, Clear, Sleep, Load, StoreCount
  <2> QED
    BY <2>1
<1>5. CASE Hangup /\ UNCHANGED unused
  BY <1>5 DEF Hangup, unused
<1> QED
  BY <1>1, <1>2, <1>3, <1>4, <1>5 DEF Next, Program

(* The thread and the hangup leave the coordinates and the program alone.  *)
LEMMA ThreadKeeps ==
  ASSUME DrawerStep \/ (Hangup /\ UNCHANGED unused)
  PROVE  UNCHANGED <<latched, buf_sx, buf_sy, prog, skips, plotted, asks>>
BY DEF DrawerStep, unused, Drawer, Drawing, Socket, Connect, Test, SignX, ValueX,
   SignY, ValueY, Write, Clear, Sleep, Load, StoreCount, Hangup

(* A count that has run down stays so until the program sets a coordinate. *)
LEMMA RunDown ==
  ASSUME PaceOK, PaceInv, rdydly = 0, Next, prog \notin {"DGA", "DPA"}
  PROVE  rdydly' = 0
<1> USE DEF PaceInv
<1>1. CASE Sro \/ Latch \/ SroReturn \/ Dus
  BY <1>1 DEF Sro, Latch, SroReturn, Dus, ScoLatchX, ScoLatchY, ScoPuti, scovars
<1>2. CASE Dga \/ Dpa
  BY <1>2 DEF Dga, Dpa, Step
<1>3. CASE Drawer
  <2>1. drawer # "store"
    OBVIOUS
  <2> QED
    BY <1>3, <2>1 DEF Drawer, Drawing, Socket, Connect, Test, SignX, ValueX, SignY,
       ValueY, Write, Clear, Sleep, Load, StoreCount, At
<1>4. CASE Hangup
  BY <1>4 DEF Hangup
<1> QED
  BY <1>1, <1>2, <1>3, <1>4 DEF Next, DrawerStep, Program

LEMMA KnownKept ==
  ASSUME plotted \in Seq(Dots),
         UNCHANGED plotted \/ (Dus /\ plotted' \in Seq(Dots)), NEW p, Known(p)
  PROVE  p = Home \/ \E j \in 1 .. Len(plotted') : p = plotted'[j]
<1>1. CASE UNCHANGED plotted
  BY <1>1 DEF Known
<1>2. CASE plotted' = Append(plotted, Point(buf_sx, buf_sy))
  <2>1. CASE p = Home
    BY <2>1
  <2>2. CASE p # Home
    <3>1. PICK j \in 1 .. Len(plotted) : p = plotted[j]
      BY <2>2 DEF Known
    <3>2. j \in 1 .. Len(plotted') /\ plotted'[j] = plotted[j]
      BY <1>2
    <3> QED
      BY <3>1, <3>2
  <2> QED
    BY <2>1, <2>2
<1> QED
  BY <1>1, <1>2 DEF Dus

LEMMA PlotKnown ==
  ASSUME plotted \in Seq(Dots), Dus
  PROVE  \E j \in 1 .. Len(plotted') : plotted'[j] = Point(buf_sx, buf_sy)
<1>1. plotted' = Append(plotted, Point(buf_sx, buf_sy))
  BY DEF Dus
<1>2. Len(plotted) + 1 \in 1 .. Len(plotted')
      /\ plotted'[Len(plotted) + 1] = Point(buf_sx, buf_sy)
  BY <1>1
<1> QED
  BY <1>2

LEMMA LatchStep ==
  ASSUME TypeOK, TypeOK', PaceOK, PaceInv, LatchInv, Next PROVE LatchInv'
<1>a. plotted \in Seq(Dots) /\ plotted' \in Seq(Dots) /\ skips \in Nat
  BY DEF TypeOK, Dots, PaceInv
<1>k. ASSUME NEW p, Known(p)
      PROVE  p = Home \/ \E j \in 1 .. Len(plotted') : p = plotted'[j]
  BY <1>a, <1>k, PlotStep, KnownKept
<1>q. ASSUME Known(Point(out_sx, out_sy)), UNCHANGED latched
      PROVE  Known(Point(out_sx, out_sy))'
  BY <1>k, <1>q DEF Known, Point, latched
<1>1. CASE Dga \/ Dpa
  <2>1. UNCHANGED <<latched, skips>> /\ skips = 0 /\ prog \in {"DGA", "DPA"}
        /\ prog' \in {"DPA", "SRO"}
    BY <1>1, <1>a DEF Dga, Dpa, Step, ScoPutx, ScoPuty, PaceInv
  <2>2. Known(Point(out_sx, out_sy))
    BY <2>1 DEF LatchInv
  <2> QED
    BY <1>q, <2>1, <2>2 DEF LatchInv
<1>2. CASE Sro
  <2>1. prog = "SRO" /\ UNCHANGED <<skips, buf_sx, buf_sy, rdydly>>
    BY <1>2 DEF Sro, Step, ScoLatchX, scovars
  <2>2. CASE rdydly = 0
    <3>1. out_sx' = buf_sx' /\ out_sy' = out_sy /\ prog' = "latch"
      BY <1>2, <2>1, <2>2 DEF Sro, Step, ScoLatchX, ScoReady
    <3>2. Aimed => Aimed'
      BY <2>1, <3>1 DEF Aimed
    <3> QED
      BY <2>1, <2>2, <3>1, <3>2 DEF LatchInv
  <2>3. CASE rdydly # 0
    <3>1. UNCHANGED latched /\ skips = 0 /\ prog' = "latched"
      BY <1>2, <2>3, <1>a DEF Sro, Step, scovars, latched, ScoReady, PaceOK, PaceInv
    <3>2. Known(Point(out_sx, out_sy))
      BY <2>1, <2>3 DEF LatchInv
    <3> QED
      BY <1>q, <2>1, <3>1, <3>2 DEF LatchInv
  <2> QED
    BY <2>2, <2>3
<1>6. CASE Latch
  <2>1. /\ prog = "latch" /\ prog' = "latched" /\ UNCHANGED <<skips, buf_sx, buf_sy, rdydly, out_sx>>
        /\ out_sy' = buf_sy /\ rdydly = 0
    BY <1>6 DEF Latch, Step, ScoLatchY, PaceInv
  <2>2. Aimed'
    BY <2>1 DEF LatchInv, Aimed
  <2> QED
    BY <2>1, <2>2 DEF LatchInv
<1>3. CASE SroReturn
  <2>1. prog = "latched" /\ prog' \in {"SRO", "DUS"} /\ UNCHANGED scovars
    BY <1>3 DEF SroReturn
  <2>2. UNCHANGED <<latched, rdydly>> /\ Aimed' = Aimed
    BY <2>1 DEF scovars, latched, Aimed
  <2>3. skips' > 1 => Aimed
    BY <1>3, <1>a, <2>1 DEF SroReturn, LatchInv
  <2>4. CASE rdydly = 0 /\ Aimed
    BY <2>1, <2>2, <2>3, <2>4 DEF LatchInv
  <2>5. CASE Known(Point(out_sx, out_sy))
    BY <1>q, <2>1, <2>2, <2>3, <2>5 DEF LatchInv
  <2> QED
    BY <2>1, <2>4, <2>5 DEF LatchInv
<1>4. CASE Dus
  <2>0. prog = "DUS"
    BY <1>4 DEF Dus, Step
  <2>1. prog' = "DGA" /\ skips' = 0 /\ UNCHANGED latched
    BY <1>4 DEF Dus, Step, ScoPuti
  <2>2. CASE Known(Point(out_sx, out_sy))
    BY <1>q, <2>1, <2>2 DEF LatchInv
  <2>3. CASE Aimed
    <3>1. Point(buf_sx, buf_sy) = Point(out_sx, out_sy)
      BY <2>3 DEF Aimed
    <3>2. Known(Point(out_sx, out_sy))'
      BY <1>4, <1>a, <2>1, <3>1, PlotKnown DEF Known, Point, latched
    <3> QED
      BY <2>1, <3>2 DEF LatchInv
  <2> QED
    BY <2>0, <2>2, <2>3 DEF LatchInv
<1>5. CASE DrawerStep \/ (Hangup /\ UNCHANGED unused)
  <2>1. UNCHANGED <<latched, buf_sx, buf_sy, prog, skips>> /\ Aimed' = Aimed
    BY <1>5, ThreadKeeps DEF Aimed, latched
  <2>2. CASE prog # "latch" /\ Known(Point(out_sx, out_sy))
    BY <1>q, <2>1, <2>2 DEF LatchInv
  <2>3. CASE prog \in {"latched", "SRO", "DUS"} /\ rdydly = 0 /\ Aimed
    <3>1. rdydly' = 0
      BY <2>3, RunDown
    <3> QED
      BY <2>1, <2>3, <3>1 DEF LatchInv
  <2>4. CASE prog = "latch"
    BY <2>1, <2>4 DEF LatchInv, latched
  <2> QED
    BY <2>2, <2>3, <2>4 DEF LatchInv
<1> QED
  BY <1>1, <1>2, <1>3, <1>4, <1>5, <1>6 DEF Next, Program

(***************************************************************************)
(* What is drawn                                                           *)
(***************************************************************************)
LEMMA UntornStep ==
  ASSUME TypeOK, TypeOK', PaceOK, PaceInv, BeamInv, LatchInv, Untorn, Next
  PROVE  Untorn'
<1>a. /\ plotted \in Seq(Dots) /\ plotted' \in Seq(Dots)
      /\ drawn \in Seq(Dots) /\ drawn' \in Seq(Dots)
  BY DEF TypeOK, ScoTypeOK, Dots
<1>1. \A i \in 1 .. Len(drawn) : Known(drawn[i])
  BY DEF Untorn, Known
<1>2. \A i \in 1 .. Len(drawn') : Known(drawn'[i])
  <2>1. CASE UNCHANGED drawn
    BY <1>1, <2>1
  <2>2. CASE Draws
    <3>1. drawer = "write"
      BY <2>2 DEF Draws, Write
    <3>2. Known(Point(out_sx, out_sy))
      BY <3>1 DEF PaceOK, PaceInv, Inside, Pending, LatchInv
    <3>3. drawn' = Append(drawn, Point(out_sx, out_sy))
      BY <2>2, DrawnIsLatched DEF Draws
    <3>4. \A i \in 1 .. Len(drawn') :
            drawn'[i] = Point(out_sx, out_sy) \/ (i \in 1 .. Len(drawn) /\ drawn'[i] = drawn[i])
      BY <1>a, <3>3
    <3> QED
      BY <1>1, <3>2, <3>4
  <2> QED
    BY <2>1, <2>2, DrawStep
<1>3. ASSUME NEW p, Known(p)
      PROVE  p = Home \/ \E j \in 1 .. Len(plotted') : p = plotted'[j]
  BY <1>a, <1>3, PlotStep, KnownKept
<1> QED
  BY <1>2, <1>3 DEF Untorn

LEMMA LostStep == ASSUME WiredInv, Next PROVE Lost => Lost'
<1> USE DEF WiredInv, Lost
<1>1. CASE Program
  BY <1>1 DEF Program, Dga, Dpa, Sro, Latch, SroReturn, Dus, ScoPutx, ScoPuty, ScoLatchX, ScoLatchY,
     ScoPuti, thread, scovars
<1>2. CASE Drawer
  BY <1>2 DEF Drawer, Drawing, Socket, Connect, Test, SignX, ValueX, SignY, ValueY,
     Write, Clear, Sleep, Load, StoreCount, At
<1>3. CASE Hangup
  BY <1>3 DEF Hangup
<1> QED
  BY <1>1, <1>2, <1>3 DEF Next, DrawerStep

(* For what is drawn a step is a DUS, a write or nothing.                  *)
LEMMA UndrawnStep ==
  ASSUME PaceOK, WiredInv, PaceInv, Next, ~Lost'
  PROVE  \/ Dus /\ ~Undrawn /\ Undrawn' /\ UNCHANGED <<latched, drawn>>
         \/ Draws /\ Undrawn /\ ~Undrawn' /\ UNCHANGED plotted
         \/ /\ UNCHANGED <<plotted, drawn>> /\ (Undrawn' <=> Undrawn)
            /\ Undrawn => UNCHANGED latched
<1>l. ~Lost
  BY LostStep
<1>s. Undrawn => UNCHANGED latched
  BY PendingSteady DEF Undrawn
<1> USE DEF Undrawn
<1>1. CASE Dus
  <2>1. ~Pending /\ drawer # "clear"
    BY <1>1 DEF Dus, Step, PaceOK, PaceInv, Pending, Inside
  <2>2. out_si' = 1 /\ UNCHANGED <<latched, drawn, drawer>>
    BY <1>1 DEF Dus, ScoPuti, thread
  <2> QED
    BY <1>1, <2>1, <2>2 DEF Pending
<1>2. CASE Dga \/ Dpa \/ Sro \/ Latch \/ SroReturn
  <2>1. UNCHANGED <<plotted, drawn, out_si, drawer>>
    BY <1>2 DEF Dga, Dpa, Sro, Latch, SroReturn, ScoPutx, ScoPuty, ScoLatchX, ScoLatchY, thread, scovars
  <2> QED
    BY <1>s, <2>1 DEF Pending
<1>3. CASE DrawerStep /\ Write
  <2>1. drawer = "write" /\ Pending /\ UNCHANGED <<plotted, out_si>>
    BY <1>3, ThreadKeeps DEF Write, PaceInv, Inside
  <2>2. line = "connected" /\ drawn' = Append(drawn, <<posx, posy>>)
        /\ UNCHANGED <<line, process>> /\ drawer' = "clear"
    BY <1>3, <1>l DEF Write, Lost
  <2> QED
    BY <1>3, <2>1, <2>2 DEF Draws, Pending
<1>4. CASE DrawerStep /\ Clear
  <2>1. drawer = "clear" /\ out_si' = 0 - 1 /\ UNCHANGED <<plotted, drawn>>
    BY <1>4, ThreadKeeps DEF Clear, At
  <2> QED
    BY <2>1 DEF Pending
<1>5. CASE DrawerStep /\ ~Write /\ ~Clear
  <2>1. drawer # "clear" /\ drawer' # "clear" /\ UNCHANGED <<drawn, out_si>>
    BY <1>5 DEF DrawerStep, Drawer, Drawing, Socket, Connect, Test, SignX, ValueX,
       SignY, ValueY, Sleep, Load, StoreCount, At
  <2>2. UNCHANGED plotted
    BY <1>5, ThreadKeeps
  <2> QED
    BY <1>s, <2>1, <2>2 DEF Pending
<1>6. CASE Hangup /\ UNCHANGED unused
  BY <1>6, <1>s DEF Hangup, unused, Pending
<1> QED
  BY <1>1, <1>2, <1>3, <1>4, <1>5, <1>6 DEF Next, DrawerStep, Program

LEMMA CountStep ==
  ASSUME TypeOK, TypeOK', PaceOK, WiredInv, PaceInv, BeamInv, LatchInv,
         CountInv, WireInv, Next
  PROVE  CountInv' /\ WireInv'
<1>a. /\ plotted \in Seq(Dots) /\ drawn \in Seq(Dots)
      /\ Len(plotted) \in Nat /\ Len(drawn) \in Nat
      /\ Point(out_sx, out_sy) \in Dots /\ Point(buf_sx, buf_sy) \in Dots
  <2>1. SetInv /\ plotted \in Seq(Dots) /\ drawn \in Seq(Dots)
    BY TypeParts
  <2>2. Point(out_sx, out_sy) \in Dots /\ Point(buf_sx, buf_sy) \in Dots
    BY <2>1, PointOK DEF SetInv
  <2> QED
    BY <2>1, <2>2
<1>b. SUFFICES ASSUME ~Lost'
               PROVE  CountInv' /\ WireInv'
  BY DEF CountInv, WireInv
<1>c. ~Lost
  BY <1>b, LostStep
<1>d. asks' = asks
  BY DEF Next, Program, Dga, Dpa, Sro, Latch, SroReturn, Dus, Step, DrawerStep, unused
<1>1. CASE Dus /\ ~Undrawn /\ Undrawn' /\ UNCHANGED <<latched, drawn>>
  <2>1. plotted' = Append(plotted, Point(buf_sx, buf_sy))
    BY <1>1 DEF Dus
  <2>2. CountInv'
    BY <1>1, <1>a, <1>c, <2>1 DEF CountInv
  <2>3. asks > 1 => Point(buf_sx, buf_sy) = Point(out_sx, out_sy)'
    BY <1>1 DEF Dus, Step, PaceOK, PaceInv, LatchInv, Aimed, Point, latched
  <2>4. WireInv'
    BY <1>1, <1>c, <1>d, <2>1, <2>3 DEF WireInv
  <2> QED
    BY <2>2, <2>4
<1>2. CASE Draws /\ Undrawn /\ ~Undrawn' /\ UNCHANGED plotted
  <2>1. drawn' = Append(drawn, Point(out_sx, out_sy))
    BY <1>2, DrawnIsLatched DEF Draws
  <2>2. CountInv'
    BY <1>2, <1>a, <1>c, <2>1 DEF CountInv
  <2>3. WireInv'
    BY <1>2, <1>c, <1>d, <2>1 DEF WireInv
  <2> QED
    BY <2>2, <2>3
<1>3. CASE /\ UNCHANGED <<plotted, drawn>> /\ (Undrawn' <=> Undrawn)
           /\ Undrawn => UNCHANGED latched
  <2>1. CountInv'
    BY <1>3, <1>c DEF CountInv
  <2>2. WireInv'
    BY <1>3, <1>c, <1>d DEF WireInv, Point, latched
  <2> QED
    BY <2>1, <2>2
<1> QED
  BY <1>1, <1>2, <1>3, <1>b, UndrawnStep

(***************************************************************************)
(* The invariant is inductive                                              *)
(***************************************************************************)
LEMMA TypePace == TypeOK => PaceOK
  BY AsksOK DEF TypeOK, ScoTypeOK, PaceOK

LEMMA ScopeInit == UseInit => ScopeInv
<1> SUFFICES ASSUME UseInit PROVE ScopeInv
  OBVIOUS
<1> USE DEF UseInit, ScoInit
<1>a. asks \in Nat /\ asks >= 1
  BY AsksOK
<1>1. TypeOK
  <2>1. BufferOK /\ SetInv
    BY DEF BufferOK, SetInv, Coord, MASK9
  <2>2. LocalsOK /\ ThreadOK
    <3>1. sign \in BOOLEAN
      BY Zenon
    <3>2. count = 0 /\ posx = 0 /\ posy = 0
      OBVIOUS
    <3>3. ThreadOK
      BY DEF ThreadOK
    <3> QED
      BY <3>1, <3>2, <3>3 DEF LocalsOK
  <2>3. UseOK
    BY <1>a DEF UseOK
  <2>4. drawn \in Seq(Dots) /\ plotted \in Seq(Dots)
    OBVIOUS
  <2> QED
    BY <2>1, <2>2, <2>3, <2>4, TypeParts
<1>2. WiredInv /\ BufInv /\ BeamInv /\ Untorn
  BY DEF WiredInv, BufInv, BeamInv, Untorn
<1>3. PaceInv /\ CountInv /\ WireInv
  BY <1>a DEF PaceInv, Pending, Inside, CountInv, WireInv, Undrawn
<1>4. LatchInv
  <2>1. Known(Point(out_sx, out_sy))
    BY HomeIsInitial DEF Known
  <2> QED
    BY <2>1 DEF LatchInv
<1> QED
  BY <1>1, <1>2, <1>3, <1>4 DEF ScopeInv

LEMMA ScopeStep == ASSUME ScopeInv, Next PROVE ScopeInv'
<1>a. /\ TypeOK /\ WiredInv /\ PaceInv /\ BufInv /\ BeamInv /\ LatchInv
      /\ Untorn /\ CountInv /\ WireInv /\ PaceOK
  BY TypePace DEF ScopeInv
<1>1. TypeOK' /\ BeamInv'
  BY <1>a, TypeStep, BeamStep
<1>2. WiredInv' /\ PaceInv' /\ BufInv'
  BY <1>a, WiredStep, PaceStep, BufStep
<1>3. LatchInv'
  BY <1>a, <1>1, LatchStep
<1>4. Untorn'
  BY <1>a, <1>1, UntornStep
<1>5. CountInv' /\ WireInv'
  BY <1>a, <1>1, CountStep
<1> QED
  BY <1>1, <1>2, <1>3, <1>4, <1>5 DEF ScopeInv

LEMMA ScopeStutter == ASSUME ScopeInv, UNCHANGED vars PROVE ScopeInv' /\ Lost' = Lost
<1>1. UNCHANGED <<ssd, out_sx, out_sy, out_si, buf_sx, buf_sy, rdydly, drawer, sign,
                  posx, posy, count, line, drawn, process, prog, skips, plotted, asks>>
  BY DEF vars, scovars
<1>2. TypeOK'
  BY <1>1 DEF ScopeInv, TypeOK, ScoTypeOK
<1>3. WiredInv' /\ BufInv' /\ BeamInv' /\ Untorn'
  BY <1>1 DEF ScopeInv, WiredInv, BufInv, BeamInv, Untorn
<1>4. Pending' = Pending /\ Lost' = Lost /\ Undrawn' = Undrawn
  BY <1>1 DEF Pending, Lost, Undrawn
<1>5. PaceInv' /\ CountInv' /\ WireInv'
  BY <1>1, <1>4 DEF ScopeInv, PaceInv, CountInv, WireInv
<1>6. LatchInv'
  BY <1>1 DEF ScopeInv, LatchInv, Known, Aimed
<1> QED
  BY <1>2, <1>3, <1>4, <1>5, <1>6 DEF ScopeInv

LEMMA ScopeAlways == Spec => []ScopeInv
<1>1. ScopeInv /\ [Next]_vars => ScopeInv'
  BY ScopeStep, ScopeStutter
<1> QED
  BY ScopeInit, <1>1, PTL DEF Spec

(***************************************************************************)
(* The theorems                                                            *)
(***************************************************************************)

(* Positions, coordinates and counts stay in range: no interleaving of the *)
(* thread with DGA, DPA, SRO and DUS mixes a sign with another value, or   *)
(* counts rdydly below zero (chario.c, sco_write_sock against sco_putx,    *)
(* sco_puty, sco_rdyout and sco_puti).                                     *)
THEOREM TypeCorrect == Spec => []TypeOK
<1>1. ScopeInv => TypeOK
  BY DEF ScopeInv
<1> QED
  BY ScopeAlways, <1>1, PTL

(* Every DUS draws one point before the next one may come, however slow    *)
(* the thread is, for every number of skips a program waits for.           *)
THEOREM EveryDusDraws == Spec => []OneDrawPerDus
<1>1. ScopeInv => OneDrawPerDus
  <2> SUFFICES ASSUME ScopeInv, ~Lost
               PROVE  /\ Len(drawn) <= Len(plotted)
                      /\ Len(plotted) <= Len(drawn) + 1
                      /\ prog = "DUS" => Len(plotted) = Len(drawn)
    BY DEF OneDrawPerDus
  <2>1. Len(drawn) \in Nat /\ Len(plotted) = Len(drawn) + (IF Undrawn THEN 1 ELSE 0)
    BY DEF ScopeInv, CountInv, TypeOK, ScoTypeOK
  <2>2. prog = "DUS" => ~Undrawn
    BY TypePace DEF ScopeInv, PaceOK, PaceInv, Undrawn, Inside
  <2> QED
    BY <2>1, <2>2
<1> QED
  BY ScopeAlways, <1>1, PTL

(* No point is drawn that was not plotted, even by a program that believes *)
(* the first skip: sign and value, x and y come from one point, although   *)
(* the thread reads them in four steps while the program goes on.          *)
THEOREM PointsAreWhole == Spec => []Untorn
<1>1. ScopeInv => Untorn
  BY DEF ScopeInv
<1> QED
  BY ScopeAlways, <1>1, PTL

PlotterStep == asks > 1 => [Plotter!ChannelNext]_<<plotted, drawn, Lost>>

LEMMA PlotterIsChannelStep == ASSUME ScopeInv, Next PROVE PlotterStep
<1> SUFFICES ASSUME asks > 1
             PROVE  [Plotter!ChannelNext]_<<plotted, drawn, Lost>>
  BY DEF PlotterStep
<1>a. /\ TypeOK /\ WiredInv /\ PaceInv /\ BufInv /\ BeamInv /\ CountInv /\ WireInv
      /\ PaceOK
  BY TypePace DEF ScopeInv
<1>b. /\ plotted \in Seq(Dots) /\ drawn \in Seq(Dots)
      /\ Len(plotted) \in Nat /\ Len(drawn) \in Nat
  BY <1>a DEF TypeOK, ScoTypeOK, Dots
<1>l. Lost => Lost'
  BY <1>a, LostStep
<1>1. CASE Dus
  <2>1. plotted' = Append(plotted, Point(buf_sx, buf_sy)) /\ UNCHANGED <<drawn, line, process>>
    BY <1>1 DEF Dus, ScoPuti, thread
  <2>2. Point(buf_sx, buf_sy) \in Screen
    <3>1. prog = "DUS"
      BY <1>1 DEF Dus, Step
    <3>2. PICK x \in Words : buf_sx = x % 512
      BY <1>a, <3>1 DEF BufInv, MASK9
    <3>3. PICK y \in Words : buf_sy = y % 512
      BY <1>a, <3>1 DEF BufInv, MASK9
    <3> QED
      BY <3>2, <3>3 DEF Screen
  <2>3. Lost \/ Len(plotted) - Len(drawn) = 0
    <3>1. ~Undrawn
      BY <1>1, <1>a DEF Dus, Step, PaceOK, PaceInv, Undrawn, Inside
    <3> QED
      BY <1>a, <1>b, <3>1 DEF CountInv
  <2>4. Lost' = Lost
    BY <2>1 DEF Lost
  <2> QED
    BY <2>1, <2>2, <2>3, <2>4 DEF Plotter!ChannelNext, Plotter!Put, Plotter!InFlight
<1>2. CASE Lost' /\ ~Dus
  <2>1. UNCHANGED plotted
    BY <1>2, PlotStep
  <2>2. UNCHANGED drawn
    <3>1. CASE Draws
      <4>1. Lost
        BY <1>2, <3>1 DEF Draws, Lost
      <4> QED
        BY <3>1, <4>1 DEF Draws, Write, Lost
    <3> QED
      BY <3>1, DrawStep
  <2>3. CASE Lost
    <3>1. Lost' = Lost
      BY <1>2, <2>3 DEF Lost
    <3> QED
      BY <2>1, <2>2, <3>1
  <2>4. CASE ~Lost
    BY <1>2, <2>1, <2>2, <2>4 DEF Plotter!ChannelNext, Plotter!Lose
  <2> QED
    BY <2>3, <2>4
<1>3. CASE ~Lost' /\ ~Dus
  <2>1. Lost' = Lost /\ ~Lost
    BY <1>3, <1>l DEF Lost
  <2>2. CASE Draws /\ Undrawn /\ UNCHANGED plotted
    <3>1. drawn' = Append(drawn, Point(out_sx, out_sy))
      BY <1>a, <2>2, DrawnIsLatched DEF Draws
    <3>2. drawn' = plotted /\ Len(plotted) - Len(drawn) = 1
      BY <1>a, <1>b, <2>1, <2>2, <3>1 DEF WireInv, CountInv
    <3> QED
      BY <2>1, <2>2, <3>2 DEF Plotter!ChannelNext, Plotter!Deliver, Plotter!InFlight
  <2>3. CASE UNCHANGED <<plotted, drawn>>
    BY <2>1, <2>3
  <2> QED
    BY <1>3, <1>a, <2>2, <2>3, UndrawnStep
<1> QED
  BY <1>1, <1>2, <1>3

(* A program that asks twice has a channel to the scope: every step it and *)
(* the thread can take puts a point into an empty channel, delivers the    *)
(* one that is in it, loses the line, or is invisible (sco_rdyout's two    *)
(* tests of rdydly against sco_write_sock's count).                        *)
THEOREM ScopeIsChannel == Spec => ImplementsChannel
<1>1. UseInit => Plotter!ChannelInit
  BY DEF UseInit, ScoInit, Plotter!ChannelInit, Lost
<1>2. ScopeInv /\ [Next]_vars => PlotterStep
  <2>1. ASSUME ScopeInv, UNCHANGED vars PROVE PlotterStep
    <3>1. UNCHANGED <<plotted, drawn, Lost>>
      BY <2>1, ScopeStutter DEF vars, scovars
    <3> QED
      BY <3>1 DEF PlotterStep
  <2> QED
    BY <2>1, PlotterIsChannelStep
<1> QED
  BY ScopeAlways, <1>1, <1>2, PTL DEF Spec, ImplementsChannel, PlotterStep
=============================================================================
