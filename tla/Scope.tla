------------------------------- MODULE Scope -------------------------------
(***************************************************************************)
(* The X/Y point plotter, device 2 of chario.c.  DGA and DPA set the       *)
(* coordinates buf_sx and buf_sy; SRO, once the beam has had time to move, *)
(* latches them into out_sx and out_sy, one after the other; DUS           *)
(* intensifies.  A thread sends the latched point to the scope and counts  *)
(* rdydly down.  Nothing is locked.  The thread reads each latched         *)
(* coordinate twice, for its sign and for its value; sco_rdyout reads      *)
(* rdydly twice; the count is a test, a load and a store.                  *)
(***************************************************************************)
EXTENDS Integers, Sequences

MASK9  == \o777
BIT9   == 256           \* the sign of a coordinate
SGNOFF == 256

VARIABLES
  ssd, out_sx, out_sy, out_si, buf_sx, buf_sy, rdydly,
  drawer,       \* where sco_write_sock stands
  sign, posx, posy, count,      \* its locals
  line,         \* the socket: none, fresh, connected, hungup or closed
  drawn,        \* the points that arrived at the scope
  process       \* up, failed (exit(1)) or killed (by SIGPIPE)

locals  == <<sign, posx, posy, count>>
latched == <<out_sx, out_sy>>
scovars == <<ssd, out_sx, out_sy, out_si, buf_sx, buf_sy, rdydly, drawer,
             sign, posx, posy, count, line, drawn, process>>

(* A coordinate on the screen from its sign bit and its low eight bits,    *)
(* where the screen's origin is the upper left corner.  When the sign is   *)
(* off, the whole word is added.                                           *)
PosX(negative, w) == IF negative THEN SGNOFF - (256 - (w % 256)) ELSE SGNOFF + w
PosY(negative, w) == IF negative THEN SGNOFF + (256 - (w % 256)) ELSE SGNOFF - w

Negative(w) == (w \div BIT9) % 2 = 1

Point(x, y) == <<PosX(Negative(x), x), PosY(Negative(y), y)>>

ScoInit == /\ ssd = 0 - 1
           /\ out_sx = 0 - 1 /\ out_sy = 0 - 1 /\ out_si = 0 - 1
           /\ buf_sx = 0 - 1 /\ buf_sy = 0 - 1
           /\ rdydly = 0
           /\ drawer = "socket"
           /\ sign = FALSE /\ posx = 0 /\ posy = 0 /\ count = 0
           /\ line = "none"
           /\ drawn = << >>
           /\ process = "up"

(***************************************************************************)
(* sco_write_sock                                                          *)
(***************************************************************************)
At(here, there) == process = "up" /\ drawer = here /\ drawer' = there

Socket == /\ At("socket", "connect")
          /\ ssd' = 3
          /\ line' = "fresh"
          /\ UNCHANGED <<latched, out_si, buf_sx, buf_sy, rdydly, locals, drawn, process>>

Connect == /\ process = "up" /\ drawer = "connect"
           /\ \/ /\ line' = "connected"
                 /\ drawer' = "test"
                 /\ UNCHANGED process
              \/ /\ process' = "failed"
                 /\ UNCHANGED <<line, drawer>>
           /\ UNCHANGED <<ssd, latched, out_si, buf_sx, buf_sy, rdydly, locals, drawn>>

Test == /\ At("test", IF ssd > 0 /\ out_si > 0 THEN "signx" ELSE "sleep")
        /\ UNCHANGED <<ssd, latched, out_si, buf_sx, buf_sy, rdydly, locals,
                       line, drawn, process>>

SignX == /\ At("signx", "valuex")
         /\ sign' = Negative(out_sx)
         /\ UNCHANGED <<ssd, latched, out_si, buf_sx, buf_sy, rdydly, posx, posy,
                        count, line, drawn, process>>

ValueX == /\ At("valuex", "signy")
          /\ posx' = PosX(sign, out_sx)
          /\ UNCHANGED <<ssd, latched, out_si, buf_sx, buf_sy, rdydly, sign, posy,
                         count, line, drawn, process>>

SignY == /\ At("signy", "valuey")
         /\ sign' = Negative(out_sy)
         /\ UNCHANGED <<ssd, latched, out_si, buf_sx, buf_sy, rdydly, posx, posy,
                        count, line, drawn, process>>

ValueY == /\ At("valuey", "write")
          /\ posy' = PosY(sign, out_sy)
          /\ UNCHANGED <<ssd, latched, out_si, buf_sx, buf_sy, rdydly, sign, posx,
                         count, line, drawn, process>>

(* After the scope has gone a write may lose the point, raise SIGPIPE, or  *)
(* fail: then the thread ends, and rdydly is never counted down again.     *)
Write == /\ process = "up" /\ drawer = "write"
         /\ \/ /\ line = "connected"
               /\ drawn' = Append(drawn, <<posx, posy>>)
               /\ drawer' = "clear"
               /\ UNCHANGED <<line, process>>
            \/ /\ line = "hungup"
               /\ drawer' = "clear"
               /\ UNCHANGED <<line, drawn, process>>
            \/ /\ line = "hungup"
               /\ process' = "killed"
               /\ UNCHANGED <<line, drawn, drawer>>
            \/ /\ line = "hungup"
               /\ line' = "closed"
               /\ drawer' = "done"
               /\ UNCHANGED <<drawn, process>>
         /\ UNCHANGED <<ssd, latched, out_si, buf_sx, buf_sy, rdydly, locals>>

Clear == /\ At("clear", "sleep")
         /\ out_si' = 0 - 1
         /\ UNCHANGED <<ssd, latched, buf_sx, buf_sy, rdydly, locals, line, drawn, process>>

(* A slip: the count stops at one.                                         *)
SleepEarly == /\ At("sleep", IF rdydly > 1 THEN "load" ELSE "test")
              /\ UNCHANGED <<ssd, latched, out_si, buf_sx, buf_sy, rdydly, locals,
                             line, drawn, process>>

(* usleep(1), and the test of rdydly.                                      *)
Sleep == /\ At("sleep", IF rdydly # 0 THEN "load" ELSE "test")
         /\ UNCHANGED <<ssd, latched, out_si, buf_sx, buf_sy, rdydly, locals,
                        line, drawn, process>>

Load == /\ At("load", "store")
        /\ count' = rdydly
        /\ UNCHANGED <<ssd, latched, out_si, buf_sx, buf_sy, rdydly, sign, posx,
                       posy, line, drawn, process>>

StoreCount == /\ At("store", "test")
              /\ rdydly' = count - 1
              /\ UNCHANGED <<ssd, latched, out_si, buf_sx, buf_sy, locals, line,
                             drawn, process>>

Drawing == SignX \/ ValueX \/ SignY \/ ValueY \/ Write \/ Clear
Drawer  == Socket \/ Connect \/ Test \/ Drawing \/ Sleep \/ Load \/ StoreCount

(* The scope closes its end (external).                                    *)
Hangup == /\ process = "up" /\ line = "connected"
          /\ line' = "hungup"
          /\ UNCHANGED <<ssd, latched, out_si, buf_sx, buf_sy, rdydly, drawer,
                         locals, drawn, process>>

(***************************************************************************)
(* The device functions                                                    *)
(***************************************************************************)
thread == <<ssd, drawer, locals, line, drawn, process>>

ScoPutx(ac) == /\ rdydly' = 2
               /\ buf_sx' = ac % (MASK9 + 1)
               /\ UNCHANGED <<latched, out_si, buf_sy, thread>>

(* A slip: the delay is one turn of the thread, not two.                   *)
ScoPutyShort(ac) == /\ rdydly' = 1
                    /\ buf_sy' = ac % (MASK9 + 1)
                    /\ UNCHANGED <<latched, out_si, buf_sx, thread>>

ScoPuty(ac) == /\ rdydly' = 2
               /\ buf_sy' = ac % (MASK9 + 1)
               /\ UNCHANGED <<latched, out_si, buf_sx, thread>>

ScoPuti == /\ out_si' = 1
           /\ UNCHANGED <<latched, buf_sx, buf_sy, rdydly, thread>>

(* sco_rdyout latches if its first read of rdydly finds it run down, and   *)
(* returns whether its second read does.                                   *)
ScoReadyEarly == rdydly <= 1      \* a slip
ScoReady == rdydly <= 0

ScoLatchX == /\ out_sx' = buf_sx
             /\ UNCHANGED <<out_sy, out_si, buf_sx, buf_sy, rdydly, thread>>
ScoLatchY == /\ out_sy' = buf_sy
             /\ UNCHANGED <<out_sx, out_si, buf_sx, buf_sy, rdydly, thread>>

Coordinate == -1 .. MASK9

ScoTypeOK == /\ ssd \in {0 - 1, 3}
             /\ out_sx \in Coordinate /\ out_sy \in Coordinate
             /\ buf_sx \in Coordinate /\ buf_sy \in Coordinate
             /\ out_si \in {0 - 1, 1}
             /\ rdydly \in 0 .. 2 /\ count \in 0 .. 2
             /\ sign \in BOOLEAN /\ posx \in 0 .. 511 /\ posy \in 0 .. 512
             /\ drawer \in {"socket", "connect", "test", "signx", "valuex", "signy",
                            "valuey", "write", "clear", "sleep", "load", "store", "done"}
             /\ line \in {"none", "fresh", "connected", "hungup", "closed"}
             /\ drawn \in Seq((0 .. 511) \X (1 .. 512))
             /\ process \in {"up", "failed", "killed"}
=============================================================================
