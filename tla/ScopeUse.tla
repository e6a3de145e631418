------------------------------ MODULE ScopeUse ------------------------------
(***************************************************************************)
(* The scope and a program that uses it as doc/pep8.7 and the examples do: *)
(* it sets both coordinates, asks SRO until it skips, and intensifies with *)
(* DUS.  It may ask more than once before it believes the answer.          *)
(***************************************************************************)
EXTENDS Scope

CONSTANTS
  Words,        \* the accumulators a program sets coordinates from
  Asks          \* how many skips of SRO programs wait for: the examples for one

ASSUME ScopeUseAssumption == Words \subseteq 0 .. 4095 /\ Asks \subseteq Nat \ {0}

VARIABLES
  prog,         \* the next instruction of the program, or inside SRO: latch, latched
  skips,        \* how many skips of SRO it has seen for this point
  plotted,      \* the points it has intensified
  asks          \* how many skips this program waits for

vars == <<scovars, prog, skips, plotted, asks>>

UseInit == /\ ScoInit
           /\ prog = "DGA" /\ skips = 0 /\ plotted = << >>
           /\ asks \in Asks

Step(here, there) == process = "up" /\ prog = here /\ prog' = there /\ asks' = asks

Dga == /\ Step("DGA", "DPA")
       /\ \E w \in Words : ScoPutx(w)
       /\ UNCHANGED <<skips, plotted>>

Dpa == /\ Step("DPA", "SRO")
       /\ \E w \in Words : ScoPuty(w)
       /\ UNCHANGED <<skips, plotted>>

(* sco_rdyout: x is latched with the first test, y after it.               *)
Sro == /\ Step("SRO", IF ScoReady THEN "latch" ELSE "latched")
       /\ IF ScoReady THEN ScoLatchX ELSE UNCHANGED scovars
       /\ UNCHANGED <<skips, plotted>>

Latch == /\ Step("latch", "latched")
         /\ ScoLatchY
         /\ UNCHANGED <<skips, plotted>>

(* The return of sco_rdyout, and the program's reaction to it.             *)
SroReturn == /\ process = "up" /\ prog = "latched"
             /\ IF ScoReady THEN /\ skips' = skips + 1
                                 /\ prog' = IF skips + 1 = asks THEN "DUS" ELSE "SRO"
                            ELSE skips' = skips /\ prog' = "SRO"
             /\ UNCHANGED <<scovars, plotted, asks>>

Dus == /\ Step("DUS", "DGA")
       /\ ScoPuti
       /\ skips' = 0
       /\ plotted' = Append(plotted, Point(buf_sx, buf_sy))

Program == Dga \/ Dpa \/ Sro \/ Latch \/ SroReturn \/ Dus

unused == <<prog, skips, plotted, asks>>

DrawerStep == Drawer /\ UNCHANGED unused

Next == Program \/ DrawerStep \/ (Hangup /\ UNCHANGED unused)

Spec == UseInit /\ [][Next]_vars

TypeOK == /\ ScoTypeOK
          /\ prog \in {"DGA", "DPA", "SRO", "latch", "latched", "DUS"}
          /\ asks \in Asks /\ skips \in 0 .. asks
          /\ plotted \in Seq((0 .. 511) \X (1 .. 512))

(***************************************************************************)
(* Properties                                                              *)
(***************************************************************************)
Lost == line \in {"hungup", "closed"} \/ process # "up"

(* Every DUS draws one point, however slow the thread is: the next DUS     *)
(* comes only when the drawing of the last one is over, because two counts *)
(* of rdydly lie between them (sco_puti against sco_write_sock).           *)
OneDrawPerDus == ~Lost => /\ Len(drawn) <= Len(plotted)
                          /\ Len(plotted) <= Len(drawn) + 1
                          /\ prog = "DUS" => Len(plotted) = Len(drawn)

(* What is drawn is always some point the program has plotted, or the one  *)
(* it is about to, or the initial position: x and y are never taken from   *)
(* different points, although the thread reads them one after the other.   *)
(* Home is the position of the beam before the first SRO.                  *)
Home == <<255, 257>>
Untorn == \A i \in 1 .. Len(drawn) :
            drawn[i] = Home \/ \E j \in 1 .. Len(plotted) : drawn[i] = plotted[j]

(* doc/pep8.7:451-456: SRO tells that the beam is in position, and then    *)
(* DUS produces the point.                                                 *)
DrawnWherePlotted == /\ Len(drawn) <= Len(plotted)
                     /\ \A i \in 1 .. Len(drawn) : drawn[i] = plotted[i]

(* A program that asks twice has a channel to the scope: no point is lost, *)
(* repeated, moved or drawn out of order.  sco_rdyout tests rdydly twice:  *)
(* the second SRO latches what the first one may have skipped over.        *)
Screen  == {Point(x % 512, y % 512) : x, y \in Words}
Plotter == INSTANCE Channel WITH Message <- Screen, put <- plotted, delivered <- drawn, lost <- Lost
ImplementsChannel ==
  /\ Plotter!ChannelInit
  /\ [][asks > 1 => [Plotter!ChannelNext]_<<plotted, drawn, Lost>>]_vars

(* The beam comes to rest, so that a program waiting for SRO gets on.      *)
BecomesReady == prog = "SRO" ~> (prog = "DUS" \/ Lost)
=============================================================================
