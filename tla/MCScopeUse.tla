----------------------------- MODULE MCScopeUse -----------------------------
(***************************************************************************)
(* Points with coordinates of either sign; the word 768 sets the sign and  *)
(* a bit beyond the nine that are used.                                    *)
(***************************************************************************)
EXTENDS ScopeUse

CONSTANT MaxPlotted     \* how many points the program plots

Bounded == Next /\ Len(plotted') <= MaxPlotted

MCSpec == /\ UseInit /\ [][Bounded]_vars
          /\ WF_vars(Program /\ Len(plotted') <= MaxPlotted)
          /\ WF_vars(DrawerStep)
=============================================================================
