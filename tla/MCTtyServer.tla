---------------------------- MODULE MCTtyServer ----------------------------
(***************************************************************************)
(* Three clients, two of which write letters of their own, and a typist    *)
(* who uses the escape character; descriptors for two of the clients.      *)
(***************************************************************************)
EXTENDS TtyServer

Outputs   == << <<97, 66>>, <<99>>, << >> >>
TypedKeys == <<120, ESC_CHAR, 89>>
=============================================================================
