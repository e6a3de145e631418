---------------------------- MODULE AddressList ----------------------------
(***************************************************************************)
(* What the commands of the simulator's prompt do to a list of addresses,  *)
(* of breakpoints or of watched words: add one at the end, take the first  *)
(* one that matches out, or take all out.  No edit goes unnoticed: edits   *)
(* counts them.                                                            *)
(***************************************************************************)
EXTENDS Naturals, Sequences

CONSTANT Address

VARIABLES entries, edits

Without(s, i) == SubSeq(s, 1, i - 1) \o SubSeq(s, i + 1, Len(s))

Add == \E a \in Address : entries' = Append(entries, a)

Remove == \E i \in 1 .. Len(entries) :
            /\ \A j \in 1 .. i - 1 : entries[j] # entries[i]
            /\ entries' = Without(entries, i)

RemoveAll == entries' = << >>

Edit == /\ Add \/ Remove \/ RemoveAll
        /\ edits' = edits + 1

ListSpec == entries = << >> /\ edits = 0 /\ [][Edit]_<<entries, edits>>
=============================================================================
