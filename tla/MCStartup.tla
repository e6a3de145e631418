----------------------------- MODULE MCStartup -----------------------------
(***************************************************************************)
(* Every image with a plain call of pepsi, and one image with every call   *)
(* of up to two options, every option file of up to two lines, and a       *)
(* listing, an image and a tape that may be missing.                       *)
(***************************************************************************)
EXTENDS Startup

Tok(k, n) == [kind |-> k, name |-> "", n |-> n]
A == [Tok("name", 0) EXCEPT !.name = "A"]
B == [Tok("name", 0) EXCEPT !.name = "B"]
NoTok == Tok("empty", 0)
Opt(o) == [opt |-> o, tok |-> NoTok, cnt |-> 0, dev |-> 0]
At(o, tok, cnt) == [Opt(o) EXCEPT !.tok = tok, !.cnt = cnt]
Enable(d) == [Opt("e") EXCEPT !.dev = d]

(* Of -d the count -1 stands for one that is not octal.                    *)
Options == {Opt("s"), Opt("i"), Opt("t"), Opt("l"), Opt("?"),
            At("o", B, 0), At("o", Tok("octal", 3), 0), At("o", Tok("octal", 8 ^ 4), 0),
            At("d", A, 2), At("d", Tok("octal", 1), 1), At("d", Tok("pages", 1), 1),
            At("d", A, 0 - 1), Enable(1), Enable(9)}

Line(tag, os, tok) == [tag |-> tag, opts |-> os, tok |-> tok, cnt |-> 1]
PopLines == {Line("pot", <<>>, NoTok), Line("panel", <<>>, A), Line("panel", <<>>, Tok("octal", 2)),
             Line("pepsi", <<Opt("s")>>, NoTok), Line("pepsi", <<Opt("l"), At("o", A, 0)>>, NoTok),
             Line("pepsi", <<At("d", B, 1), At("d", A, 1)>>, NoTok)}

UpTo(n, S) == UNION {[1 .. k -> S] : k \in 0 .. n}

(* Two symbols, and a second line with the label of the first.             *)
Names == <<[symbol |-> "A", location |-> 2], [symbol |-> "B", location |-> 1],
           [symbol |-> "A", location |-> 3]>>
Call(os, pop, image, listed, tape) ==
  [args |-> os, pop |-> pop, image |-> image, listed |-> listed, symbols |-> Names,
   tape |-> tape]
AllSetups ==
  {Call(os, pop, "there", listed, tape) :
     os \in UpTo(2, Options), pop \in UpTo(2, PopLines), listed \in BOOLEAN, tape \in BOOLEAN}
  \cup {Call(os, <<>>, image, TRUE, TRUE) :
          os \in UpTo(2, Options), image \in {"none", "missing"}}
Plain == Call(<<>>, <<>>, "there", FALSE, FALSE)

OneImage ==
  /\ oc = <<0, 0, 0>> /\ i = 0 /\ len = 0
  /\ mem8 = [a \in 0 .. MEM8SIZ - 1 |-> 0]
  /\ made = TRUE /\ at = "save"
  /\ assembled = [a \in 0 .. MEM8SIZ - 1 |-> 15] /\ memtop = MEM8SIZ
  /\ file = [k \in {} |-> 0] /\ size = 0

MCInit == \/ ImageInit /\ StartupWith({Plain})
          \/ OneImage /\ StartupWith(Setups)
MCSpec == MCInit /\ [][StartupNext]_<<vars, startVars>>
=============================================================================
