---------------------------- MODULE MCAssembler ----------------------------
(***************************************************************************)
(* The assembler, its listing and the simulator that reads it back, on     *)
(* every text of a few lines from a small pool, behind two macro           *)
(* definitions like those of examples/bcdc.pps; on macro definitions and   *)
(* calls in any order; and on every small set of files that include each   *)
(* other.  The history variables say which words pass 2 put where          *)
(* (written: lines of code and text, consts: ZMEM), the line it last had   *)
(* at an address (lastAt), the places of the lines read so far (seen),     *)
(* whether a name had no value (unknown), and what makes the two passes    *)
(* read or translate different lines (counted, astray).                    *)
(***************************************************************************)
EXTENDS Listing

VARIABLES written, consts, lastAt, seen, unknown, counted, astray
history == <<written, consts, lastAt, seen, unknown, counted, astray>>
mcVars == <<vars, lstVars, history>>

A == Token("A")
B == Token("B")
Z == Token("Z")
KP == Local("K")
LP == Local("L")
HLT == 2 * PAGE8
RCL == 4 * PAGE8
JMP == 6 * PAGE8
BRA == HLT + PAGE8 + MAXDSP + 1

Code(c, args) == [Blank EXCEPT !.op = "CODE", !.code = c, !.args = args]
Label2(t, l) == [l EXCEPT !.label = t]
Just(o) == [Blank EXCEPT !.op = o]
Org1(n) == [Just("ORG") EXCEPT !.n = n]
Text(n, tail) == [Just("TEXT") EXCEPT !.n = n, !.tail = tail]
Named(o, t) == [Just(o) EXCEPT !.name = t]
With(o, t, args) == [Named(o, t) EXCEPT !.args = args]
Incl(f) == [Just("FILE") EXCEPT !.file = f]
Def(m, body) == <<Named("MACRO", m)>> \o body \o <<Just("ENDM")>>

RLI == Token("RLI")
SKP == Token("SKP")
Macros == Def(RLI, <<With("ZMEM", KP, <<Prm(1)>>), Code(RCL, <<Sym(KP)>>)>>)
       \o Def(SKP, <<Code(JMP, <<Sym(LP)>>), Label2(LP, Code(HLT, <<>>))>>)

Pool == {Code(HLT, <<>>), Label2(A, Code(UNUSED, <<Num(5)>>)),
         Label2(A, Text(3, 0)), Text(3, 1), Label2(B, Code(JMP, <<Sym(B)>>)),
         Code(RCL, <<Sym(A)>>), Code(RCL, <<Sym(Z)>>),
         With("CALL", RLI, <<Num(5)>>), With("CALL", RLI, <<Sym(A)>>),
         Named("CALL", SKP), Named("CALL", B),
         Incl("f"), Org1(2), Org1(MEM8SIZ - 1), Just("PAGE"),
         With("ZMEM", Z, <<Num(5)>>), With("ZMEM", B, <<Num(6)>>),
         [With("EQU", B, <<Sym(A)>>) EXCEPT !.code = RCL]}

(* Names, what can be an operand, and origins to bring them apart.         *)
NameLines == {Label2(A, Code(HLT, <<>>)), With("EQU", B, <<Expr(Dot, "+", Num(3))>>),
           Org1(2), Org1(MEM8SIZ - 1)}
OperandArgs == {Dot, Dsp(A), Dsp(B), Sym(A), Expr(Sym(A), "+", Num(1)),
             Expr(Num(2), "*", Sym(B)), Expr(Dot, "-", Num(1)), Expr(Dot, "-", Sym(B))}
OperandLines == {Code(c, <<a>>) : c \in {RCL, UNUSED}, a \in OperandArgs}
                \cup {Code(BRA, <<Dsp(t)>>) : t \in {A, B}}

UpTo(n, S) == UNION {[1 .. k -> S] : k \in 0 .. n}
Alone(seqs) == {Main :> s : s \in seqs}
(* Any three lines, then code near the top of the memory, and $.           *)
Included == <<Named("CALL", SKP), Label2(B, Code(HLT, <<>>))>>
Trailer == <<Org1(MEM8SIZ - 2), Code(HLT, <<>>), Just("EOA"), Named("CALL", Z)>>
PoolTexts == {"f" :> Included @@ Main :> (Macros \o <<Just("PAGE")>> \o s \o Trailer) :
                s \in UpTo(3, Pool)}
OperandTexts == Alone({<<Just("PAGE")>> \o s \o <<l, Org1(MEM8SIZ - 2), Code(HLT, <<>>)>> :
                         s \in UpTo(3, NameLines), l \in OperandLines})

(* Macro definitions and calls in any order, in and outside each other,    *)
(* but no call before a definition has begun; calls of a macro defined     *)
(* later; an ENDM hidden by its label; and more constants than the zero    *)
(* page has words.                                                         *)
M == Token("M")
N == Token("N")
MacroLines == {Named("MACRO", M), Named("MACRO", N), Named("CALL", M),
               Just("ENDM"), Label2(A, Code(HLT, <<>>)), Label2(LP, Text(1, 0))}
DefinesFirst(s) ==
  \A i \in DOMAIN s : s[i].op = "CALL" => \E j \in 1 .. i : s[j].op = "MACRO"
LaterInside == Def(N, <<Named("CALL", M)>>) \o Def(M, <<Code(HLT, <<>>)>>) \o
               <<Named("CALL", N)>>
DefinedLater == Def(N, <<>>) \o <<Named("CALL", M)>> \o Def(M, <<Text(3, 0)>>) \o
                <<Label2(A, Code(HLT, <<>>))>>
HiddenEnd == <<Named("MACRO", M), Label2(B, Just("ENDM")), Code(HLT, <<>>),
               Just("ENDM"), Named("CALL", M)>>
ManyConstants == [i \in 1 .. PAGE8 + 1 |-> With("ZMEM", [Z EXCEPT !.sym = ToString(i)], <<Num(i)>>)]
MacroTexts == Alone({s \in UpTo(3, MacroLines) : DefinesFirst(s)}
                    \cup {<<Named("MACRO", M)>> \o s : s \in UpTo(4, MacroLines)}
                    \cup {LaterInside, DefinedLater, HiddenEnd, ManyConstants})

(* Values with operands behind them, and names and parameters of a macro   *)
(* where there is no call, or none that gave them.                         *)
LooseLines == {Label2(A, Code(HLT, <<>>)), With("CALL", A, <<Num(PAGE8 + 1)>>),
               With("CALL", A, <<Sym(B), Dot>>), Code(RCL, <<Prm(1)>>),
               Label2(LP, Code(JMP, <<Sym(LP)>>)), With("CALL", M, <<Num(5)>>), Named("CALL", M)}
LooseTexts == Alone({Def(M, <<Code(RCL, <<Prm(1)>>)>>) \o s : s \in UpTo(3, LooseLines)})

(* A main file of up to three lines and two others of up to two; $ in the  *)
(* main file only, and no included file ends with FILE.                    *)
SourcesOf(Ms, F, G) == {Main :> m @@ "f" :> f @@ "g" :> g :
                          m \in UpTo(3, Ms), f \in UpTo(2, F), g \in UpTo(2, G)}
EndsWithFile(s) == s # <<>> /\ Last(s).op = "FILE"
FileTexts ==
  {t \in SourcesOf({Code(HLT, <<>>), Incl("f"), Incl("h"), Just("EOA")},
                   {Code(HLT, <<>>), Incl("g")}, {Code(HLT, <<>>), Incl("f")}) :
     ~EndsWithFile(t["f"]) /\ ~EndsWithFile(t["g"])}
AllTexts == PoolTexts \cup OperandTexts \cup MacroTexts \cup LooseTexts \cup FileTexts

(* Names without a value, in a constant too.                               *)
UndefinedTexts ==
  Alone(UpTo(2, {With("ZMEM", Z, <<Sym(A)>>), Code(RCL, <<Sym(Z)>>),
                 Code(RCL, <<Sym(A)>>), Named("CALL", B), With("EQU", B, <<Sym(A)>>)}))

(* The text the documentation promises: the lines of the file put in place *)
(* of (here: after) the FILE line, up to the first $.                      *)
LineIn(p) == text[p[1]][p[2]]
Inserted[d \in 0 .. MAXNEST + 1] ==
  [f \in DOMAIN text |->
     LET With2(p) == <<p>> \o IF LineIn(p).op = "FILE" /\ d > 0
                                  /\ LineIn(p).file \in DOMAIN text
                               THEN Inserted[d - 1][LineIn(p).file] ELSE <<>>
     IN  FlattenSeq([i \in DOMAIN text[f] |-> With2(<<f, i>>)])]
WholeText == Inserted[MAXNEST + 1][Main]
Source ==
  LET end == SelectInSeq(WholeText, LAMBDA p : LineIn(p).op = "EOA")
  IN  IF end = 0 THEN WholeText ELSE SubSeq(WholeText, 1, end)

Unnamed(a) == a.kind \in {"sym", "dsp"} /\ ~Known(a.tok)
Unknown(a) == \E x \in Used(a) : Unnamed(x)

(* The line being handled uses a name that stands for nothing.             *)
UsesUnknown ==
  /\ Ready /\ ~macromode /\ Evaluated
  /\ \/ \E i \in DOMAIN oline.args : Unknown(oline.args[i])
     \/ oline.op = "CALL" /\ ~Known(oline.name)

(* In pass 1 a name that is no macro is counted as a word; if it becomes   *)
(* the name of a macro, pass 2 expands it.  Pass 1 alone calls macros      *)
(* while it collects another one, and it may end where pass 2 does not     *)
(* begin: in an included file or a macro definition.  Pass 2 alone obeys   *)
(* what stands behind a label in a macro definition.                       *)
Obeyed == {"ORG", "PAGE", "TEXT", "FILE", "EOA", "ENDM"}
Counts == pass = 1 /\ Op("CALL") /\ ~macromode /\ ~IsMacro(oline.name)
GoesAstray ==
  /\ pass = 1
  /\ \/ Hidden /\ oline.op \in Obeyed
     \/ Op("CALL") /\ macromode /\ IsMacro(oline.name)
     \/ at = "end" /\ (macromode \/ files # <<>>)
Orderly == /\ ~astray
           /\ \A i \in DOMAIN symtab : symtab[i].type = "macro" => symtab[i].symbol \notin counted

put == DOMAIN written
Puts == pass = 2 /\ at = "line" /\ oline.op \in {"CODE", "TEXT", "CALL"}
NowPut == IF Puts THEN pc8 .. pc8' - 1 ELSE {}
Zmems == pass = 2 /\ Op("ZMEM") /\ ~macromode

(* Where pass 2 has a line: at the new location counter for one that sets  *)
(* it.  The words of a TEXT have lines of their own.                       *)
Here == IF oline.op \in {"ORG", "PAGE"} THEN pc8' ELSE pc8
WordsOfText == IF oline.op = "TEXT" THEN pc8 + 1 .. pc8' - 1 ELSE {}
LastAt == [a \in (DOMAIN lastAt) \cup {Here} \cup WordsOfText |->
             IF a = Here THEN oline ELSE IF a \in WordsOfText THEN Blank ELSE lastAt[a]]

MCInit == ListingInit /\ written = <<>> /\ consts = {} /\ lastAt = <<>> /\ seen = <<>>
          /\ unknown = FALSE /\ counted = {} /\ astray = FALSE
MCTranslate ==
  /\ Translate
  /\ written' = [a \in put \cup NowPut |-> IF a \in NowPut THEN oline ELSE written[a]]
  /\ consts' = consts \cup
       (IF Zmems /\ Resolves(Head(oline.args))
        THEN {<<Name(oline.name), Value(Head(oline.args), 0)>>} ELSE {})
  /\ lastAt' = IF pass = 2 /\ at = "line" /\ ~Dangling THEN LastAt ELSE lastAt
  /\ seen' = IF at = "read" /\ at' = "line" /\ macroptr = <<>>
               THEN Append(seen, <<infile'.file, infile'.line>>)
               ELSE IF pass' # pass THEN <<>> ELSE seen
  /\ unknown' = (unknown \/ UsesUnknown)
  /\ counted' = counted \cup (IF Counts THEN {Name(oline.name)} ELSE {})
  /\ astray' = (astray \/ GoesAstray)
MCNext == MCTranslate \/ (ReadListing /\ UNCHANGED history)

MCSpec == MCInit /\ [][MCNext]_mcVars /\ WF_mcVars(MCTranslate)

(* A label read in pass 2 stands where pass 1 said: each line, those of    *)
(* macro calls with their numbered labels too, takes as many words in both *)
(* passes (pot.5, Symbole: a label is the value of the location counter).  *)
LabelsResolve ==
  (Orderly /\ pass = 2 /\ at = "line" /\ ~macromode /\ oline.label # NoToken) =>
    Known(oline.label) /\ symtab[Find(oline.label)].location = pc8

(* A constant made by ZMEM keeps its value under its name, however many    *)
(* share it, as long as no code is put on it (pot.5, ZMEM).                *)
ConstantsHold ==
  (errcnt = 0 /\ pass = 2 /\ at \notin {"fatal", "wild"}
     /\ put \cap (zmemptr + 1 .. ZMEMMAX) = {}) =>
    \A c \in consts : \E i \in DOMAIN symtab :
       symtab[i].symbol = c[1] /\ mem8[symtab[i].location] = c[2]

(* The image holds every word that was assembled, constants and texts up   *)
(* to the last word of code, and its instructions, decoded as the          *)
(* processor does, refer to the address their line names, modulo the       *)
(* memory's size, or branch back over the distance to the label it names,  *)
(* if the text uses no unknown name (pot.1: the text file is turned into   *)
(* an image of the memory; pot.5: symbols and expressions are replaced by  *)
(* their values).                                                          *)
PlaceOf(t) == symtab[SelectInSeq(symtab, LAMBDA e : e.symbol = <<t.sym, 0>>)].location
Means(x, a) == CASE x.kind = "num" -> x.n
                 [] x.kind = "dot" -> a
                 [] x.kind = "sym" -> PlaceOf(x.tok)
                 [] x.kind = "dsp" -> a - PlaceOf(x.tok)
Meaning(x, a) == IF x.kind # "expr" THEN Means(x, a)
                 ELSE Apply(x.op, Means(x.terms[1], a), Means(x.terms[2], a))
Referred(w, a) == (w % PAGE8) + (IF (w \div PAGE8) % 2 = 1 THEN (a \div PAGE8) * PAGE8 ELSE 0)
ImageIsRight ==
  at = "done" =>
    /\ \A a \in put \cup (zmemptr + 1 .. ZMEMMAX) :
         (\E b \in put : a <= b /\ written[b].op # "TEXT") => a \in DOMAIN Image
    /\ ~unknown => \A a \in put \ (zmemptr + 1 .. ZMEMMAX) :
         LET l == written[a]
         IN  l.op = "CODE" /\ l.args # <<>> /\ Plain(Head(l.args)) =>
               LET v == Meaning(Head(l.args), a)
               IN  CASE l.code = UNUSED -> Image[a] = v % MEM8SIZ
                     [] l.code # UNUSED /\ l.code % (2 * PAGE8) = 0 ->
                          /\ Image[a] \div (2 * PAGE8) = l.code \div (2 * PAGE8)
                          /\ Referred(Image[a], a) = v % MEM8SIZ
                     [] OTHER ->
                          /\ Image[a] \div (MAXDSP + 1) = l.code \div (MAXDSP + 1)
                          /\ Image[a] % (MAXDSP + 1) = v

(* In each of the two passes pot reads the lines of the text as if every   *)
(* included file stood in place of its FILE line, to the end (pot.5).      *)
AsIfInserted == at = "end" => seen = Source

(* What pepsi shows at the address of a word is the line pot last had      *)
(* there, though lines wait in a buffer, in the temporary file and behind  *)
(* the constants (pepsi.1, -s).                                            *)
TextShowsLines ==
  source = "read" =>
    \A a \in put \ (zmemptr + 1 .. ZMEMMAX) : srctext[a] = lastAt[a]

(* Every label and every name of a constant, however many share it, is a   *)
(* symbol of pepsi with the location pot gave it (pepsi.1, Adressen), if   *)
(* the passes agree.  The labels stand on lines with code or text, in      *)
(* macro bodies with a %; a stray ENDM enters a symbol without a name.     *)
SymbolsFound ==
  source = "read" /\ Orderly =>
    \A i \in DOMAIN symtab : symtab[i].type = "addr" /\ symtab[i].symbol # NoLabel =>
      Listable(symtab[i].symbol) /\ Location(symtab[i].symbol) = symtab[i].location

(* A name that stands for nothing is reported, and no image is written     *)
(* (pot.1:79-82, Undefined symbol).                                        *)
UnknownIsReported == at = "done" => ~unknown

(* Both loops of main are left, with an image, an error, or a store out of *)
(* bounds or a NULL pointer, for texts that call no macro before some      *)
(* definition has begun and have no call in the body of a macro they hide  *)
(* an ENDM in.  Others need not end: a macro that calls itself survives    *)
(* pass 1 when that does not expand it, and pass 2 does so for ever.       *)
Ends == <>(at \in Stopped)
=============================================================================
