------------------------------ MODULE Assembler ------------------------------
(***************************************************************************)
(* pot, the two-pass assembler (pot.c), on the lines Reader reads.  Pass 1 *)
(* (symscan) collects symbols and macro bodies and counts words, pass 2    *)
(* (assemble) writes the words into mem8.  A line has one record: an       *)
(* optional label, the operation op, and what op needs.  Sizes are scaled  *)
(* by PAGE8 and PAGES: an instruction is a multiple of 2 * PAGE8 (opcode   *)
(* and indirect bit) plus the in-page bit PAGE8 plus PAGE8 addresses.      *)
(***************************************************************************)
EXTENDS Reader, FiniteSetsExt

Bits == INSTANCE Word8

CONSTANTS PAGE8,    \* words of a page
          PAGES,    \* pages of the memory
          SYMSIZ,   \* entries of the symbol table
          STACK,    \* how deep symscan may recurse
          MAXDSP,   \* the largest displacement
          Garbage   \* values an uninitialised variable may have

ASSUME AssemblerAssumption ==
  /\ PAGE8 \in Nat \ {0} /\ PAGES \in Nat \ {0} /\ SYMSIZ \in Nat \ {0}
  /\ STACK \in Nat \ {0} /\ MAXDSP \in 0 .. PAGE8 - 1
  /\ Garbage # {} /\ Garbage \subseteq Nat

(* Fields of bits: | of two of them that do not overlap is their sum.      *)
ASSUME WidthsAssumption ==
  \A n \in {PAGE8, PAGES, MAXDSP + 1} : \E k \in 0 .. 12 : n = 2^k

MEM8SIZ == PAGE8 * PAGES
ZMEMMAX == PAGE8 - 1
UNUSED  == MEM8SIZ             \* a word not assembled yet
MAXPARA == 2                   \* as many as the modelled macros use

(* Lines and their parts.  A name that ends in % is local to a macro call. *)
Token(s) == [sym |-> s, local |-> FALSE]
Local(s) == [sym |-> s, local |-> TRUE]
NoToken  == Token("")

(* Operands: a number, a symbol, a parameter, the location counter (.),    *)
(* the distance back to a label (<), and an expression of two of them.     *)
Operand(k, n, t) == [kind |-> k, n |-> n, tok |-> t, op |-> "", terms |-> <<>>]
Num(n) == Operand("num", n, NoToken)
Sym(t) == Operand("sym", 0, t)
Prm(n) == Operand("prm", n, NoToken)
Dot    == Operand("dot", 0, NoToken)
Dsp(t) == Operand("dsp", 0, t)
Expr(a, o, b) == [Operand("expr", 0, NoToken) EXCEPT !.op = o, !.terms = <<a, b>>]
Blank == [op |-> "NONE", label |-> NoToken, name |-> NoToken,
          code |-> UNUSED, args |-> <<>>, n |-> 0, tail |-> 0, file |-> ""]

(* What can stand in a text: an origin within the memory (checkoctal), a   *)
(* constant of one operand, a word of at most one, parameters that exist.  *)
(* An instruction with an operand has no bits where its address goes, or   *)
(* none where its displacement goes, so that | is +.  Macros have names    *)
(* without %, and the arguments of a call neither % nor parameters: there  *)
(* are none outside macro bodies, and pass 1 does not survive a call in    *)
(* the body of a macro it expands.                                         *)
Tokens == {NoToken} \cup [sym : STRING \ {""}, local : BOOLEAN]
OperandOf(kinds, ns) ==
  [kind : kinds, n : ns, tok : Tokens, op : {""}, terms : {<<>>}]
Terms == OperandOf({"num", "sym", "dot", "dsp"}, Int) \cup OperandOf({"prm"}, 1 .. MAXPARA)
Operands == Terms \cup [kind : {"expr"}, n : Int, tok : Tokens, op : {"+", "-", "*"},
                        terms : Terms \X Terms]
Ops == {"NONE", "ORG", "PAGE", "TEXT", "ZMEM", "EQU", "CODE", "CALL", "MACRO",
        "ENDM", "FILE", "EOA"}
Line == [op : Ops, label : Tokens, name : Tokens, code : Nat,
         args : Seq(Operands), n : Nat, tail : Nat, file : STRING]
Used(a) == {a} \cup Range(a.terms)
Plain(a) == \A x \in Used(a) : x.kind # "prm" /\ ~x.tok.local
RoomFor(code, a) == \/ code % (2 * PAGE8) = 0
                    \/ a.kind = "dsp" /\ code % (MAXDSP + 1) = 0
WellFormed(l) == /\ l.op = "ORG" => l.n < MEM8SIZ
                 /\ l.op = "ZMEM" => l.args # <<>> /\ l.args[1] \in Terms
                 /\ l.op \in {"CODE", "EQU"} =>
                      /\ Len(l.args) <= 1
                      /\ l.args # <<>> /\ l.code # UNUSED => RoomFor(l.code, l.args[1])
                 /\ l.op \in {"MACRO", "CALL", "ZMEM", "EQU"} => l.name # NoToken
                 /\ l.op \in {"MACRO", "CALL"} => ~l.name.local
                 /\ l.op = "CALL" => /\ Len(l.args) <= MAXPARA
                                     /\ \A i \in DOMAIN l.args : Plain(l.args[i])
Lines == {l \in Line : WellFormed(l)}
(* No operand is the name of a macro: valueof would turn to its lines.     *)
MacroNames(s) == {s[i].name : i \in {j \in DOMAIN s : s[j].op = "MACRO"}}
Mentions(s, t) == \E i \in DOMAIN s : \E k \in DOMAIN s[i].args :
                    \E x \in Used(s[i].args[k]) : x.tok = t
IsText(t) == /\ Main \in DOMAIN t /\ \A f \in DOMAIN t : t[f] \in Seq(Lines)
             /\ \A f, g \in DOMAIN t : \A m \in MacroNames(t[f]) : ~Mentions(t[g], m)

ASSUME TextsAssumption == \A t \in Texts : IsText(t)

VARIABLES pc8, memtop, mem8, zmemptr,
          symtab,      \* the symbols, in the order they were inserted
          slot,        \* the entry at symptr, not yet in the table
          curmac,      \* entry of the macro last called, 0 before the first
          macromode, macrohead,
          macline,     \* where the next line of a macro body goes
          depth,       \* calls of symscan inside symscan
          macpara,     \* values of the parameters of the macro last called
          given,       \* parameters that have ever been given a name
          errcnt

asmVars == <<pc8, memtop, mem8, zmemptr, symtab, slot, curmac, macromode,
             macrohead, macline, depth, macpara, given, errcnt>>
vars == <<readVars, asmVars>>
symVars == <<symtab, slot, curmac>>
macVars == <<macromode, macrohead, macline, depth, macpara, given>>

Entry(s, type, loc) == [symbol |-> s, type |-> type, location |-> loc,
                        refcnt |-> 0, macdef |-> <<>>]

AssemblerInit ==
  /\ ReaderInit
  /\ pc8 = 0 /\ memtop = 0 /\ mem8 = [a \in 0 .. MEM8SIZ - 1 |-> 0]
  /\ zmemptr = ZMEMMAX
  /\ symtab = <<>> /\ slot = Entry(<<"", 0>>, "addr", 0) /\ curmac = 0
  /\ macromode = FALSE /\ macrohead = FALSE /\ macline = "NULL"
  /\ depth = 0 /\ macpara = [i \in 1 .. MAXPARA |-> 0] /\ given = 0
  /\ errcnt = 0

(* macnify: the % of a name is replaced by the number of the macro call.   *)
(* A name without % has 0 here, and one of call n has n + 1.               *)
Name(t) == <<t.sym, IF t.local THEN symtab[curmac].refcnt + 1 ELSE 0>>

(* The place of a name in the table, 0 when it is not there.               *)
Places(name) == {i \in DOMAIN symtab : symtab[i].symbol = name}
Find(t) == IF Places(Name(t)) = {} THEN 0 ELSE Min(Places(Name(t)))
Known(t) == Find(t) # 0
IsMacro(t) == Known(t) /\ symtab[Find(t)].type = "macro"

(* valueof: what an operand is.  An expression is a value whatever it is   *)
(* made of, and nobody looks for the distance to an unknown label.         *)
Type(a) ==
  CASE a.kind = "sym" /\ ~Known(a.tok) -> "TERROR"
    [] a.kind = "dsp" /\ ~Known(a.tok) -> "TISDSP"
    [] a.kind = "dsp" /\ Known(a.tok)
         /\ pc8 - symtab[Find(a.tok)].location \notin 0 .. MAXDSP -> "TISOVR"
    [] OTHER -> "TISVAL"
Resolves(a) == Type(a) = "TISVAL"
BadOperand(a) == Type(a) \in {"TERROR", "TISOVR"}

(* The value valueof leaves; that of an unknown symbol is the one before.  *)
Value(a, before) ==
  CASE a.kind = "num" -> a.n
    [] a.kind = "prm" -> macpara[a.n]
    [] a.kind = "dot" -> pc8
    [] a.kind = "dsp" -> pc8 - (IF Known(a.tok) THEN symtab[Find(a.tok)].location ELSE 0)
    [] a.kind = "sym" /\ Known(a.tok) -> symtab[Find(a.tok)].location
    [] OTHER -> before
Apply(op, x, y) == CASE op = "+" -> x + y [] op = "-" -> x - y [] op = "*" -> x * y
ValueOf(a, before) ==
  IF a.kind = "expr"
  THEN LET x == Value(a.terms[1], before) IN Apply(a.op, x, Value(a.terms[2], x))
  ELSE Value(a, before)

(* symtab_next marks the end of the table behind the last of n entries.    *)
(* A full table has no place for the mark: what the program does after     *)
(* that store is left open.                                                *)
MarkEnd(n, next) == at' \in {next} \cup (IF n >= SYMSIZ THEN {"wild"} ELSE {})

(* symtab_insert and symtab_next: entry e is added; a name that is there   *)
(* already is an error, a full table the end of the program.               *)
Duplicate(e) == \E i \in DOMAIN symtab : symtab[i].symbol = e.symbol
Insert(e, next) ==
  IF Len(symtab) >= SYMSIZ
  THEN at' = "fatal" /\ UNCHANGED <<symtab, errcnt>>
  ELSE /\ symtab' = Append(symtab, e)
       /\ errcnt' = errcnt + (IF Duplicate(e) THEN 1 ELSE 0)
       /\ MarkEnd(Len(symtab) + 1, next)

(* The address part of a word: the page of v must be this one or page 0.   *)
Page(v) == (v % MEM8SIZ) \div PAGE8
OffPage(v) == Page(v) # 0 /\ Page(v) # Page(pc8)
InPage(v) == (IF Page(v) # 0 THEN PAGE8 ELSE 0) + (v % PAGE8)

(* The word of a line without symbols of its own: the operand alone, the   *)
(* instruction alone, or the instruction with the operand's address.  An   *)
(* operand without value or off the page is an error.                      *)
Loc(code, args, unset) ==
  LET v == IF Resolves(Head(args)) THEN ValueOf(Head(args), unset) ELSE 0
  IN  CASE args = <<>> -> (IF code = UNUSED THEN 0 ELSE code)
        [] args # <<>> /\ code = UNUSED -> v % MEM8SIZ
        [] args # <<>> /\ code # UNUSED -> code + InPage(v)
BadArg(code, a, unset) ==
  BadOperand(a) \/ (code # UNUSED /\ Resolves(a) /\ OffPage(ValueOf(a, unset)))
LocErrors(code, args, unset) ==
  Cardinality({i \in DOMAIN args : BadArg(code, args[i], unset)})

(* One word of pass 2.  pc8 may have run past the last word: what a store  *)
(* there does is left open.  The slip: not looking.                        *)
DepositAnywhere(w) ==
  mem8' = [mem8 EXCEPT ![pc8] = w] /\ pc8' = pc8 + 1 /\ at' = "read"
Deposit(w) ==
  IF pc8 >= MEM8SIZ
  THEN at' = "wild" /\ UNCHANGED <<mem8, pc8>>
  ELSE mem8' = [mem8 EXCEPT ![pc8] = w] /\ pc8' = pc8 + 1 /\ at' = "read"

(* memtop follows the words of code lines; the slip of looking before the  *)
(* word is counted.                                                        *)
MemtopEarly == memtop' = IF pc8 > memtop THEN pc8 ELSE memtop
Memtop == memtop' = IF pc8' > memtop THEN pc8' ELSE memtop

(***************************************************************************)
(* The lines.                                                              *)
(***************************************************************************)
(* Operands are looked at in pass 2, those of a value symbol in pass 1.    *)
Labelled == pass = 1 /\ oline.label # NoToken
Evaluated == \/ pass = 2 /\ oline.op \in {"CODE", "CALL", "ZMEM"}
             \/ pass = 1 /\ oline.op = "EQU" /\ ~Labelled

(* A name with % before any macro was called has no call to be numbered    *)
(* after, and a parameter nobody ever gave has no name to be listed: the   *)
(* program follows a NULL pointer.                                         *)
NoCall(t) == t.local /\ curmac = 0
NotGiven(a) == a.kind = "prm" /\ a.n > given
Dangling ==
  /\ ~macromode
  /\ \/ NoCall(oline.label)
     \/ Evaluated /\ \/ NoCall(oline.name)
                     \/ \E i \in DOMAIN oline.args : \E x \in Used(oline.args[i]) :
                          NoCall(x.tok) \/ NotGiven(x)
Stray ==
  /\ at = "line" /\ Dangling
  /\ at' = "wild"
  /\ UNCHANGED <<text, infile, files, macroptr, oline, run, pass, asmVars>>

(* In pass 1 a label is entered and the rest of the line scanned; in a     *)
(* macro definition it hides the rest.                                     *)
Ready == at = "line" /\ ~Dangling /\ ~Labelled
Next1 == IF pass = 1 THEN "scanned" ELSE "read"
Op(o) == Ready /\ oline.op = o
sameReader == UNCHANGED <<text, infile, files, macroptr, oline, run, pass>>
sameMemory == UNCHANGED <<memtop, mem8, zmemptr>>

Label ==
  /\ at = "line" /\ ~Dangling /\ Labelled /\ ~macromode
  /\ oline' = [oline EXCEPT !.label = NoToken]
  /\ Insert(Entry(Name(oline.label), "addr", pc8), "line")
  /\ UNCHANGED <<text, infile, files, macroptr, run, pass, pc8, memtop, mem8,
                 zmemptr, slot, curmac, macVars>>

(* Lines that do nothing: empty ones, and what a macro definition or the   *)
(* other pass takes care of.                                               *)
Hidden == at = "line" /\ Labelled /\ macromode
Ignored ==
  /\ \/ Hidden
     \/ Op("NONE")
     \/ Op("EQU") /\ (macromode \/ pass = 2)
     \/ Op("ZMEM") /\ (macromode \/ pass = 1)
     \/ Op("CODE") /\ macromode
     \/ Op("CALL") /\ macromode /\ (pass = 2 \/ ~IsMacro(oline.name))
  /\ at' = Next1
  /\ sameReader /\ UNCHANGED asmVars

(* "*nnnn" and PAGE work inside a macro definition too.                    *)
Org ==
  /\ Op("ORG")
  /\ pc8' = oline.n
  /\ at' = Next1
  /\ sameReader /\ sameMemory /\ UNCHANGED <<symVars, macVars, errcnt>>

NextPage ==
  /\ Op("PAGE")
  /\ pc8' = (pc8 \div PAGE8 + 1) * PAGE8
  /\ at' = IF pc8' >= MEM8SIZ THEN "fatal" ELSE Next1
  /\ sameReader /\ sameMemory /\ UNCHANGED <<symVars, macVars, errcnt>>

(* TEXT: a word with the length and a word for every two of n characters.  *)
(* The length is counted up to the last delimiter of the line, tail        *)
(* characters behind the one that ends the text (in a comment, say).       *)
TextWords == (oline.n + 1) \div 2
Letters == 1
TextScan ==
  /\ Op("TEXT") /\ pass = 1
  /\ pc8' = pc8 + 1 + TextWords
  /\ at' = Next1
  /\ sameReader /\ sameMemory /\ UNCHANGED <<symVars, macVars, errcnt>>

TextAssemble ==
  /\ Op("TEXT") /\ pass = 2
  /\ IF pc8 + TextWords >= MEM8SIZ
       THEN at' = "wild" /\ UNCHANGED <<mem8, pc8>>
       ELSE /\ mem8' = [a \in DOMAIN mem8 |->
                         IF a = pc8 THEN oline.n + oline.tail
                         ELSE IF a \in pc8 + 1 .. pc8 + TextWords THEN Letters
                         ELSE mem8[a]]
            /\ pc8' = pc8 + 1 + TextWords
            /\ at' = Next1
  /\ sameReader /\ UNCHANGED <<memtop, zmemptr, symVars, macVars, errcnt>>

(* ZMEM: a constant of the zero page, shared by all that have its value,   *)
(* else put below the others; its symbol is known from here on, in pass 2  *)
(* only.  The value of an unknown symbol is that of a variable never set.  *)
(* The slip: any constant will do.                                         *)
SharingAll(val) == zmemptr + 1 .. ZMEMMAX
Sharing(val) == {p \in zmemptr + 1 .. ZMEMMAX : mem8[p] = val}
Zmem ==
  /\ Op("ZMEM") /\ pass = 2 /\ ~macromode
  /\ LET a == Head(oline.args)
     IN  \E val \in {Value(a, unset) : unset \in Garbage} :
           IF Sharing(val) # {}
           THEN /\ Insert(Entry(Name(oline.name), "addr", Max(Sharing(val))),
                          "read")
                /\ UNCHANGED <<mem8, zmemptr>>
           ELSE IF zmemptr < 0
           THEN at' = "wild" /\ UNCHANGED <<mem8, zmemptr, symtab, errcnt>>
           ELSE /\ mem8' = [mem8 EXCEPT ![zmemptr] = val]
                /\ zmemptr' = zmemptr - 1
                /\ Insert(Entry(Name(oline.name), "addr", zmemptr), "read")
  /\ sameReader /\ UNCHANGED <<pc8, memtop, slot, curmac, macVars>>

(* A value symbol: the rest of the line is assembled in pass 1.            *)
Equ ==
  /\ Op("EQU") /\ pass = 1 /\ ~macromode
  /\ IF Len(symtab) >= SYMSIZ
       THEN at' = "fatal" /\ UNCHANGED <<symtab, errcnt>>
       ELSE \E unset \in Garbage :
              LET e == Entry(Name(oline.name), "litr",
                             Loc(oline.code, oline.args, unset))
              IN  /\ symtab' = Append(symtab, e)
                  /\ errcnt' = errcnt + LocErrors(oline.code, oline.args, unset)
                                       + (IF Duplicate(e) THEN 1 ELSE 0)
                  /\ MarkEnd(Len(symtab) + 1, Next1)
  /\ sameReader /\ sameMemory /\ UNCHANGED <<pc8, slot, curmac, macVars>>

(* A word in pass 1: counted.  A name that is no macro yet is a word.      *)
Counted ==
  /\ pass = 1 /\ ~macromode
  /\ \/ Op("CODE")
     \/ Op("CALL") /\ ~IsMacro(oline.name)
  /\ pc8' = pc8 + 1
  /\ at' = Next1
  /\ sameReader /\ sameMemory /\ UNCHANGED <<symVars, macVars, errcnt>>

(* A word in pass 2.                                                       *)
Assembled ==
  /\ Op("CODE") /\ pass = 2 /\ ~macromode
  /\ \E unset \in Garbage :
       /\ Deposit(Loc(oline.code, oline.args, unset))
       /\ errcnt' = errcnt + LocErrors(oline.code, oline.args, unset)
  /\ Memtop
  /\ sameReader /\ UNCHANGED <<zmemptr, symVars, macVars>>

(* A name that is not a macro: its value, an error when it has none.  The  *)
(* first value is the word, and the address of each one after it goes into *)
(* the word bit by bit.                                                    *)
Unset(word) == (word \div MEM8SIZ) % 2 = 1
Joined(word, k, unset) ==
  IF k > Len(oline.args) \/ ~Resolves(oline.args[k]) THEN word
  ELSE LET v == ValueOf(oline.args[k], unset)
       IN  IF Unset(word) THEN v ELSE Bits!BitOr(word, InPage(v))
BadJoin(word, k, unset) ==
  BadArg(IF Unset(word) THEN UNUSED ELSE 0, oline.args[k], unset)

NotAMacro ==
  /\ Op("CALL") /\ pass = 2 /\ ~macromode /\ ~IsMacro(oline.name)
  /\ \E unset \in Garbage :
       LET own == IF Known(oline.name) THEN symtab[Find(oline.name)].location ELSE UNUSED
           words == <<own, Joined(own, 1, unset)>>
           bad == {k \in DOMAIN oline.args : BadJoin(words[k], k, unset)}
       IN  /\ Deposit(Joined(words[2], 2, unset) % MEM8SIZ)
           /\ errcnt' = errcnt + Cardinality(bad) + (IF Known(oline.name) THEN 0 ELSE 1)
  /\ Memtop
  /\ sameReader /\ UNCHANGED <<zmemptr, symVars, macVars>>

Called == Find(oline.name)
Calling == /\ curmac' = Called
           /\ symtab' = [symtab EXCEPT ![Called].refcnt = @ + 1]
           /\ macroptr' = symtab[Called].macdef

(* A macro call in pass 1: its lines are scanned by symscan calling        *)
(* itself, in a macro definition as well.                                  *)
Expand ==
  /\ Op("CALL") /\ pass = 1 /\ IsMacro(oline.name)
  /\ Calling
  /\ depth' = depth + 1
  /\ at' = IF depth = STACK THEN "wild" ELSE "scanned"
  /\ sameMemory
  /\ UNCHANGED <<text, infile, files, oline, run, pass, pc8, slot, macromode,
                 macrohead, macline, macpara, given, errcnt>>

(* A macro call in pass 2: the parameters are evaluated, the first to its  *)
(* value and the others to an in-page address, and nextline gives the      *)
(* lines of the body next.                                                 *)
Para(i, unset) ==
  IF i > Len(oline.args) THEN UNUSED
  ELSE IF ~Resolves(oline.args[i]) THEN (IF i = 1 THEN UNUSED ELSE 0)
  ELSE IF i = 1 THEN ValueOf(oline.args[i], unset)
  ELSE InPage(ValueOf(oline.args[i], unset))
BadPara(i, unset) == BadArg(IF i = 1 THEN UNUSED ELSE 0, oline.args[i], unset)

Call ==
  /\ Op("CALL") /\ pass = 2 /\ ~macromode /\ IsMacro(oline.name)
  /\ Calling
  /\ \E unset \in Garbage :
       /\ macpara' = [i \in 1 .. MAXPARA |-> Para(i, unset)]
       /\ given' = IF Len(oline.args) > given THEN Len(oline.args) ELSE given
       /\ errcnt' = errcnt + Cardinality({i \in DOMAIN oline.args : BadPara(i, unset)})
  /\ memtop' = IF pc8 > memtop THEN pc8 ELSE memtop
  /\ at' = "read"
  /\ UNCHANGED <<text, infile, files, oline, run, pass, pc8, mem8, zmemptr,
                 slot, macromode, macrohead, macline, depth>>

(* MACRO starts a body (anew, inside another definition), ENDM ends it;    *)
(* pass 2 only notes that the lines between are not code.                  *)
Macro ==
  /\ Op("MACRO")
  /\ macromode' = TRUE
  /\ IF pass = 2
       THEN at' = "read" /\ UNCHANGED <<slot, macrohead, macline, errcnt>>
       ELSE LET e == Entry(Name(oline.name), "macro", 0)
            IN  /\ at' = IF Len(symtab) >= SYMSIZ THEN "fatal" ELSE "scanned"
                /\ slot' = e
                /\ errcnt' = errcnt + (IF Duplicate(e) THEN 1 ELSE 0)
                /\ macline' = IF macline = "NULL" THEN "NULL" ELSE "LOST"
                /\ macrohead' = TRUE
  /\ sameReader /\ sameMemory
  /\ UNCHANGED <<pc8, symtab, curmac, depth, macpara, given>>

Endm ==
  /\ Op("ENDM")
  /\ macromode' = FALSE
  /\ IF pass = 2
       THEN at' = "read" /\ UNCHANGED <<symtab, slot, macline>>
       ELSE /\ symtab' = Append(symtab, slot)
            /\ slot' = Entry(<<"", 0>>, "addr", 0)
            /\ macline' = "NULL"
            /\ MarkEnd(Len(symtab) + 1, "scanned")
  /\ sameReader /\ sameMemory
  /\ UNCHANGED <<pc8, curmac, macrohead, depth, macpara, given, errcnt>>

Files ==
  /\ Ready
  /\ FileIncl(Next1) \/ EndOfAssembly(Next1)
  /\ UNCHANGED asmVars

Line1 == \/ Stray \/ Label \/ Ignored \/ Org \/ NextPage \/ TextScan \/ TextAssemble
         \/ Zmem \/ Equ \/ Counted \/ Assembled \/ NotAMacro \/ Expand \/ Call
         \/ Macro \/ Endm \/ Files

(***************************************************************************)
(* After a line of pass 1.                                                 *)
(***************************************************************************)
(* The next line of the macro being scanned is read into oline ...         *)
ExpandLine ==
  /\ at = "scanned" /\ depth > 0 /\ macroptr # <<>>
  /\ oline' = Head(macroptr) /\ macroptr' = Tail(macroptr)
  /\ at' = "line"
  /\ UNCHANGED <<text, infile, files, run, pass, asmVars>>

(* ... until there is none.  A call inside a call leaves macroptr NULL,    *)
(* and the outer one follows it.  The slip: the call is not over.          *)
ReturnAgain ==
  /\ at = "scanned" /\ depth > 0 /\ macroptr = <<>>
  /\ UNCHANGED vars
Return ==
  /\ at = "scanned" /\ depth > 0 /\ macroptr = <<>>
  /\ IF depth = 1 THEN depth' = 0 /\ at' = "scanned"
                  ELSE at' = "wild" /\ UNCHANGED depth
  /\ UNCHANGED <<text, infile, files, macroptr, oline, run, pass, pc8, memtop,
                 mem8, zmemptr, symVars, macromode, macrohead, macline,
                 macpara, given, errcnt>>

(* main keeps oline as a line of the macro being defined.                  *)
KeepLine ==
  /\ at = "scanned" /\ depth = 0
  /\ IF macromode /\ ~macrohead
       THEN /\ slot' = IF macline = "LOST" THEN slot
                       ELSE [slot EXCEPT !.macdef = Append(@, oline)]
            /\ macline' = IF macline = "NULL" THEN "BODY" ELSE macline
       ELSE UNCHANGED <<slot, macline>>
  /\ macrohead' = FALSE
  /\ at' = "read"
  /\ sameReader /\ sameMemory
  /\ UNCHANGED <<pc8, symtab, curmac, macromode, depth, macpara, given, errcnt>>

(***************************************************************************)
(* The passes.                                                             *)
(***************************************************************************)
(* The slip: the macro calls are numbered on from the first pass.          *)
SecondPassStale ==
  /\ errcnt = 0
  /\ Rewind
  /\ mem8' = [a \in DOMAIN mem8 |-> 0] /\ memtop' = 0 /\ pc8' = 0
  /\ UNCHANGED <<zmemptr, symVars, macVars, errcnt>>
SecondPass ==
  /\ errcnt = 0
  /\ Rewind
  /\ symtab' = [i \in DOMAIN symtab |-> [symtab[i] EXCEPT !.refcnt = 0]]
  /\ mem8' = [a \in DOMAIN mem8 |-> 0] /\ memtop' = 0 /\ pc8' = 0
  /\ UNCHANGED <<zmemptr, slot, curmac, macVars, errcnt>>

(* Nothing is written when there was an error, or no code.                 *)
Failed == errcnt > 0 \/ (pass = 2 /\ memtop = 0)
Abort ==
  /\ at = "end" /\ Failed
  /\ at' = "fatal"
  /\ sameReader /\ UNCHANGED asmVars

Save ==
  /\ ~Failed
  /\ Finish
  /\ UNCHANGED asmVars

(* The words of the image: up to memtop, in pairs.                         *)
Image == [a \in 0 .. 2 * ((memtop + 1) \div 2) - 1 |-> mem8[a]]

AssemblerNext ==
  \/ Fetch /\ UNCHANGED asmVars
  \/ Line1
  \/ ExpandLine \/ Return \/ KeepLine
  \/ SecondPass \/ Abort \/ Save

AssemblerSpec ==
  AssemblerInit /\ [][AssemblerNext]_vars /\ WF_vars(AssemblerNext)

AssemblerTypeOK ==
  /\ ReaderTypeOK
  /\ pc8 \in Nat /\ (pass = 2 /\ at \notin Stopped => pc8 <= MEM8SIZ)
  /\ memtop \in 0 .. MEM8SIZ /\ zmemptr \in 0 - 1 .. ZMEMMAX
  /\ mem8 \in [0 .. MEM8SIZ - 1 -> Int] /\ macpara \in [1 .. MAXPARA -> Int]
  /\ given \in 0 .. MAXPARA
  /\ \A i \in DOMAIN symtab : symtab[i].location \in Nat /\ symtab[i].refcnt \in Nat
  /\ curmac \in 0 .. Len(symtab) /\ depth \in 0 .. STACK + 1 /\ errcnt \in Nat
=============================================================================
