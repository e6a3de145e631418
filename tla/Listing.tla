------------------------------- MODULE Listing -------------------------------
(***************************************************************************)
(* The listing, through which the simulator knows the source: pot -l       *)
(* writes it in pass 2 (assemble, po_zmem and the end of main in pot.c),   *)
(* pepsi -s reads the lines and the symbols back from it (main, pepsi.c).  *)
(* A line of the file is its address, the source line it shows and the     *)
(* label in it; the rest of its text matters to neither program.           *)
(***************************************************************************)
EXTENDS Assembler, TLC

VARIABLES lst, tmp,     \* the listing file and the temporary file
          zlabel,       \* the names of each constant, the last one first
          srctext,      \* pepsi's text: what is shown at an address
          symbols,      \* pepsi's symbols, in the order they were found
          source        \* what became of reading the file: none, read or wild

lstVars   == <<lst, tmp, zlabel, srctext, symbols, source>>
pepsiVars == <<srctext, symbols, source>>

NoLabel == Name(NoToken)
InFile(a, src, label) == [addr |-> a, src |-> src, label |-> label]

ListingInit ==
  /\ AssemblerInit
  /\ lst = <<>> /\ tmp = <<>> /\ zlabel = [a \in 0 .. ZMEMMAX |-> <<>>]
  /\ srctext = <<>> /\ symbols = <<>> /\ source = "none"

(***************************************************************************)
(* pot                                                                     *)
(***************************************************************************)
(* In the body of a macro being defined the % of a label stays.            *)
LabelShown == IF macromode /\ oline.label.local THEN <<oline.label.sym, 0 - 1>>
              ELSE Name(oline.label)

(* Every line is listed once, with the location counter as a new origin or *)
(* page leave it, but before its word is counted.  TEXT adds lines without *)
(* source for its words.                                                   *)
FirstAt == IF oline.op \in {"ORG", "PAGE"} THEN pc8' ELSE pc8
LastListed == FirstAt + (IF oline.op = "TEXT" THEN TextWords ELSE 0)
LineAt(a) == IF a = FirstAt THEN InFile(a, oline, LabelShown) ELSE InFile(a, Blank, NoLabel)
Listed(m, n) == [k \in 1 .. n - m + 1 |-> LineAt(m + k - 1)]

(* Lines behind the zero page wait for the constants to be listed.         *)
LstToTmp == /\ lst' = lst \o Listed(FirstAt, Min({LastListed, ZMEMMAX}))
            /\ tmp' = tmp \o Listed(Max({FirstAt, ZMEMMAX + 1}), LastListed)

(* A slip: only the first name of a constant is kept.                      *)
NamedOnce(a, name) == IF zlabel[a] = <<>> THEN <<name>> ELSE zlabel[a]
NamedAlso(a, name) == <<name>> \o zlabel[a]

ZmemLabel ==
  zlabel' = IF oline.op = "ZMEM" /\ symtab' # symtab
            THEN [zlabel EXCEPT ![Last(symtab').location] =
                    NamedAlso(Last(symtab').location, Name(oline.name))]
            ELSE zlabel

ListLine == IF pass = 2 /\ at = "line" /\ ~Dangling THEN LstToTmp /\ ZmemLabel
                                       ELSE UNCHANGED <<lst, tmp, zlabel>>

Translate == AssemblerNext /\ ListLine /\ UNCHANGED pepsiVars

(* The file: the zero page, its constants from the lowest, the rest.       *)
ConstantsOf(a) == [k \in DOMAIN zlabel[a] |-> InFile(a, [Blank EXCEPT !.op = "ZMEM"], zlabel[a][k])]
ZmemList == FlattenSeq([k \in 1 .. ZMEMMAX - zmemptr |-> ConstantsOf(zmemptr + k)])
File == lst \o ZmemList \o tmp

(***************************************************************************)
(* pepsi                                                                   *)
(***************************************************************************)
(* The line before is stored when the address changes, at its own address, *)
(* and before the first line at 0 whatever was in the buffer.              *)
(* A slip: it is stored at the address that comes.                         *)
Stored(t, a, src) == [b \in (DOMAIN t) \cup {a} |-> IF b = a THEN src ELSE t[b]]
LineBeforeNext(r, l) == Stored(r.text, l.addr, r.last)
LineBefore(r, l) == Stored(r.text, IF r.i < 0 THEN 0 ELSE r.i, r.last)

ReadLine(r, l) ==
  [i       |-> l.addr,
   last    |-> l.src,
   text    |-> IF l.addr # r.i THEN LineBefore(r, l) ELSE r.text,
   symbols |-> IF l.label = NoLabel THEN r.symbols
               ELSE Append(r.symbols, [symbol |-> l.label, location |-> l.addr])]

(* pepsi counts the words of the image, an even number, in its size.       *)
Len8 == Cardinality(DOMAIN Image)

(* The lines of the file, up to the k-th, from an empty buffer.            *)
Buffer == [i |-> 0 - 1, last |-> Blank, text |-> <<>>, symbols |-> <<>>]
Reads(file) ==
  LET upto[k \in 0 .. Len(file)] ==
        IF k = 0 THEN Buffer ELSE ReadLine(upto[k - 1], file[k])
  IN  upto[Len(file)]

(* text has a place for every word of the image, and malloc leaves one     *)
(* more behind it; a line with an address beyond is stored wildly.  The    *)
(* file always has a line, and its last is stored at the end: the empty    *)
(* line pot ends it with leaves that line in the buffers, from SRCOFF on.  *)
ReadListing ==
  /\ at = "done" /\ source = "none"
  /\ \E file \in {File} :
       IF \E k \in DOMAIN file : file[k].addr > Len8
       THEN source' = "wild" /\ UNCHANGED <<srctext, symbols>>
       ELSE \E r \in {Reads(file)} :
              /\ srctext' = Stored(r.text, r.i, r.last)
              /\ symbols' = r.symbols
              /\ source' = "read"
  /\ UNCHANGED <<vars, lst, tmp, zlabel>>

(* getparam: the first symbol with the name.                               *)
Location(name) ==
  symbols[SelectInSeq(symbols, LAMBDA s : s.symbol = name)].location
Listable(name) == \E k \in DOMAIN symbols : symbols[k].symbol = name

ListingNext == Translate \/ ReadListing
=============================================================================
