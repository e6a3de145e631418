-------------------------- MODULE AssemblerProofs --------------------------
(***************************************************************************)
(* What holds of the assembler for every set of texts, every size of its   *)
(* tables and of the memory: the range of its state; that a constant of    *)
(* ZMEM keeps its value; that a label stands in pass 2 where pass 1 put    *)
(* it; that the image holds the words the lines of code stand for; and     *)
(* that pepsi shows at their addresses the lines they came from.           *)
(***************************************************************************)
EXTENDS MCAssembler, WellFoundedInduction, FiniteSetTheorems, SequenceTheorems,
        TLAPS

(***************************************************************************)
(* The least and the greatest of a set of numbers                          *)
(***************************************************************************)
(* Every set of natural numbers has a least one.                           *)
LEMMA Least ==
  ASSUME NEW T \in SUBSET Nat, T # {}
  PROVE  \E x \in T : \A y \in T : x <= y
<1> DEFINE R == {p \in Nat \X Nat : p[1] < p[2]}
<1>1. IsWellFoundedOn(R, Nat)
  BY NatLessThanWellFounded DEF OpToRel
<1>2. \A x, y \in Nat : <<y, x>> \in R <=> y < x
  OBVIOUS
<1> HIDE DEF R
<1>3. PICK x \in T : \A y \in T : ~ (<<y, x>> \in R)
  <2>1. T \subseteq Nat
    OBVIOUS
  <2> QED
    BY <1>1, <2>1, WFMin, Zenon
<1>4. \A y \in T : ~ (y < x)
  BY <1>2, <1>3
<1> QED
  BY <1>3, <1>4

LEMMA MinLeast ==
  ASSUME NEW T \in SUBSET Nat, T # {}
  PROVE  Min(T) \in T /\ \A y \in T : Min(T) <= y
BY Least DEF Min

LEMMA MaxGreatest ==
  ASSUME NEW n \in Nat, NEW T \in SUBSET (0 .. n), T # {}
  PROVE  Max(T) \in T /\ \A y \in T : Max(T) >= y
<1> DEFINE C == {n - y : y \in T}
<1>1. C \in SUBSET Nat /\ C # {}
  <2>1. \A y \in T : n - y \in Nat
    OBVIOUS
  <2>2. PICK z \in T : TRUE
    OBVIOUS
  <2> QED
    BY <2>1, <2>2
<1>2. PICK c \in C : \A d \in C : c <= d
  BY <1>1, Least
<1>3. PICK x \in T : c = n - x
  BY <1>2
<1>4. \A y \in T : n - x <= n - y
  BY <1>2, <1>3
<1>5. \A y \in T : x >= y
  BY <1>4
<1> QED
  BY <1>5 DEF Max

(***************************************************************************)
(* Quotients and remainders                                                *)
(***************************************************************************)
LEMMA DivMod ==
  ASSUME NEW p \in Nat \ {0}, NEW q \in Int, NEW r \in 0 .. p - 1
  PROVE  (p * q + r) \div p = q /\ (p * q + r) % p = r
OBVIOUS

LEMMA DivParts ==
  ASSUME NEW p \in Nat \ {0}, NEW v \in Int
  PROVE  /\ v \div p \in Int /\ v % p \in 0 .. p - 1 /\ v = p * (v \div p) + (v % p)
         /\ v \in Nat => v \div p \in Nat
OBVIOUS

(* A remainder within a remainder.                                         *)
LEMMA Nested ==
  ASSUME NEW p \in Nat \ {0}, NEW q \in Nat \ {0}, NEW v \in Int, NEW m \in Nat \ {0}, m = p * q
  PROVE  v % m = p * ((v % m) \div p) + (v % p)
<1>1. PICK k \in Int, w \in Nat : w = v % m /\ v = m * k + w
  <2>1. v \div m \in Int /\ v % m \in 0 .. m - 1 /\ v = m * (v \div m) + (v % m)
    BY DivParts
  <2>2. v % m \in Nat
    BY <2>1
  <2> QED
    BY <2>1, <2>2
<1>2. PICK i \in Int, r \in 0 .. p - 1 : w = p * i + r /\ i = w \div p
  BY DivParts
<1>3. q * k \in Int /\ m * k = p * (q * k)
  OBVIOUS
<1>4. PICK n \in Int : n = q * k /\ v = p * (n + i) + r
  <2>1. \A x, y, z \in Int : x * (y + z) = x * y + x * z
    OBVIOUS
  <2>2. PICK n \in Int : n = q * k /\ v = p * n + (p * i + r)
    BY <1>1, <1>2, <1>3
  <2>3. p * (n + i) = p * n + p * i
    BY <2>1
  <2>4. \A x, y \in Int : x + (y + r) = (x + y) + r
    OBVIOUS
  <2>5. p * n \in Int /\ p * i \in Int
    OBVIOUS
  <2> QED
    BY <2>2, <2>3, <2>4, <2>5
<1>5. v % p = r
  BY <1>4, DivMod
<1> QED
  BY <1>1, <1>2, <1>5

(***************************************************************************)
(* Sizes                                                                   *)
(***************************************************************************)
LEMMA Sizes ==
  /\ PAGE8 \in Nat \ {0} /\ PAGES \in Nat \ {0} /\ SYMSIZ \in Nat \ {0}
  /\ STACK \in Nat \ {0} /\ MAXNEST \in Nat \ {0} /\ MAXDSP \in Nat
  /\ MEM8SIZ \in Nat \ {0} /\ ZMEMMAX \in Nat /\ ZMEMMAX < MEM8SIZ
<1>1. /\ PAGE8 \in Nat \ {0} /\ PAGES \in Nat \ {0} /\ SYMSIZ \in Nat \ {0}
      /\ STACK \in Nat \ {0} /\ MAXNEST \in Nat \ {0} /\ MAXDSP \in Nat
  BY AssemblerAssumption, ReaderAssumption
<1>2. \A m, n \in Nat \ {0} : m * n \in Nat /\ m * n >= m
  <2> SUFFICES ASSUME NEW m \in Nat \ {0}, NEW n \in Nat \ {0}
               PROVE  m * n \in Nat /\ m * n >= m
    OBVIOUS
  <2>1. m * n = m * (n - 1) + m
    OBVIOUS
  <2>2. m * (n - 1) \in Nat
    OBVIOUS
  <2> QED
    BY <2>1, <2>2
<1>3. PAGE8 * PAGES \in Nat /\ PAGE8 * PAGES >= PAGE8
  BY <1>1, <1>2
<1> QED
  BY <1>1, <1>3 DEF MEM8SIZ, ZMEMMAX

(***************************************************************************)
(* The symbol table                                                        *)
(***************************************************************************)
(* Entries whose symbols are in S.                                         *)
EntryIn(S) == [symbol : S, type : {"addr", "litr", "macro"}, location : Nat,
               refcnt : Nat, macdef : Seq(Lines)]
IsEntry(e) == \E S : e \in EntryIn(S)
Table(t) == \E S : t \in Seq(EntryIn(S))

LEMMA EntryMade ==
  ASSUME NEW s, NEW type \in {"addr", "litr", "macro"}, NEW loc \in Nat
  PROVE  IsEntry(Entry(s, type, loc)) /\ Entry(s, type, loc).location = loc
         /\ Entry(s, type, loc).symbol = s
<1>1. << >> \in Seq(Lines)
  BY EmptySeq
<1>2. Entry(s, type, loc) \in EntryIn({s})
  BY <1>1 DEF Entry, EntryIn
<1> QED
  BY <1>2 DEF IsEntry, Entry

LEMMA EntryGrown ==
  ASSUME NEW e, IsEntry(e), NEW l \in Lines
  PROVE  IsEntry([e EXCEPT !.macdef = Append(@, l)])
<1>1. PICK S : e \in EntryIn(S)
  BY DEF IsEntry
<1>2. Append(e.macdef, l) \in Seq(Lines)
  BY <1>1, AppendProperties DEF EntryIn
<1>3. [e EXCEPT !.macdef = Append(@, l)] \in EntryIn(S)
  BY <1>1, <1>2 DEF EntryIn
<1> QED
  BY <1>3 DEF IsEntry

LEMMA TableFacts ==
  ASSUME NEW t, Table(t)
  PROVE  /\ Len(t) \in Nat /\ DOMAIN t = 1 .. Len(t)
         /\ \A i \in 1 .. Len(t) :
              t[i].location \in Nat /\ t[i].refcnt \in Nat /\ t[i].macdef \in Seq(Lines)
<1>1. PICK S : t \in Seq(EntryIn(S))
  BY DEF Table
<1>2. Len(t) \in Nat /\ DOMAIN t = 1 .. Len(t)
  BY <1>1, LenProperties
<1>3. \A i \in 1 .. Len(t) : t[i] \in EntryIn(S)
  BY <1>1, ElementOfSeq
<1> QED
  BY <1>2, <1>3 DEF EntryIn

LEMMA TableAppend ==
  ASSUME NEW t, Table(t), NEW e, IsEntry(e)
  PROVE  /\ Table(Append(t, e)) /\ Len(Append(t, e)) = Len(t) + 1
         /\ \A i \in 1 .. Len(t) : Append(t, e)[i] = t[i]
         /\ Append(t, e)[Len(t) + 1] = e
<1>1. PICK S : t \in Seq(EntryIn(S))
  BY DEF Table
<1>2. PICK R : e \in EntryIn(R)
  BY DEF IsEntry
<1>3. EntryIn(S) \subseteq EntryIn(S \cup R) /\ EntryIn(R) \subseteq EntryIn(S \cup R)
  BY DEF EntryIn
<1>4. t \in Seq(EntryIn(S \cup R)) /\ e \in EntryIn(S \cup R)
  BY <1>1, <1>2, <1>3, SeqMonotonic
<1> QED
  BY <1>4, AppendProperties DEF Table

(* The table with other numbers of calls.                                  *)
LEMMA TableRecounted ==
  ASSUME NEW t, Table(t), NEW f \in [1 .. Len(t) -> Nat]
  PROVE  LET r == [i \in 1 .. Len(t) |-> [t[i] EXCEPT !.refcnt = f[i]]]
         IN  Table(r) /\ Len(r) = Len(t)
<1> DEFINE r == [i \in 1 .. Len(t) |-> [t[i] EXCEPT !.refcnt = f[i]]]
<1>1. PICK S : t \in Seq(EntryIn(S))
  BY DEF Table
<1>2. Len(t) \in Nat
  BY TableFacts
<1>3. \A i \in 1 .. Len(t) : t[i] \in EntryIn(S)
  BY <1>1, ElementOfSeq
<1>4. \A i \in 1 .. Len(t) : [t[i] EXCEPT !.refcnt = f[i]] \in EntryIn(S)
  BY <1>3 DEF EntryIn
<1>5. r \in Seq(EntryIn(S)) /\ Len(r) = Len(t)
  BY <1>2, <1>4, IsASeq
<1> QED
  BY <1>5 DEF Table

LEMMA TableCalled ==
  ASSUME NEW t, Table(t), NEW k \in 1 .. Len(t)
  PROVE  /\ Table([t EXCEPT ![k].refcnt = @ + 1])
         /\ Len([t EXCEPT ![k].refcnt = @ + 1]) = Len(t)
<1> DEFINE f == [i \in 1 .. Len(t) |-> IF i = k THEN t[i].refcnt + 1 ELSE t[i].refcnt]
           r == [i \in 1 .. Len(t) |-> [t[i] EXCEPT !.refcnt = f[i]]]
<1>1. /\ Len(t) \in Nat /\ DOMAIN t = 1 .. Len(t)
      /\ \A i \in 1 .. Len(t) : t[i].refcnt \in Nat
  BY TableFacts
<1>2. PICK S : t \in Seq(EntryIn(S))
  BY DEF Table
<1>3. t \in [1 .. Len(t) -> EntryIn(S)]
  BY <1>2, LenProperties
<1>4. f \in [1 .. Len(t) -> Nat]
  BY <1>1
<1>5. \A i \in 1 .. Len(t) : t[i] = [t[i] EXCEPT !.refcnt = t[i].refcnt]
  BY <1>3 DEF EntryIn
<1>6. \A i \in 1 .. Len(t) : i # k => [t[i] EXCEPT !.refcnt = f[i]] = t[i]
  BY <1>5
<1>7. [t EXCEPT ![k].refcnt = @ + 1] = r
  BY <1>3, <1>6
<1>8. Table(r) /\ Len(r) = Len(t)
  <2> HIDE DEF f
  <2> QED
    BY <1>4, TableRecounted
<1> QED
  BY <1>7, <1>8

(* A name is known where it stands first in the table.                     *)
LEMMA FindFirst ==
  ASSUME Table(symtab), NEW t
  PROVE  /\ Find(t) \in 0 .. Len(symtab)
         /\ Known(t) => symtab[Find(t)].symbol = Name(t)
         /\ \A i \in 1 .. Len(symtab) : symtab[i].symbol = Name(t) =>
              Known(t) /\ Find(t) <= i
<1>1. Len(symtab) \in Nat /\ DOMAIN symtab = 1 .. Len(symtab)
  BY TableFacts
<1> DEFINE P == Places(Name(t))
<1>2. P \in SUBSET Nat /\ P \subseteq 1 .. Len(symtab)
  BY <1>1 DEF Places
<1>3. \A i : i \in P <=> i \in 1 .. Len(symtab) /\ symtab[i].symbol = Name(t)
  BY <1>1 DEF Places
<1> HIDE DEF P
<1>4. CASE P = {}
  <2>1. Find(t) = 0
    BY <1>4 DEF Find, P
  <2> QED
    BY <2>1, <1>1, <1>3, <1>4 DEF Known
<1>5. CASE P # {}
  <2>1. Find(t) = Min(P)
    BY <1>5 DEF Find, P
  <2>2. Min(P) \in P /\ \A y \in P : Min(P) <= y
    BY <1>2, <1>5, MinLeast
  <2> QED
    BY <2>1, <2>2, <1>1, <1>2, <1>3 DEF Known
<1> QED
  BY <1>4, <1>5

LEMMA LocationFound ==
  ASSUME Table(symtab), NEW t, Known(t)
  PROVE  Find(t) \in 1 .. Len(symtab) /\ symtab[Find(t)].location \in Nat
<1>1. Find(t) \in 1 .. Len(symtab)
  BY FindFirst, TableFacts DEF Known
<1> QED
  BY <1>1, TableFacts

(***************************************************************************)
(* What a line is, and the values of its operands                          *)
(***************************************************************************)
LEMMA LineParts ==
  ASSUME NEW l \in Lines
  PROVE  /\ l.op \in Ops /\ l.n \in Nat /\ l.tail \in Nat /\ l.code \in Nat
         /\ l.args \in Seq(Operands)
         /\ l.op = "ORG" => l.n < MEM8SIZ
         /\ l.op = "ZMEM" => l.args # <<>> /\ Head(l.args) \in Terms
         /\ l.op = "CALL" => Len(l.args) <= MAXPARA
         /\ l.op \in {"MACRO", "CALL"} => ~l.name.local
         /\ l.op \in {"CODE", "EQU"} /\ l.args # <<>> /\ l.code # UNUSED =>
              RoomFor(l.code, Head(l.args))
<1>1. l \in Line /\ WellFormed(l)
  BY DEF Lines
<1>2. l.args \in Seq(Operands)
  BY <1>1 DEF Line
<1>3. l.args # <<>> => Head(l.args) = l.args[1]
  BY <1>2
<1> QED
  BY <1>1, <1>2, <1>3 DEF Line, WellFormed

LEMMA LineUnlabelled ==
  ASSUME NEW l \in Lines
  PROVE  [l EXCEPT !.label = NoToken] \in Lines
<1>1. l \in Line /\ WellFormed(l)
  BY DEF Lines
<1>2. NoToken \in Tokens
  BY DEF Tokens
<1> DEFINE m == [l EXCEPT !.label = NoToken]
<1>3. m \in Line
  BY <1>1, <1>2 DEF Line
<1>4. m.op = l.op /\ m.n = l.n /\ m.args = l.args /\ m.code = l.code /\ m.name = l.name
  BY <1>1 DEF Line
<1>5. WellFormed(m)
  BY <1>1, <1>4 DEF WellFormed
<1> QED
  BY <1>3, <1>5 DEF Lines

(* The numbers the assembler works on.                                     *)
Numbers == /\ Table(symtab) /\ pc8 \in Nat
           /\ macpara \in [1 .. MAXPARA -> Int]

LEMMA ValueInt ==
  ASSUME Numbers, NEW a \in Terms, NEW b \in Int
  PROVE  Value(a, b) \in Int
<1>1. /\ a.n \in Int /\ a.kind \in {"num", "sym", "dot", "dsp", "prm"}
      /\ a.kind = "prm" => a.n \in 1 .. MAXPARA
  <2>1. ASSUME NEW kinds, NEW ns, NEW x \in OperandOf(kinds, ns)
         PROVE  x.kind \in kinds /\ x.n \in ns
    BY DEF OperandOf
  <2>2. CASE a \in OperandOf({"num", "sym", "dot", "dsp"}, Int)
    <3>1. a.kind \in {"num", "sym", "dot", "dsp"} /\ a.n \in Int
      BY <2>1, <2>2
    <3> QED
      BY <3>1
  <2>3. CASE a \in OperandOf({"prm"}, 1 .. MAXPARA)
    <3>1. a.kind \in {"prm"} /\ a.n \in 1 .. MAXPARA
      BY <2>1, <2>3
    <3>2. a.n \in Int
      BY <3>1 DEF MAXPARA
    <3> QED
      BY <3>1, <3>2
  <2> QED
    BY <2>2, <2>3 DEF Terms
<1>2. macpara \in [1 .. MAXPARA -> Int] /\ pc8 \in Int
  BY DEF Numbers
<1>3. Known(a.tok) => symtab[Find(a.tok)].location \in Int
  BY LocationFound DEF Numbers
<1>4. a.kind = "prm" => macpara[a.n] \in Int
  BY <1>1, <1>2
<1>5. a.kind = "dsp" => Value(a, b) \in Int
  BY <1>1, <1>2, <1>3 DEF Value
<1> QED
  BY <1>1, <1>2, <1>3, <1>4, <1>5 DEF Value

LEMMA ValueOfInt ==
  ASSUME Numbers, NEW a \in Operands, NEW b \in Int
  PROVE  ValueOf(a, b) \in Int
<1>1. CASE a.kind # "expr"
  <2>1. a \in Terms
    BY <1>1 DEF Operands
  <2> QED
    BY <1>1, <2>1, ValueInt DEF ValueOf
<1>2. CASE a.kind = "expr"
  <2>1. \A x \in Terms : x.kind # "expr"
    BY DEF Terms, OperandOf
  <2>2. a.terms[1] \in Terms /\ a.terms[2] \in Terms /\ a.op \in {"+", "-", "*"}
    BY <1>2, <2>1 DEF Operands
  <2>3. PICK x \in Int : x = Value(a.terms[1], b)
    BY <2>2, ValueInt
  <2>4. PICK y \in Int : y = Value(a.terms[2], x)
    BY <2>2, ValueInt
  <2>5. Apply(a.op, x, y) \in Int
    BY <2>2 DEF Apply
  <2> QED
    BY <1>2, <2>3, <2>4, <2>5 DEF ValueOf
<1> QED
  BY <1>1, <1>2

LEMMA InPageNat ==
  ASSUME NEW v \in Int
  PROVE  InPage(v) \in Nat /\ v % MEM8SIZ \in Nat
<1>1. \A n \in Nat \ {0} : v % n \in Nat
  OBVIOUS
<1>2. v % MEM8SIZ \in Nat /\ v % PAGE8 \in Nat /\ PAGE8 \in Nat
  BY <1>1, Sizes
<1> QED
  BY <1>2 DEF InPage

LEMMA LocNat ==
  ASSUME Numbers, NEW code \in Nat, NEW args \in Seq(Operands), NEW u \in Int
  PROVE  Loc(code, args, u) \in Nat
<1> DEFINE v == IF Resolves(Head(args)) THEN ValueOf(Head(args), u) ELSE 0
<1>1. args # <<>> => Head(args) \in Operands
  OBVIOUS
<1>2. args # <<>> => v \in Int
  <2>1. args # <<>> => ValueOf(Head(args), u) \in Int
    BY <1>1, ValueOfInt
  <2> QED
    BY <2>1
<1> HIDE DEF v
<1>3. args # <<>> => InPage(v) \in Nat /\ v % MEM8SIZ \in Nat
  BY <1>2, InPageNat
<1>4. args # <<>> => code + InPage(v) \in Nat
  BY <1>3
<1>5. Loc(code, args, u) = CASE args = <<>> -> (IF code = UNUSED THEN 0 ELSE code)
        [] args # <<>> /\ code = UNUSED -> v % MEM8SIZ
        [] args # <<>> /\ code # UNUSED -> code + InPage(v)
  BY DEF Loc, v
<1>6. CASE args = <<>>
  BY <1>5, <1>6
<1>7. CASE args # <<>> /\ code = UNUSED
  BY <1>3, <1>5, <1>7
<1>8. CASE args # <<>> /\ code # UNUSED
  BY <1>4, <1>5, <1>8
<1> QED
  BY <1>6, <1>7, <1>8

LEMMA CountsArgs ==
  ASSUME NEW S, NEW args \in Seq(S), NEW T, T \subseteq DOMAIN args
  PROVE  Cardinality(T) \in Nat
<1>1. IsFiniteSet(DOMAIN args)
  <2>1. DOMAIN args = 1 .. Len(args) /\ Len(args) \in Nat
    BY LenProperties
  <2> QED
    BY <2>1, FS_Interval
<1> QED
  BY <1>1, FS_Subset, FS_CardinalityType

LEMMA LocErrorsNat ==
  ASSUME NEW code, NEW args \in Seq(Operands), NEW u
  PROVE  LocErrors(code, args, u) \in Nat
<1>1. {i \in DOMAIN args : BadArg(code, args[i], u)} \subseteq DOMAIN args
  OBVIOUS
<1> QED
  BY <1>1, CountsArgs DEF LocErrors

(***************************************************************************)
(* The invariant: AssemblerTypeOK with the lines and streams it rests on   *)
(***************************************************************************)
Streams == [file : DOMAIN text, line : Nat]
Places4 == {"read", "line", "scanned", "end"}
ReaderTyped ==
  /\ ReaderTypeOK
  /\ IsText(text)
  /\ infile \in Streams /\ files \in Seq(Streams) /\ macroptr \in Seq(Lines)
  /\ at \in {"line", "scanned"} => oline \in Lines
Machine ==
  /\ pc8 \in Nat /\ (pass = 2 /\ at \notin Stopped => pc8 <= MEM8SIZ)
  /\ memtop \in 0 .. MEM8SIZ /\ zmemptr \in 0 - 1 .. ZMEMMAX
  /\ mem8 \in [0 .. MEM8SIZ - 1 -> Int] /\ macpara \in [1 .. MAXPARA -> Int]
  /\ given \in 0 .. MAXPARA
  /\ Table(symtab) /\ IsEntry(slot) /\ curmac \in 0 .. Len(symtab)
  /\ depth \in 0 .. STACK + 1 /\ (at # "wild" => depth <= STACK)
  /\ errcnt \in Nat
Typed == ReaderTyped /\ Machine

LEMMA TypedIsTypeOK == Typed => AssemblerTypeOK
BY TableFacts DEF Typed, ReaderTyped, Machine, AssemblerTypeOK

LEMMA TypedIsNumbers == Typed => Numbers
BY DEF Typed, Machine, Numbers

LEMMA InitTyped == AssemblerInit => Typed
<1> SUFFICES ASSUME AssemblerInit PROVE Typed
  OBVIOUS
<1>1. IsText(text)
  BY TextsAssumption DEF AssemblerInit, ReaderInit
<1>2. Main \in DOMAIN text /\ text[Main] \in Seq(Lines)
  BY <1>1 DEF IsText
<1>3. Open(Main) \in Streams /\ InText(Open(Main))
  <2>1. Len(text[Main]) \in Nat
    BY <1>2, LenProperties
  <2> QED
    BY <1>2, <2>1 DEF Open, Streams, InText
<1>4. << >> \in Seq(Streams) /\ << >> \in Seq(Lines) /\ Len(<< >>) = 0
  BY EmptySeq
<1>5. ReaderTyped
  <2>1. infile = Open(Main) /\ files = << >> /\ macroptr = << >> /\ run = TRUE
        /\ pass = 1 /\ at = "read"
    BY DEF AssemblerInit, ReaderInit
  <2>2. \A i \in DOMAIN files : InText(files[i])
    BY <2>1
  <2>3. Len(files) < MAXNEST
    BY <2>1, <1>4, Sizes
  <2>4. ReaderTypeOK
    BY <1>3, <2>1, <2>2, <2>3 DEF ReaderTypeOK
  <2> QED
    BY <1>1, <1>3, <1>4, <2>1, <2>4 DEF ReaderTyped
<1>6. Machine
  <2>1. IsEntry(slot)
    BY EntryMade DEF AssemblerInit
  <2>2. Table(symtab) /\ Len(symtab) = 0
    BY EmptySeq DEF AssemblerInit, Table
  <2>3. mem8 \in [0 .. MEM8SIZ - 1 -> Int]
    <3>1. mem8 = [a \in 0 .. MEM8SIZ - 1 |-> 0]
      BY DEF AssemblerInit
    <3> QED
      BY <3>1
  <2>4. macpara \in [1 .. MAXPARA -> Int]
    <3>1. macpara = [i \in 1 .. MAXPARA |-> 0]
      BY DEF AssemblerInit
    <3> QED
      BY <3>1
  <2>5. /\ pc8 = 0 /\ memtop = 0 /\ zmemptr = ZMEMMAX /\ curmac = 0 /\ depth = 0
        /\ errcnt = 0 /\ given = 0
    BY DEF AssemblerInit
  <2>6. 0 \in 0 .. MAXPARA
    BY DEF MAXPARA
  <2> QED
    BY <2>1, <2>2, <2>3, <2>4, <2>5, <2>6, Sizes DEF Machine
<1> QED
  BY <1>5, <1>6 DEF Typed

(***************************************************************************)
(* The steps of the reader                                                 *)
(***************************************************************************)
(* The line behind a stream that is not at its end is a line.              *)
LEMMA LineRead ==
  ASSUME IsText(text), NEW s \in Streams, InText(s), ~AtEnd(s)
  PROVE  /\ LineOf(s) \in Lines
         /\ [s EXCEPT !.line = @ + 1] \in Streams /\ InText([s EXCEPT !.line = @ + 1])
<1>1. text[s.file] \in Seq(Lines)
  BY DEF IsText, InText
<1>2. Len(text[s.file]) \in Nat /\ s.line \in Nat /\ s.line <= Len(text[s.file])
      /\ s.line # Len(text[s.file])
  BY <1>1, LenProperties DEF Streams, InText, AtEnd
<1>3. s.line + 1 \in 1 .. Len(text[s.file])
  BY <1>2
<1>4. LineOf(s) \in Lines
  BY <1>1, <1>3, ElementOfSeq DEF LineOf
<1> QED
  BY <1>2, <1>3, <1>4 DEF Streams, InText

(* The last of the streams that wait, and those below it.                  *)
LEMMA LastFile ==
  ASSUME ReaderTyped, files # << >>
  PROVE  /\ Last(files) \in Streams /\ InText(Last(files))
         /\ Front(files) \in Seq(Streams) /\ Len(Front(files)) < Len(files)
         /\ \A i \in DOMAIN Front(files) : InText(Front(files)[i])
         /\ Len(Front(files)) = Len(files) - 1
         /\ \A i \in 1 .. Len(files) - 1 : Front(files)[i] = files[i]
<1>1. files \in Seq(Streams) /\ (\A i \in DOMAIN files : InText(files[i]))
  BY DEF ReaderTyped, ReaderTypeOK
<1>2. Len(files) \in Nat /\ Len(files) >= 1 /\ DOMAIN files = 1 .. Len(files)
  BY <1>1
<1>3. Last(files) \in Streams /\ InText(Last(files))
  BY <1>1, <1>2, ElementOfSeq DEF Last
<1>4. /\ Front(files) \in Seq(Streams) /\ Len(Front(files)) = Len(files) - 1
      /\ DOMAIN Front(files) = 1 .. Len(files) - 1
      /\ \A i \in 1 .. Len(files) - 1 : Front(files)[i] = files[i]
  BY <1>1, <1>2 DEF Front
<1> QED
  BY <1>1, <1>2, <1>3, <1>4

LEMMA FetchTyped ==
  ASSUME ReaderTyped, Fetch
  PROVE  ReaderTyped' /\ at' \in {"line", "end"} /\ at # "wild" /\ pass' = pass
         /\ at \notin Stopped
<1> USE DEF Reading
<1>1. IsText(text)' /\ text' = text
  BY DEF Fetch, FetchMacro, FetchLine, FetchIncluder, IncluderAtEnd, NoLine, ReaderTyped
<1>2. Streams' = Streams
  BY <1>1 DEF Streams
<1>3. \A s : InText(s)' <=> s.file \in DOMAIN text /\ s.line \in 0 .. Len(text[s.file])
  BY <1>1 DEF InText
<1>4. CASE FetchMacro
  <2>1. oline' \in Lines /\ macroptr' \in Seq(Lines)
    BY <1>4, HeadTailProperties DEF FetchMacro, ReaderTyped
  <2> QED
    BY <1>1, <1>2, <1>4, <2>1 DEF FetchMacro, ReaderTyped, ReaderTypeOK, Stopped, InText
<1>5. CASE FetchLine
  <2>1. /\ oline' \in Lines /\ infile' \in Streams
        /\ infile'.file \in DOMAIN text /\ infile'.line \in 0 .. Len(text[infile'.file])
    BY <1>5, LineRead DEF FetchLine, Take, ReaderTyped, ReaderTypeOK, InText
  <2> QED
    BY <1>1, <1>2, <1>5, <2>1 DEF FetchLine, ReaderTyped, ReaderTypeOK, Stopped, InText
<1>6. CASE FetchIncluder
  <2> DEFINE L == Last(files)
             F == Front(files)
  <2>1. /\ L \in Streams /\ InText(L) /\ F \in Seq(Streams) /\ Len(F) < Len(files)
        /\ \A i \in DOMAIN F : InText(F[i])
    BY <1>6, LastFile DEF FetchIncluder
  <2>2. Take(L) /\ ~AtEnd(L) /\ files' = F
    BY <1>6 DEF FetchIncluder
  <2> HIDE DEF L, F
  <2>3. LineOf(L) \in Lines /\ [L EXCEPT !.line = @ + 1] \in Streams /\ InText([L EXCEPT !.line = @ + 1])
    BY <2>1, <2>2, LineRead DEF ReaderTyped
  <2>4. oline' \in Lines /\ infile' \in Streams /\ InText(infile)'
    BY <1>1, <2>2, <2>3 DEF Take, InText
  <2>5. \A i \in DOMAIN files' :
          /\ files'[i].file \in DOMAIN text'
          /\ files'[i].line \in 0 .. Len(text'[files'[i].file])
    <3>1. \A i \in DOMAIN F : F[i].file \in DOMAIN text /\ F[i].line \in 0 .. Len(text[F[i].file])
      BY <2>1 DEF InText
    <3> QED
      BY <1>1, <2>2, <3>1
  <2>6. files' \in Seq(Streams) /\ Len(files') < MAXNEST
    <3>1. Len(files) < MAXNEST /\ Len(files) \in Nat
      BY <1>6 DEF FetchIncluder, ReaderTyped, ReaderTypeOK
    <3>2. Len(F) \in Nat
      BY <2>1, LenProperties
    <3> QED
      BY <2>1, <2>2, <3>1, <3>2, Sizes
  <2>7. ReaderTypeOK'
    <3>1. (\A i \in DOMAIN files : InText(files[i]))'
      BY <2>5 DEF InText
    <3>2. at' \in {"line", "end"} /\ pass' = pass /\ run' = run
      BY <1>6 DEF FetchIncluder
    <3> QED
      BY <2>4, <2>6, <3>1, <3>2 DEF ReaderTyped, ReaderTypeOK
  <2> QED
    BY <1>1, <1>2, <1>6, <2>4, <2>6, <2>7 DEF FetchIncluder, ReaderTyped, Stopped
<1>7. CASE IncluderAtEnd
  <2> DEFINE L == Last(files)
             F == Front(files)
  <2>1. /\ L \in Streams /\ InText(L) /\ F \in Seq(Streams) /\ Len(F) < Len(files)
        /\ \A i \in DOMAIN F : InText(F[i])
    BY <1>7, LastFile DEF IncluderAtEnd
  <2>2. infile' = L /\ files' = F
    BY <1>7 DEF IncluderAtEnd
  <2> HIDE DEF L, F
  <2>4. infile' \in Streams /\ InText(infile)'
    BY <1>1, <2>1, <2>2 DEF InText
  <2>5. \A i \in DOMAIN files' :
          /\ files'[i].file \in DOMAIN text'
          /\ files'[i].line \in 0 .. Len(text'[files'[i].file])
    <3>1. \A i \in DOMAIN F : F[i].file \in DOMAIN text /\ F[i].line \in 0 .. Len(text[F[i].file])
      BY <2>1 DEF InText
    <3> QED
      BY <1>1, <2>2, <3>1
  <2>6. files' \in Seq(Streams) /\ Len(files') < MAXNEST
    <3>1. Len(files) < MAXNEST /\ Len(files) \in Nat
      BY <1>7 DEF IncluderAtEnd, ReaderTyped, ReaderTypeOK
    <3>2. Len(F) \in Nat
      BY <2>1, LenProperties
    <3> QED
      BY <2>1, <2>2, <3>1, <3>2, Sizes
  <2>7. ReaderTypeOK'
    <3>1. (\A i \in DOMAIN files : InText(files[i]))'
      BY <2>5 DEF InText
    <3>2. at' \in {"line", "end"} /\ pass' = pass /\ run' = run
      BY <1>7 DEF IncluderAtEnd
    <3> QED
      BY <2>4, <2>6, <3>1, <3>2 DEF ReaderTyped, ReaderTypeOK
  <2> QED
    BY <1>1, <1>2, <1>7, <2>4, <2>6, <2>7 DEF IncluderAtEnd, ReaderTyped, Stopped
<1>8. CASE NoLine
  BY <1>1, <1>2, <1>8 DEF NoLine, ReaderTyped, ReaderTypeOK, Stopped, InText
<1> QED
  BY <1>4, <1>5, <1>6, <1>7, <1>8 DEF Fetch

(* A step that only goes to another place.                                 *)
LEMMA SameReaderTyped ==
  ASSUME ReaderTyped, at \in {"line", "scanned"},
         UNCHANGED <<text, infile, files, run, pass>>,
         macroptr' \in Seq(Lines), oline' \in Lines,
         at' \in Places4 \cup Stopped
  PROVE  ReaderTyped'
<1>1. Streams' = Streams /\ IsText(text)' /\ Len(files) < MAXNEST
  BY DEF Streams, ReaderTyped, ReaderTypeOK
<1>2. ReaderTypeOK'
  BY <1>1 DEF ReaderTyped, ReaderTypeOK, InText, Places4, Stopped
<1> QED
  BY <1>1, <1>2 DEF ReaderTyped

(***************************************************************************)
(* The lines                                                               *)
(***************************************************************************)
LEMMA InsertTyped ==
  ASSUME Table(symtab), errcnt \in Nat, NEW e, IsEntry(e), NEW next, Insert(e, next)
  PROVE  /\ Table(symtab') /\ Len(symtab) <= Len(symtab') /\ errcnt' \in Nat
         /\ Len(symtab) \in Nat /\ Len(symtab') \in Nat
         /\ at' \in {next, "fatal", "wild"}
<1>1. Len(symtab) \in Nat
  BY TableFacts
<1>2. CASE Len(symtab) >= SYMSIZ
  BY <1>1, <1>2 DEF Insert
<1>3. CASE ~(Len(symtab) >= SYMSIZ)
  <2>1. symtab' = Append(symtab, e) /\ MarkEnd(Len(symtab) + 1, next) /\ errcnt' \in Nat
    BY <1>3 DEF Insert
  <2>2. Table(symtab') /\ Len(symtab') = Len(symtab) + 1
    BY <2>1, TableAppend
  <2> QED
    BY <1>1, <2>1, <2>2 DEF MarkEnd
<1> QED
  BY <1>2, <1>3

(* Where a line leads: steps that change neither the table nor the macros. *)
LEMMA OnlyCounter ==
  ASSUME Machine, UNCHANGED <<symVars, macVars, zmemptr>>,
         pc8' \in Nat, pass' = 2 /\ at' \notin Stopped => pc8' <= MEM8SIZ,
         memtop' \in 0 .. MEM8SIZ, mem8' \in [0 .. MEM8SIZ - 1 -> Int],
         errcnt' \in Nat, at # "wild"
  PROVE  Machine'
<1>1. Table(symtab') /\ IsEntry(slot') /\ curmac' \in 0 .. Len(symtab')
  BY DEF Machine, symVars
<1> QED
  BY <1>1 DEF Machine, macVars

LEMMA LineTyped ==
  ASSUME Typed, at = "line"
  PROVE  /\ oline \in Lines /\ macroptr \in Seq(Lines) /\ at \notin Stopped
         /\ depth <= STACK /\ depth \in Nat /\ at # "wild"
         /\ pass = 2 => pc8 <= MEM8SIZ
BY DEF Typed, ReaderTyped, Machine, Stopped

LEMMA LabelTyped == ASSUME Typed, Label PROVE Typed'
<1>1. at = "line"
  BY DEF Label
<1> DEFINE e == Entry(Name(oline.label), "addr", pc8)
<1>2. IsEntry(e)
  BY EntryMade DEF Typed, Machine
<1>3. Insert(e, "line")
  BY DEF Label
<1> HIDE DEF e
<1>4. /\ Table(symtab') /\ Len(symtab) <= Len(symtab') /\ errcnt' \in Nat
      /\ Len(symtab) \in Nat /\ Len(symtab') \in Nat
      /\ at' \in {"line", "fatal", "wild"}
  BY <1>2, <1>3, InsertTyped DEF Typed, Machine
<1>5. oline' \in Lines
  BY <1>1, LineTyped, LineUnlabelled DEF Label
<1>6. ReaderTyped'
  BY <1>1, <1>4, <1>5, LineTyped, SameReaderTyped DEF Label, Typed, Places4, Stopped
<1>7. /\ UNCHANGED <<pass, pc8, memtop, mem8, zmemptr, slot, curmac, depth, macpara, given>>
  BY DEF Label, macVars
<1>8. pass' = 2 => pc8' <= MEM8SIZ
  BY <1>1, <1>7, LineTyped
<1>9. curmac' \in 0 .. Len(symtab')
  BY <1>4, <1>7 DEF Typed, Machine
<1>10. depth' <= STACK
  BY <1>1, <1>7, LineTyped
<1>11. Machine'
  BY <1>4, <1>7, <1>8, <1>9, <1>10 DEF Typed, Machine
<1> QED
  BY <1>6, <1>11 DEF Typed

LEMMA NextInPlaces == Next1 \in {"scanned", "read"}
BY DEF Next1

(* A step that follows a NULL pointer leaves everything else alone.        *)
LEMMA StrayTyped == ASSUME Typed, Stray PROVE Typed'
<1>1. at = "line" /\ at' = "wild" /\ UNCHANGED asmVars
      /\ UNCHANGED <<text, infile, files, macroptr, oline, run, pass>>
  BY DEF Stray
<1>2. ReaderTyped'
  BY <1>1, LineTyped, SameReaderTyped DEF Typed, Stopped
<1>3. Machine'
  BY <1>1, LineTyped DEF Typed, Machine, asmVars, Stopped
<1> QED
  BY <1>2, <1>3 DEF Typed

LEMMA IgnoredTyped == ASSUME Typed, Ignored PROVE Typed'
<1>1. at = "line" /\ at' \in {"scanned", "read"}
  BY NextInPlaces DEF Ignored, Hidden, Op, Ready
<1>2. ReaderTyped'
  BY <1>1, LineTyped, SameReaderTyped DEF Ignored, sameReader, Typed, Places4
<1>3. UNCHANGED <<asmVars, pass>>
  BY DEF Ignored, sameReader
<1>4. Machine'
  BY <1>1, <1>3, LineTyped DEF Typed, Machine, asmVars
<1> QED
  BY <1>2, <1>4 DEF Typed

LEMMA OrgTyped == ASSUME Typed, Org PROVE Typed'
<1>1. at = "line" /\ at' \in {"scanned", "read"}
  BY NextInPlaces DEF Org, Op, Ready
<1>2. ReaderTyped'
  BY <1>1, LineTyped, SameReaderTyped DEF Org, sameReader, Typed, Places4
<1>3. pc8' \in Nat /\ pc8' < MEM8SIZ
  BY <1>1, LineTyped, LineParts DEF Org, Op
<1>4. UNCHANGED <<symVars, macVars, zmemptr, memtop, mem8, errcnt>> /\ at # "wild"
  BY <1>1 DEF Org, sameMemory
<1>5. pc8' <= MEM8SIZ
  BY <1>3, Sizes
<1>6. Machine'
  BY <1>3, <1>4, <1>5, OnlyCounter DEF Typed, Machine
<1> QED
  BY <1>2, <1>6 DEF Typed

LEMMA NextPageTyped == ASSUME Typed, NextPage PROVE Typed'
<1>1. at = "line" /\ at' \in {"scanned", "read", "fatal"}
      /\ (at' # "fatal" => ~(pc8' >= MEM8SIZ))
  BY NextInPlaces DEF NextPage, Op, Ready
<1>2. ReaderTyped'
  BY <1>1, LineTyped, SameReaderTyped DEF NextPage, sameReader, Typed, Places4, Stopped
<1>3. pc8' \in Nat
  <2>1. \A m \in Nat, n \in Nat \ {0} : (m \div n + 1) * n \in Nat
    <3> SUFFICES ASSUME NEW m \in Nat, NEW n \in Nat \ {0}
                 PROVE  (m \div n + 1) * n \in Nat
      OBVIOUS
    <3>1. m \div n + 1 \in Nat
      OBVIOUS
    <3>2. \A x, y \in Nat : x * y \in Nat
      OBVIOUS
    <3> QED
      BY <3>1, <3>2
  <2> QED
    BY <2>1, Sizes DEF NextPage, Typed, Machine
<1>4. pass' = 2 /\ at' \notin Stopped => pc8' <= MEM8SIZ
  BY <1>1, <1>3, Sizes DEF Stopped
<1>5. UNCHANGED <<symVars, macVars, zmemptr, memtop, mem8, errcnt>> /\ at # "wild"
  BY <1>1 DEF NextPage, sameMemory
<1>6. Machine'
  BY <1>3, <1>4, <1>5, OnlyCounter DEF Typed, Machine
<1> QED
  BY <1>2, <1>6 DEF Typed

LEMMA WordsNat == ASSUME Typed, at = "line" PROVE TextWords \in Nat
<1>1. oline.n \in Nat
  BY LineTyped, LineParts
<1> QED
  BY <1>1 DEF TextWords

LEMMA TextScanTyped == ASSUME Typed, TextScan PROVE Typed'
<1>1. at = "line" /\ at' \in {"scanned", "read"} /\ pass = 1 /\ pass' = pass
  BY NextInPlaces DEF TextScan, Op, Ready, sameReader
<1>2. ReaderTyped'
  BY <1>1, LineTyped, SameReaderTyped DEF TextScan, sameReader, Typed, Places4
<1>3. pc8' \in Nat
  BY <1>1, WordsNat DEF TextScan, Typed, Machine
<1>5. UNCHANGED <<symVars, macVars, zmemptr, memtop, mem8, errcnt>> /\ at # "wild"
  BY <1>1 DEF TextScan, sameMemory
<1>6. Machine'
  BY <1>1, <1>3, <1>5, OnlyCounter DEF Typed, Machine
<1> QED
  BY <1>2, <1>6 DEF Typed

LEMMA TextAssembleTyped == ASSUME Typed, TextAssemble PROVE Typed'
<1>1. at = "line" /\ pass' = pass
  BY DEF TextAssemble, Op, Ready, sameReader
<1>2. at' \in {"scanned", "read", "wild"}
  BY NextInPlaces DEF TextAssemble
<1>3. ReaderTyped'
  BY <1>1, <1>2, LineTyped, SameReaderTyped
     DEF TextAssemble, sameReader, Typed, Places4, Stopped
<1>4. TextWords \in Nat /\ oline.n \in Nat /\ oline.tail \in Nat /\ pc8 \in Nat
  BY <1>1, WordsNat, LineTyped, LineParts DEF Typed, Machine
<1>5. UNCHANGED <<symVars, macVars, zmemptr, memtop, errcnt>> /\ at # "wild"
  BY <1>1 DEF TextAssemble
<1>6. CASE pc8 + TextWords >= MEM8SIZ
  <2>1. pc8' = pc8 /\ mem8' = mem8 /\ at' = "wild"
    BY <1>6 DEF TextAssemble
  <2> QED
    BY <1>3, <1>5, <2>1, OnlyCounter DEF Typed, Machine, Stopped
<1>7. CASE ~(pc8 + TextWords >= MEM8SIZ)
  <2>1. pc8' \in Nat /\ pc8' <= MEM8SIZ
    BY <1>4, <1>7, Sizes DEF TextAssemble
  <2>2. DOMAIN mem8 = 0 .. MEM8SIZ - 1 /\ \A a \in DOMAIN mem8 : mem8[a] \in Int
    BY DEF Typed, Machine
  <2>3. mem8' \in [0 .. MEM8SIZ - 1 -> Int]
    <3>1. mem8' = [a \in DOMAIN mem8 |->
                    IF a = pc8 THEN oline.n + oline.tail
                    ELSE IF a \in pc8 + 1 .. pc8 + TextWords THEN Letters
                    ELSE mem8[a]]
      BY <1>7 DEF TextAssemble
    <3> QED
      BY <3>1, <2>2, <1>4 DEF Letters
  <2> QED
    BY <1>3, <1>5, <2>1, <2>3, OnlyCounter DEF Typed, Machine
<1> QED
  BY <1>6, <1>7

(* Both values of the flag, and what an unset variable may have, are       *)
(* numbers.                                                                *)
LEMMA GarbageInt == Garbage \subseteq Int
BY AssemblerAssumption

LEMMA DepositTyped ==
  ASSUME Typed, at = "line", NEW w \in Int, Deposit(w), Memtop, pass = 2
  PROVE  /\ pc8' \in Nat /\ memtop' \in 0 .. MEM8SIZ
         /\ mem8' \in [0 .. MEM8SIZ - 1 -> Int]
         /\ at' \in {"read", "wild"} /\ pc8' <= MEM8SIZ
<1>1. /\ pc8 \in Nat /\ pc8 <= MEM8SIZ /\ memtop \in 0 .. MEM8SIZ
      /\ mem8 \in [0 .. MEM8SIZ - 1 -> Int]
  BY LineTyped DEF Typed, Machine
<1>2. pc8' \in Nat /\ pc8' <= MEM8SIZ
  BY <1>1, Sizes DEF Deposit
<1>3. mem8' \in [0 .. MEM8SIZ - 1 -> Int]
  BY <1>1 DEF Deposit
<1> QED
  BY <1>1, <1>2, <1>3 DEF Deposit, Memtop

LEMMA AssembledTyped == ASSUME Typed, Assembled PROVE Typed'
<1>1. at = "line" /\ pass = 2 /\ pass' = pass
  BY DEF Assembled, Op, Ready, sameReader
<1>2. /\ oline.code \in Nat /\ oline.args \in Seq(Operands)
  BY <1>1, LineTyped, LineParts
<1>3. PICK u \in Garbage : Deposit(Loc(oline.code, oline.args, u))
                           /\ errcnt' = errcnt + LocErrors(oline.code, oline.args, u)
  BY DEF Assembled
<1>4. PICK w \in Int : w = Loc(oline.code, oline.args, u)
  <2>1. u \in Int /\ Numbers
    BY TypedIsNumbers, GarbageInt
  <2>2. Loc(oline.code, oline.args, u) \in Nat
    BY <1>2, <2>1, LocNat
  <2> QED
    BY <2>2
<1>5. /\ pc8' \in Nat /\ memtop' \in 0 .. MEM8SIZ
      /\ mem8' \in [0 .. MEM8SIZ - 1 -> Int]
      /\ at' \in {"read", "wild"} /\ pc8' <= MEM8SIZ
  BY <1>1, <1>3, <1>4, DepositTyped DEF Assembled
<1>6. errcnt' \in Nat
  BY <1>2, <1>3, LocErrorsNat DEF Typed, Machine
<1>7. ReaderTyped'
  BY <1>1, <1>5, LineTyped, SameReaderTyped
     DEF Assembled, sameReader, Typed, Places4, Stopped
<1>8. UNCHANGED <<symVars, macVars, zmemptr>> /\ at # "wild"
  BY <1>1 DEF Assembled
<1>9. Machine'
  BY <1>5, <1>6, <1>8, OnlyCounter DEF Typed
<1> QED
  BY <1>7, <1>9 DEF Typed

(* The bits of two words together are a word.                              *)
LEMMA OrInt == ASSUME NEW x, NEW y PROVE Bits!BitOr(x, y) \in Int
BY DEF Bits!BitOr, Bits!BitSum, Bits!Either

LEMMA JoinedInt ==
  ASSUME Typed, at = "line", NEW w \in Int, NEW k \in 1 .. 2, NEW u \in Garbage
  PROVE  Joined(w, k, u) \in Int
<1>1. oline.args \in Seq(Operands)
  BY LineTyped, LineParts
<1>2. CASE k > Len(oline.args) \/ ~Resolves(oline.args[k])
  BY <1>2 DEF Joined
<1>3. CASE ~(k > Len(oline.args) \/ ~Resolves(oline.args[k]))
  <2>1. oline.args[k] \in Operands
    BY <1>1, <1>3
  <2>2. PICK v \in Int : v = ValueOf(oline.args[k], u)
    BY <2>1, ValueOfInt, TypedIsNumbers, GarbageInt
  <2>3. Joined(w, k, u) = IF Unset(w) THEN v ELSE Bits!BitOr(w, InPage(v))
    BY <1>3, <2>2 DEF Joined
  <2> QED
    BY <2>2, <2>3, OrInt
<1> QED
  BY <1>2, <1>3

LEMMA NotAMacroTyped == ASSUME Typed, NotAMacro PROVE Typed'
<1>1. at = "line" /\ pass = 2 /\ pass' = pass
  BY DEF NotAMacro, Op, Ready, sameReader
<1> DEFINE own == IF Known(oline.name) THEN symtab[Find(oline.name)].location ELSE UNUSED
           bad(u) == {k \in DOMAIN oline.args :
                        BadJoin(<<own, Joined(own, 1, u)>>[k], k, u)}
<1>2. PICK u \in Garbage :
        /\ Deposit(Joined(<<own, Joined(own, 1, u)>>[2], 2, u) % MEM8SIZ)
        /\ errcnt' = errcnt + Cardinality(bad(u)) + (IF Known(oline.name) THEN 0 ELSE 1)
  BY DEF NotAMacro
<1>3. own \in Int
  BY LocationFound, Sizes DEF Typed, Machine, UNUSED
<1>4. PICK w \in Int : w = Joined(<<own, Joined(own, 1, u)>>[2], 2, u) % MEM8SIZ
  <2>1. PICK x \in Int : x = Joined(own, 1, u)
    BY <1>1, <1>3, JoinedInt
  <2>2. PICK y \in Int : y = Joined(<<own, x>>[2], 2, u)
    BY <1>1, <2>1, JoinedInt
  <2>3. y % MEM8SIZ \in Int
    BY Sizes
  <2> QED
    BY <2>1, <2>2, <2>3
<1>n. PICK n \in Nat : n = Cardinality(bad(u))
  <2>1. oline.args \in Seq(Operands) /\ bad(u) \subseteq DOMAIN oline.args
    BY <1>1, LineTyped, LineParts
  <2> QED
    BY <2>1, CountsArgs
<1> HIDE DEF own, bad
<1>5. /\ pc8' \in Nat /\ memtop' \in 0 .. MEM8SIZ
      /\ mem8' \in [0 .. MEM8SIZ - 1 -> Int]
      /\ at' \in {"read", "wild"} /\ pc8' <= MEM8SIZ
  <2>1. Deposit(w) /\ Memtop
    BY <1>2, <1>4 DEF NotAMacro
  <2> QED
    BY <1>1, <1>4, <2>1, DepositTyped
<1>6. errcnt' \in Nat
  BY <1>2, <1>n DEF Typed, Machine
<1>7. ReaderTyped'
  BY <1>1, <1>5, LineTyped, SameReaderTyped
     DEF NotAMacro, sameReader, Typed, Places4, Stopped
<1>8. UNCHANGED <<symVars, macVars, zmemptr>> /\ at # "wild"
  BY <1>1 DEF NotAMacro
<1>9. Machine'
  BY <1>5, <1>6, <1>8, OnlyCounter DEF Typed
<1> QED
  BY <1>7, <1>9 DEF Typed

LEMMA CountedTyped == ASSUME Typed, Counted PROVE Typed'
<1>1. at = "line" /\ at' \in {"scanned", "read"} /\ pass = 1 /\ pass' = pass
  BY NextInPlaces DEF Counted, Op, Ready, sameReader
<1>2. ReaderTyped'
  BY <1>1, LineTyped, SameReaderTyped DEF Counted, sameReader, Typed, Places4
<1>3. pc8' \in Nat
  BY DEF Counted, Typed, Machine
<1>5. UNCHANGED <<symVars, macVars, zmemptr, memtop, mem8, errcnt>> /\ at # "wild"
  BY <1>1 DEF Counted, sameMemory
<1>6. Machine'
  BY <1>1, <1>3, <1>5, OnlyCounter DEF Typed, Machine
<1> QED
  BY <1>2, <1>6 DEF Typed

(* The value of a constant, and where it is put or found.                  *)
LEMMA ZmemValue ==
  ASSUME Typed, Zmem, NEW u \in Garbage
  PROVE  Value(Head(oline.args), u) \in Int
<1>1. at = "line" /\ oline.op = "ZMEM"
  BY DEF Zmem, Op, Ready
<1>2. Head(oline.args) \in Terms
  BY <1>1, LineTyped, LineParts
<1>3. u \in Int /\ Numbers
  BY GarbageInt, TypedIsNumbers
<1> QED
  BY <1>2, <1>3, ValueInt

LEMMA SharingMax ==
  ASSUME zmemptr \in 0 - 1 .. ZMEMMAX, NEW val, Sharing(val) # {}
  PROVE  /\ Max(Sharing(val)) \in Sharing(val)
         /\ Max(Sharing(val)) \in zmemptr + 1 .. ZMEMMAX
         /\ Max(Sharing(val)) \in Nat /\ mem8[Max(Sharing(val))] = val
<1> DEFINE S == Sharing(val)
<1>1. \A p : p \in S => p \in zmemptr + 1 .. ZMEMMAX /\ mem8[p] = val
  BY DEF Sharing
<1>2. S \in SUBSET (0 .. ZMEMMAX) /\ S # {}
  BY <1>1
<1> HIDE DEF S
<1>3. Max(S) \in S
  BY <1>2, MaxGreatest, Sizes
<1>4. Max(S) \in zmemptr + 1 .. ZMEMMAX /\ mem8[Max(S)] = val /\ Max(S) \in Nat
  BY <1>1, <1>2, <1>3
<1> QED
  BY <1>3, <1>4 DEF S

LEMMA ZmemTyped == ASSUME Typed, Zmem PROVE Typed'
<1>1. /\ at = "line" /\ pass = 2 /\ pass' = pass
      /\ UNCHANGED <<pc8, memtop, slot, curmac, depth, macpara, given>>
  BY DEF Zmem, Op, Ready, sameReader, macVars
<1>2. /\ Table(symtab) /\ errcnt \in Nat /\ zmemptr \in 0 - 1 .. ZMEMMAX
      /\ mem8 \in [0 .. MEM8SIZ - 1 -> Int] /\ Len(symtab) \in Nat
      /\ curmac \in 0 .. Len(symtab)
  BY TableFacts DEF Typed, Machine
<1> DEFINE name == Name(oline.name)
<1>3. PICK u \in Garbage : \E val \in {Value(Head(oline.args), u)} :
           IF Sharing(val) # {}
           THEN /\ Insert(Entry(name, "addr", Max(Sharing(val))), "read")
                /\ UNCHANGED <<mem8, zmemptr>>
           ELSE IF zmemptr < 0
           THEN at' = "wild" /\ UNCHANGED <<mem8, zmemptr, symtab, errcnt>>
           ELSE /\ mem8' = [mem8 EXCEPT ![zmemptr] = val]
                /\ zmemptr' = zmemptr - 1
                /\ Insert(Entry(name, "addr", zmemptr), "read")
  BY DEF Zmem
<1>4. PICK val \in Int : val = Value(Head(oline.args), u)
  BY ZmemValue
<1> HIDE DEF name
<1>5. /\ Table(symtab') /\ Len(symtab) <= Len(symtab') /\ errcnt' \in Nat
      /\ Len(symtab') \in Nat /\ at' \in {"read", "fatal", "wild"}
      /\ mem8' \in [0 .. MEM8SIZ - 1 -> Int] /\ zmemptr' \in 0 - 1 .. ZMEMMAX
  <2>1. CASE Sharing(val) # {}
    <3>1. PICK p \in Nat : p = Max(Sharing(val))
      BY <1>2, <2>1, SharingMax
    <3>2. IsEntry(Entry(name, "addr", p))
      BY EntryMade
    <3>3. Insert(Entry(name, "addr", p), "read") /\ UNCHANGED <<mem8, zmemptr>>
      BY <1>3, <1>4, <2>1, <3>1
    <3> QED
      BY <1>2, <3>2, <3>3, InsertTyped
  <2>2. CASE Sharing(val) = {} /\ zmemptr < 0
    BY <1>2, <1>3, <1>4, <2>2
  <2>3. CASE Sharing(val) = {} /\ ~(zmemptr < 0)
    <3>1. IsEntry(Entry(name, "addr", zmemptr)) /\ zmemptr \in Nat
      <4>1. zmemptr \in Nat
        BY <1>2, <2>3, Sizes
      <4> QED
        BY <4>1, EntryMade
    <3>2. /\ Insert(Entry(name, "addr", zmemptr), "read") /\ zmemptr' = zmemptr - 1
          /\ mem8' = [mem8 EXCEPT ![zmemptr] = val]
      BY <1>3, <1>4, <2>3
    <3>3. mem8' \in [0 .. MEM8SIZ - 1 -> Int]
      BY <1>2, <3>2
    <3> QED
      BY <1>2, <3>1, <3>2, <3>3, InsertTyped, Sizes
  <2> QED
    BY <2>1, <2>2, <2>3
<1>6. ReaderTyped'
  BY <1>1, <1>5, LineTyped, SameReaderTyped DEF Zmem, sameReader, Typed, Places4, Stopped
<1>7. pc8' <= MEM8SIZ /\ depth' <= STACK
  BY <1>1, LineTyped
<1>8. Machine'
  <2>1. curmac' \in 0 .. Len(symtab')
    BY <1>1, <1>2, <1>5
  <2>2. IsEntry(slot') /\ macpara' \in [1 .. MAXPARA -> Int] /\ pc8' \in Nat
        /\ memtop' \in 0 .. MEM8SIZ /\ depth' \in 0 .. STACK + 1
        /\ given' \in 0 .. MAXPARA
    BY <1>1 DEF Typed, Machine
  <2> QED
    BY <1>5, <1>7, <2>1, <2>2 DEF Machine
<1> QED
  BY <1>6, <1>8 DEF Typed

LEMMA EquTyped == ASSUME Typed, Equ PROVE Typed'
<1>1. /\ at = "line" /\ pass = 1 /\ pass' = pass
      /\ UNCHANGED <<pc8, memtop, mem8, zmemptr, slot, curmac, depth, macpara, given>>
  BY DEF Equ, Op, Ready, sameReader, sameMemory, macVars
<1>2. oline.code \in Nat /\ oline.args \in Seq(Operands)
  BY <1>1, LineTyped, LineParts
<1>3. /\ Table(symtab') /\ Len(symtab) <= Len(symtab') /\ errcnt' \in Nat
      /\ Len(symtab) \in Nat /\ Len(symtab') \in Nat
      /\ at' \in {"read", "scanned", "fatal", "wild"}
  <2>0. Len(symtab) \in Nat /\ Table(symtab) /\ errcnt \in Nat
    BY TableFacts DEF Typed, Machine
  <2>1. CASE Len(symtab) >= SYMSIZ
    BY <2>0, <2>1 DEF Equ
  <2>2. CASE ~(Len(symtab) >= SYMSIZ)
    <3> DEFINE e(u) == Entry(Name(oline.name), "litr", Loc(oline.code, oline.args, u))
    <3>1. PICK u \in Garbage :
            /\ symtab' = Append(symtab, e(u))
            /\ errcnt' = errcnt + LocErrors(oline.code, oline.args, u)
                                + (IF Duplicate(e(u)) THEN 1 ELSE 0)
            /\ MarkEnd(Len(symtab) + 1, Next1)
      BY <2>2 DEF Equ
    <3>2. u \in Int /\ Numbers
      BY GarbageInt, TypedIsNumbers
    <3>3. IsEntry(e(u))
      BY <1>2, <3>2, LocNat, EntryMade
    <3>4. PICK n \in Nat : n = LocErrors(oline.code, oline.args, u)
      BY <1>2, LocErrorsNat
    <3> HIDE DEF e
    <3>5. Table(symtab') /\ Len(symtab') = Len(symtab) + 1
      BY <2>0, <3>1, <3>3, TableAppend
    <3>6. errcnt' \in Nat
      BY <2>0, <3>1, <3>4
    <3>7. at' \in {"read", "scanned", "wild"}
      BY <3>1, NextInPlaces DEF MarkEnd
    <3> QED
      BY <2>0, <3>5, <3>6, <3>7
  <2> QED
    BY <2>1, <2>2
<1>6. ReaderTyped'
  BY <1>1, <1>3, LineTyped, SameReaderTyped DEF Equ, sameReader, Typed, Places4, Stopped
<1>7. depth' <= STACK
  BY <1>1, LineTyped
<1>8. curmac' \in 0 .. Len(symtab')
  BY <1>1, <1>3 DEF Typed, Machine
<1>9. Machine'
  BY <1>1, <1>3, <1>7, <1>8 DEF Typed, Machine
<1> QED
  BY <1>6, <1>9 DEF Typed

LEMMA CallingTyped ==
  ASSUME Typed, IsMacro(oline.name), Calling
  PROVE  /\ Table(symtab') /\ Len(symtab') = Len(symtab)
         /\ curmac' \in 1 .. Len(symtab') /\ macroptr' \in Seq(Lines)
<1>1. Table(symtab) /\ Called \in 1 .. Len(symtab)
  BY LocationFound DEF Typed, Machine, IsMacro, Called
<1>2. symtab[Called].macdef \in Seq(Lines)
  BY <1>1, TableFacts
<1> QED
  BY <1>1, <1>2, TableCalled DEF Calling

LEMMA ExpandTyped == ASSUME Typed, Expand PROVE Typed'
<1>1. /\ at = "line" /\ pass = 1 /\ pass' = pass
      /\ UNCHANGED <<pc8, memtop, mem8, zmemptr, slot, macpara, given, errcnt>>
      /\ UNCHANGED <<text, infile, files, oline, run>>
      /\ depth' = depth + 1 /\ at' = IF depth = STACK THEN "wild" ELSE "scanned"
  BY DEF Expand, Op, Ready, sameMemory
<1>2. /\ Table(symtab') /\ Len(symtab') = Len(symtab)
      /\ curmac' \in 1 .. Len(symtab') /\ macroptr' \in Seq(Lines)
  BY CallingTyped DEF Expand
<1>3. ReaderTyped'
  BY <1>1, <1>2, LineTyped, SameReaderTyped DEF Typed, Places4, Stopped
<1>4. depth' \in 0 .. STACK + 1 /\ (at' # "wild" => depth' <= STACK)
  BY <1>1, LineTyped, Sizes
<1>5. Machine'
  BY <1>1, <1>2, <1>4 DEF Typed, Machine
<1> QED
  BY <1>3, <1>5 DEF Typed

LEMMA ParaInt ==
  ASSUME Typed, at = "line", NEW i \in 1 .. MAXPARA, NEW u \in Garbage
  PROVE  Para(i, u) \in Int
<1>1. oline.args \in Seq(Operands)
  BY LineTyped, LineParts
<1>2. u \in Int /\ Numbers
  BY GarbageInt, TypedIsNumbers
<1>3. UNUSED \in Int
  BY Sizes DEF UNUSED
<1>4. i <= Len(oline.args) => oline.args[i] \in Operands
  BY <1>1 DEF MAXPARA
<1>5. i <= Len(oline.args) =>
        ValueOf(oline.args[i], u) \in Int /\ InPage(ValueOf(oline.args[i], u)) \in Int
  <2> SUFFICES ASSUME i <= Len(oline.args)
               PROVE  ValueOf(oline.args[i], u) \in Int /\ InPage(ValueOf(oline.args[i], u)) \in Int
    OBVIOUS
  <2>1. ValueOf(oline.args[i], u) \in Int
    BY <1>2, <1>4, ValueOfInt
  <2>2. InPage(ValueOf(oline.args[i], u)) \in Nat
    BY <2>1, InPageNat
  <2> QED
    BY <2>1, <2>2
<1>6. i \in Nat /\ Len(oline.args) \in Nat
  BY <1>1 DEF MAXPARA
<1> QED
  BY <1>3, <1>5, <1>6 DEF Para

LEMMA CallTyped == ASSUME Typed, Call PROVE Typed'
<1>1. /\ at = "line" /\ pass = 2 /\ pass' = pass /\ at' = "read"
      /\ UNCHANGED <<pc8, mem8, zmemptr, slot, depth>>
      /\ UNCHANGED <<text, infile, files, oline, run>>
      /\ memtop' = IF pc8 > memtop THEN pc8 ELSE memtop
  BY DEF Call, Op, Ready
<1>2. /\ Table(symtab') /\ Len(symtab') = Len(symtab)
      /\ curmac' \in 1 .. Len(symtab') /\ macroptr' \in Seq(Lines)
  BY CallingTyped DEF Call
<1>3. ReaderTyped'
  BY <1>1, <1>2, LineTyped, SameReaderTyped DEF Typed, Places4, Stopped
<1>4. PICK u \in Garbage :
       /\ macpara' = [i \in 1 .. MAXPARA |-> Para(i, u)]
       /\ errcnt' = errcnt + Cardinality({i \in DOMAIN oline.args : BadPara(i, u)})
  BY DEF Call
<1>5. macpara' \in [1 .. MAXPARA -> Int]
  BY <1>1, <1>4, ParaInt
<1>6. errcnt' \in Nat
  <2>1. Cardinality({i \in DOMAIN oline.args : BadPara(i, u)}) \in Nat
    <3>1. oline.args \in Seq(Operands)
      BY <1>1, LineTyped, LineParts
    <3>2. {i \in DOMAIN oline.args : BadPara(i, u)} \subseteq DOMAIN oline.args
      OBVIOUS
    <3> QED
      BY <3>1, <3>2, CountsArgs
  <2> QED
    BY <1>4, <2>1 DEF Typed, Machine
<1>7. pc8 <= MEM8SIZ /\ depth <= STACK
  BY <1>1, LineTyped
<1>8. memtop' \in 0 .. MEM8SIZ
  BY <1>1, <1>7 DEF Typed, Machine
<1>10. given' \in 0 .. MAXPARA
  <2>1. oline \in Lines /\ oline.op = "CALL"
    BY <1>1, LineTyped DEF Call, Op
  <2>2. Len(oline.args) \in 0 .. MAXPARA
    <3>1. oline.args \in Seq(Operands) /\ Len(oline.args) <= MAXPARA
      BY <2>1, LineParts
    <3>2. PICK n \in Nat : n = Len(oline.args)
      BY <3>1, LenProperties
    <3>3. n <= 2 => n \in 0 .. 2
      OBVIOUS
    <3> QED
      BY <3>1, <3>2, <3>3 DEF MAXPARA
  <2> QED
    BY <2>2 DEF Call, Typed, Machine
<1>9. Machine'
  BY <1>1, <1>2, <1>5, <1>6, <1>7, <1>8, <1>10 DEF Typed, Machine
<1> QED
  BY <1>3, <1>9 DEF Typed

LEMMA MacroTyped == ASSUME Typed, Macro PROVE Typed'
<1>1. /\ at = "line" /\ pass' = pass
      /\ UNCHANGED <<pc8, memtop, mem8, zmemptr, symtab, curmac, depth, macpara, given>>
  BY DEF Macro, Op, Ready, sameReader, sameMemory
<1>2. at' \in {"read", "scanned", "fatal"}
  BY DEF Macro
<1>3. ReaderTyped'
  BY <1>1, <1>2, LineTyped, SameReaderTyped DEF Macro, sameReader, Typed, Places4, Stopped
<1>4. IsEntry(slot') /\ errcnt' \in Nat
  <2>1. IsEntry(Entry(Name(oline.name), "macro", 0))
    BY EntryMade
  <2> QED
    BY <2>1 DEF Macro, Typed, Machine
<1>5. depth <= STACK /\ (pass = 2 => pc8 <= MEM8SIZ)
  BY <1>1, LineTyped
<1>6. Machine'
  BY <1>1, <1>4, <1>5 DEF Typed, Machine
<1> QED
  BY <1>3, <1>6 DEF Typed

LEMMA EndmTyped == ASSUME Typed, Endm PROVE Typed'
<1>1. /\ at = "line" /\ pass' = pass
      /\ UNCHANGED <<pc8, memtop, mem8, zmemptr, curmac, depth, macpara, given, errcnt>>
  BY DEF Endm, Op, Ready, sameReader, sameMemory
<1>2. at' \in {"read", "scanned", "wild"}
  BY DEF Endm, MarkEnd
<1>3. ReaderTyped'
  BY <1>1, <1>2, LineTyped, SameReaderTyped DEF Endm, sameReader, Typed, Places4, Stopped
<1>4. Table(symtab) /\ IsEntry(slot) /\ Len(symtab) \in Nat
  BY TableFacts DEF Typed, Machine
<1>5. /\ Table(symtab') /\ IsEntry(slot') /\ Len(symtab') \in Nat
      /\ Len(symtab) <= Len(symtab')
  <2>1. CASE pass = 2
    BY <1>4, <2>1 DEF Endm
  <2>2. CASE pass # 2
    <3>1. symtab' = Append(symtab, slot) /\ slot' = Entry(<<"", 0>>, "addr", 0)
      BY <2>2 DEF Endm
    <3>2. Table(symtab') /\ Len(symtab') = Len(symtab) + 1
      BY <1>4, <3>1, TableAppend
    <3>3. IsEntry(slot')
      BY <3>1, EntryMade
    <3> QED
      BY <1>4, <3>2, <3>3
  <2> QED
    BY <2>1, <2>2
<1>6. depth <= STACK /\ (pass = 2 => pc8 <= MEM8SIZ)
  BY <1>1, LineTyped
<1>7. curmac' \in 0 .. Len(symtab')
  BY <1>1, <1>4, <1>5 DEF Typed, Machine
<1>8. Machine'
  BY <1>1, <1>5, <1>6, <1>7 DEF Typed, Machine
<1> QED
  BY <1>3, <1>8 DEF Typed

LEMMA FilesTyped == ASSUME Typed, Files PROVE Typed'
<1>1. at = "line"
  BY DEF Files, Ready
<1>2. UNCHANGED asmVars /\ UNCHANGED <<text, macroptr, oline, pass>>
  BY DEF Files, FileIncl, EndOfAssembly
<1>3. at' \in Places4 \cup Stopped
  BY NextInPlaces DEF Files, FileIncl, EndOfAssembly, Places4, Stopped
<1>4. Machine'
  BY <1>1, <1>2, LineTyped DEF asmVars, Typed, Machine
<1>5. Streams' = Streams /\ IsText(text)'
  BY <1>2 DEF Streams, Typed, ReaderTyped
<1>6. CASE UNCHANGED <<infile, files>> /\ run' \in BOOLEAN
  <2>1. ReaderTypeOK'
    BY <1>1, <1>2, <1>3, <1>6 DEF Typed, ReaderTyped, ReaderTypeOK, InText, Places4, Stopped
  <2>2. ReaderTyped'
    BY <1>2, <1>5, <1>6, <1>1, <2>1 DEF Typed, ReaderTyped
  <2> QED
    BY <1>4, <2>2 DEF Typed
<1>7. CASE /\ oline.file \in DOMAIN text /\ ~(Len(files) >= MAXNEST) /\ run' = run
           /\ files' = Append(files, infile) /\ infile' = Open(oline.file)
           /\ at' = IF Len(files) + 1 = MAXNEST THEN "wild" ELSE Next1
  <2>1. files \in Seq(Streams) /\ infile \in Streams /\ InText(infile)
        /\ \A i \in DOMAIN files : InText(files[i])
    BY DEF Typed, ReaderTyped, ReaderTypeOK
  <2>2. text[oline.file] \in Seq(Lines)
    BY <1>7 DEF Typed, ReaderTyped, IsText
  <2>3. infile' \in Streams /\ InText(infile)'
    <3>1. Len(text[oline.file]) \in Nat
      BY <2>2, LenProperties
    <3> QED
      BY <1>2, <1>7, <3>1 DEF Open, Streams, InText
  <2>4. /\ Len(files) \in Nat /\ DOMAIN files = 1 .. Len(files)
        /\ files' \in Seq(Streams) /\ Len(files') = Len(files) + 1
        /\ DOMAIN files' = 1 .. Len(files) + 1
        /\ \A i \in 1 .. Len(files) : files'[i] = files[i]
        /\ files'[Len(files) + 1] = infile
    BY <1>7, <2>1, AppendProperties
  <2>5. (\A i \in DOMAIN files : InText(files[i]))'
    <3>1. \A i \in DOMAIN files' : files'[i].file \in DOMAIN text
                                   /\ files'[i].line \in 0 .. Len(text[files'[i].file])
      <4>1. \A i \in DOMAIN files' : i \in DOMAIN files \/ i = Len(files) + 1
        BY <2>4
      <4> QED
        BY <2>1, <2>4, <4>1 DEF InText
    <3> QED
      BY <1>2, <3>1 DEF InText
  <2>6. at' # "wild" => Len(files') < MAXNEST
    BY <1>7, <2>4, Sizes
  <2>7. ReaderTypeOK'
    BY <1>2, <1>3, <1>7, <2>3, <2>5, <2>6 DEF Typed, ReaderTyped, ReaderTypeOK, Places4
  <2>8. ReaderTyped'
    BY <1>1, <1>2, <1>5, <2>3, <2>4, <2>7 DEF Typed, ReaderTyped
  <2> QED
    BY <1>4, <2>8 DEF Typed
<1> QED
  <2>1. run \in BOOLEAN
    BY DEF Typed, ReaderTyped, ReaderTypeOK
  <2> QED
    BY <1>6, <1>7, <2>1 DEF Files, FileIncl, EndOfAssembly

LEMMA LineStepTyped == ASSUME Typed, Line1 PROVE Typed'
BY StrayTyped, LabelTyped, IgnoredTyped, OrgTyped, NextPageTyped, TextScanTyped, TextAssembleTyped,
   ZmemTyped, EquTyped, CountedTyped, AssembledTyped, NotAMacroTyped, ExpandTyped,
   CallTyped, MacroTyped, EndmTyped, FilesTyped DEF Line1

(***************************************************************************)
(* After a line, and between the passes                                    *)
(***************************************************************************)
LEMMA AfterLineTyped ==
  ASSUME Typed, ExpandLine \/ Return \/ KeepLine
  PROVE  Typed'
<1>1. /\ at = "scanned" /\ oline \in Lines /\ macroptr \in Seq(Lines) /\ at \notin Stopped
      /\ depth <= STACK /\ (pass = 2 => pc8 <= MEM8SIZ)
  BY DEF ExpandLine, Return, KeepLine, Typed, ReaderTyped, Machine, Stopped
<1>2. CASE ExpandLine
  <2>1. oline' \in Lines /\ macroptr' \in Seq(Lines)
    BY <1>1, <1>2, HeadTailProperties DEF ExpandLine
  <2>2. ReaderTyped'
    BY <1>1, <1>2, <2>1, SameReaderTyped DEF ExpandLine, Typed, Places4
  <2>3. Machine'
    BY <1>1, <1>2 DEF ExpandLine, asmVars, Typed, Machine
  <2> QED
    BY <2>2, <2>3 DEF Typed
<1>3. CASE Return
  <2>1. depth' \in 0 .. STACK + 1 /\ depth' <= STACK /\ at' \in {"scanned", "wild"}
    BY <1>1, <1>3, Sizes DEF Return, Typed, Machine
  <2>2. ReaderTyped'
    BY <1>1, <1>3, <2>1, SameReaderTyped DEF Return, Typed, Places4, Stopped
  <2>3. Machine'
    BY <1>1, <1>3, <2>1 DEF Return, symVars, Typed, Machine
  <2> QED
    BY <2>2, <2>3 DEF Typed
<1>4. CASE KeepLine
  <2>1. IsEntry(slot')
    <3>1. IsEntry(slot) /\ IsEntry([slot EXCEPT !.macdef = Append(@, oline)])
      BY <1>1, EntryGrown DEF Typed, Machine
    <3> QED
      BY <1>4, <3>1 DEF KeepLine
  <2>2. ReaderTyped'
    BY <1>1, <1>4, SameReaderTyped DEF KeepLine, sameReader, Typed, Places4
  <2>3. Machine'
    BY <1>1, <1>4, <2>1 DEF KeepLine, sameReader, sameMemory, Typed, Machine
  <2> QED
    BY <2>2, <2>3 DEF Typed
<1> QED
  BY <1>2, <1>3, <1>4

LEMMA SecondPassTyped == ASSUME Typed, SecondPass PROVE Typed'
<1>1. /\ at = "end" /\ pass' = 2 /\ run' = TRUE /\ at' = "read"
      /\ UNCHANGED <<text, files, macroptr, oline>>
      /\ infile' = [infile EXCEPT !.line = 0]
  BY DEF SecondPass, Rewind
<1>2. Streams' = Streams /\ IsText(text)' /\ Len(files) < MAXNEST
  BY <1>1 DEF Streams, Typed, ReaderTyped, ReaderTypeOK
<1>3. infile' \in Streams /\ InText(infile)'
  <2>1. infile \in Streams /\ infile.file \in DOMAIN text /\ text[infile.file] \in Seq(Lines)
    BY DEF Typed, ReaderTyped, ReaderTypeOK, InText, IsText
  <2>2. Len(text[infile.file]) \in Nat
    BY <2>1, LenProperties
  <2> QED
    BY <1>1, <2>1, <2>2 DEF Streams, InText
<1>4. ReaderTyped'
  <2>1. ReaderTypeOK'
    BY <1>1, <1>2, <1>3 DEF Typed, ReaderTyped, ReaderTypeOK, InText
  <2> QED
    BY <1>1, <1>2, <1>3, <2>1 DEF Typed, ReaderTyped
<1>5. /\ Table(symtab') /\ Len(symtab') = Len(symtab)
  <2>1. Table(symtab) /\ DOMAIN symtab = 1 .. Len(symtab)
    BY TableFacts DEF Typed, Machine
  <2> DEFINE f == [i \in 1 .. Len(symtab) |-> 0]
  <2>2. f \in [1 .. Len(symtab) -> Nat]
    OBVIOUS
  <2>3. symtab' = [i \in 1 .. Len(symtab) |-> [symtab[i] EXCEPT !.refcnt = f[i]]]
    BY <2>1 DEF SecondPass
  <2> HIDE DEF f
  <2> QED
    BY <2>1, <2>2, <2>3, TableRecounted
<1>6. mem8' \in [0 .. MEM8SIZ - 1 -> Int]
  <2>1. mem8' = [a \in DOMAIN mem8 |-> 0] /\ DOMAIN mem8 = 0 .. MEM8SIZ - 1
    BY DEF SecondPass, Typed, Machine
  <2> QED
    BY <2>1
<1>7. Machine'
  BY <1>1, <1>5, <1>6, Sizes DEF SecondPass, macVars, Typed, Machine
<1> QED
  BY <1>4, <1>7 DEF Typed

(* Steps of the reader alone.                                              *)
LEMMA OtherTyped ==
  ASSUME Typed, (Fetch /\ UNCHANGED asmVars) \/ Abort \/ Save
  PROVE  Typed'
<1>1. CASE Fetch /\ UNCHANGED asmVars
  <2>1. ReaderTyped' /\ at' \in {"line", "end"} /\ at # "wild" /\ pass' = pass
        /\ at \notin Stopped
    BY <1>1, FetchTyped DEF Typed
  <2>2. Machine'
    BY <1>1, <2>1 DEF asmVars, Typed, Machine
  <2> QED
    BY <2>1, <2>2 DEF Typed
<1>2. CASE Abort \/ Save
  <2>1. /\ at = "end" /\ UNCHANGED <<text, infile, files, macroptr, oline, run, pass>>
        /\ UNCHANGED asmVars /\ at' \in {"fatal", "done"}
    BY <1>2 DEF Abort, Save, Finish, sameReader
  <2>2. Streams' = Streams /\ IsText(text)' /\ Len(files) < MAXNEST
    BY <2>1 DEF Streams, Typed, ReaderTyped, ReaderTypeOK
  <2>3. ReaderTypeOK'
    BY <2>1, <2>2 DEF Typed, ReaderTyped, ReaderTypeOK, InText, Stopped
  <2>4. ReaderTyped'
    BY <2>1, <2>2, <2>3 DEF Typed, ReaderTyped
  <2>5. Machine'
    BY <2>1 DEF asmVars, Typed, Machine, Stopped
  <2> QED
    BY <2>4, <2>5 DEF Typed
<1> QED
  BY <1>1, <1>2

LEMMA StutterTyped == ASSUME Typed, UNCHANGED vars PROVE Typed'
<1>1. ReaderTyped'
  BY DEF vars, readVars, Typed, ReaderTyped, ReaderTypeOK, InText, Streams
<1>2. Machine'
  BY DEF vars, readVars, asmVars, Typed, Machine
<1> QED
  BY <1>1, <1>2 DEF Typed

LEMMA NextTyped == Typed /\ [AssemblerNext]_vars => Typed'
BY LineStepTyped, AfterLineTyped, SecondPassTyped, OtherTyped, StutterTyped
   DEF AssemblerNext

(* What is checked together with its listing is the assembler.             *)
LEMMA MCIsAssembler == /\ MCInit => AssemblerInit
                       /\ [MCNext]_mcVars => [AssemblerNext]_vars
<1>1. MCInit => AssemblerInit
  BY DEF MCInit, ListingInit
<1>2. MCTranslate => AssemblerNext
  BY DEF MCTranslate, Translate
<1>3. ReadListing => UNCHANGED vars
  BY DEF ReadListing
<1>4. UNCHANGED mcVars => UNCHANGED vars
  BY DEF mcVars
<1> QED
  BY <1>1, <1>2, <1>3, <1>4 DEF MCNext

(* The streams stand in their files and fit into files[], the location     *)
(* counter of the second pass stays within the memory (deposit), and the   *)
(* constants stay in the zero page, for every set of texts and every size  *)
(* of the tables, unless the program has run into a store beyond them.     *)
THEOREM AssemblerTypeCorrect == MCSpec => []AssemblerTypeOK
<1>1. MCInit => Typed
  BY MCIsAssembler, InitTyped
<1>2. Typed /\ [MCNext]_mcVars => Typed'
  BY MCIsAssembler, NextTyped
<1>3. Typed => AssemblerTypeOK
  BY TypedIsTypeOK
<1> QED
  BY <1>1, <1>2, <1>3, PTL DEF MCSpec

(***************************************************************************)
(* The constants of ZMEM                                                   *)
(***************************************************************************)
(* A table only grows: every entry keeps its place and all but the number  *)
(* of calls.                                                               *)
Same(e, d) == /\ d.symbol = e.symbol /\ d.location = e.location
              /\ d.type = e.type /\ d.macdef = e.macdef
Extends(s, t) == Len(s) <= Len(t) /\ \A i \in 1 .. Len(s) : Same(s[i], t[i])

LEMMA ExtendsAppend ==
  ASSUME NEW t, Table(t), NEW e, IsEntry(e) PROVE Extends(t, Append(t, e))
BY TableAppend, TableFacts DEF Extends, Same

LEMMA ExtendsRecounted ==
  ASSUME NEW t, Table(t), NEW r, Len(r) = Len(t),
         \A i \in 1 .. Len(t) : \E n \in Nat : r[i] = [t[i] EXCEPT !.refcnt = n]
  PROVE  Extends(t, r)
<1>1. PICK S : t \in Seq(EntryIn(S))
  BY DEF Table
<1>2. \A i \in 1 .. Len(t) : t[i] \in EntryIn(S)
  BY <1>1, ElementOfSeq
<1>3. \A i \in 1 .. Len(t) : Same(t[i], r[i])
  BY <1>2 DEF EntryIn, Same
<1>4. Len(t) \in Nat
  BY TableFacts
<1> QED
  BY <1>3, <1>4 DEF Extends

LEMMA ExtendsCalled ==
  ASSUME NEW t, Table(t), NEW k \in 1 .. Len(t)
  PROVE  Extends(t, [t EXCEPT ![k].refcnt = @ + 1])
<1> DEFINE r == [t EXCEPT ![k].refcnt = @ + 1]
<1>1. /\ Len(t) \in Nat /\ DOMAIN t = 1 .. Len(t)
      /\ \A i \in 1 .. Len(t) : t[i].refcnt \in Nat
  BY TableFacts
<1>2. PICK S : t \in Seq(EntryIn(S))
  BY DEF Table
<1>3. t \in [1 .. Len(t) -> EntryIn(S)]
  BY <1>2, LenProperties
<1>4. \A i \in 1 .. Len(t) : r[i] = IF i = k THEN [t[i] EXCEPT !.refcnt = t[i].refcnt + 1] ELSE t[i]
  BY <1>3
<1>5. \A i \in 1 .. Len(t) : t[i] \in EntryIn(S)
  BY <1>3
<1> HIDE DEF r
<1>6. \A i \in 1 .. Len(t) : Same(t[i], r[i])
  BY <1>4, <1>5 DEF EntryIn, Same
<1>7. Len(r) = Len(t)
  BY TableCalled DEF r
<1>8. Extends(t, r)
  BY <1>1, <1>6, <1>7 DEF Extends
<1> QED
  BY <1>8 DEF r

LEMMA InsertExtends ==
  ASSUME Table(symtab), NEW e, IsEntry(e), NEW next, Insert(e, next)
  PROVE  /\ Extends(symtab, symtab')
         /\ at' \notin {"fatal", "wild"} /\ next \notin {"fatal", "wild"} =>
              at' = next /\ symtab' = Append(symtab, e)
<1>1. CASE Len(symtab) >= SYMSIZ
  BY <1>1, TableFacts DEF Insert, Extends, Same
<1>2. CASE ~(Len(symtab) >= SYMSIZ)
  BY <1>2, ExtendsAppend DEF Insert, MarkEnd
<1> QED
  BY <1>1, <1>2

(* No step moves a symbol.                                                 *)
LEMMA TableGrows ==
  ASSUME Typed, AssemblerNext
  PROVE  Extends(symtab, symtab')
<1>1. Table(symtab) /\ Len(symtab) \in Nat
  BY TableFacts DEF Typed, Machine
<1>2. CASE UNCHANGED symtab
  BY <1>1, <1>2 DEF Extends, Same
<1>3. CASE Label
  <2>1. IsEntry(Entry(Name(oline.label), "addr", pc8))
    BY EntryMade DEF Typed, Machine
  <2> QED
    BY <1>1, <1>3, <2>1, InsertExtends DEF Label
<1>4. CASE Zmem
  <2>1. PICK u \in Garbage : \E val \in {Value(Head(oline.args), u)} :
           IF Sharing(val) # {}
           THEN Insert(Entry(Name(oline.name), "addr", Max(Sharing(val))), "read")
           ELSE IF zmemptr < 0 THEN UNCHANGED symtab
           ELSE Insert(Entry(Name(oline.name), "addr", zmemptr), "read")
    BY <1>4 DEF Zmem
  <2>2. PICK val : IF Sharing(val) # {}
           THEN Insert(Entry(Name(oline.name), "addr", Max(Sharing(val))), "read")
           ELSE IF zmemptr < 0 THEN UNCHANGED symtab
           ELSE Insert(Entry(Name(oline.name), "addr", zmemptr), "read")
    BY <2>1
  <2>3. CASE Sharing(val) # {}
    <3>1. PICK p \in Nat : p = Max(Sharing(val))
      BY <2>3, SharingMax DEF Typed, Machine
    <3>2. IsEntry(Entry(Name(oline.name), "addr", p))
      BY EntryMade
    <3> QED
      BY <1>1, <2>2, <2>3, <3>1, <3>2, InsertExtends
  <2>4. CASE Sharing(val) = {} /\ zmemptr < 0
    BY <1>2, <2>2, <2>4
  <2>5. CASE Sharing(val) = {} /\ ~(zmemptr < 0)
    <3>1. zmemptr \in Nat
      BY <2>5, Sizes DEF Typed, Machine
    <3>2. IsEntry(Entry(Name(oline.name), "addr", zmemptr))
      BY <3>1, EntryMade
    <3> QED
      BY <1>1, <2>2, <2>5, <3>2, InsertExtends
  <2> QED
    BY <2>3, <2>4, <2>5
<1>5. CASE Equ
  <2>1. CASE Len(symtab) >= SYMSIZ
    BY <1>2, <1>5, <2>1 DEF Equ
  <2>2. CASE ~(Len(symtab) >= SYMSIZ)
    <3>1. PICK u \in Garbage :
            symtab' = Append(symtab, Entry(Name(oline.name), "litr", Loc(oline.code, oline.args, u)))
      BY <1>5, <2>2 DEF Equ
    <3>2. oline.code \in Nat /\ oline.args \in Seq(Operands)
      BY <1>5, LineTyped, LineParts DEF Equ, Op, Ready
    <3>3. Loc(oline.code, oline.args, u) \in Nat
      BY <3>2, LocNat, TypedIsNumbers, GarbageInt
    <3> QED
      BY <1>1, <3>1, <3>3, EntryMade, ExtendsAppend
  <2> QED
    BY <2>1, <2>2
<1>6. CASE Endm
  BY <1>1, <1>2, <1>6, ExtendsAppend DEF Endm, Typed, Machine
<1>7. CASE Expand \/ Call
  <2>1. Called \in 1 .. Len(symtab)
    BY <1>1, <1>7, LocationFound DEF Expand, Call, IsMacro, Called
  <2>2. symtab' = [symtab EXCEPT ![Called].refcnt = @ + 1]
    BY <1>7 DEF Expand, Call, Calling
  <2> QED
    BY <1>1, <2>1, <2>2, ExtendsCalled
<1>8. CASE SecondPass
  <2>1. DOMAIN symtab = 1 .. Len(symtab)
    BY <1>1, TableFacts
  <2>2. symtab' = [i \in 1 .. Len(symtab) |-> [symtab[i] EXCEPT !.refcnt = 0]]
    BY <1>8, <2>1 DEF SecondPass
  <2>3. Len(symtab') = Len(symtab)
    BY <1>1, <2>2
  <2>4. \A i \in 1 .. Len(symtab) : \E n \in Nat : symtab'[i] = [symtab[i] EXCEPT !.refcnt = n]
    BY <2>2
  <2> QED
    BY <1>1, <2>3, <2>4, ExtendsRecounted
<1>9. CASE \/ Stray \/ Ignored \/ Org \/ NextPage \/ TextScan \/ TextAssemble \/ Counted
           \/ Assembled \/ NotAMacro \/ Macro \/ Files \/ ExpandLine \/ Return \/ KeepLine
           \/ Abort \/ Save \/ (Fetch /\ UNCHANGED asmVars)
  <2>1. UNCHANGED symtab
    BY <1>9 DEF Stray, Ignored, Org, NextPage, TextScan, TextAssemble, Counted, Assembled,
       NotAMacro, Macro, Files, ExpandLine, Return, KeepLine, Abort, Save, asmVars, symVars
  <2> QED
    BY <1>2, <2>1
<1> QED
  BY <1>3, <1>4, <1>5, <1>6, <1>7, <1>8, <1>9 DEF AssemblerNext, Line1

(* A step of the second pass writes the words of a line of code or text,   *)
(* or a constant, and no other word.                                       *)
LEMMA WritesOfCode ==
  ASSUME Typed, pass = 2, AssemblerNext, ~Zmem
  PROVE  /\ zmemptr' = zmemptr /\ ~Zmems
         /\ \A a \in 0 .. MEM8SIZ - 1 :
              mem8'[a] = mem8[a] \/ (Puts /\ a \in pc8 .. pc8' - 1)
<1>1. ~Zmems
  <2> SUFFICES ASSUME Zmems PROVE FALSE
    OBVIOUS
  <2>1. Ready /\ oline.op = "ZMEM" /\ ~macromode /\ pass = 2
    BY DEF Zmems, Op
  <2> QED
    BY <2>1 DEF AssemblerNext, Line1, Stray, Label, Hidden, Ignored, Org, NextPage, TextScan, TextAssemble,
       Equ, Counted, Assembled, NotAMacro, Expand, Call, Macro, Endm, Files, FileIncl,
       EndOfAssembly, ExpandLine, Return, KeepLine, SecondPass, Rewind, Abort, Save, Finish,
       Fetch, FetchMacro, FetchLine, FetchIncluder, IncluderAtEnd, NoLine, Reading, Op, Ready
<1>2. /\ pc8 \in Nat /\ mem8 \in [0 .. MEM8SIZ - 1 -> Int]
  BY DEF Typed, Machine
<1>3. CASE UNCHANGED <<mem8, zmemptr>>
  BY <1>1, <1>3
<1>4. CASE Assembled \/ NotAMacro
  <2>1. /\ at = "line" /\ oline.op \in {"CODE", "CALL"} /\ zmemptr' = zmemptr
        /\ \E w : Deposit(w)
    BY <1>4 DEF Assembled, NotAMacro, Op, Ready
  <2>2. Puts
    BY <2>1 DEF Puts
  <2>3. CASE UNCHANGED mem8
    BY <1>3, <2>1, <2>3
  <2>4. CASE mem8' # mem8
    <3>1. PICK w : mem8' = [mem8 EXCEPT ![pc8] = w] /\ pc8' = pc8 + 1
      BY <2>1, <2>4 DEF Deposit
    <3>2. \A a \in 0 .. MEM8SIZ - 1 : a # pc8 => mem8'[a] = mem8[a]
      BY <1>2, <3>1
    <3>3. pc8 \in pc8 .. pc8' - 1
      BY <1>2, <3>1
    <3> QED
      BY <1>1, <2>1, <2>2, <3>2, <3>3
  <2> QED
    BY <2>3, <2>4
<1>5. CASE TextAssemble
  <2>1. /\ at = "line" /\ oline.op = "TEXT" /\ zmemptr' = zmemptr
    BY <1>5 DEF TextAssemble, Op, Ready
  <2>2. Puts
    BY <2>1 DEF Puts
  <2>3. CASE UNCHANGED mem8
    BY <1>3, <2>1, <2>3
  <2>4. CASE mem8' # mem8
    <3>1. /\ pc8' = pc8 + 1 + TextWords
          /\ mem8' = [a \in DOMAIN mem8 |->
                         IF a = pc8 THEN oline.n + oline.tail
                         ELSE IF a \in pc8 + 1 .. pc8 + TextWords THEN Letters
                         ELSE mem8[a]]
      BY <1>5, <2>4 DEF TextAssemble
    <3>2. TextWords \in Nat
      BY <2>1, WordsNat
    <3>3. \A a \in 0 .. MEM8SIZ - 1 : a # pc8 /\ a \notin pc8 + 1 .. pc8 + TextWords
                                      => mem8'[a] = mem8[a]
      BY <1>2, <3>1
    <3>4. \A a : a = pc8 \/ a \in pc8 + 1 .. pc8 + TextWords => a \in pc8 .. pc8' - 1
      <4>1. pc8' - 1 = pc8 + TextWords
        BY <1>2, <3>1, <3>2
      <4> QED
        BY <1>2, <3>2, <4>1
    <3> QED
      BY <1>1, <2>1, <2>2, <3>3, <3>4
  <2> QED
    BY <2>3, <2>4
<1>6. ~SecondPass
  BY DEF SecondPass, Rewind
<1>7. CASE \/ Stray \/ Label \/ Ignored \/ Org \/ NextPage \/ TextScan \/ Counted \/ Equ \/ Expand
           \/ Call \/ Macro \/ Endm \/ Files \/ ExpandLine \/ Return \/ KeepLine
           \/ Abort \/ Save \/ (Fetch /\ UNCHANGED asmVars)
  <2>1. UNCHANGED <<mem8, zmemptr>>
    BY <1>7 DEF Stray, Label, Ignored, Org, NextPage, TextScan, Counted, Equ, Expand, Call, Macro,
       Endm, Files, ExpandLine, Return, KeepLine, Abort, Save, asmVars, sameMemory
  <2> QED
    BY <1>3, <2>1
<1> QED
  BY <1>4, <1>5, <1>6, <1>7 DEF AssemblerNext, Line1

(* A constant c is held by the table sy and the memory m, where zm is the  *)
(* next free word of the zero page and code was put at p.                  *)
HeldBy(c, sy, zm, m, p) ==
  \E i \in 1 .. Len(sy) :
    /\ sy[i].symbol = c[1] /\ sy[i].location \in zm + 1 .. ZMEMMAX
    /\ sy[i].location \notin p => m[sy[i].location] = c[2]
Translating == pass = 2 /\ at \notin {"fatal", "wild"}
Held == /\ pass = 1 => consts = {}
        /\ Translating => \A c \in consts : HeldBy(c, symtab, zmemptr, mem8, put)

LEMMA HeldIsHold == Typed /\ Held => ConstantsHold
<1> SUFFICES ASSUME Typed, Held, Translating, put \cap (zmemptr + 1 .. ZMEMMAX) = {},
                    NEW c \in consts
             PROVE  \E i \in DOMAIN symtab : symtab[i].symbol = c[1]
                                             /\ mem8[symtab[i].location] = c[2]
  BY DEF ConstantsHold, Translating
<1>1. PICK i \in 1 .. Len(symtab) :
        /\ symtab[i].symbol = c[1] /\ symtab[i].location \in zmemptr + 1 .. ZMEMMAX
        /\ symtab[i].location \notin put => mem8[symtab[i].location] = c[2]
  BY DEF Held, HeldBy
<1>2. i \in DOMAIN symtab
  BY <1>1, TableFacts DEF Typed, Machine
<1> QED
  BY <1>1, <1>2

(* The value of an operand that has one does not depend on what an unset   *)
(* variable holds.                                                         *)
LEMMA ValueIsSet ==
  ASSUME NEW a \in Terms, Resolves(a), NEW b, NEW c PROVE Value(a, b) = Value(a, c)
<1>1. a.kind \in {"num", "sym", "dot", "dsp", "prm"}
  <2>1. ASSUME NEW kinds, NEW ns, NEW x \in OperandOf(kinds, ns) PROVE x.kind \in kinds
    BY DEF OperandOf
  <2> QED
    BY <2>1 DEF Terms
<1>2. a.kind = "sym" => Known(a.tok)
  BY DEF Resolves, Type
<1> QED
  BY <1>1, <1>2 DEF Value

LEMMA HeldStays ==
  ASSUME NEW c, NEW sy, NEW zm \in Int, NEW m, NEW p, HeldBy(c, sy, zm, m, p),
         NEW sy1, Extends(sy, sy1), NEW zm1 \in Int, zm1 <= zm, NEW m1, NEW p1, p \subseteq p1,
         \A a \in zm + 1 .. ZMEMMAX : m1[a] = m[a] \/ a \in p1,
         Len(sy) \in Nat, Len(sy1) \in Nat
  PROVE  HeldBy(c, sy1, zm1, m1, p1)
<1>1. PICK i \in 1 .. Len(sy) :
        /\ sy[i].symbol = c[1] /\ sy[i].location \in zm + 1 .. ZMEMMAX
        /\ sy[i].location \notin p => m[sy[i].location] = c[2]
  BY DEF HeldBy
<1>2. i \in 1 .. Len(sy1) /\ sy1[i].symbol = c[1] /\ sy1[i].location = sy[i].location
  BY <1>1 DEF Extends, Same
<1>3. sy1[i].location \in zm1 + 1 .. ZMEMMAX
  BY <1>1, <1>2, Sizes
<1>4. sy1[i].location \notin p1 => m1[sy1[i].location] = c[2]
  BY <1>1, <1>2
<1> QED
  BY <1>2, <1>3, <1>4 DEF HeldBy

(* The constant a ZMEM line makes, and the others.                         *)
LEMMA ZmemHeld ==
  ASSUME Typed, Held, Zmem, at' \notin {"fatal", "wild"},
         put' = put, NEW c,
         c \in consts \/ (Resolves(Head(oline.args))
                          /\ c = <<Name(oline.name), Value(Head(oline.args), 0)>>)
  PROVE  HeldBy(c, symtab', zmemptr', mem8', put')
<1>1. /\ at = "line" /\ oline.op = "ZMEM" /\ pass = 2 /\ Translating
  BY DEF Zmem, Op, Ready, Translating
<1>2. /\ Table(symtab) /\ Len(symtab) \in Nat /\ zmemptr \in 0 - 1 .. ZMEMMAX
      /\ mem8 \in [0 .. MEM8SIZ - 1 -> Int]
  BY TableFacts DEF Typed, Machine
<1>3. Head(oline.args) \in Terms
  BY <1>1, LineTyped, LineParts
<1> DEFINE name == Name(oline.name)
           arg  == Head(oline.args)
<1>4. PICK u \in Garbage : \E val \in {Value(arg, u)} :
           IF Sharing(val) # {}
           THEN /\ Insert(Entry(name, "addr", Max(Sharing(val))), "read")
                /\ UNCHANGED <<mem8, zmemptr>>
           ELSE IF zmemptr < 0 THEN at' = "wild"
           ELSE /\ mem8' = [mem8 EXCEPT ![zmemptr] = val]
                /\ zmemptr' = zmemptr - 1
                /\ Insert(Entry(name, "addr", zmemptr), "read")
  BY DEF Zmem
<1>5. PICK val \in Int : val = Value(arg, u)
  BY ZmemValue
<1>6. Resolves(arg) => Value(arg, 0) = val
  BY <1>3, <1>5, ValueIsSet
<1>7. \/ c \in consts /\ HeldBy(c, symtab, zmemptr, mem8, put)
      \/ c = <<name, val>>
  BY <1>1, <1>6 DEF Held
<1> HIDE DEF name, arg
<1>8. PICK p \in Nat :
        /\ p \in zmemptr' + 1 .. ZMEMMAX /\ mem8'[p] = val
        /\ Insert(Entry(name, "addr", p), "read")
        /\ zmemptr' \in Int /\ zmemptr' <= zmemptr
        /\ \A a \in zmemptr + 1 .. ZMEMMAX : mem8'[a] = mem8[a]
  <2>1. CASE Sharing(val) # {}
    <3>1. PICK p \in Nat : p = Max(Sharing(val)) /\ p \in zmemptr + 1 .. ZMEMMAX /\ mem8[p] = val
      BY <1>2, <2>1, SharingMax
    <3>2. Insert(Entry(name, "addr", p), "read") /\ UNCHANGED <<mem8, zmemptr>>
      BY <1>4, <1>5, <2>1, <3>1
    <3> QED
      BY <1>2, <3>1, <3>2
  <2>2. CASE Sharing(val) = {}
    <3>1. /\ ~(zmemptr < 0) /\ mem8' = [mem8 EXCEPT ![zmemptr] = val]
          /\ zmemptr' = zmemptr - 1 /\ Insert(Entry(name, "addr", zmemptr), "read")
      BY <1>4, <1>5, <2>2
    <3>2. zmemptr \in Nat /\ zmemptr \in 0 .. MEM8SIZ - 1
      BY <1>2, <3>1, Sizes
    <3>3. mem8'[zmemptr] = val /\ \A a \in zmemptr + 1 .. ZMEMMAX : mem8'[a] = mem8[a]
      BY <1>2, <3>1, <3>2, Sizes
    <3>4. zmemptr \in zmemptr' + 1 .. ZMEMMAX
      BY <1>2, <3>1, <3>2, Sizes
    <3> QED
      BY <1>2, <3>1, <3>2, <3>3, <3>4
  <2> QED
    BY <2>1, <2>2
<1>9. symtab' = Append(symtab, Entry(name, "addr", p)) /\ Extends(symtab, symtab')
  <2>1. IsEntry(Entry(name, "addr", p))
    BY EntryMade
  <2>2. "read" \notin {"fatal", "wild"}
    OBVIOUS
  <2> QED
    BY <1>2, <1>8, <2>1, <2>2, InsertExtends
<1>10. /\ Len(symtab') = Len(symtab) + 1
       /\ symtab'[Len(symtab) + 1] = Entry(name, "addr", p)
  BY <1>2, <1>9, EntryMade, TableAppend
<1>11. CASE c = <<name, val>>
  <2> DEFINE i == Len(symtab) + 1
  <2>1. i \in 1 .. Len(symtab')
    BY <1>2, <1>10
  <2>2. symtab'[i].symbol = c[1] /\ symtab'[i].location = p
    BY <1>10, <1>11 DEF Entry
  <2>3. mem8'[p] = c[2]
    BY <1>8, <1>11
  <2> HIDE DEF i
  <2> QED
    BY <1>8, <2>1, <2>2, <2>3 DEF HeldBy
<1>12. CASE HeldBy(c, symtab, zmemptr, mem8, put)
  <2>1. Len(symtab') \in Nat
    BY <1>2, <1>10
  <2>2. \A a \in zmemptr + 1 .. ZMEMMAX : mem8'[a] = mem8[a] \/ a \in put'
    BY <1>8
  <2>3. zmemptr \in Int
    BY <1>2
  <2> QED
    BY <1>2, <1>8, <1>9, <1>12, <2>1, <2>2, <2>3, HeldStays
<1> QED
  BY <1>7, <1>11, <1>12

(* What was put where, after a step of the translation.                    *)
LEMMA PutGrows ==
  ASSUME MCTranslate
  PROVE  /\ put' = put \cup (IF Puts THEN pc8 .. pc8' - 1 ELSE {})
         /\ \A a \in put' : written'[a] = IF Puts /\ a \in pc8 .. pc8' - 1 THEN oline ELSE written[a]
<1>1. written' = [a \in put \cup NowPut |-> IF a \in NowPut THEN oline ELSE written[a]]
  BY DEF MCTranslate
<1>2. put' = put \cup NowPut
  BY <1>1 DEF put
<1> QED
  BY <1>1, <1>2 DEF NowPut

LEMMA HeldStep ==
  ASSUME Typed, Held, [MCNext]_mcVars PROVE Held'
<1>1. CASE UNCHANGED <<pass, at, consts, symtab, zmemptr, mem8, put>>
  BY <1>1 DEF Held, Translating
<1>2. CASE ReadListing /\ UNCHANGED history
  BY <1>1, <1>2 DEF ReadListing, history, vars, readVars, asmVars, put
<1>3. CASE MCTranslate
  <2>1. /\ AssemblerNext
        /\ put' = put \cup (IF Puts THEN pc8 .. pc8' - 1 ELSE {})
        /\ consts' = consts \cup
             (IF Zmems /\ Resolves(Head(oline.args))
              THEN {<<Name(oline.name), Value(Head(oline.args), 0)>>} ELSE {})
    BY <1>3, PutGrows DEF MCTranslate, Translate
  <2>2. pass \in {1, 2} /\ at \notin Stopped
    <3>1. pass \in {1, 2}
      BY DEF Typed, ReaderTyped, ReaderTypeOK
    <3> QED
      BY <2>1, <3>1
       DEF Stopped, AssemblerNext, Line1, Stray, Label, Hidden, Ignored, Org, NextPage, TextScan, TextAssemble,
       Zmem, Equ, Counted, Assembled, NotAMacro, Expand, Call, Macro, Endm, Files,
       ExpandLine, Return, KeepLine, SecondPass, Rewind, Abort, Save, Finish,
       Fetch, FetchMacro, FetchLine, FetchIncluder, IncluderAtEnd, NoLine, Reading, Op, Ready
  <2>3. CASE pass = 1
    <3>1. consts = {} /\ consts' = {}
      BY <2>1, <2>3 DEF Held, Zmems
    <3> QED
      BY <3>1 DEF Held
  <2>4. CASE pass = 2
    <3>1. Translating /\ pass' = 2
      <4>1. pass' = pass
        BY <2>1, <2>4
         DEF AssemblerNext, Line1, Stray, Label, Hidden, Ignored, Org, NextPage, TextScan, TextAssemble,
         Zmem, Equ, Counted, Assembled, NotAMacro, Expand, Call, Macro, Endm, Files, FileIncl,
         EndOfAssembly, ExpandLine, Return, KeepLine, SecondPass, Rewind, Abort, Save, Finish,
         Fetch, FetchMacro, FetchLine, FetchIncluder, IncluderAtEnd, NoLine, sameReader
      <4> QED
        BY <2>2, <2>4, <4>1 DEF Translating, Stopped
    <3>2. SUFFICES ASSUME at' \notin {"fatal", "wild"}, NEW c \in consts'
                   PROVE  HeldBy(c, symtab', zmemptr', mem8', put')
      BY <3>1 DEF Held, Translating
    <3>3. CASE Zmem
      <4>1. /\ ~Puts
        BY <3>3 DEF Zmem, Op, Ready, Puts
      <4>2. put' = put
        BY <2>1, <4>1
      <4>3. c \in consts \/ (Resolves(Head(oline.args))
                             /\ c = <<Name(oline.name), Value(Head(oline.args), 0)>>)
        BY <2>1, <3>2
      <4> QED
        BY <3>2, <3>3, <4>2, <4>3, ZmemHeld
    <3>4. CASE ~Zmem
      <4>1. /\ zmemptr' = zmemptr /\ ~Zmems
            /\ \A a \in 0 .. MEM8SIZ - 1 : mem8'[a] = mem8[a] \/ (Puts /\ a \in pc8 .. pc8' - 1)
        BY <2>1, <2>4, <3>4, WritesOfCode
      <4>2. c \in consts /\ HeldBy(c, symtab, zmemptr, mem8, put)
        BY <2>1, <3>1, <3>2, <4>1 DEF Held
      <4>3. Extends(symtab, symtab') /\ Len(symtab) \in Nat /\ Len(symtab') \in Nat
        <5>1. Typed'
          BY <2>1, NextTyped
        <5>2. Table(symtab) /\ Table(symtab')
          BY <5>1 DEF Typed, Machine
        <5> QED
          BY <2>1, <5>2, TableGrows, TableFacts
      <4>4. put \subseteq put' /\ (Puts => \A a \in pc8 .. pc8' - 1 : a \in put')
        BY <2>1
      <4>5. zmemptr \in 0 - 1 .. ZMEMMAX
        BY DEF Typed, Machine
      <4>6. \A a \in zmemptr + 1 .. ZMEMMAX : mem8'[a] = mem8[a] \/ a \in put'
        <5>1. \A a \in zmemptr + 1 .. ZMEMMAX : a \in 0 .. MEM8SIZ - 1
          BY <4>5, Sizes
        <5> QED
          BY <4>1, <4>4, <5>1
      <4>7. zmemptr \in Int /\ zmemptr' \in Int /\ zmemptr' <= zmemptr
        BY <4>1, <4>5, Sizes
      <4> QED
        BY <4>2, <4>3, <4>4, <4>6, <4>7, HeldStays
    <3> QED
      BY <3>3, <3>4
  <2> QED
    BY <2>2, <2>3, <2>4
<1>4. CASE UNCHANGED mcVars
  BY <1>1, <1>4 DEF mcVars, history, vars, readVars, asmVars, put
<1> QED
  BY <1>2, <1>3, <1>4 DEF MCNext

(* A constant of ZMEM has its value in the word its name stands for,       *)
(* whoever shares that word and whatever is inserted later, as long as no  *)
(* code is put on it: deposit and po_zmem never write one word twice.      *)
THEOREM ConstantsKeepTheirValue == MCSpec => []ConstantsHold
<1>1. MCInit => Typed /\ Held
  <2>1. MCInit => Held
    BY DEF MCInit, ListingInit, AssemblerInit, ReaderInit, Held, Translating
  <2> QED
    BY <2>1, MCIsAssembler, InitTyped
<1>2. Typed /\ Held /\ [MCNext]_mcVars => (Typed /\ Held)'
  BY HeldStep, MCIsAssembler, NextTyped
<1>3. Typed /\ Held => ConstantsHold
  BY HeldIsHold
<1> QED
  BY <1>1, <1>2, <1>3, PTL DEF MCSpec

(***************************************************************************)
(* The two passes.  What a line does to the program is, but for the words  *)
(* and symbols it makes, a function of the line, of where the program is   *)
(* and of the macro called.  A chain of such events describes pass 1, and  *)
(* pass 2 goes through its beginning.                                      *)
(***************************************************************************)
(* Where the program reads: r is the stream read, those that wait and the  *)
(* lines of the macro.  The next line, and where the program reads then.   *)
At3(i, f, m) == [infile |-> i, files |-> f, macroptr |-> m]
AtEndOf(t, s) == s.line = Len(t[s.file])
MoreLines(t, r) == \/ r.macroptr # << >>
                   \/ ~AtEndOf(t, r.infile)
                   \/ r.files # << >> /\ ~AtEndOf(t, Last(r.files))
StreamOf(t, r) == IF AtEndOf(t, r.infile) THEN Last(r.files) ELSE r.infile
LineFrom(t, r) == IF r.macroptr # << >> THEN Head(r.macroptr)
                  ELSE t[StreamOf(t, r).file][StreamOf(t, r).line + 1]
ReadFrom(t, r) ==
  IF r.macroptr # << >> THEN At3(r.infile, r.files, Tail(r.macroptr))
  ELSE At3([StreamOf(t, r) EXCEPT !.line = @ + 1],
           IF AtEndOf(t, r.infile) THEN Front(r.files) ELSE r.files, r.macroptr)

(* Where the program is: where it reads, whether it goes on, the location  *)
(* counter, whether it is in a definition, the macro last called and how   *)
(* often each was.                                                         *)
Config(rd, go, pc, mac, cur, calls) ==
  [rd |-> rd, run |-> go, pc |-> pc, mac |-> mac, cur |-> cur, calls |-> calls]
CallsOf(sy) == [i \in Nat |-> IF i \in 1 .. Len(sy) THEN sy[i].refcnt ELSE 0]
Here3 == At3(infile, files, macroptr)
Now == Config(Here3, run, pc8, macromode, curmac, CallsOf(symtab))
Start == Config(At3(Open(Main), << >>, << >>), TRUE, 0, FALSE, 0, [i \in Nat |-> 0])

AfterReading(t, c) == Config(ReadFrom(t, c.rd), c.run, c.pc, c.mac, c.cur, c.calls)

(* After line l, where k is the macro it calls (or 0) and b its body.      *)
PcAfter(l, pc, mac, k) ==
  IF l.op = "ORG" THEN l.n
  ELSE IF l.op = "PAGE" THEN (pc \div PAGE8 + 1) * PAGE8
  ELSE IF l.op = "TEXT" THEN pc + 1 + (l.n + 1) \div 2
  ELSE IF ~mac /\ (l.op = "CODE" \/ (l.op = "CALL" /\ k = 0)) THEN pc + 1
  ELSE pc
MacAfter(l, mac) ==
  IF l.op = "MACRO" THEN TRUE ELSE IF l.op = "ENDM" THEN FALSE ELSE mac
InfileAfter(l, i) == IF l.op = "FILE" THEN Open(l.file) ELSE i
FilesAfter(l, i, f) == IF l.op = "FILE" THEN Append(f, i) ELSE f
RunAfter(l, go) == IF l.op = "EOA" THEN FALSE ELSE go
CallsAfter(k, calls) == IF k # 0 THEN [calls EXCEPT ![k] = @ + 1] ELSE calls
AfterLine(l, d, k, b) ==
  Config(At3(InfileAfter(l, d.rd.infile), FilesAfter(l, d.rd.infile, d.rd.files),
             IF k # 0 THEN b ELSE d.rd.macroptr),
         RunAfter(l, d.run), PcAfter(l, d.pc, d.mac, k), MacAfter(l, d.mac),
         IF k # 0 THEN k ELSE d.cur, CallsAfter(k, d.calls))

(* The macro a line calls: in a definition none is.                        *)
Callee == IF oline.op = "CALL" /\ ~macromode /\ IsMacro(oline.name) THEN Called ELSE 0
Body == symtab[Called].macdef

(* Numbers of calls.                                                       *)
LEMMA CallsAppended ==
  ASSUME NEW t, Table(t), NEW e, IsEntry(e), e.refcnt = 0
  PROVE  CallsOf(Append(t, e)) = CallsOf(t)
<1>1. /\ Len(t) \in Nat /\ Len(Append(t, e)) = Len(t) + 1
      /\ \A i \in 1 .. Len(t) : Append(t, e)[i] = t[i]
      /\ Append(t, e)[Len(t) + 1] = e
  BY TableAppend, TableFacts
<1> DEFINE a == Append(t, e)
<1> HIDE DEF a
<1>2. \A i \in Nat : (IF i \in 1 .. Len(a) THEN a[i].refcnt ELSE 0)
                     = (IF i \in 1 .. Len(t) THEN t[i].refcnt ELSE 0)
  BY <1>1 DEF a
<1>3. CallsOf(a) = CallsOf(t)
  BY <1>2 DEF CallsOf
<1> QED
  BY <1>3 DEF a

LEMMA CallsCalled ==
  ASSUME NEW t, Table(t), NEW k \in 1 .. Len(t)
  PROVE  /\ CallsOf([t EXCEPT ![k].refcnt = @ + 1]) = [CallsOf(t) EXCEPT ![k] = @ + 1]
         /\ k # 0
<1>1. PICK S : t \in Seq(EntryIn(S))
  BY DEF Table
<1>2. /\ t \in [1 .. Len(t) -> EntryIn(S)] /\ Len(t) \in Nat
  BY <1>1, LenProperties
<1> DEFINE r == [t EXCEPT ![k].refcnt = @ + 1]
<1>3. Len(r) = Len(t)
  BY TableCalled
<1>4. \A i \in 1 .. Len(t) : t[i] \in EntryIn(S)
  BY <1>2
<1>5. \A i \in 1 .. Len(t) : r[i].refcnt = IF i = k THEN t[i].refcnt + 1 ELSE t[i].refcnt
  <2>1. \A i \in 1 .. Len(t) : r[i] = IF i = k THEN [t[i] EXCEPT !.refcnt = t[i].refcnt + 1] ELSE t[i]
    BY <1>2
  <2> HIDE DEF r
  <2> QED
    BY <1>4, <2>1 DEF EntryIn
<1> HIDE DEF r
<1>6. \A i \in Nat : CallsOf(r)[i] = [CallsOf(t) EXCEPT ![k] = @ + 1][i]
  BY <1>2, <1>3, <1>5 DEF CallsOf
<1>7. CallsOf(r) = [CallsOf(t) EXCEPT ![k] = @ + 1]
  <2>1. DOMAIN CallsOf(r) = Nat /\ DOMAIN CallsOf(t) = Nat
    BY DEF CallsOf
  <2>2. CallsOf(r) = [i \in Nat |-> CallsOf(r)[i]] /\ CallsOf(t) = [i \in Nat |-> CallsOf(t)[i]]
    BY DEF CallsOf
  <2> QED
    BY <1>6, <2>1, <2>2
<1> QED
  BY <1>2, <1>7 DEF r

LEMMA CallsNone ==
  ASSUME NEW t, Table(t)
  PROVE  CallsOf([i \in DOMAIN t |-> [t[i] EXCEPT !.refcnt = 0]]) = [i \in Nat |-> 0]
<1> DEFINE r == [i \in DOMAIN t |-> [t[i] EXCEPT !.refcnt = 0]]
<1>1. PICK S : t \in Seq(EntryIn(S))
  BY DEF Table
<1>2. DOMAIN t = 1 .. Len(t) /\ Len(t) \in Nat
  BY <1>1, LenProperties
<1>3. Len(r) = Len(t)
  BY <1>2
<1>4. \A i \in 1 .. Len(t) : t[i] \in EntryIn(S)
  BY <1>1, ElementOfSeq
<1>5. \A i \in 1 .. Len(t) : r[i].refcnt = 0
  BY <1>2, <1>4 DEF EntryIn
<1> HIDE DEF r
<1>6. CallsOf(r) = [i \in Nat |-> 0]
  BY <1>3, <1>5 DEF CallsOf
<1> QED
  BY <1>6 DEF r

(* The number in a name.                                                   *)
NameIn(t, d) == <<t.sym, IF t.local THEN d.calls[d.cur] + 1 ELSE 0>>

LEMMA NameNow ==
  ASSUME Typed, NEW t, t.local => curmac # 0, NEW d, d.calls = CallsOf(symtab),
         t.local => d.cur = curmac
  PROVE  Name(t) = NameIn(t, d)
<1>1. curmac # 0 => curmac \in 1 .. Len(symtab) /\ curmac \in Nat
  BY TableFacts DEF Typed, Machine
<1>2. t.local => d.calls[d.cur] = symtab[curmac].refcnt
  BY <1>1 DEF CallsOf
<1> QED
  BY <1>2 DEF Name, NameIn

(* What a line does, all but the label in front of it.                     *)
Moves == /\ UNCHANGED <<text, oline, pass>> /\ at' = Next1
         /\ Now' = AfterLine(oline, Now, Callee, Body)

LEMMA MovesTo ==
  ASSUME NEW k, NEW b,
         infile' = InfileAfter(oline, infile), files' = FilesAfter(oline, infile, files),
         macroptr' = IF k # 0 THEN b ELSE macroptr, run' = RunAfter(oline, run),
         pc8' = PcAfter(oline, pc8, macromode, k), macromode' = MacAfter(oline, macromode),
         curmac' = IF k # 0 THEN k ELSE curmac,
         CallsOf(symtab') = CallsAfter(k, CallsOf(symtab))
  PROVE  Now' = AfterLine(oline, Now, k, b)
BY DEF Now, Here3, AfterLine, Config, At3

(* Lines that call no macro and stay in the file.                          *)
LEMMA PlainMoves ==
  ASSUME sameReader, oline.op \notin {"FILE", "EOA"}, Callee = 0,
         UNCHANGED curmac, CallsOf(symtab') = CallsOf(symtab),
         macromode' = MacAfter(oline, macromode),
         pc8' = PcAfter(oline, pc8, macromode, 0), at' = Next1
  PROVE  Moves
<1>1. /\ infile' = InfileAfter(oline, infile) /\ files' = FilesAfter(oline, infile, files)
      /\ macroptr' = macroptr /\ run' = RunAfter(oline, run)
  BY DEF sameReader, InfileAfter, FilesAfter, RunAfter
<1>2. CallsOf(symtab') = CallsAfter(0, CallsOf(symtab))
  BY DEF CallsAfter
<1>3. Now' = AfterLine(oline, Now, 0, Body)
  BY <1>1, <1>2, MovesTo
<1> QED
  BY <1>3 DEF Moves, sameReader

(* A line whose label hides it in a definition does nothing: not even one  *)
(* that would begin another definition.                                    *)
LEMMA HiddenMoves ==
  ASSUME at' \notin Stopped, Hidden, Ignored, oline.op \notin Obeyed
  PROVE  Moves
<1>1. /\ sameReader /\ UNCHANGED <<symtab, curmac, macromode, pc8>> /\ macromode
      /\ oline.op \notin {"FILE", "EOA", "ENDM", "ORG", "PAGE", "TEXT"} /\ at' = Next1
  BY DEF Ignored, Hidden, Obeyed, asmVars
<1>2. Callee = 0 /\ macromode' = MacAfter(oline, macromode)
      /\ pc8' = PcAfter(oline, pc8, macromode, 0)
  BY <1>1 DEF Callee, MacAfter, PcAfter
<1> QED
  BY <1>1, <1>2, PlainMoves

LEMMA CountingMoves ==
  ASSUME Typed, at' \notin Stopped, ~Hidden,
         \/ Ignored \/ Org \/ NextPage \/ TextScan \/ TextAssemble \/ Counted
         \/ Assembled \/ NotAMacro
  PROVE  Moves
<1>1. /\ sameReader /\ UNCHANGED <<symtab, curmac, macromode>> /\ at = "line"
      /\ pass \in {1, 2}
      /\ oline.op \notin {"FILE", "EOA", "MACRO", "ENDM"}
  BY DEF Ignored, Org, NextPage, TextScan, TextAssemble, Counted, Assembled, NotAMacro,
     Op, Ready, asmVars, symVars, macVars, Typed, ReaderTyped, ReaderTypeOK
<1>2. Callee = 0
  BY DEF Ignored, Org, NextPage, TextScan, TextAssemble, Counted, Assembled, NotAMacro,
     Op, Ready, Callee
<1>6. Assembled \/ NotAMacro => pass = 2 /\ (at' = "wild" \/ (at' = "read" /\ pc8' = pc8 + 1))
  <2>1. Assembled \/ NotAMacro => pass = 2 /\ \E w : Deposit(w)
    BY DEF Assembled, NotAMacro
  <2> QED
    BY <2>1 DEF Deposit
<1>3. pc8' = PcAfter(oline, pc8, macromode, 0)
  <2>1. CASE Ignored
    <3>1. /\ pc8' = pc8 /\ oline.op \notin {"ORG", "PAGE", "TEXT"}
          /\ oline.op \in {"CODE", "CALL"} => macromode
      BY <2>1 DEF Ignored, Op, asmVars
    <3> QED
      BY <3>1 DEF PcAfter
  <2>2. CASE Org \/ NextPage \/ TextScan
    BY <2>2 DEF Org, NextPage, TextScan, Op, TextWords, PcAfter
  <2>3. CASE TextAssemble
    BY <2>3 DEF TextAssemble, Op, TextWords, PcAfter, Stopped
  <2>4. CASE Counted
    BY <2>4 DEF Counted, Op, PcAfter
  <2>5. CASE Assembled \/ NotAMacro
    <3>1. pc8' = pc8 + 1
      BY <1>6, <2>5 DEF Stopped
    <3>2. oline.op \in {"CODE", "CALL"} /\ ~macromode
      BY <2>5 DEF Assembled, NotAMacro, Op
    <3> QED
      BY <3>1, <3>2 DEF PcAfter
  <2> QED
    BY <2>1, <2>2, <2>3, <2>4, <2>5
<1>4. at' = Next1
  BY <1>1, <1>6 DEF Ignored, Org, NextPage, TextScan, TextAssemble, Counted, Next1, Stopped
<1>5. macromode' = MacAfter(oline, macromode)
  BY <1>1 DEF MacAfter
<1> QED
  BY <1>1, <1>2, <1>3, <1>4, <1>5, PlainMoves

(* Lines that enter a symbol.                                              *)
LEMMA EnteringMoves ==
  ASSUME Typed, at' \notin Stopped, Zmem \/ Equ
  PROVE  Moves
<1>1. /\ sameReader /\ UNCHANGED <<pc8, curmac, macromode>>
      /\ oline.op \in {"ZMEM", "EQU"}
  BY DEF Zmem, Equ, Op, symVars, macVars, sameMemory
<1>2. Table(symtab)
  BY DEF Typed, Machine
<1>3. CallsOf(symtab') = CallsOf(symtab) /\ at' = Next1
  <2>1. CASE Zmem
    <3>1. PICK val : IF Sharing(val) # {}
           THEN Insert(Entry(Name(oline.name), "addr", Max(Sharing(val))), "read")
           ELSE IF zmemptr < 0 THEN at' = "wild"
           ELSE Insert(Entry(Name(oline.name), "addr", zmemptr), "read")
      BY <2>1 DEF Zmem
    <3>2. PICK p \in Nat : Insert(Entry(Name(oline.name), "addr", p), "read")
      <4>1. CASE Sharing(val) # {}
        <5>1. Max(Sharing(val)) \in Nat
          BY <4>1, SharingMax DEF Typed, Machine
        <5> QED
          BY <3>1, <4>1, <5>1
      <4>2. CASE Sharing(val) = {}
        <5>1. zmemptr \in Nat
          BY <3>1, <4>2, Sizes DEF Stopped, Typed, Machine
        <5> QED
          BY <3>1, <4>2, <5>1 DEF Stopped
      <4> QED
        BY <4>1, <4>2
    <3> DEFINE e == Entry(Name(oline.name), "addr", p)
    <3>3. IsEntry(e) /\ e.refcnt = 0
      BY EntryMade DEF Entry
    <3>4. Insert(e, "read")
      BY <3>2
    <3> HIDE DEF e
    <3>5. at' = "read" /\ symtab' = Append(symtab, e)
      BY <1>2, <3>3, <3>4, InsertExtends DEF Stopped
    <3>6. pass = 2
      BY <2>1 DEF Zmem
    <3> QED
      BY <1>2, <3>3, <3>5, <3>6, CallsAppended DEF Next1
  <2>2. CASE Equ
    <3>1. ~(Len(symtab) >= SYMSIZ)
      BY <2>2 DEF Equ, Stopped
    <3>2. PICK u \in Garbage :
            symtab' = Append(symtab, Entry(Name(oline.name), "litr", Loc(oline.code, oline.args, u)))
      BY <2>2, <3>1 DEF Equ
    <3>3. oline.code \in Nat /\ oline.args \in Seq(Operands)
      BY <2>2, LineTyped, LineParts DEF Equ, Op, Ready
    <3>4. PICK p \in Nat : p = Loc(oline.code, oline.args, u)
      BY <3>3, LocNat, TypedIsNumbers, GarbageInt
    <3>5. LET e == Entry(Name(oline.name), "litr", p) IN IsEntry(e) /\ e.refcnt = 0
      BY EntryMade DEF Entry
    <3>6. at' = Next1
      BY <2>2, <3>1 DEF Equ, MarkEnd, Stopped
    <3> QED
      BY <1>2, <3>2, <3>4, <3>5, <3>6, CallsAppended
  <2> QED
    BY <2>1, <2>2
<1>4. /\ Callee = 0 /\ macromode' = MacAfter(oline, macromode)
      /\ pc8' = PcAfter(oline, pc8, macromode, 0)
  BY <1>1 DEF Callee, MacAfter, PcAfter
<1> QED
  BY <1>1, <1>3, <1>4, PlainMoves

LEMMA DefiningMoves ==
  ASSUME Typed, slot.refcnt = 0, at' \notin Stopped, Macro \/ Endm
  PROVE  Moves
<1>1. /\ sameReader /\ UNCHANGED <<pc8, curmac>>
      /\ oline.op \in {"MACRO", "ENDM"} /\ macromode' = MacAfter(oline, macromode)
  BY DEF Macro, Endm, Op, MacAfter
<1>2. CallsOf(symtab') = CallsOf(symtab)
  <2>1. CASE UNCHANGED symtab
    BY <2>1
  <2>2. CASE symtab' = Append(symtab, slot)
    BY <2>2, CallsAppended DEF Typed, Machine
  <2> QED
    BY <2>1, <2>2 DEF Macro, Endm
<1>3. at' = Next1
  <2>1. pass \in {1, 2} /\ at' \notin {"fatal", "wild"}
    BY DEF Stopped, Typed, ReaderTyped, ReaderTypeOK
  <2>2. CASE Macro
    BY <2>1, <2>2 DEF Macro, Next1
  <2>3. CASE Endm
    <3>1. IF pass = 2 THEN at' = "read" ELSE MarkEnd(Len(symtab) + 1, "scanned")
      BY <2>3 DEF Endm
    <3>2. at' \in {"scanned", "read", "wild"}
      BY <3>1 DEF MarkEnd
    <3>3. pass = 1 => at' \in {"scanned", "wild"}
      BY <3>1 DEF MarkEnd
    <3> QED
      BY <2>1, <3>1, <3>2, <3>3 DEF Next1
  <2> QED
    BY <2>2, <2>3
<1>4. Callee = 0 /\ pc8' = PcAfter(oline, pc8, macromode, 0)
  BY <1>1 DEF Callee, PcAfter
<1> QED
  BY <1>1, <1>2, <1>3, <1>4, PlainMoves

LEMMA CallingMoves ==
  ASSUME Typed, at' \notin Stopped, ~GoesAstray, Expand \/ Call
  PROVE  Moves
<1>1. /\ Calling /\ oline.op = "CALL" /\ ~macromode /\ IsMacro(oline.name)
      /\ UNCHANGED <<text, infile, files, oline, run, pass, pc8, macromode>>
      /\ at' = Next1
  BY DEF Expand, Call, GoesAstray, Stopped, Next1, Op
<1>2. Callee = Called /\ Called \in 1 .. Len(symtab)
  BY <1>1, LocationFound DEF Callee, Called, IsMacro, Typed, Machine
<1>3. /\ CallsOf(symtab') = [CallsOf(symtab) EXCEPT ![Called] = @ + 1]
      /\ Called # 0
  BY <1>1, <1>2, CallsCalled DEF Calling, Typed, Machine
<1>4. curmac' = Called /\ macroptr' = Body
  BY <1>1 DEF Calling, Body
<1>5. Now' = AfterLine(oline, Now, Called, Body)
  <2>1. CallsOf(symtab') = CallsAfter(Called, CallsOf(symtab))
    BY <1>3 DEF CallsAfter
  <2>2. pc8' = PcAfter(oline, pc8, macromode, Called)
    BY <1>1, <1>3 DEF PcAfter
  <2>3. /\ infile' = InfileAfter(oline, infile) /\ files' = FilesAfter(oline, infile, files)
        /\ run' = RunAfter(oline, run) /\ macromode' = MacAfter(oline, macromode)
    BY <1>1 DEF InfileAfter, FilesAfter, RunAfter, MacAfter
  <2> QED
    BY <1>3, <1>4, <2>1, <2>2, <2>3, MovesTo
<1> QED
  BY <1>1, <1>2, <1>5 DEF Moves

LEMMA IncludingMoves ==
  ASSUME at' \notin Stopped, Files
  PROVE  Moves
<1>1. /\ UNCHANGED <<text, macroptr, oline, pass>> /\ at' = Next1
      /\ UNCHANGED <<pc8, macromode, curmac, symtab>> /\ oline.op \in {"FILE", "EOA"}
  BY DEF Files, FileIncl, EndOfAssembly, asmVars, Stopped
<1>2. /\ infile' = InfileAfter(oline, infile) /\ files' = FilesAfter(oline, infile, files)
      /\ run' = RunAfter(oline, run)
  BY DEF Files, FileIncl, EndOfAssembly, Stopped, InfileAfter, FilesAfter, RunAfter
<1>3. /\ Callee = 0 /\ macromode' = MacAfter(oline, macromode)
      /\ pc8' = PcAfter(oline, pc8, macromode, 0)
      /\ CallsOf(symtab') = CallsAfter(0, CallsOf(symtab))
  BY <1>1 DEF Callee, MacAfter, PcAfter, CallsAfter
<1>4. Now' = AfterLine(oline, Now, 0, Body)
  BY <1>1, <1>2, <1>3, MovesTo
<1> QED
  BY <1>1, <1>3, <1>4 DEF Moves

LEMMA HandledLine ==
  ASSUME Typed, slot.refcnt = 0, Line1, ~Label, at' \notin Stopped,
         ~GoesAstray
  PROVE  Moves
<1>1. ~Stray
  BY DEF Stray, Stopped
<1>2. Hidden => Ignored /\ oline.op \notin Obeyed
  BY <1>1 DEF GoesAstray, Hidden, Labelled, Line1, Org, NextPage, TextScan, TextAssemble, Zmem,
     Equ, Counted, Assembled, NotAMacro, Expand, Call, Macro, Endm, Files, Op, Ready
<1> QED
  BY <1>1, <1>2, HiddenMoves, CountingMoves, EnteringMoves, DefiningMoves, CallingMoves,
     IncludingMoves DEF Line1

(***************************************************************************)
(* What is read                                                            *)
(***************************************************************************)
LEMMA ReadNext ==
  ASSUME Typed, Fetch, at' = "line"
  PROVE  /\ run /\ MoreLines(text, Here3) /\ oline' = LineFrom(text, Here3)
         /\ Here3' = ReadFrom(text, Here3) /\ at = "read"
         /\ UNCHANGED <<text, run, pass>>
<1>1. infile \in Streams /\ files \in Seq(Streams)
  BY DEF Typed, ReaderTyped
<1>2. CASE FetchMacro
  BY <1>2 DEF FetchMacro, Reading, Here3, At3, MoreLines, LineFrom, ReadFrom
<1>3. CASE FetchLine
  BY <1>3 DEF FetchLine, Reading, Take, LineOf, AtEnd, AtEndOf, Here3, At3,
     MoreLines, LineFrom, ReadFrom, StreamOf
<1>4. CASE FetchIncluder
  BY <1>4 DEF FetchIncluder, Reading, Take, LineOf, AtEnd, AtEndOf, Here3, At3,
     MoreLines, LineFrom, ReadFrom, StreamOf
<1> QED
  BY <1>2, <1>3, <1>4 DEF Fetch, IncluderAtEnd, NoLine

LEMMA ReadNone ==
  ASSUME Fetch, at' # "line"
  PROVE  /\ ~(run /\ MoreLines(text, Here3)) /\ at = "read" /\ at' = "end"
         /\ UNCHANGED <<text, run, pass>>
<1>1. CASE IncluderAtEnd
  BY <1>1 DEF IncluderAtEnd, Reading, AtEnd, AtEndOf, Here3, At3, MoreLines
<1>2. CASE NoLine
  BY <1>2 DEF NoLine, AtEnd, AtEndOf, Here3, At3, MoreLines
<1> QED
  BY <1>1, <1>2 DEF Fetch, FetchMacro, FetchLine, FetchIncluder

LEMMA ReadBody ==
  ASSUME ExpandLine
  PROVE  /\ MoreLines(text, Here3) /\ oline' = LineFrom(text, Here3)
         /\ Here3' = ReadFrom(text, Here3)
         /\ UNCHANGED <<text, run, pass>>
BY DEF ExpandLine, Here3, At3, MoreLines, LineFrom, ReadFrom

(* Where the program is after a line was read.                             *)
LEMMA NowReading ==
  ASSUME Here3' = ReadFrom(text, Here3), UNCHANGED <<run, asmVars>>
  PROVE  Now' = AfterReading(text, Now)
<1>1. UNCHANGED <<pc8, macromode, curmac, symtab>>
  BY DEF asmVars
<1> QED
  BY <1>1 DEF Now, AfterReading, Config

(***************************************************************************)
(* The chain of the lines of pass 1                                        *)
(***************************************************************************)
(* The first entry with a name.                                            *)
First(sy, name, i) == /\ i \in 1 .. Len(sy) /\ sy[i].symbol = name
                      /\ \A j \in 1 .. i - 1 : sy[j].symbol # name

(* A label stands in the table where its line was read, a macro that was   *)
(* called is the first with its name, and one that was not was counted.    *)
LabelStands(sy, l, c) ==
  ~c.mac /\ l.label # NoToken =>
    /\ l.label.local => c.cur # 0
    /\ \E i \in 1 .. Len(sy) : First(sy, NameIn(l.label, c), i) /\ sy[i].location = c.pc
MacroStands(sy, name, k, b) ==
  First(sy, name, k) /\ sy[k].type = "macro" /\ sy[k].macdef = b
CallStands(sy, cnt, e) ==
  IF e.line.op = "CALL" /\ ~e.at.mac
  THEN /\ e.line.name.local => e.at.cur # 0
       /\ IF e.callee = 0 THEN NameIn(e.line.name, e.at) \in cnt
          ELSE MacroStands(sy, NameIn(e.line.name, e.at), e.callee, e.body)
  ELSE e.callee = 0

(* Event e, a line read and handled, comes after c.                        *)
Event(t, sy, cnt, c, e) ==
  /\ MoreLines(t, c.rd) /\ e.line = LineFrom(t, c.rd) /\ e.at = AfterReading(t, c)
  /\ LabelStands(sy, e.line, e.at) /\ CallStands(sy, cnt, e)
  /\ e.after = AfterLine(e.line, e.at, e.callee, e.body)
Chain(t, sy, cnt, tr, m) ==
  /\ m \in Nat /\ tr[0].after = Start
  /\ \A i \in 1 .. m : Event(t, sy, cnt, tr[i - 1].after, tr[i])

LEMMA FirstStays ==
  ASSUME NEW s, Table(s), NEW t, Table(t), Extends(s, t), NEW name, NEW i, First(s, name, i)
  PROVE  First(t, name, i) /\ Same(s[i], t[i])
<1>1. Len(s) \in Nat /\ Len(t) \in Nat /\ Len(s) <= Len(t)
  BY TableFacts DEF Extends
<1>2. i \in 1 .. Len(t) /\ \A j \in 1 .. i : j \in 1 .. Len(s)
  BY <1>1 DEF First
<1> QED
  BY <1>1, <1>2 DEF First, Extends, Same

LEMMA ChainStays ==
  ASSUME NEW s, Table(s), NEW sy, Table(sy), Extends(s, sy),
         NEW c, NEW cnt, c \subseteq cnt, NEW t, NEW tr, NEW m, Chain(t, s, c, tr, m)
  PROVE  Chain(t, sy, cnt, tr, m)
<1> SUFFICES ASSUME NEW i \in 1 .. m
             PROVE  Event(t, sy, cnt, tr[i - 1].after, tr[i])
  BY DEF Chain
<1> DEFINE e == tr[i]
<1>1. Event(t, s, c, tr[i - 1].after, e)
  BY DEF Chain
<1> HIDE DEF e
<1>2. LabelStands(sy, e.line, e.at)
  <2>1. LabelStands(s, e.line, e.at)
    BY <1>1 DEF Event
  <2>2. \A j, name : First(s, name, j) => /\ First(sy, name, j) /\ j \in 1 .. Len(sy)
                                          /\ sy[j].location = s[j].location
    BY FirstStays DEF First, Same
  <2> QED
    BY <2>1, <2>2 DEF LabelStands
<1>3. CallStands(sy, cnt, e)
  <2>1. CallStands(s, c, e)
    BY <1>1 DEF Event
  <2>2. \A name, k, b : MacroStands(s, name, k, b) => MacroStands(sy, name, k, b)
    BY FirstStays DEF MacroStands, Same
  <2> QED
    BY <2>1, <2>2 DEF CallStands
<1>4. Event(t, sy, cnt, tr[i - 1].after, e)
  BY <1>1, <1>2, <1>3 DEF Event
<1> QED
  BY <1>4 DEF e

LEMMA ChainGrows ==
  ASSUME NEW t, NEW sy, NEW cnt, NEW tr, NEW m, Chain(t, sy, cnt, tr, m),
         NEW e, Event(t, sy, cnt, tr[m].after, e)
  PROVE  \E tr1 : Chain(t, sy, cnt, tr1, m + 1) /\ tr1[m + 1] = e
<1> DEFINE tr1 == [i \in 0 .. m + 1 |-> IF i = m + 1 THEN e ELSE tr[i]]
<1>1. m \in Nat /\ tr[0].after = Start
      /\ \A i \in 1 .. m : Event(t, sy, cnt, tr[i - 1].after, tr[i])
  BY DEF Chain
<1>2. tr1[m + 1] = e /\ \A i \in 0 .. m : tr1[i] = tr[i]
  BY <1>1
<1> HIDE DEF tr1
<1>3. tr1[0].after = Start /\ m + 1 \in Nat
  BY <1>1, <1>2
<1>4. \A i \in 1 .. m + 1 : Event(t, sy, cnt, tr1[i - 1].after, tr1[i])
  <2> TAKE i \in 1 .. m + 1
  <2>1. CASE i = m + 1
    <3>1. i - 1 = m /\ tr1[i - 1] = tr[m]
      BY <1>1, <1>2, <2>1
    <3> QED
      BY <1>2, <2>1, <3>1
  <2>2. CASE i # m + 1
    <3>1. i \in 1 .. m /\ i \in 0 .. m /\ i - 1 \in 0 .. m
      BY <1>1, <2>2
    <3> QED
      BY <1>1, <1>2, <3>1
  <2> QED
    BY <2>1, <2>2
<1>5. Chain(t, sy, cnt, tr1, m + 1)
  BY <1>3, <1>4 DEF Chain
<1> QED
  BY <1>2, <1>5

(***************************************************************************)
(* Where the streams stand                                                 *)
(***************************************************************************)
(* The main file is at the bottom of the streams, and in pass 1 the lines  *)
(* of a macro are read within a call of symscan.                           *)
Bottom(i, f) == IF f = << >> THEN i ELSE f[1]
Nest ==
  /\ slot.refcnt = 0 /\ Bottom(infile, files).file = Main /\ macromode \in BOOLEAN
  /\ pass = 2 => at # "scanned"
  /\ pass = 1 /\ at \notin Stopped =>
       /\ depth = 0 => macroptr = << >>
       /\ at \in {"read", "end"} => depth = 0

LEMMA BottomStays ==
  ASSUME Typed, AssemblerNext, Bottom(infile, files).file = Main
  PROVE  Bottom(infile', files').file = Main
<1>1. infile \in Streams /\ files \in Seq(Streams) /\ Len(files) \in Nat
  BY DEF Typed, ReaderTyped
<1>2. CASE UNCHANGED files /\ infile'.file = infile.file
  BY <1>2 DEF Bottom
<1>3. CASE files # << >> /\ files' = Front(files) /\ infile'.file = Last(files).file
  <2>1. Len(files) >= 1
    BY <1>1, <1>3
  <2>2. CASE Len(files) = 1
    <3>1. Front(files) = << >> /\ Last(files) = files[1]
      BY <1>1, <2>2 DEF Front, Last
    <3> QED
      BY <1>3, <3>1 DEF Bottom
  <2>3. CASE Len(files) # 1
    <3>1. /\ Front(files) \in Seq(Streams) /\ Len(Front(files)) = Len(files) - 1
          /\ \A i \in 1 .. Len(files) - 1 : Front(files)[i] = files[i]
      BY <1>3, LastFile DEF Typed
    <3>2. Front(files) # << >> /\ Front(files)[1] = files[1]
      BY <1>1, <2>1, <2>3, <3>1
    <3> QED
      BY <1>3, <3>1, <3>2 DEF Bottom
  <2> QED
    BY <2>2, <2>3
<1>4. CASE files' = Append(files, infile)
  <2>1. files' # << >> /\ (files # << >> => files'[1] = files[1])
        /\ (files = << >> => files'[1] = infile)
    BY <1>1, <1>4
  <2> QED
    BY <2>1 DEF Bottom
<1>5. CASE UNCHANGED <<infile, files>>
  BY <1>2, <1>5
<1>6. CASE Line1
  BY <1>4, <1>5, <1>6 DEF Line1, Stray, Label, Hidden, Ignored, Org, NextPage, TextScan, TextAssemble,
     Zmem, Equ, Counted, Assembled, NotAMacro, Expand, Call, Macro, Endm, Files,
     FileIncl, EndOfAssembly, sameReader
<1>7. CASE Fetch
  BY <1>1, <1>2, <1>3, <1>5, <1>7, LastFile DEF Fetch, FetchMacro, FetchLine, FetchIncluder,
     IncluderAtEnd, NoLine, Take, Streams, Typed
<1>8. CASE SecondPass
  BY <1>1, <1>2, <1>8 DEF SecondPass, Rewind, Streams
<1> QED
  BY <1>5, <1>6, <1>7, <1>8 DEF AssemblerNext, ExpandLine, Return, KeepLine, Abort, Save,
     Finish, sameReader

(* An error is never taken back.                                           *)
LEMMA ErrorsStay ==
  ASSUME Typed, AssemblerNext, errcnt' = 0
  PROVE  errcnt = 0
<1>1. errcnt \in Nat
  BY DEF Typed, Machine
<1>2. CASE UNCHANGED errcnt \/ \E x, y \in Nat : errcnt' = errcnt + x + y
  BY <1>1, <1>2
<1>3. CASE Equ
  <2>1. oline.code \in Nat /\ oline.args \in Seq(Operands)
    BY <1>3, LineTyped, LineParts DEF Equ, Op, Ready
  <2>2. \A u \in Garbage : LocErrors(oline.code, oline.args, u) \in Nat
    BY <2>1, LocErrorsNat
  <2>3. CASE Len(symtab) >= SYMSIZ
    BY <1>2, <1>3, <2>3 DEF Equ
  <2>4. CASE ~(Len(symtab) >= SYMSIZ)
    <3>1. \E u \in Garbage, y \in {0, 1} : errcnt' = errcnt + LocErrors(oline.code, oline.args, u) + y
      BY <1>3, <2>4 DEF Equ
    <3> QED
      BY <1>2, <2>2, <3>1
  <2> QED
    BY <2>3, <2>4
<1>4. CASE Label \/ Macro \/ Zmem
  <2>1. UNCHANGED errcnt \/ \E x \in {0, 1} : errcnt' = errcnt + x
    BY <1>4 DEF Label, Macro, Zmem, Insert
  <2> QED
    BY <1>1, <2>1
<1>8. CASE NotAMacro
  <2>1. oline.args \in Seq(Operands)
    BY <1>8, LineTyped, LineParts DEF NotAMacro, Op, Ready
  <2>2. \E T : T \subseteq DOMAIN oline.args /\
          errcnt' = errcnt + Cardinality(T) + (IF Known(oline.name) THEN 0 ELSE 1)
    BY <1>8 DEF NotAMacro
  <2>3. PICK n \in Nat, x \in {0, 1} : errcnt' = errcnt + n + x
    BY <2>1, <2>2, CountsArgs
  <2> QED
    BY <1>1, <2>3
<1>5. CASE Assembled
  <2>1. oline.args \in Seq(Operands)
    BY <1>5, LineTyped, LineParts DEF Assembled, Op, Ready
  <2>2. PICK u \in Garbage : errcnt' = errcnt + LocErrors(oline.code, oline.args, u)
    BY <1>5 DEF Assembled
  <2> QED
    BY <1>1, <2>1, <2>2, LocErrorsNat
<1>6. CASE Call
  <2>1. oline.args \in Seq(Operands)
    BY <1>6, LineTyped, LineParts DEF Call, Op, Ready
  <2>2. PICK u \in Garbage :
          errcnt' = errcnt + Cardinality({i \in DOMAIN oline.args : BadPara(i, u)})
    BY <1>6 DEF Call
  <2>3. Cardinality({i \in DOMAIN oline.args : BadPara(i, u)}) \in Nat
    BY <2>1, CountsArgs
  <2> QED
    BY <1>1, <2>2, <2>3
<1>7. CASE \/ Stray \/ Ignored \/ Org \/ NextPage \/ TextScan \/ TextAssemble \/ Counted
           \/ Expand \/ Endm \/ Files \/ ExpandLine \/ Return \/ KeepLine \/ SecondPass \/ Abort \/ Save
           \/ (Fetch /\ UNCHANGED asmVars)
  <2>1. UNCHANGED errcnt
    BY <1>7 DEF Stray, Ignored, Org, NextPage, TextScan, TextAssemble, Counted, Expand, Endm, Files,
       ExpandLine, Return, KeepLine, SecondPass, Abort, Save, asmVars
  <2> QED
    BY <2>1
<1> QED
  BY <1>3, <1>4, <1>5, <1>6, <1>7, <1>8 DEF AssemblerNext, Line1

(* What a step keeps.                                                      *)
LEMMA StepKeeps ==
  ASSUME Typed, AssemblerNext
  PROVE  /\ at \notin Stopped /\ UNCHANGED text
         /\ UNCHANGED pass \/ SecondPass
         /\ depth' <= 1 => depth <= 1
<1>1. depth \in Nat
  BY DEF Typed, Machine
<1>2. at \notin Stopped
  BY DEF AssemblerNext, Line1, Stray, Label, Hidden, Ignored, Org, NextPage, TextScan, TextAssemble,
     Zmem, Equ, Counted, Assembled, NotAMacro, Expand, Call, Macro, Endm, Files, Op, Ready,
     ExpandLine, Return, KeepLine, SecondPass, Rewind, Abort, Save, Finish,
     Fetch, FetchMacro, FetchLine, FetchIncluder, IncluderAtEnd, NoLine, Reading, Stopped
<1>3. UNCHANGED text /\ (UNCHANGED pass \/ SecondPass)
  BY DEF AssemblerNext, Line1, Stray, Label, Hidden, Ignored, Org, NextPage, TextScan, TextAssemble,
     Zmem, Equ, Counted, Assembled, NotAMacro, Expand, Call, Macro, Endm, Files, FileIncl,
     EndOfAssembly, ExpandLine, Return, KeepLine, SecondPass, Rewind, Abort, Save, Finish,
     Fetch, FetchMacro, FetchLine, FetchIncluder, IncluderAtEnd, NoLine, sameReader
<1>4. \/ UNCHANGED depth \/ depth' = depth + 1 \/ depth = 1
  BY DEF AssemblerNext, Line1, Stray, Label, Hidden, Ignored, Org, NextPage, TextScan, TextAssemble,
     Zmem, Equ, Counted, Assembled, NotAMacro, Expand, Call, Macro, Endm, Files,
     ExpandLine, Return, KeepLine, SecondPass, Abort, Save, asmVars, macVars
<1> QED
  BY <1>1, <1>2, <1>3, <1>4

LEMMA NestStays ==
  ASSUME Typed, Nest, AssemblerNext
  PROVE  Nest'
<1>1. slot'.refcnt = 0
  <2>1. IsEntry(slot) /\ slot.refcnt = 0
    BY DEF Typed, Machine, Nest
  <2>2. CASE KeepLine
    <3>1. PICK S : slot \in EntryIn(S)
      BY <2>1 DEF IsEntry
    <3>2. \A b : [slot EXCEPT !.macdef = b].refcnt = 0
      BY <2>1, <3>1 DEF EntryIn
    <3>3. slot' = slot \/ \E b : slot' = [slot EXCEPT !.macdef = b]
      BY <2>2 DEF KeepLine
    <3> QED
      BY <2>1, <3>2, <3>3
  <2>3. CASE Macro \/ Endm
    <3>1. slot' = slot \/ \E s, type : slot' = Entry(s, type, 0)
      BY <2>3 DEF Macro, Endm
    <3> QED
      BY <2>1, <3>1 DEF Entry
  <2>4. CASE Line1 /\ ~Macro /\ ~Endm
    <3>1. UNCHANGED slot
      BY <2>4 DEF Line1, Stray, Label, Hidden, Ignored, Org, NextPage, TextScan,
         TextAssemble, Zmem, Equ, Counted, Assembled, NotAMacro, Expand, Call, Files,
         asmVars, symVars
    <3> QED
      BY <2>1, <3>1
  <2>5. CASE \/ ExpandLine \/ Return \/ SecondPass \/ Abort \/ Save
             \/ (Fetch /\ UNCHANGED asmVars)
    <3>1. UNCHANGED slot
      BY <2>5 DEF ExpandLine, Return, SecondPass, Abort, Save, asmVars, symVars
    <3> QED
      BY <2>1, <3>1
  <2> QED
    BY <2>2, <2>3, <2>4, <2>5 DEF AssemblerNext
<1>2. Bottom(infile', files').file = Main
  BY BottomStays DEF Nest
<1>3. depth \in Nat /\ slot.refcnt = 0 /\ pass \in {1, 2}
  BY DEF Nest, Typed, Machine, ReaderTyped, ReaderTypeOK
<1>4. pass' = 2 => at' # "scanned"
  <2>1. CASE Line1 /\ ~Label
    <3>1. CASE at' \in Stopped
      BY <3>1 DEF Stopped
    <3>2. CASE at' \notin Stopped /\ pass = 2
      <4>1. Moves
        BY <1>3, <2>1, <3>2, HandledLine DEF GoesAstray
      <4> QED
        BY <3>2, <4>1 DEF Moves, Next1
    <3>3. CASE pass = 1
      <4>1. pass' = 1
        BY <2>1, <3>3, StepKeeps DEF SecondPass, Rewind, Line1, Stray, Ignored, Org, NextPage,
           TextScan, TextAssemble, Zmem, Equ, Counted, Assembled, NotAMacro, Expand, Call,
           Macro, Endm, Files, FileIncl, EndOfAssembly, sameReader
      <4> QED
        BY <4>1
    <3> QED
      BY <1>3, <3>1, <3>2, <3>3
  <2>2. CASE Label
    BY <2>2 DEF Label, Insert, MarkEnd
  <2>3. CASE ExpandLine \/ Return \/ KeepLine
    BY <2>3 DEF ExpandLine, Return, KeepLine, sameReader, Nest
  <2>4. CASE SecondPass \/ Abort \/ Save \/ (Fetch /\ UNCHANGED asmVars)
    BY <2>4, ReadNone DEF SecondPass, Rewind, Abort, Save, Finish
  <2> QED
    BY <2>1, <2>2, <2>3, <2>4 DEF AssemblerNext
<1>5. pass' = 1 /\ at' \notin Stopped =>
        /\ depth' = 0 => macroptr' = << >>
        /\ at' \in {"read", "end"} => depth' = 0
  <2> SUFFICES ASSUME pass' = 1, at' \notin Stopped
               PROVE  /\ depth' = 0 => macroptr' = << >>
                      /\ at' \in {"read", "end"} => depth' = 0
    OBVIOUS
  <2>1. /\ pass = 1 /\ at \notin Stopped
        /\ depth = 0 => macroptr = << >>
        /\ at \in {"read", "end"} => depth = 0
    BY <1>3, StepKeeps DEF SecondPass, Rewind, Nest
  <2>2. CASE Line1 /\ ~Expand
    <3>1. UNCHANGED <<depth, macroptr>>
      <4>1. CASE \/ Stray \/ Label \/ Ignored \/ Org \/ NextPage \/ TextScan \/ Equ \/ Counted
        BY <4>1 DEF Stray, Label, Ignored, Org, NextPage, TextScan, Equ, Counted, sameReader,
           asmVars, macVars
      <4>2. CASE Macro \/ Endm \/ Files
        BY <4>2 DEF Macro, Endm, Files, FileIncl, EndOfAssembly, sameReader, asmVars
      <4>3. ~TextAssemble /\ ~Zmem /\ ~Assembled /\ ~NotAMacro /\ ~Call
        BY <2>1 DEF TextAssemble, Zmem, Assembled, NotAMacro, Call
      <4> QED
        BY <2>2, <4>1, <4>2, <4>3 DEF Line1
    <3>2. at' \notin {"read", "end"}
      <4>1. CASE Label
        BY <4>1 DEF Label, Insert, MarkEnd
      <4>2. CASE Stray \/ Ignored
        BY <2>1, <4>2 DEF Stray, Ignored, Next1
      <4>3. CASE ~Label /\ ~Stray /\ ~Ignored
        <5>1. Ready
          BY <2>2, <4>3 DEF Line1, Org, NextPage, TextScan, TextAssemble, Zmem, Equ, Counted,
             Assembled, NotAMacro, Call, Macro, Endm, Files, Op
        <5>2. ~(oline.op = "CALL" /\ macromode /\ IsMacro(oline.name))
          <6> SUFFICES ASSUME oline.op = "CALL", macromode, IsMacro(oline.name)
                       PROVE  FALSE
            OBVIOUS
          <6>1. ~Org /\ ~NextPage /\ ~TextScan /\ ~TextAssemble /\ ~Zmem /\ ~Equ
            BY DEF Org, NextPage, TextScan, TextAssemble, Zmem, Equ, Op
          <6>2. ~Counted /\ ~Assembled /\ ~NotAMacro /\ ~Call
            BY DEF Counted, Assembled, NotAMacro, Call
          <6>3. ~Macro /\ ~Endm /\ ~Files
            BY DEF Macro, Endm, Files, FileIncl, EndOfAssembly, Op
          <6> QED
            BY <2>2, <4>3, <6>1, <6>2, <6>3 DEF Line1
        <5>3. ~GoesAstray
          BY <5>1, <5>2 DEF GoesAstray, Hidden, Ready, Op
        <5>4. at' = Next1
          BY <1>3, <2>2, <4>3, <5>3, HandledLine DEF Moves
        <5> QED
          BY <2>1, <5>4 DEF Next1
      <4> QED
        BY <4>1, <4>2, <4>3
    <3> QED
      BY <2>1, <3>1, <3>2
  <2>3. CASE Expand
    BY <1>3, <2>3 DEF Expand, Stopped
  <2>4. CASE ExpandLine \/ Return \/ KeepLine
    BY <1>3, <2>1, <2>4 DEF ExpandLine, Return, KeepLine, sameReader, macVars, asmVars, Stopped
  <2>5. CASE Fetch /\ UNCHANGED asmVars
    <3>1. UNCHANGED depth /\ at = "read" /\ at' \in {"line", "end"}
      BY <2>5, ReadNext, ReadNone DEF asmVars, macVars
    <3>2. macroptr' = << >>
      BY <2>1, <2>5, <3>1 DEF Fetch, FetchMacro, FetchLine, FetchIncluder, IncluderAtEnd, NoLine
    <3> QED
      BY <2>1, <3>1, <3>2
  <2> QED
    BY <2>2, <2>3, <2>4, <2>5 DEF AssemblerNext, SecondPass, Rewind, Abort, Save, Finish, Stopped
<1>6. macromode' \in BOOLEAN
  <2>1. macromode' = macromode \/ macromode' = TRUE \/ macromode' = FALSE
    <3>1. CASE Macro \/ Endm
      BY <3>1 DEF Macro, Endm
    <3>2. CASE Line1 /\ ~Macro /\ ~Endm
      BY <3>2 DEF Line1, Stray, Label, Hidden, Ignored, Org, NextPage, TextScan, TextAssemble, Zmem, Equ,
         Counted, Assembled, NotAMacro, Expand, Call, Files, asmVars, macVars
    <3> QED
      BY <3>1, <3>2 DEF AssemblerNext, ExpandLine, Return, KeepLine, SecondPass, Abort, Save,
         asmVars, macVars
  <2>2. macromode \in BOOLEAN
    BY DEF Nest
  <2> QED
    BY <2>1, <2>2
<1> QED
  BY <1>1, <1>2, <1>4, <1>5, <1>6 DEF Nest

(***************************************************************************)
(* Pass 1 makes a chain                                                    *)
(***************************************************************************)
(* The line after c is being handled, perhaps without its label.           *)
Pending(c) ==
  /\ MoreLines(text, c.rd) /\ Now = AfterReading(text, c)
  /\ \/ oline = LineFrom(text, c.rd)
     \/ /\ oline = [LineFrom(text, c.rd) EXCEPT !.label = NoToken]
        /\ LabelStands(symtab, LineFrom(text, c.rd), Now)
Over(t, c) == ~(c.run /\ MoreLines(t, c.rd))

OneAt(tr, m) ==
  /\ Chain(text, symtab, counted, tr, m)
  /\ at \in {"read", "scanned"} => Now = tr[m].after
  /\ at = "line" => Pending(tr[m].after)
  /\ at = "end" => Over(text, tr[m].after)

(* As long as pass 1 may lead to a second one.                             *)
PassOne ==
  pass = 1 /\ at \notin Stopped /\ depth <= 1 /\ errcnt = 0 /\ ~astray =>
    \E tr, m : OneAt(tr, m)

History == /\ counted' = counted \cup (IF Counts THEN {Name(oline.name)} ELSE {})
           /\ astray' = (astray \/ GoesAstray)

LEMMA HistoryGrows ==
  ASSUME History
  PROVE  counted \subseteq counted' /\ (~astray' => ~astray /\ ~GoesAstray)
BY DEF History

LEMMA ChainKept ==
  ASSUME Typed, AssemblerNext, Table(symtab'), History, NEW tr, NEW m,
         Chain(text, symtab, counted, tr, m)
  PROVE  Chain(text', symtab', counted', tr, m)
<1>1. Extends(symtab, symtab') /\ text' = text /\ counted \subseteq counted'
  BY TableGrows, StepKeeps, HistoryGrows
<1>2. Chain(text, symtab', counted', tr, m)
  BY <1>1, ChainStays DEF Typed, Machine
<1> QED
  BY <1>1, <1>2

LEMMA OneReads ==
  ASSUME Typed, AssemblerNext, NEW c, Now = c,
         (Fetch /\ UNCHANGED asmVars) \/ ExpandLine
  PROVE  /\ at' = "line" => Pending(c)'
         /\ at' = "end" => Over(text', c)
<1>1. text' = text
  BY StepKeeps
<1>2. c.rd = Here3 /\ c.run = run
  BY DEF Now, Config
<1>3. CASE at' = "line"
  <2>1. /\ MoreLines(text, Here3) /\ oline' = LineFrom(text, Here3)
        /\ Here3' = ReadFrom(text, Here3) /\ UNCHANGED run /\ UNCHANGED asmVars
    BY <1>3, ReadNext, ReadBody DEF ExpandLine
  <2>2. Now' = AfterReading(text, c)
    BY <2>1, NowReading
  <2> QED
    BY <1>1, <1>2, <1>3, <2>1, <2>2 DEF Pending
<1>4. CASE at' = "end"
  <2>1. ~(run /\ MoreLines(text, Here3))
    BY <1>4, ReadNone DEF ExpandLine
  <2> QED
    BY <1>1, <1>2, <1>4, <2>1 DEF Over
<1> QED
  BY <1>3, <1>4

LEMMA OneLabels ==
  ASSUME Typed, Label, errcnt' = 0, at' \notin Stopped, History, ~astray', pass = 1,
         NEW c, Pending(c)
  PROVE  Pending(c)' /\ at' = "line"
<1> DEFINE e == Entry(Name(oline.label), "addr", pc8)
           l == LineFrom(text, c.rd)
<1>1. /\ oline' = [oline EXCEPT !.label = NoToken] /\ Insert(e, "line") /\ at = "line"
      /\ UNCHANGED <<text, infile, files, macroptr, run, pc8, macromode, curmac>>
      /\ ~macromode /\ oline.label # NoToken
  BY DEF Label, Labelled, macVars
<1>2. Table(symtab) /\ Len(symtab) \in Nat /\ errcnt \in Nat
  BY TableFacts DEF Typed, Machine
<1>3. IsEntry(e) /\ e.refcnt = 0 /\ e.symbol = Name(oline.label) /\ e.location = pc8
  BY EntryMade DEF Entry, Typed, Machine
<1>4. oline \in Lines
  BY <1>1, LineTyped
<1>5. oline = l
  <2> HIDE DEF l
  <2>1. oline # [l EXCEPT !.label = NoToken]
    <3> SUFFICES ASSUME oline = [l EXCEPT !.label = NoToken] PROVE FALSE
      OBVIOUS
    <3>1. DOMAIN oline = DOMAIN l /\ "label" \in DOMAIN oline
      BY <1>4 DEF Lines, Line
    <3>2. oline.label = NoToken
      BY <3>1
    <3> QED
      BY <1>1, <3>2
  <2> QED
    BY <2>1 DEF Pending, l
<1> HIDE DEF e, l
<1>6. symtab' = Append(symtab, e) /\ at' = "line" /\ ~Duplicate(e)
  <2>1. symtab' = Append(symtab, e) /\ at' = "line"
    BY <1>1, <1>2, <1>3, InsertExtends DEF Stopped
  <2>2. errcnt' = errcnt + (IF Duplicate(e) THEN 1 ELSE 0)
    BY <1>1, <2>1 DEF Insert, Stopped
  <2> QED
    BY <1>2, <2>1, <2>2
<1>7. /\ Len(symtab') = Len(symtab) + 1 /\ symtab'[Len(symtab) + 1] = e
      /\ \A i \in 1 .. Len(symtab) : symtab'[i] = symtab[i]
  BY <1>2, <1>3, <1>6, TableAppend
<1>8. oline.label.local => curmac # 0
  BY DEF Label, Dangling, NoCall
<1>9. Now' = Now
  BY <1>1, <1>2, <1>3, <1>6, CallsAppended DEF Now, Here3
<1>10. Name(oline.label) = NameIn(oline.label, Now)
  BY <1>8, NameNow DEF Now, Config
<1>11. LabelStands(symtab', oline, Now)
  <2>1. First(symtab', Name(oline.label), Len(symtab) + 1)
    <3>1. \A j \in 1 .. Len(symtab) : symtab[j].symbol # Name(oline.label)
      BY <1>2, <1>3, <1>6, TableFacts DEF Duplicate
    <3> QED
      BY <1>2, <1>3, <1>7, <3>1 DEF First
  <2>2. Now.pc = pc8 /\ Now.cur = curmac
    BY DEF Now, Config
  <2> QED
    BY <1>2, <1>3, <1>7, <1>8, <1>10, <2>1, <2>2 DEF LabelStands
<1>12. Pending(c)'
  BY <1>1, <1>5, <1>9, <1>11 DEF Pending, l
<1> QED
  BY <1>6, <1>12

(* A line that is a macro call finds its macro, or is counted.             *)
LEMMA CalledStands ==
  ASSUME Typed, AssemblerNext, Table(symtab'), History, at = "line",
         Ready \/ macromode, pass = 1, ~astray',
         NEW l, l.op = oline.op, l.name = oline.name
  PROVE  CallStands(symtab', counted', [line |-> l, at |-> Now, callee |-> Callee,
                                        body |-> Body, after |-> Now'])
<1> DEFINE e == [line |-> l, at |-> Now, callee |-> Callee, body |-> Body, after |-> Now']
<1>1. /\ e.line = l /\ e.at = Now /\ e.callee = Callee /\ e.body = Body
      /\ Now.mac = macromode /\ Now.cur = curmac
  BY DEF Now, Config
<1> HIDE DEF e
<1>2. CASE oline.op = "CALL" /\ ~macromode
  <2>1. ~oline.name.local
    BY <1>2, LineTyped, LineParts
  <2>2. Name(oline.name) = NameIn(oline.name, Now)
    BY <2>1, NameNow DEF Now, Config
  <2>3. CASE IsMacro(oline.name)
    <3>1. /\ Table(symtab) /\ Called \in 1 .. Len(symtab) /\ Called # 0 /\ Len(symtab) \in Nat
          /\ symtab[Called].type = "macro"
      BY <2>3, LocationFound, TableFacts DEF Called, IsMacro, Typed, Machine
    <3>2. First(symtab, Name(oline.name), Called)
      <4>1. /\ symtab[Called].symbol = Name(oline.name)
            /\ \A i \in 1 .. Len(symtab) : symtab[i].symbol = Name(oline.name) => Called <= i
        BY <2>3, <3>1, FindFirst DEF Called, IsMacro
      <4> QED
        BY <3>1, <4>1 DEF First
    <3>3. MacroStands(symtab, Name(oline.name), Called, Body)
      BY <3>1, <3>2 DEF MacroStands, Body
    <3>4. MacroStands(symtab', Name(oline.name), Called, Body)
      BY <3>1, <3>2, <3>3, TableGrows, FirstStays DEF MacroStands, Same
    <3>5. Callee = Called
      BY <1>2, <2>3 DEF Callee
    <3>6. CallStands(symtab', counted', e)
      BY <1>1, <1>2, <2>1, <2>2, <3>1, <3>4, <3>5 DEF CallStands
    <3> QED
      BY <3>6 DEF e
  <2>4. CASE ~IsMacro(oline.name)
    <3>1. Counts
      BY <1>2, <2>4 DEF Counts, Op
    <3>2. Name(oline.name) \in counted' /\ Callee = 0
      BY <2>4, <3>1 DEF History, Callee
    <3>3. CallStands(symtab', counted', e)
      BY <1>1, <1>2, <2>1, <2>2, <3>2 DEF CallStands
    <3> QED
      BY <3>3 DEF e
  <2> QED
    BY <2>3, <2>4
<1>3. CASE ~(oline.op = "CALL" /\ ~macromode)
  <2>1. Callee = 0
    BY <1>3 DEF Callee
  <2>2. CallStands(symtab', counted', e)
    BY <1>1, <1>3, <2>1 DEF CallStands
  <2> QED
    BY <2>2 DEF e
<1> QED
  BY <1>2, <1>3

LEMMA OneHandles ==
  ASSUME Typed, Nest, AssemblerNext, Table(symtab'), Line1, ~Label, History, ~astray',
         at' \notin Stopped, pass = 1, NEW c, Pending(c)
  PROVE  /\ at' = "scanned"
         /\ \E e : Event(text', symtab', counted', c, e) /\ e.after = Now'
<1> DEFINE l == LineFrom(text, c.rd)
<1>1. at = "line" /\ (Ready \/ Hidden)
  <2>1. ~Stray
    BY DEF Stray, Stopped
  <2>2. Ready \/ Hidden
    BY <2>1 DEF Line1, Ignored, Org, NextPage, TextScan, TextAssemble, Zmem, Equ, Counted,
       Assembled, NotAMacro, Expand, Call, Macro, Endm, Files, Op
  <2> QED
    BY <2>2 DEF Ready, Hidden
<1>3. Moves /\ text' = text
  BY HistoryGrows, HandledLine, StepKeeps DEF Nest
<1>4. oline \in Lines
  BY <1>1, LineTyped
<1>5. /\ MoreLines(text, c.rd) /\ Now = AfterReading(text, c)
      /\ oline = l \/ (oline = [l EXCEPT !.label = NoToken] /\ LabelStands(symtab, l, Now))
  BY DEF Pending
<1> HIDE DEF l
<1>6. l.op = oline.op /\ l.name = oline.name /\ l.n = oline.n /\ l.file = oline.file
  <2>1. CASE oline = [l EXCEPT !.label = NoToken]
    <3>1. DOMAIN oline = DOMAIN l
      BY <2>1
    <3>2. {"op", "name", "n", "file"} \subseteq DOMAIN oline
      BY <1>4 DEF Lines, Line
    <3> QED
      BY <2>1, <3>1, <3>2
  <2> QED
    BY <1>5, <2>1
<1>7. LabelStands(symtab', l, Now)
  <2>1. CASE oline = l
    <3>1. Now.mac = macromode
      BY DEF Now, Config
    <3>2. macromode \/ l.label = NoToken
      BY <1>1, <2>1 DEF Ready, Hidden, Labelled
    <3> QED
      BY <3>1, <3>2 DEF LabelStands
  <2>2. CASE LabelStands(symtab, l, Now)
    <3>1. \A j, name : First(symtab, name, j) =>
            /\ First(symtab', name, j) /\ j \in 1 .. Len(symtab')
            /\ symtab'[j].location = symtab[j].location
      <4>1. Extends(symtab, symtab') /\ Table(symtab)
        BY TableGrows DEF Typed, Machine
      <4> SUFFICES ASSUME NEW j, NEW name, First(symtab, name, j)
                   PROVE  /\ First(symtab', name, j) /\ j \in 1 .. Len(symtab')
                          /\ symtab'[j].location = symtab[j].location
        OBVIOUS
      <4>2. First(symtab', name, j) /\ Same(symtab[j], symtab'[j])
        BY <4>1, FirstStays
      <4> QED
        BY <4>2 DEF First, Same
    <3> QED
      BY <2>2, <3>1 DEF LabelStands
  <2> QED
    BY <1>5, <2>1, <2>2
<1> DEFINE e == [line |-> l, at |-> Now, callee |-> Callee, body |-> Body, after |-> Now']
<1>8. CallStands(symtab', counted', e)
  BY <1>1, <1>6, CalledStands DEF Hidden
<1>9. /\ e.line = l /\ e.at = Now /\ e.callee = Callee /\ e.body = Body /\ e.after = Now'
  OBVIOUS
<1> HIDE DEF e
<1>10. Now' = AfterLine(l, Now, Callee, Body)
  <2>1. AfterLine(l, Now, Callee, Body) = AfterLine(oline, Now, Callee, Body)
    BY <1>6 DEF AfterLine, InfileAfter, FilesAfter, RunAfter, PcAfter, MacAfter
  <2> QED
    BY <1>3, <2>1 DEF Moves
<1>11. Event(text, symtab', counted', c, e)
  BY <1>5, <1>7, <1>8, <1>9, <1>10 DEF Event, l
<1>12. at' = "scanned"
  BY <1>3 DEF Moves, Next1
<1> QED
  BY <1>3, <1>9, <1>11, <1>12

LEMMA PassOneStays ==
  ASSUME Typed, Typed', Nest, AssemblerNext, History, PassOne
  PROVE  PassOne'
<1> SUFFICES ASSUME pass' = 1, at' \notin Stopped, depth' <= 1, errcnt' = 0, ~astray'
             PROVE  \E tr, m : OneAt(tr, m)'
  BY DEF PassOne
<1>1. /\ pass = 1 /\ at \notin Stopped /\ depth <= 1 /\ text' = text /\ ~astray
      /\ ~SecondPass
  BY StepKeeps, HistoryGrows DEF SecondPass, Rewind
<1>2. errcnt = 0
  BY <1>1, ErrorsStay
<1>3. PICK tr, m : OneAt(tr, m)
  BY <1>1, <1>2 DEF PassOne
<1>4. Table(symtab') /\ Chain(text, symtab, counted, tr, m)
  BY <1>3 DEF OneAt, Typed, Machine
<1>5. Chain(text', symtab', counted', tr, m)
  BY <1>4, ChainKept
<1> DEFINE c == tr[m].after
<1>6. /\ at \in {"read", "scanned"} => Now = c
      /\ at = "line" => Pending(c)
  BY <1>3 DEF OneAt
<1>7. CASE (Fetch /\ UNCHANGED asmVars) \/ ExpandLine
  <2>1. at \in {"read", "scanned"} /\ at' \in {"line", "end"}
    BY <1>7, ReadNext, ReadNone DEF ExpandLine
  <2>2. (at' = "line" => Pending(c)') /\ (at' = "end" => Over(text', c))
    BY <1>6, <1>7, <2>1, OneReads
  <2> QED
    BY <1>5, <2>1, <2>2 DEF OneAt
<1>8. CASE Return \/ KeepLine
  <2>1. /\ at = "scanned" /\ at' \in {"scanned", "read"}
        /\ UNCHANGED <<infile, files, macroptr, run, pc8, macromode, curmac, symtab>>
    BY <1>8 DEF Return, KeepLine, sameReader, symVars, Stopped
  <2>2. Now' = Now
    BY <2>1 DEF Now, Here3
  <2> QED
    BY <1>5, <1>6, <2>1, <2>2 DEF OneAt
<1>9. CASE Label
  <2>1. Pending(c)
    BY <1>6, <1>9 DEF Label
  <2>2. Pending(c)' /\ at' = "line"
    BY <1>1, <1>9, <2>1, OneLabels
  <2> QED
    BY <1>5, <2>2 DEF OneAt
<1>10. CASE Line1 /\ ~Label
  <2>1. at = "line"
    BY <1>10 DEF Line1, Stray, Hidden, Ignored, Org, NextPage, TextScan, TextAssemble, Zmem, Equ, Counted,
       Assembled, NotAMacro, Expand, Call, Macro, Endm, Files, Op, Ready
  <2>2. PICK e : Event(text', symtab', counted', c, e) /\ e.after = Now'
    BY <1>1, <1>4, <1>6, <1>10, <2>1, OneHandles
  <2>3. at' = "scanned"
    BY <1>1, <1>4, <1>6, <1>10, <2>1, OneHandles
  <2>4. PICK tr1 : Chain(text', symtab', counted', tr1, m + 1) /\ tr1[m + 1] = e
    BY <1>5, <2>2, ChainGrows
  <2>5. OneAt(tr1, m + 1)'
    BY <2>2, <2>3, <2>4 DEF OneAt
  <2> QED
    BY <2>5
<1>11. CASE Abort \/ Save
  BY <1>11 DEF Abort, Save, Finish, Stopped
<1> QED
  BY <1>1, <1>7, <1>8, <1>9, <1>10, <1>11 DEF AssemblerNext

(***************************************************************************)
(* Pass 2 goes through the chain                                           *)
(***************************************************************************)
(* The program is where c says; before the first call curmac is that of    *)
(* pass 1.                                                                 *)
Agrees(c) == /\ Here3 = c.rd /\ run = c.run /\ pc8 = c.pc /\ macromode = c.mac
             /\ CallsOf(symtab) = c.calls /\ (c.cur # 0 => curmac = c.cur)

(* Event n is the last one that was read.                                  *)
TwoAt(tr, m, n) ==
  /\ Chain(text, symtab, counted, tr, m) /\ Over(text, tr[m].after) /\ n \in 0 .. m
  /\ at = "read" => Agrees(tr[n].after)
  /\ at = "line" => n # 0 /\ oline = tr[n].line /\ Agrees(tr[n].at)

PassTwo ==
  pass = 2 /\ at \notin Stopped /\ Orderly => \E tr, m, n : TwoAt(tr, m, n)

LEMMA OrderlyBefore ==
  ASSUME Typed, Typed', AssemblerNext, History, Orderly'
  PROVE  Orderly
<1>1. Extends(symtab, symtab') /\ counted \subseteq counted' /\ ~astray
  BY TableGrows, HistoryGrows DEF Orderly
<1>2. /\ DOMAIN symtab = 1 .. Len(symtab) /\ DOMAIN symtab' = 1 .. Len(symtab')
      /\ Len(symtab) \in Nat /\ Len(symtab') \in Nat
  BY TableFacts DEF Typed, Machine
<1>3. \A i \in DOMAIN symtab : symtab[i].type = "macro" => symtab[i].symbol \notin counted
  <2> TAKE i \in DOMAIN symtab
  <2>1. i \in DOMAIN symtab' /\ Same(symtab[i], symtab'[i])
    BY <1>1, <1>2 DEF Extends
  <2>2. symtab'[i].type = "macro" => symtab'[i].symbol \notin counted'
    BY <2>1 DEF Orderly
  <2> QED
    BY <1>1, <2>1, <2>2 DEF Same
<1> QED
  BY <1>1, <1>3 DEF Orderly

LEMMA TwoBegins ==
  ASSUME Typed, Typed', Nest, AssemblerNext, SecondPass, History, PassOne, ~astray'
  PROVE  \E tr, m, n : TwoAt(tr, m, n)'
<1>1. /\ pass = 1 /\ at = "end" /\ errcnt = 0 /\ at' = "read"
      /\ infile' = [infile EXCEPT !.line = 0] /\ run' = TRUE /\ pc8' = 0
      /\ UNCHANGED <<text, files, macroptr, macromode>>
      /\ symtab' = [i \in DOMAIN symtab |-> [symtab[i] EXCEPT !.refcnt = 0]]
  BY DEF SecondPass, Rewind, macVars
<1>2. ~astray /\ ~macromode /\ files = << >>
  BY <1>1, HistoryGrows DEF GoesAstray
<1>3. depth = 0 /\ macroptr = << >> /\ infile.file = Main /\ macromode \in BOOLEAN
  BY <1>1, <1>2 DEF Nest, Stopped, Bottom
<1>4. PICK tr, m : OneAt(tr, m)
  BY <1>1, <1>2, <1>3 DEF PassOne, Stopped
<1>5. Chain(text', symtab', counted', tr, m)
  BY <1>4, ChainKept DEF OneAt, Typed, Machine
<1>6. tr[0].after = Start /\ m \in Nat /\ Over(text, tr[m].after)
  BY <1>1, <1>4 DEF OneAt, Chain
<1>7. Agrees(Start)'
  <2>1. infile' = Open(Main)
    <3>1. infile \in Streams
      BY DEF Typed, ReaderTyped
    <3> QED
      BY <1>1, <1>3, <3>1 DEF Streams, Open
  <2>2. CallsOf(symtab') = [i \in Nat |-> 0]
    BY <1>1, CallsNone DEF Typed, Machine
  <2>3. macromode' = FALSE
    BY <1>1, <1>2, <1>3
  <2> QED
    BY <1>1, <1>2, <1>3, <2>1, <2>2, <2>3 DEF Agrees, Start, Config, Here3
<1>8. TwoAt(tr, m, 0)'
  BY <1>1, <1>5, <1>6, <1>7 DEF TwoAt
<1> QED
  BY <1>8

LEMMA TwoReads ==
  ASSUME Typed, AssemblerNext, Table(symtab'), Fetch, UNCHANGED asmVars, History,
         NEW tr, NEW m, NEW n, TwoAt(tr, m, n)
  PROVE  \E k : TwoAt(tr, m, k)'
<1>1. /\ Chain(text, symtab, counted, tr, m) /\ Over(text, tr[m].after) /\ n \in 0 .. m
      /\ m \in Nat /\ text' = text
  BY StepKeeps DEF TwoAt, Chain
<1>2. Chain(text', symtab', counted', tr, m)
  BY <1>1, ChainKept
<1>3. CASE at' = "line"
  <2>1. /\ run /\ MoreLines(text, Here3) /\ oline' = LineFrom(text, Here3)
        /\ Here3' = ReadFrom(text, Here3) /\ at = "read" /\ UNCHANGED run
    BY <1>3, ReadNext
  <2>2. Agrees(tr[n].after)
    BY <2>1 DEF TwoAt
  <2>3. n # m
    BY <1>1, <2>1, <2>2 DEF Over, Agrees
  <2>4. n + 1 \in 1 .. m /\ n + 1 # 0 /\ n + 1 \in 0 .. m /\ (n + 1) - 1 = n
    BY <1>1, <2>3
  <2>5. Event(text, symtab, counted, tr[n].after, tr[n + 1])
    BY <1>1, <2>4 DEF Chain
  <2> DEFINE c == tr[n].after
             e == tr[n + 1]
  <2>6. oline' = e.line /\ e.at = AfterReading(text, c) /\ Agrees(c)
    BY <2>1, <2>2, <2>5 DEF Event, Agrees
  <2> HIDE DEF c, e
  <2>7. Agrees(e.at)'
    <3>1. UNCHANGED <<pc8, macromode, curmac, symtab>>
      BY DEF asmVars
    <3>2. /\ e.at.rd = ReadFrom(text, c.rd) /\ e.at.run = c.run /\ e.at.pc = c.pc
          /\ e.at.mac = c.mac /\ e.at.cur = c.cur /\ e.at.calls = c.calls
      BY <2>6 DEF AfterReading, Config
    <3>3. CallsOf(symtab') = CallsOf(symtab)
      BY <3>1
    <3>4. Here3' = e.at.rd /\ run' = e.at.run
      BY <2>1, <2>6, <3>2 DEF Agrees
    <3> QED
      BY <2>6, <3>1, <3>2, <3>3, <3>4 DEF Agrees
  <2>8. TwoAt(tr, m, n + 1)'
    BY <1>1, <1>2, <1>3, <2>4, <2>6, <2>7 DEF TwoAt, e
  <2> QED
    BY <2>8
<1>4. CASE at' # "line"
  <2>1. at' = "end"
    BY <1>4, ReadNone
  <2>2. TwoAt(tr, m, n)'
    BY <1>1, <1>2, <2>1 DEF TwoAt
  <2> QED
    BY <2>2
<1> QED
  BY <1>3, <1>4

(* A name stands for the same entry as when the chain was made.            *)
LEMMA NameAgrees ==
  ASSUME Typed, NEW c, Agrees(c), NEW t, t.local => c.cur # 0
  PROVE  Name(t) = NameIn(t, c)
<1>1. /\ c.calls = CallsOf(symtab) /\ (t.local => c.cur = curmac)
      /\ (t.local => curmac # 0)
  BY DEF Agrees
<1> QED
  BY <1>1, NameNow

LEMMA FirstFound ==
  ASSUME Typed, NEW t, NEW i, First(symtab, Name(t), i)
  PROVE  Known(t) /\ Find(t) = i
<1>1. Table(symtab) /\ Len(symtab) \in Nat
  BY TableFacts DEF Typed, Machine
<1>2. Known(t) /\ Find(t) <= i /\ symtab[Find(t)].symbol = Name(t)
      /\ Find(t) \in 0 .. Len(symtab) /\ i \in 1 .. Len(symtab)
  BY <1>1, FindFirst DEF First
<1>3. Find(t) # 0
  BY <1>2 DEF Known
<1> QED
  BY <1>1, <1>2, <1>3 DEF First

LEMMA CallAgrees ==
  ASSUME Typed, Orderly, NEW e, CallStands(symtab, counted, e), oline = e.line, Agrees(e.at)
  PROVE  Callee = e.callee /\ (Callee # 0 => Body = e.body)
<1>1. macromode = e.at.mac
  BY DEF Agrees
<1>2. CASE oline.op = "CALL" /\ ~macromode
  <2>1. Name(oline.name) = NameIn(oline.name, e.at)
    BY <1>1, <1>2, NameAgrees DEF CallStands
  <2>2. CASE e.callee = 0
    <3>1. Name(oline.name) \in counted
      BY <1>1, <1>2, <2>1, <2>2 DEF CallStands
    <3>2. ~IsMacro(oline.name)
      <4> SUFFICES ASSUME IsMacro(oline.name) PROVE FALSE
        OBVIOUS
      <4>1. /\ Find(oline.name) \in 1 .. Len(symtab)
            /\ symtab[Find(oline.name)].symbol = Name(oline.name)
            /\ symtab[Find(oline.name)].type = "macro" /\ DOMAIN symtab = 1 .. Len(symtab)
        BY LocationFound, FindFirst, TableFacts DEF IsMacro, Typed, Machine
      <4> QED
        BY <3>1, <4>1 DEF Orderly
    <3> QED
      BY <2>2, <3>2 DEF Callee
  <2>3. CASE e.callee # 0
    <3>1. MacroStands(symtab, Name(oline.name), e.callee, e.body)
      BY <1>1, <1>2, <2>1, <2>3 DEF CallStands
    <3>2. Known(oline.name) /\ Find(oline.name) = e.callee
      BY <3>1, FirstFound DEF MacroStands
    <3>3. IsMacro(oline.name) /\ Called = e.callee /\ Body = e.body
      BY <3>1, <3>2 DEF MacroStands, IsMacro, Called, Body
    <3> QED
      BY <1>2, <3>3 DEF Callee
  <2> QED
    BY <2>2, <2>3
<1>3. CASE ~(oline.op = "CALL" /\ ~macromode)
  BY <1>1, <1>3 DEF CallStands, Callee
<1> QED
  BY <1>2, <1>3

LEMMA TwoHandles ==
  ASSUME Typed, Nest, AssemblerNext, Table(symtab'), Line1, pass = 2, at' \notin Stopped,
         Orderly, History, NEW tr, NEW m, NEW n, TwoAt(tr, m, n)
  PROVE  TwoAt(tr, m, n)'
<1>1. /\ Chain(text, symtab, counted, tr, m) /\ Over(text, tr[m].after) /\ n \in 0 .. m
      /\ m \in Nat /\ text' = text
  BY StepKeeps DEF TwoAt, Chain
<1>2. Chain(text', symtab', counted', tr, m)
  BY <1>1, ChainKept
<1>3. ~Label /\ at = "line"
  BY DEF Label, Labelled, Ready, Line1, Stray, Hidden, Ignored, Org, NextPage, TextScan,
     TextAssemble, Zmem, Equ, Counted, Assembled, NotAMacro, Expand, Call, Macro, Endm, Files, Op
<1>4. Moves
  BY <1>3, HandledLine DEF Nest, GoesAstray
<1>5. n # 0 /\ oline = tr[n].line /\ Agrees(tr[n].at)
  BY <1>3 DEF TwoAt
<1>6. Event(text, symtab, counted, tr[n - 1].after, tr[n])
  BY <1>1, <1>5 DEF Chain
<1> DEFINE e == tr[n]
<1> HIDE DEF e
<1>7. /\ oline = e.line /\ Agrees(e.at) /\ CallStands(symtab, counted, e)
      /\ e.after = AfterLine(oline, e.at, e.callee, e.body)
  BY <1>5, <1>6 DEF Event, e
<1>8. Callee = e.callee /\ (Callee # 0 => Body = e.body)
  BY <1>7, CallAgrees
<1>9. Agrees(e.after)'
  <2>1. Now' = AfterLine(oline, Now, Callee, Body)
    BY <1>4 DEF Moves
  <2>2. /\ Here3' = At3(InfileAfter(oline, infile), FilesAfter(oline, infile, files),
                        IF Callee # 0 THEN Body ELSE macroptr)
        /\ run' = RunAfter(oline, run) /\ pc8' = PcAfter(oline, pc8, macromode, Callee)
        /\ macromode' = MacAfter(oline, macromode)
        /\ curmac' = IF Callee # 0 THEN Callee ELSE curmac
        /\ CallsOf(symtab') = CallsAfter(Callee, CallsOf(symtab))
    BY <2>1 DEF Now, AfterLine, Config, Here3, At3
  <2>3. /\ e.at.rd.infile = infile /\ e.at.rd.files = files /\ e.at.rd.macroptr = macroptr
        /\ run = e.at.run /\ pc8 = e.at.pc /\ macromode = e.at.mac
        /\ CallsOf(symtab) = e.at.calls /\ (e.at.cur # 0 => curmac = e.at.cur)
    BY <1>7 DEF Agrees, Here3, At3
  <2>4. /\ e.after.rd = At3(InfileAfter(oline, infile), FilesAfter(oline, infile, files),
                            IF Callee # 0 THEN e.body ELSE macroptr)
        /\ e.after.run = RunAfter(oline, run)
        /\ e.after.pc = PcAfter(oline, pc8, macromode, Callee)
        /\ e.after.mac = MacAfter(oline, macromode)
        /\ e.after.cur = IF Callee # 0 THEN Callee ELSE e.at.cur
        /\ e.after.calls = CallsAfter(Callee, CallsOf(symtab))
    BY <1>7, <1>8, <2>3 DEF AfterLine, Config
  <2> QED
    BY <1>8, <2>2, <2>3, <2>4 DEF Agrees
<1>10. at' = "read"
  BY <1>4 DEF Moves, Next1
<1> QED
  BY <1>1, <1>2, <1>9, <1>10 DEF TwoAt, e

LEMMA PassTwoStays ==
  ASSUME Typed, Typed', Nest, AssemblerNext, History, PassOne, PassTwo
  PROVE  PassTwo'
<1> SUFFICES ASSUME pass' = 2, at' \notin Stopped, Orderly'
             PROVE  \E tr, m, n : TwoAt(tr, m, n)'
  BY DEF PassTwo
<1>1. Orderly /\ ~astray' /\ at \notin Stopped /\ Table(symtab')
  BY OrderlyBefore, StepKeeps DEF Orderly, Typed, Machine
<1>2. CASE SecondPass
  BY <1>1, <1>2, TwoBegins
<1>3. CASE ~SecondPass
  <2>1. pass = 2 /\ at # "scanned"
    BY <1>3, StepKeeps DEF Nest
  <2>2. PICK tr, m, n : TwoAt(tr, m, n)
    BY <1>1, <2>1 DEF PassTwo
  <2>3. CASE Line1
    <3>1. TwoAt(tr, m, n)'
      BY <1>1, <2>1, <2>2, <2>3, TwoHandles
    <3> QED
      BY <3>1
  <2>4. CASE Fetch /\ UNCHANGED asmVars
    <3>1. \E k : TwoAt(tr, m, k)'
      BY <1>1, <2>2, <2>4, TwoReads
    <3> QED
      BY <3>1
  <2>5. ~ExpandLine /\ ~Return /\ ~KeepLine
    BY <2>1 DEF ExpandLine, Return, KeepLine
  <2>6. ~Abort /\ ~Save
    BY DEF Abort, Save, Finish, Stopped
  <2> QED
    BY <1>3, <2>3, <2>4, <2>5, <2>6 DEF AssemblerNext
<1> QED
  BY <1>2, <1>3

LEMMA TwoIsLabels == Typed /\ PassTwo => LabelsResolve
<1> SUFFICES ASSUME Typed, PassTwo, Orderly, pass = 2, at = "line", ~macromode,
                    oline.label # NoToken
             PROVE  Known(oline.label) /\ symtab[Find(oline.label)].location = pc8
  BY DEF LabelsResolve
<1>1. PICK tr, m, n : TwoAt(tr, m, n)
  BY DEF PassTwo, Stopped
<1> DEFINE e == tr[n]
<1>2. oline = e.line /\ Agrees(e.at) /\ LabelStands(symtab, e.line, e.at)
  <2>1. n \in 1 .. m
    BY <1>1 DEF TwoAt, Chain
  <2>2. Event(text, symtab, counted, tr[n - 1].after, tr[n])
    BY <1>1, <2>1 DEF TwoAt, Chain
  <2> QED
    BY <1>1, <2>2 DEF TwoAt, Event
<1> HIDE DEF e
<1>3. ~e.at.mac /\ e.at.pc = pc8
  BY <1>2 DEF Agrees
<1>4. PICK i : First(symtab, NameIn(oline.label, e.at), i) /\ symtab[i].location = pc8
  BY <1>2, <1>3 DEF LabelStands
<1>5. Name(oline.label) = NameIn(oline.label, e.at)
  BY <1>2, <1>3, NameAgrees DEF LabelStands
<1> QED
  BY <1>4, <1>5, FirstFound

(* A label read in pass 2 stands where pass 1 said, for every set of texts *)
(* and every size of the tables, if the passes agree.                      *)
THEOREM LabelsKeepTheirPlace == MCSpec => []LabelsResolve
<1> DEFINE Inv == Typed /\ Nest /\ PassOne /\ PassTwo
<1>1. MCInit => Inv
  <2> SUFFICES ASSUME MCInit PROVE Inv
    OBVIOUS
  <2>1. /\ infile = Open(Main) /\ files = << >> /\ macroptr = << >> /\ run = TRUE
        /\ pass = 1 /\ at = "read" /\ pc8 = 0 /\ symtab = << >> /\ curmac = 0
        /\ macromode = FALSE /\ depth = 0
    BY DEF MCInit, ListingInit, AssemblerInit, ReaderInit
  <2>2. Nest
    <3>1. slot.refcnt = 0
      BY DEF MCInit, ListingInit, AssemblerInit, Entry
    <3> QED
      BY <2>1, <3>1 DEF Nest, Bottom, Open
  <2>3. PassOne
    <3> DEFINE tr == [i \in {0} |-> [after |-> Start]]
    <3>1. Now = Start
      <4>1. CallsOf(symtab) = [i \in Nat |-> 0]
        <5>1. \A i \in Nat : i \notin 1 .. Len(symtab)
          BY <2>1
        <5> QED
          BY <5>1 DEF CallsOf
      <4> QED
        BY <2>1, <4>1 DEF Now, Start, Here3
    <3>2. tr[0].after = Start
      OBVIOUS
    <3> HIDE DEF tr
    <3>3. Chain(text, symtab, counted, tr, 0)
      <4>1. \A i \in 1 .. 0 : FALSE
        OBVIOUS
      <4> QED
        BY <3>2, <4>1 DEF Chain
    <3>4. OneAt(tr, 0)
      BY <2>1, <3>1, <3>2, <3>3 DEF OneAt
    <3> QED
      BY <3>4 DEF PassOne
  <2>4. PassTwo
    <3>1. pass # 2
      BY <2>1
    <3> QED
      BY <3>1 DEF PassTwo
  <2> QED
    BY <2>2, <2>3, <2>4, MCIsAssembler, InitTyped
<1>2. Inv /\ [MCNext]_mcVars => Inv'
  <2> SUFFICES ASSUME Inv, [MCNext]_mcVars PROVE Inv'
    OBVIOUS
  <2>1. Typed'
    BY MCIsAssembler, NextTyped
  <2>2. CASE MCTranslate
    <3>1. AssemblerNext /\ History
      BY <2>2 DEF MCTranslate, Translate, History
    <3> QED
      BY <2>1, <3>1, NestStays, PassOneStays, PassTwoStays
  <2>3. CASE UNCHANGED <<vars, counted, astray>>
    <3>1. UNCHANGED <<text, infile, files, macroptr, oline, run, pass, at, pc8, symtab, slot,
                      curmac, macromode, depth, errcnt, counted, astray>>
      BY <2>3 DEF vars, readVars, asmVars
    <3>2. Nest'
      BY <3>1 DEF Nest
    <3>3. Now' = Now /\ Here3' = Here3
      BY <3>1 DEF Now, Here3
    <3>4. PassOne'
      BY <3>1, <3>3 DEF PassOne, OneAt, Pending
    <3>5. PassTwo'
      BY <3>1, <3>3 DEF PassTwo, TwoAt, Agrees, Orderly
    <3> QED
      BY <2>1, <3>2, <3>4, <3>5
  <2>4. UNCHANGED <<vars, counted, astray>> \/ MCTranslate
    BY DEF MCNext, ReadListing, mcVars, history
  <2> QED
    BY <2>2, <2>3, <2>4
<1>3. Inv => LabelsResolve
  BY TwoIsLabels
<1> QED
  BY <1>1, <1>2, <1>3, PTL DEF MCSpec

(***************************************************************************)
(* The words of the image                                                  *)
(***************************************************************************)
(* What an operand without parameters and local names means at address a,  *)
(* as far as the table sy says.                                            *)
Stands(sy, t, p) == \E i : First(sy, <<t.sym, 0>>, i) /\ sy[i].location = p
TermMeans(sy, x, a, v) ==
  \/ x.kind = "num" /\ v = x.n
  \/ x.kind = "dot" /\ v = a
  \/ x.kind = "sym" /\ Stands(sy, x.tok, v)
  \/ x.kind = "dsp" /\ \E p \in Nat : Stands(sy, x.tok, p) /\ v = a - p
OperandMeans(sy, x, a, v) ==
  IF x.kind # "expr" THEN TermMeans(sy, x, a, v)
  ELSE \E y, z \in Int : /\ TermMeans(sy, x.terms[1], a, y)
                         /\ TermMeans(sy, x.terms[2], a, z)
                         /\ v = Apply(x.op, y, z)

(* The word w of a line l of code at a.                                    *)
Encodes(l, a, v, w) ==
  IF l.code = UNUSED THEN w = v % MEM8SIZ
  ELSE /\ Page(v) \in {0, Page(a)} /\ w = l.code + InPage(v)
       /\ Head(l.args).kind = "dsp" => v \in 0 .. MAXDSP
WordIs(sy, l, a, w) ==
  l.op = "CODE" /\ l.args # <<>> /\ Plain(Head(l.args)) =>
    \E v \in Int : OperandMeans(sy, Head(l.args), a, v) /\ Encodes(l, a, v, w)

LEMMA TermStays ==
  ASSUME NEW s, Table(s), NEW t, Table(t), Extends(s, t), NEW x, NEW a, NEW v,
         TermMeans(s, x, a, v)
  PROVE  TermMeans(t, x, a, v)
<1>1. ASSUME NEW p, Stands(s, x.tok, p) PROVE Stands(t, x.tok, p)
  <2>1. PICK i : First(s, <<x.tok.sym, 0>>, i) /\ s[i].location = p
    BY <1>1 DEF Stands
  <2>2. First(t, <<x.tok.sym, 0>>, i) /\ Same(s[i], t[i])
    BY <2>1, FirstStays
  <2> QED
    BY <2>1, <2>2 DEF Stands, Same
<1> QED
  BY <1>1 DEF TermMeans

LEMMA WordStays ==
  ASSUME NEW s, Table(s), NEW t, Table(t), Extends(s, t), NEW l, NEW a, NEW w,
         WordIs(s, l, a, w)
  PROVE  WordIs(t, l, a, w)
<1> SUFFICES ASSUME l.op = "CODE", l.args # <<>>, Plain(Head(l.args))
             PROVE  \E v \in Int : OperandMeans(t, Head(l.args), a, v) /\ Encodes(l, a, v, w)
  BY DEF WordIs
<1>1. PICK v \in Int : OperandMeans(s, Head(l.args), a, v) /\ Encodes(l, a, v, w)
  BY DEF WordIs
<1>2. \A x, y : TermMeans(s, x, a, y) => TermMeans(t, x, a, y)
  BY TermStays
<1>3. OperandMeans(t, Head(l.args), a, v)
  BY <1>1, <1>2 DEF OperandMeans
<1> QED
  BY <1>1, <1>3

(* The value of a term whose name is known is what the term means.         *)
LEMMA TermNow ==
  ASSUME Numbers, NEW x \in Terms, x.kind # "prm", ~x.tok.local, ~Unnamed(x), NEW u \in Int
  PROVE  TermMeans(symtab, x, pc8, Value(x, u)) /\ Value(x, u) \in Int
<1>1. x.kind \in {"num", "sym", "dot", "dsp"}
  <2>1. ASSUME NEW kinds, NEW ns, NEW y \in OperandOf(kinds, ns) PROVE y.kind \in kinds
    BY DEF OperandOf
  <2> QED
    BY <2>1 DEF Terms
<1>2. x.kind \in {"sym", "dsp"} => Known(x.tok)
  BY DEF Unnamed
<1>3. ASSUME Known(x.tok)
      PROVE  /\ symtab[Find(x.tok)].location \in Nat
             /\ Stands(symtab, x.tok, symtab[Find(x.tok)].location)
  <2>1. Table(symtab) /\ Len(symtab) \in Nat
    BY TableFacts DEF Numbers
  <2>2. Name(x.tok) = <<x.tok.sym, 0>>
    BY DEF Name
  <2>3. /\ Find(x.tok) \in 1 .. Len(symtab) /\ symtab[Find(x.tok)].location \in Nat
    BY <1>3, <2>1, LocationFound
  <2>4. /\ symtab[Find(x.tok)].symbol = <<x.tok.sym, 0>>
        /\ \A i \in 1 .. Len(symtab) : symtab[i].symbol = <<x.tok.sym, 0>> => Find(x.tok) <= i
    BY <1>3, <2>1, <2>2, FindFirst
  <2>5. First(symtab, <<x.tok.sym, 0>>, Find(x.tok))
    BY <2>1, <2>3, <2>4 DEF First
  <2> QED
    BY <2>3, <2>5 DEF Stands
<1>4. Value(x, u) \in Int
  BY ValueInt
<1>5. CASE x.kind \in {"num", "dot"}
  <2>1. x.kind = "num" => Value(x, u) = x.n
    BY DEF Value
  <2>2. x.kind = "dot" => Value(x, u) = pc8
    BY DEF Value
  <2> QED
    BY <1>4, <1>5, <2>1, <2>2 DEF TermMeans
<1>6. CASE x.kind = "sym"
  <2>1. Value(x, u) = symtab[Find(x.tok)].location
    BY <1>2, <1>6 DEF Value
  <2> QED
    BY <1>2, <1>3, <1>4, <1>6, <2>1 DEF TermMeans
<1>7. CASE x.kind = "dsp"
  <2>1. Value(x, u) = pc8 - symtab[Find(x.tok)].location
    BY <1>2, <1>7 DEF Value
  <2> QED
    BY <1>2, <1>3, <1>4, <1>7, <2>1 DEF TermMeans
<1> QED
  BY <1>1, <1>5, <1>6, <1>7

LEMMA OperandNow ==
  ASSUME Numbers, NEW x \in Operands, Plain(x), ~Unknown(x), NEW u \in Int
  PROVE  OperandMeans(symtab, x, pc8, ValueOf(x, u)) /\ ValueOf(x, u) \in Int
<1>1. CASE x.kind # "expr"
  <2>1. x \in Terms
    BY <1>1 DEF Operands
  <2>2. x.kind # "prm" /\ ~x.tok.local /\ ~Unnamed(x)
    BY DEF Plain, Unknown, Used
  <2> QED
    BY <1>1, <2>1, <2>2, TermNow DEF OperandMeans, ValueOf
<1>2. CASE x.kind = "expr"
  <2>1. \A y \in Terms : y.kind # "expr"
    BY DEF Terms, OperandOf
  <2>2. PICK p \in Terms, q \in Terms : x.terms = <<p, q>>
    BY <1>2, <2>1 DEF Operands
  <2>3. p \in Range(x.terms) /\ q \in Range(x.terms)
    BY <2>2 DEF Range
  <2>4. /\ p.kind # "prm" /\ ~p.tok.local /\ ~Unnamed(p)
        /\ q.kind # "prm" /\ ~q.tok.local /\ ~Unnamed(q)
    BY <2>3 DEF Plain, Unknown, Used
  <2>5. PICK y \in Int : y = Value(p, u) /\ TermMeans(symtab, p, pc8, y)
    BY <2>4, TermNow
  <2>6. PICK z \in Int : z = Value(q, y) /\ TermMeans(symtab, q, pc8, z)
    BY <2>4, TermNow
  <2>7. ValueOf(x, u) = Apply(x.op, y, z)
    BY <1>2, <2>2, <2>5, <2>6 DEF ValueOf
  <2>8. OperandMeans(symtab, x, pc8, Apply(x.op, y, z))
    BY <1>2, <2>2, <2>5, <2>6 DEF OperandMeans
  <2> QED
    BY <2>7, <2>8, ValueOfInt
<1> QED
  BY <1>1, <1>2

(* A name that is known has a value, or is too far away.                   *)
LEMMA OperandResolves ==
  ASSUME NEW x \in Operands, ~Unknown(x), ~BadOperand(x) PROVE Resolves(x)
BY DEF Unknown, Unnamed, BadOperand, Resolves, Type, Used

(* A distance that has a value fits in the displacement.                   *)
LEMMA NearEnough ==
  ASSUME NEW x, x.kind = "dsp", Resolves(x), NEW u PROVE ValueOf(x, u) \in 0 .. MAXDSP
<1>1. Known(x.tok) /\ pc8 - symtab[Find(x.tok)].location \in 0 .. MAXDSP
  BY DEF Resolves, Type
<1>2. ValueOf(x, u) = pc8 - symtab[Find(x.tok)].location
  BY <1>1 DEF ValueOf, Value
<1> QED
  BY <1>1, <1>2

(* Without an error the word assembled is that of the line.                *)
LEMMA WordNow ==
  ASSUME Typed, Ready, pass = 2, NEW u \in Garbage, ~UsesUnknown, ~macromode,
         oline.op = "CODE", LocErrors(oline.code, oline.args, u) = 0
  PROVE  WordIs(symtab, oline, pc8, Loc(oline.code, oline.args, u))
<1> SUFFICES ASSUME oline.args # <<>>, Plain(Head(oline.args))
             PROVE  \E v \in Int : /\ OperandMeans(symtab, Head(oline.args), pc8, v)
                                 /\ Encodes(oline, pc8, v, Loc(oline.code, oline.args, u))
  BY DEF WordIs
<1>1. oline.args \in Seq(Operands) /\ at = "line"
  BY LineTyped, LineParts DEF Ready
<1> DEFINE x == Head(oline.args)
<1>2. x \in Operands /\ 1 \in DOMAIN oline.args /\ oline.args[1] = x
  BY <1>1
<1>3. ~BadArg(oline.code, x, u)
  <2> DEFINE T == {i \in DOMAIN oline.args : BadArg(oline.code, oline.args[i], u)}
  <2>1. IsFiniteSet(DOMAIN oline.args)
    <3>1. DOMAIN oline.args = 1 .. Len(oline.args) /\ Len(oline.args) \in Nat
      BY <1>1, LenProperties
    <3> QED
      BY <3>1, FS_Interval
  <2>2. IsFiniteSet(T)
    BY <2>1, FS_Subset
  <2>3. Cardinality(T) = 0
    BY DEF LocErrors
  <2>4. T = {}
    BY <2>2, <2>3, FS_EmptySet
  <2> QED
    BY <1>2, <2>4
<1>4. ~Unknown(x)
  BY <1>2 DEF UsesUnknown, Evaluated
<1> HIDE DEF x
<1>5. Resolves(x) /\ (oline.code # UNUSED => ~OffPage(ValueOf(x, u)))
  BY <1>2, <1>3, <1>4, OperandResolves DEF BadArg
<1>6. PICK v \in Int : v = ValueOf(x, u) /\ OperandMeans(symtab, x, pc8, v)
  <2>1. u \in Int /\ Numbers
    BY TypedIsNumbers, GarbageInt
  <2>2. Plain(x)
    BY DEF x
  <2> QED
    BY <1>2, <1>4, <2>1, <2>2, OperandNow
<1>7. Loc(oline.code, oline.args, u)
        = IF oline.code = UNUSED THEN v % MEM8SIZ ELSE oline.code + InPage(v)
  BY <1>5, <1>6 DEF Loc, x
<1>8. oline.code # UNUSED => Page(v) \in {0, Page(pc8)}
  BY <1>5, <1>6 DEF OffPage
<1>9. x.kind = "dsp" => v \in 0 .. MAXDSP
  BY <1>5, <1>6, NearEnough
<1> QED
  BY <1>6, <1>7, <1>8, <1>9 DEF Encodes, x

(* An instruction and the address in it, taken apart as the processor does.*)
LEMMA Decoded ==
  ASSUME NEW v \in Int, NEW a \in 0 .. MEM8SIZ - 1, NEW code \in Nat, code % (2 * PAGE8) = 0,
         Page(v) \in {0, Page(a)}, NEW w, w = code + InPage(v)
  PROVE  w \div (2 * PAGE8) = code \div (2 * PAGE8) /\ Referred(w, a) = v % MEM8SIZ
<1>1. PICK p \in Nat \ {0} : p = PAGE8
  BY Sizes
<1>2. PICK d \in Nat \ {0} : d = 2 * p
  OBVIOUS
<1>3. PICK r \in 0 .. p - 1 : r = v % p
  BY DivParts
<1>4. PICK g \in Nat : g = Page(v) /\ v % MEM8SIZ = p * g + r
  <2>1. v % MEM8SIZ = p * ((v % MEM8SIZ) \div p) + (v % p)
    <3>1. PICK m \in Nat \ {0}, q \in Nat \ {0} : m = MEM8SIZ /\ m = p * q
      BY <1>1, Sizes DEF MEM8SIZ
    <3>2. v % m = p * ((v % m) \div p) + (v % p)
      BY <3>1, Nested, ZenonT(30)
    <3> QED
      BY <3>1, <3>2
  <2>2. v % MEM8SIZ \in Nat
    BY InPageNat
  <2>3. (v % MEM8SIZ) \div p \in Nat
    BY <2>2, DivParts
  <2> QED
    BY <1>1, <1>3, <2>1, <2>3 DEF Page
<1>5. PICK i \in {0, 1} : InPage(v) = p * i + r /\ (i = 0 <=> g = 0)
  BY <1>1, <1>3, <1>4 DEF InPage
<1>6. PICK c \in Int : c = code \div d /\ code = d * c
  <2>1. code \div d \in Int /\ code = d * (code \div d) + (code % d)
    BY DivParts
  <2> QED
    BY <1>1, <1>2, <2>1
<1>7. w = d * c + (p * i + r) /\ p * i + r \in 0 .. d - 1
  BY <1>2, <1>5, <1>6
<1>8. w \div d = c
  <2>1. PICK s \in 0 .. d - 1 : s = p * i + r /\ w = d * c + s
    BY <1>7
  <2>2. (d * c + s) \div d = c
    BY <2>1, DivMod, Zenon
  <2> QED
    BY <2>1, <2>2
<1>9. w = p * (2 * c + i) + r
  <2>1. d * c = p * (2 * c)
    BY <1>2
  <2>2. \A x, y, z \in Int : x * (y + z) = x * y + x * z
    OBVIOUS
  <2>3. p * (2 * c + i) = p * (2 * c) + p * i
    BY <2>2
  <2> QED
    BY <1>7, <2>1, <2>3
<1>10. w \div p = 2 * c + i /\ w % p = r
  <2>1. PICK q \in Int : q = 2 * c + i
    OBVIOUS
  <2>2. w = p * q + r
    BY <1>9, <2>1
  <2> QED
    BY <2>1, <2>2, DivMod
<1>11. (w \div p) % 2 = i
  BY <1>10
<1>12. Page(a) = a \div p /\ a \div p \in Nat
  <2>1. \A m \in Nat \ {0}, x \in Nat : x < m => x % m = x
    OBVIOUS
  <2>2. a % MEM8SIZ = a
    BY <2>1, Sizes
  <2>3. a \in Nat
    BY Sizes
  <2>4. \A m \in Nat \ {0}, x \in Nat : x \div m \in Nat
    OBVIOUS
  <2> QED
    BY <1>1, <2>2, <2>3, <2>4 DEF Page
<1>13. Referred(w, a) = r + (IF i = 1 THEN (a \div p) * p ELSE 0)
  BY <1>1, <1>10, <1>11 DEF Referred
<1>14. ASSUME i = 0 PROVE Referred(w, a) = v % MEM8SIZ
  <2>1. p * g = 0 /\ v % MEM8SIZ = r
    BY <1>4, <1>5, <1>14
  <2> QED
    BY <1>13, <1>14, <2>1
<1>15. ASSUME i = 1 PROVE Referred(w, a) = v % MEM8SIZ
  <2>1. g = a \div p
    BY <1>4, <1>5, <1>12, <1>15
  <2>2. (a \div p) * p = p * g
    BY <2>1
  <2> QED
    BY <1>4, <1>13, <1>15, <2>2
<1>16. w \div (2 * PAGE8) = code \div (2 * PAGE8)
  BY <1>1, <1>2, <1>6, <1>8
<1> QED
  BY <1>14, <1>15, <1>16

(* An instruction and the displacement in it.                              *)
LEMMA Displaced ==
  ASSUME NEW v \in 0 .. MAXDSP, NEW code \in Nat, code % (MAXDSP + 1) = 0,
         NEW w, w = code + InPage(v)
  PROVE  w \div (MAXDSP + 1) = code \div (MAXDSP + 1) /\ w % (MAXDSP + 1) = v
<1>1. PICK p \in Nat \ {0}, d \in Nat \ {0}, m \in Nat \ {0} :
        p = PAGE8 /\ d = MAXDSP + 1 /\ m = MEM8SIZ /\ d <= p /\ p <= m
  <2>1. /\ PAGE8 \in Nat \ {0} /\ MEM8SIZ \in Nat \ {0} /\ ZMEMMAX < MEM8SIZ
        /\ MAXDSP + 1 \in Nat \ {0} /\ MAXDSP + 1 <= PAGE8
    BY Sizes, AssemblerAssumption
  <2>2. PAGE8 <= MEM8SIZ
    BY <2>1 DEF ZMEMMAX
  <2> QED
    BY <2>1, <2>2
<1>2. v \in Nat /\ v < p /\ v < m /\ v \in 0 .. d - 1
  <2>1. MAXDSP \in Nat
    BY AssemblerAssumption
  <2> QED
    BY <1>1, <2>1
<1>3. InPage(v) = v
  <2>1. v % m = v /\ v % p = v /\ v \div p = 0
    BY <1>1, <1>2
  <2> QED
    BY <1>1, <2>1 DEF InPage, Page
<1>4. PICK c \in Int : c = code \div d /\ code = d * c
  <2>1. code \div d \in Int /\ code = d * (code \div d) + (code % d)
    BY DivParts
  <2> QED
    BY <1>1, <2>1
<1>5. (d * c + v) \div d = c /\ (d * c + v) % d = v
  BY <1>2, DivMod, Zenon
<1> QED
  BY <1>1, <1>3, <1>4, <1>5

(* Pass 2 has put nothing beyond the memory, words of code below memtop,   *)
(* and, as long as there was no error and every name had a value, outside  *)
(* the constants the words of the lines.                                   *)
Imaged ==
  /\ pass = 1 => put = {}
  /\ Translating => \A a \in put :
       /\ a \in 0 .. MEM8SIZ - 1 /\ written[a] \in Lines
       /\ written[a].op # "TEXT" => a < memtop
  /\ Translating /\ errcnt = 0 /\ ~unknown =>
       \A a \in put \ (zmemptr + 1 .. ZMEMMAX) : WordIs(symtab, written[a], a, mem8[a])
  /\ at = "done" => pass = 2 /\ errcnt = 0

(* The place of a name in the table.                                       *)
LEMMA PlaceStands ==
  ASSUME Table(symtab), NEW t, NEW p, Stands(symtab, t, p) PROVE PlaceOf(t) = p
<1>1. PICK i : First(symtab, <<t.sym, 0>>, i) /\ symtab[i].location = p
  BY DEF Stands
<1>2. Len(symtab) \in Nat
  BY TableFacts
<1> DEFINE I == {k \in 1 .. Len(symtab) : symtab[k].symbol = <<t.sym, 0>>}
<1>3. I \in SUBSET Nat /\ i \in I /\ \A k \in I : ~(k < i)
  BY <1>1, <1>2 DEF First
<1>4. PlaceOf(t) = symtab[IF I # {} THEN Min(I) ELSE 0].location
  BY DEF PlaceOf, SelectInSeq
<1> HIDE DEF I
<1>5. PICK m \in Nat : m = Min(I) /\ m \in I /\ m <= i
  BY <1>3, MinLeast
<1>6. m = i
  <2>1. i \in Nat /\ ~(m < i)
    BY <1>3, <1>5
  <2> QED
    BY <1>5, <2>1
<1> QED
  BY <1>1, <1>3, <1>4, <1>5, <1>6

LEMMA MeaningIs ==
  ASSUME Table(symtab), NEW x \in Operands, NEW a, NEW v, OperandMeans(symtab, x, a, v)
  PROVE  v = Meaning(x, a)
<1>1. ASSUME NEW y, NEW w, TermMeans(symtab, y, a, w) PROVE w = Means(y, a)
  <2>1. \A p : Stands(symtab, y.tok, p) => PlaceOf(y.tok) = p
    BY PlaceStands
  <2> QED
    BY <1>1, <2>1 DEF TermMeans, Means
<1> QED
  BY <1>1 DEF OperandMeans, Meaning

LEMMA ImagedIsRight == Typed /\ Imaged => ImageIsRight
<1> SUFFICES ASSUME Typed, Imaged, at = "done" PROVE ImageIsRight
  BY DEF ImageIsRight
<1>1. /\ Translating /\ errcnt = 0 /\ Table(symtab) /\ memtop \in 0 .. MEM8SIZ
      /\ zmemptr \in 0 - 1 .. ZMEMMAX
  BY DEF Imaged, Translating, Typed, Machine
<1>2. \A a \in Nat : a < memtop => a \in DOMAIN Image /\ Image[a] = mem8[a]
  <2>1. \A a \in Nat : a < memtop => a \in 0 .. 2 * ((memtop + 1) \div 2) - 1
    BY <1>1
  <2> QED
    BY <2>1 DEF Image
<1>3. ASSUME NEW a \in put \cup (zmemptr + 1 .. ZMEMMAX), NEW b \in put, a <= b,
             written[b].op # "TEXT"
      PROVE  a \in DOMAIN Image
  <2>1. b < memtop /\ b \in Nat
    BY <1>1, <1>3 DEF Imaged
  <2>2. a \in Nat
    BY <1>1, Sizes DEF Imaged
  <2> QED
    BY <1>1, <1>2, <1>3, <2>1, <2>2
<1> DEFINE Holds(a) ==
      LET l == written[a]
          v == Meaning(Head(l.args), a)
      IN  CASE l.code = UNUSED -> Image[a] = v % MEM8SIZ
            [] l.code # UNUSED /\ l.code % (2 * PAGE8) = 0 ->
                 /\ Image[a] \div (2 * PAGE8) = l.code \div (2 * PAGE8)
                 /\ Referred(Image[a], a) = v % MEM8SIZ
            [] OTHER ->
                 /\ Image[a] \div (MAXDSP + 1) = l.code \div (MAXDSP + 1)
                 /\ Image[a] % (MAXDSP + 1) = v
<1>4. ASSUME ~unknown, NEW a \in put \ (zmemptr + 1 .. ZMEMMAX), written[a].op = "CODE",
             written[a].args # <<>>, Plain(Head(written[a].args))
      PROVE  Holds(a)
  <2>1. /\ a \in 0 .. MEM8SIZ - 1 /\ written[a] \in Lines /\ a < memtop
        /\ WordIs(symtab, written[a], a, mem8[a])
    BY <1>1, <1>4 DEF Imaged
  <2>2. PICK w : w = mem8[a] /\ w = Image[a]
    BY <1>2, <2>1, Sizes
  <2>3. PICK l \in Lines : l = written[a]
    BY <2>1
  <2>4. PICK v \in Int : OperandMeans(symtab, Head(l.args), a, v) /\ Encodes(l, a, v, w)
    BY <1>4, <2>1, <2>2, <2>3 DEF WordIs
  <2>5. l.code \in Nat /\ l.args \in Seq(Operands) /\ l.args # <<>> /\ Head(l.args) \in Operands
    BY <1>4, <2>3, LineParts
  <2>6. Meaning(Head(l.args), a) = v
    BY <1>1, <2>4, <2>5, MeaningIs
  <2>7. CASE l.code = UNUSED
    <3>1. w = v % MEM8SIZ
      BY <2>4, <2>7 DEF Encodes
    <3> QED
      BY <2>2, <2>3, <2>6, <2>7, <3>1, Zenon
  <2>8. CASE l.code # UNUSED /\ l.code % (2 * PAGE8) = 0
    <3>1. w \div (2 * PAGE8) = l.code \div (2 * PAGE8) /\ Referred(w, a) = v % MEM8SIZ
      BY <2>1, <2>4, <2>5, <2>8, Decoded DEF Encodes
    <3> QED
      BY <2>2, <2>3, <2>6, <2>8, <3>1, Zenon
  <2>9. CASE l.code # UNUSED /\ l.code % (2 * PAGE8) # 0
    <3>1. Head(l.args).kind = "dsp" /\ l.code % (MAXDSP + 1) = 0
      BY <1>4, <2>3, <2>5, <2>9, LineParts DEF RoomFor
    <3>2. v \in 0 .. MAXDSP /\ w = l.code + InPage(v)
      BY <2>4, <2>9, <3>1 DEF Encodes
    <3>3. w \div (MAXDSP + 1) = l.code \div (MAXDSP + 1) /\ w % (MAXDSP + 1) = v
      BY <2>5, <3>1, <3>2, Displaced
    <3> QED
      BY <2>2, <2>3, <2>6, <2>9, <3>3, Zenon
  <2> QED
    BY <2>7, <2>8, <2>9
<1> HIDE DEF Holds
<1>5. ASSUME ~unknown PROVE \A a \in put \ (zmemptr + 1 .. ZMEMMAX) :
        LET l == written[a]
        IN  l.op = "CODE" /\ l.args # <<>> /\ Plain(Head(l.args)) => Holds(a)
  BY <1>4, <1>5, Zenon
<1> QED
  BY <1>3, <1>5, Zenon DEF ImageIsRight, Holds

(* Words of pass 2, and what was put where.                                *)
LEMMA NothingPut ==
  ASSUME MCTranslate, Typed, pc8' = pc8 \/ ~Puts
  PROVE  put' = put /\ \A a \in put : written'[a] = written[a]
<1>1. pc8 \in Nat
  BY DEF Typed, Machine
<1>2. NowPut = {}
  BY <1>1 DEF NowPut
<1>3. written' = [a \in put \cup NowPut |-> IF a \in NowPut THEN oline ELSE written[a]]
  BY DEF MCTranslate
<1>4. put' = put
  BY <1>2, <1>3 DEF put
<1> QED
  BY <1>2, <1>3, <1>4

LEMMA WordPut ==
  ASSUME MCTranslate, Typed, Puts, pc8' = pc8 + 1
  PROVE  /\ put' = put \cup {pc8} /\ written'[pc8] = oline
         /\ \A a \in put : a # pc8 => written'[a] = written[a]
<1>1. pc8 \in Nat
  BY DEF Typed, Machine
<1>2. NowPut = {pc8}
  BY <1>1 DEF NowPut
<1>3. written' = [a \in put \cup NowPut |-> IF a \in NowPut THEN oline ELSE written[a]]
  BY DEF MCTranslate
<1>4. put' = put \cup {pc8}
  BY <1>2, <1>3 DEF put
<1> QED
  BY <1>2, <1>3, <1>4

(* Only words and texts move the counter while they are put.               *)
LEMMA PutsOnly ==
  ASSUME Typed, AssemblerNext, Puts
  PROVE  \/ Assembled \/ NotAMacro \/ TextAssemble
         \/ pc8' = pc8 /\ ~Zmem
<1>1. /\ pass = 2 /\ at = "line" /\ oline.op \in {"CODE", "TEXT", "CALL"}
  BY DEF Puts
<1>2. /\ ~Label /\ ~Org /\ ~NextPage /\ ~TextScan /\ ~Zmem /\ ~Equ /\ ~Counted /\ ~Expand
      /\ ~Macro /\ ~Endm
  BY <1>1 DEF Label, Labelled, Org, NextPage, TextScan, Zmem, Equ, Counted, Expand, Macro, Endm, Op
<1>3. /\ ~Files /\ ~ExpandLine /\ ~Return /\ ~KeepLine /\ ~SecondPass /\ ~Abort /\ ~Save /\ ~Fetch
  BY <1>1 DEF Files, FileIncl, EndOfAssembly, ExpandLine, Return, KeepLine, SecondPass, Rewind,
     Abort, Save, Finish, Fetch, FetchMacro, FetchLine, FetchIncluder, IncluderAtEnd, NoLine,
     Reading
<1>4. Stray \/ Ignored \/ Call => pc8' = pc8
  BY DEF Stray, Ignored, Call, asmVars
<1> QED
  BY <1>2, <1>3, <1>4 DEF AssemblerNext, Line1

(* The program is done when the image is saved, without an error.          *)
LEMMA DoneSaved ==
  ASSUME Typed, AssemblerNext, at' = "done" PROVE pass' = 2 /\ errcnt' = 0
<1>1. Next1 # "done"
  BY NextInPlaces
<1>2. ~Label /\ ~Zmem /\ ~Equ /\ ~Endm
  BY <1>1 DEF Label, Zmem, Equ, Endm, Insert, MarkEnd
<1>3. /\ ~Stray /\ ~Ignored /\ ~Org /\ ~NextPage /\ ~TextScan /\ ~TextAssemble
      /\ ~Counted /\ ~Files
  BY <1>1 DEF Stray, Ignored, Org, NextPage, TextScan, TextAssemble, Counted, Files, FileIncl,
     EndOfAssembly
<1>4. ~Assembled /\ ~NotAMacro /\ ~Expand /\ ~Call /\ ~Macro /\ ~ExpandLine /\ ~KeepLine
      /\ ~SecondPass /\ ~Abort
  BY DEF Assembled, NotAMacro, Deposit, Expand, Call, Macro, ExpandLine, KeepLine,
     SecondPass, Rewind, Abort
<1>5. ~Return /\ ~Fetch
  BY DEF Return, Fetch, FetchMacro, FetchLine, FetchIncluder, IncluderAtEnd, NoLine
<1>6. Save
  BY <1>2, <1>3, <1>4, <1>5 DEF AssemblerNext, Line1
<1>7. errcnt \in Nat
  BY DEF Typed, Machine
<1> QED
  BY <1>6, <1>7 DEF Save, Failed, Finish, asmVars

(* Nothing is put in pass 1.                                               *)
LEMMA PassOneImaged ==
  ASSUME Typed, Imaged, pass = 1, MCTranslate PROVE Imaged'
<1>1. put' = {}
  <2>1. ~Puts /\ put = {}
    BY DEF Puts, Imaged
  <2> QED
    BY <2>1, NothingPut
<1>2. AssemblerNext
  BY DEF MCTranslate, Translate
<1> QED
  BY <1>1, <1>2, DoneSaved DEF Imaged

(* memtop only rises in pass 2.                                            *)
LEMMA MemtopRises ==
  ASSUME Typed, AssemblerNext, pass = 2 PROVE memtop' \in Nat /\ memtop <= memtop'
<1>1. memtop \in Nat /\ memtop' \in Nat /\ pc8 \in Nat /\ pc8' \in Nat
  <2>1. Typed'
    BY NextTyped
  <2> QED
    BY <2>1, Sizes DEF Typed, Machine
<1>2. CASE Assembled \/ NotAMacro \/ Call
  BY <1>1, <1>2 DEF Assembled, NotAMacro, Call, Memtop
<1>3. CASE \/ Stray \/ Label \/ Ignored \/ Org \/ NextPage \/ TextScan \/ TextAssemble
           \/ Zmem \/ Equ \/ Counted \/ Expand \/ Macro \/ Endm \/ Files \/ ExpandLine \/ Return \/ KeepLine
           \/ Abort \/ Save \/ (Fetch /\ UNCHANGED asmVars)
  <2>1. UNCHANGED memtop
    BY <1>3 DEF Stray, Label, Ignored, Org, NextPage, TextScan, TextAssemble, Zmem, Equ, Counted,
       Expand, Macro, Endm, Files, ExpandLine, Return, KeepLine, Abort, Save, asmVars, sameMemory
  <2> QED
    BY <1>1, <2>1
<1>4. ~SecondPass
  BY DEF SecondPass, Rewind
<1> QED
  BY <1>2, <1>3, <1>4 DEF AssemblerNext, Line1

(* A word put in an earlier step, on which neither code nor a constant is  *)
(* put.                                                                    *)
LEMMA OldWord ==
  ASSUME Typed, Imaged, pass = 2, MCTranslate, NEW a \in put, a \notin NowPut,
         written'[a] = written[a]
  PROVE  /\ a \in 0 .. MEM8SIZ - 1 /\ written'[a] \in Lines
         /\ written'[a].op # "TEXT" => a < memtop'
         /\ errcnt' = 0 /\ ~unknown' /\ a \notin zmemptr' + 1 .. ZMEMMAX =>
              WordIs(symtab', written'[a], a, mem8'[a])
<1>1. AssemblerNext /\ (~unknown' => ~unknown)
  BY DEF MCTranslate, Translate
<1>2. Typed'
  BY <1>1, NextTyped
<1>3. Translating
  BY <1>1, StepKeeps DEF Translating, Stopped
<1>4. /\ a \in 0 .. MEM8SIZ - 1 /\ written[a] \in Lines
      /\ written[a].op # "TEXT" => a < memtop
  BY <1>3 DEF Imaged
<1>5. memtop \in Nat /\ zmemptr \in 0 - 1 .. ZMEMMAX /\ mem8 \in [0 .. MEM8SIZ - 1 -> Int]
  BY DEF Typed, Machine
<1>6. written[a].op # "TEXT" => a < memtop'
  BY <1>1, <1>4, <1>5, MemtopRises, Sizes
<1>7. ASSUME errcnt' = 0, ~unknown', a \notin zmemptr' + 1 .. ZMEMMAX
      PROVE  WordIs(symtab', written'[a], a, mem8'[a])
  <2>1. errcnt = 0 /\ ~unknown
    BY <1>1, <1>7, ErrorsStay
  <2>2. mem8'[a] = mem8[a] /\ a \notin zmemptr + 1 .. ZMEMMAX
    <3>1. CASE Zmem
      <4>1. PICK u \in Garbage : \E val \in {Value(Head(oline.args), u)} :
               IF Sharing(val) # {} THEN UNCHANGED <<mem8, zmemptr>>
               ELSE IF zmemptr < 0 THEN UNCHANGED <<mem8, zmemptr>>
               ELSE mem8' = [mem8 EXCEPT ![zmemptr] = val] /\ zmemptr' = zmemptr - 1
        BY <3>1 DEF Zmem
      <4>2. \/ UNCHANGED <<mem8, zmemptr>>
            \/ \E val : mem8' = [mem8 EXCEPT ![zmemptr] = val] /\ zmemptr' = zmemptr - 1
        BY <4>1
      <4>3. CASE UNCHANGED <<mem8, zmemptr>>
        BY <1>7, <4>3
      <4>4. CASE \E val : mem8' = [mem8 EXCEPT ![zmemptr] = val] /\ zmemptr' = zmemptr - 1
        <5>1. a # zmemptr /\ a \notin zmemptr + 1 .. ZMEMMAX
          BY <1>4, <1>5, <1>7, <4>4, Sizes
        <5> QED
          BY <1>4, <1>5, <4>4, <5>1
      <4> QED
        BY <4>2, <4>3, <4>4
    <3>2. CASE ~Zmem
      <4>1. zmemptr' = zmemptr /\ (mem8'[a] = mem8[a] \/ (Puts /\ a \in pc8 .. pc8' - 1))
        BY <1>1, <1>4, <3>2, WritesOfCode
      <4> QED
        BY <1>7, <4>1 DEF NowPut
    <3> QED
      BY <3>1, <3>2
  <2>3. WordIs(symtab, written[a], a, mem8[a])
    BY <1>3, <2>1, <2>2 DEF Imaged
  <2>4. Extends(symtab, symtab') /\ Table(symtab) /\ Table(symtab')
    BY <1>1, <1>2, TableGrows DEF Typed, Machine
  <2> QED
    BY <2>2, <2>3, <2>4, WordStays
<1> QED
  BY <1>4, <1>6, <1>7

(* A word put in this step.                                                *)
LEMMA NewWord ==
  ASSUME Typed, MCTranslate, pass = 2, NEW a \in NowPut, written'[a] = oline
  PROVE  /\ a \in 0 .. MEM8SIZ - 1 /\ written'[a] \in Lines
         /\ written'[a].op # "TEXT" => a < memtop'
         /\ errcnt' = 0 /\ ~unknown' => WordIs(symtab', written'[a], a, mem8'[a])
<1>1. /\ AssemblerNext /\ Puts /\ a \in pc8 .. pc8' - 1
  BY DEF MCTranslate, Translate, NowPut
<1>2. /\ at = "line" /\ oline \in Lines /\ pc8 \in Nat /\ errcnt \in Nat
      /\ mem8 \in [0 .. MEM8SIZ - 1 -> Int] /\ memtop \in Nat /\ pc8' # pc8
  BY <1>1, LineTyped DEF Puts, Typed, Machine
<1>3. Assembled \/ NotAMacro \/ TextAssemble
  BY <1>1, <1>2, PutsOnly
<1>4. CASE TextAssemble
  <2>1. TextWords \in Nat
    BY <1>2, WordsNat
  <2>2. pc8' = pc8 + 1 + TextWords /\ ~(pc8 + TextWords >= MEM8SIZ) /\ oline.op = "TEXT"
    BY <1>2, <1>4 DEF TextAssemble, Op
  <2>3. a \in 0 .. MEM8SIZ - 1
    BY <1>1, <1>2, <2>1, <2>2, Sizes
  <2> QED
    BY <1>2, <2>2, <2>3 DEF WordIs
<1>5. CASE Assembled \/ NotAMacro
  <2>1. PICK w : Deposit(w)
    BY <1>5 DEF Assembled, NotAMacro
  <2>2. pc8' = pc8 + 1 /\ ~(pc8 >= MEM8SIZ) /\ a = pc8
    <3>1. pc8' = pc8 + 1 /\ ~(pc8 >= MEM8SIZ)
      BY <1>2, <2>1 DEF Deposit
    <3> QED
      BY <1>1, <1>2, <3>1
  <2>3. a \in 0 .. MEM8SIZ - 1 /\ a < memtop'
    <3>1. Memtop
      BY <1>5 DEF Assembled, NotAMacro
    <3> QED
      BY <1>2, <2>2, <3>1, Sizes DEF Memtop
  <2>4. CASE NotAMacro
    <3>1. oline.op = "CALL"
      BY <2>4 DEF NotAMacro, Op
    <3> QED
      BY <1>2, <2>3, <3>1 DEF WordIs
  <2>5. CASE Assembled
    <3>1. /\ oline.op = "CODE" /\ Ready /\ ~macromode /\ symtab' = symtab
      BY <2>5 DEF Assembled, Op, symVars
    <3>2. PICK u \in Garbage : /\ Deposit(Loc(oline.code, oline.args, u))
                               /\ errcnt' = errcnt + LocErrors(oline.code, oline.args, u)
      BY <2>5 DEF Assembled
    <3>3. mem8'[a] = Loc(oline.code, oline.args, u)
      <4>1. mem8' = [mem8 EXCEPT ![pc8] = Loc(oline.code, oline.args, u)]
        BY <2>2, <3>2 DEF Deposit
      <4> QED
        BY <1>2, <2>2, <2>3, <4>1
    <3>4. ASSUME errcnt' = 0, ~unknown'
          PROVE  WordIs(symtab, oline, pc8, Loc(oline.code, oline.args, u))
      <4>1. LocErrors(oline.code, oline.args, u) \in Nat
        BY <1>2, LineParts, LocErrorsNat
      <4>2. LocErrors(oline.code, oline.args, u) = 0
        BY <1>2, <3>2, <3>4, <4>1
      <4>3. ~UsesUnknown
        BY <3>4 DEF MCTranslate
      <4> QED
        BY <1>2, <3>1, <4>2, <4>3, WordNow
    <3> QED
      BY <1>2, <2>2, <2>3, <3>1, <3>3, <3>4
  <2> QED
    BY <1>5, <2>4, <2>5
<1> QED
  BY <1>3, <1>4, <1>5

LEMMA PassTwoImaged ==
  ASSUME Typed, Imaged, pass = 2, MCTranslate PROVE Imaged'
<1>1. /\ AssemblerNext /\ put' = put \cup NowPut
      /\ \A a \in put' : written'[a] = IF a \in NowPut THEN oline ELSE written[a]
  BY PutGrows DEF MCTranslate, Translate, NowPut
<1>2. pass' = 2
  BY <1>1, StepKeeps DEF SecondPass, Rewind
<1>3. \A a \in put' :
        /\ a \in 0 .. MEM8SIZ - 1 /\ written'[a] \in Lines
        /\ written'[a].op # "TEXT" => a < memtop'
        /\ errcnt' = 0 /\ ~unknown' /\ a \notin zmemptr' + 1 .. ZMEMMAX =>
             WordIs(symtab', written'[a], a, mem8'[a])
  BY <1>1, OldWord, NewWord
<1> QED
  BY <1>1, <1>2, <1>3, DoneSaved DEF Imaged

(* When the image is saved it holds every word of code and its operands    *)
(* refer to what the lines name, for every set of texts and every size of  *)
(* the memory: memtop covers the words of code, no constant and no other   *)
(* line has overwritten one unseen, and a symbol never moves (symtab).     *)
THEOREM ImageHoldsTheLines == MCSpec => []ImageIsRight
<1>1. MCInit => Typed /\ Imaged
  <2>1. DOMAIN << >> = {}
    OBVIOUS
  <2>2. MCInit => Imaged
    BY <2>1 DEF MCInit, ListingInit, AssemblerInit, ReaderInit, Imaged, Translating, put
  <2> QED
    BY <2>2, MCIsAssembler, InitTyped
<1>2. Typed /\ Imaged /\ [MCNext]_mcVars => (Typed /\ Imaged)'
  <2> SUFFICES ASSUME Typed, Imaged, [MCNext]_mcVars PROVE Typed' /\ Imaged'
    OBVIOUS
  <2>1. Typed'
    BY MCIsAssembler, NextTyped
  <2>2. CASE MCTranslate
    <3>1. pass \in {1, 2}
      BY DEF Typed, ReaderTyped, ReaderTypeOK
    <3> QED
      BY <2>1, <2>2, <3>1, PassOneImaged, PassTwoImaged
  <2>3. CASE UNCHANGED <<vars, history>>
    <3>1. UNCHANGED <<pass, at, memtop, mem8, zmemptr, symtab, errcnt, written, unknown>>
      BY <2>3 DEF vars, readVars, asmVars, history
    <3> QED
      BY <2>1, <3>1 DEF Imaged, Translating, put
  <2>4. UNCHANGED <<vars, history>> \/ MCTranslate
    BY DEF MCNext, ReadListing, mcVars
  <2> QED
    BY <2>2, <2>3, <2>4
<1>3. Typed /\ Imaged => ImageIsRight
  BY ImagedIsRight
<1> QED
  BY <1>1, <1>2, <1>3, PTL DEF MCSpec

(***************************************************************************)
(* The listing                                                             *)
(***************************************************************************)
IsList(s) == \E S : s \in Seq(S)

(* The last line with address a in a list shows src; no line has it.       *)
LastIn(s, a, src) == \E j \in 1 .. Len(s) : /\ s[j].addr = a /\ s[j].src = src
                                            /\ \A k \in j + 1 .. Len(s) : s[k].addr # a
Absent(s, a) == \A k \in 1 .. Len(s) : s[k].addr # a

LEMMA ListFacts ==
  ASSUME NEW s, IsList(s)
  PROVE  Len(s) \in Nat /\ DOMAIN s = 1 .. Len(s)
BY DEF IsList

LEMMA ListJoined ==
  ASSUME NEW s, IsList(s), NEW t, IsList(t), NEW w, w = s \o t
  PROVE  /\ IsList(w) /\ Len(w) = Len(s) + Len(t)
         /\ \A k \in 1 .. Len(s) : w[k] = s[k]
         /\ \A k \in 1 .. Len(t) : w[Len(s) + k] = t[k]
<1>1. PICK S, T : s \in Seq(S) /\ t \in Seq(T)
  BY DEF IsList
<1> DEFINE U == S \cup T
<1>2. s \in Seq(U) /\ t \in Seq(U)
  BY <1>1, SeqMonotonic
<1> HIDE DEF U
<1>3. /\ s \o t \in Seq(U) /\ Len(s \o t) = Len(s) + Len(t)
      /\ \A i \in 1 .. Len(s) + Len(t) : (s \o t)[i] = IF i <= Len(s) THEN s[i] ELSE t[i - Len(s)]
      /\ Len(s) \in Nat /\ Len(t) \in Nat
  BY <1>2, ConcatProperties, LenProperties
<1>4. \A k \in 1 .. Len(t) : Len(s) + k \in 1 .. Len(s) + Len(t) /\ (s \o t)[Len(s) + k] = t[k]
  BY <1>3
<1> QED
  BY <1>3, <1>4 DEF IsList

LEMMA LastJoined ==
  ASSUME NEW s, IsList(s), NEW t, IsList(t), NEW a, NEW w, w = s \o t
  PROVE  /\ \A src : LastIn(t, a, src) => LastIn(w, a, src)
         /\ \A src : LastIn(s, a, src) /\ Absent(t, a) => LastIn(w, a, src)
         /\ Absent(s, a) /\ Absent(t, a) => Absent(w, a)
<1>1. /\ Len(s) \in Nat /\ Len(t) \in Nat /\ Len(w) = Len(s) + Len(t)
      /\ \A k \in 1 .. Len(s) : w[k] = s[k]
      /\ \A k \in 1 .. Len(t) : w[Len(s) + k] = t[k]
  BY ListFacts, ListJoined
<1>2. \A k \in 1 .. Len(w) : k \in 1 .. Len(s) \/ \E m \in 1 .. Len(t) : k = Len(s) + m
  <2>1. ASSUME NEW k \in 1 .. Len(w), k \notin 1 .. Len(s) PROVE \E m \in 1 .. Len(t) : k = Len(s) + m
    <3>1. k - Len(s) \in 1 .. Len(t) /\ k = Len(s) + (k - Len(s))
      BY <1>1, <2>1
    <3> QED
      BY <3>1
  <2> QED
    BY <2>1
<1>3. ASSUME NEW src, LastIn(t, a, src) PROVE LastIn(w, a, src)
  <2>1. PICK j \in 1 .. Len(t) : /\ t[j].addr = a /\ t[j].src = src
                                 /\ \A k \in j + 1 .. Len(t) : t[k].addr # a
    BY <1>3 DEF LastIn
  <2>2. PICK i : i = Len(s) + j /\ i \in 1 .. Len(w) /\ w[i] = t[j]
    BY <1>1
  <2>3. ASSUME NEW k \in i + 1 .. Len(w) PROVE w[k].addr # a
    <3>1. k \in 1 .. Len(w) /\ k \notin 1 .. Len(s)
      BY <1>1, <2>2, <2>3
    <3>2. PICK m \in 1 .. Len(t) : k = Len(s) + m
      BY <1>2, <3>1
    <3>3. m \in j + 1 .. Len(t)
      BY <1>1, <2>2, <2>3, <3>2
    <3> QED
      BY <1>1, <2>1, <3>2, <3>3
  <2> QED
    BY <2>1, <2>2, <2>3 DEF LastIn
<1>4. ASSUME NEW src, LastIn(s, a, src), Absent(t, a) PROVE LastIn(w, a, src)
  <2>1. PICK j \in 1 .. Len(s) : /\ s[j].addr = a /\ s[j].src = src
                                 /\ \A k \in j + 1 .. Len(s) : s[k].addr # a
    BY <1>4 DEF LastIn
  <2>2. j \in 1 .. Len(w) /\ w[j] = s[j]
    BY <1>1
  <2>3. ASSUME NEW k \in j + 1 .. Len(w) PROVE w[k].addr # a
    <3>1. CASE k \in 1 .. Len(s)
      <4>1. k \in j + 1 .. Len(s)
        BY <1>1, <2>3, <3>1
      <4> QED
        BY <1>1, <2>1, <3>1, <4>1
    <3>2. CASE \E m \in 1 .. Len(t) : k = Len(s) + m
      BY <1>1, <1>4, <3>2 DEF Absent
    <3>3. k \in 1 .. Len(w)
      BY <1>1, <2>3
    <3> QED
      BY <1>2, <3>1, <3>2, <3>3
  <2> QED
    BY <2>1, <2>2, <2>3 DEF LastIn
<1>5. ASSUME Absent(s, a), Absent(t, a) PROVE Absent(w, a)
  BY <1>1, <1>2, <1>5 DEF Absent
<1> QED
  BY <1>3, <1>4, <1>5

(* What reading a file comes to, line by line.                             *)
Following(u, file, n) ==
  \A k \in 0 .. n : u[k] = IF k = 0 THEN Buffer ELSE ReadLine(u[k - 1], file[k])

LEMMA ReadsFollow ==
  ASSUME NEW file, IsList(file)
  PROVE  \E u : Following(u, file, Len(file)) /\ Reads(file) = u[Len(file)]
<1>1. Len(file) \in Nat
  BY ListFacts
<1> DEFINE Is(f, n) == f = [k \in 0 .. n |-> IF k = 0 THEN Buffer ELSE ReadLine(f[k - 1], file[k])]
           T == {n \in 0 .. Len(file) : ~ \E f : Is(f, n)}
<1>2. T = {}
  <2> SUFFICES ASSUME T # {} PROVE FALSE
    OBVIOUS
  <2>1. PICK n \in T : \A m \in T : n <= m
    <3>1. T \in SUBSET Nat
      BY <1>1
    <3> HIDE DEF T
    <3> QED
      BY <3>1, Least
  <2>2. n \in 0 .. Len(file) /\ n \in Nat
    BY <1>1
  <2>3. CASE n = 0
    <3> DEFINE f == [k \in 0 .. 0 |-> Buffer]
    <3>1. Is(f, 0)
      OBVIOUS
    <3> QED
      BY <2>3, <3>1
  <2>4. CASE n # 0
    <3>1. n - 1 \in 0 .. Len(file) /\ ~(n <= n - 1)
      BY <1>1, <2>2, <2>4
    <3>0. n - 1 \notin T
      BY <2>1, <3>1, Zenon
    <3>2. PICK g : Is(g, n - 1)
      BY <3>0, <3>1
    <3> DEFINE f == [k \in 0 .. n |-> IF k = n THEN ReadLine(g[n - 1], file[n]) ELSE g[k]]
    <3>3. \A k \in 0 .. n - 1 : g[k] = IF k = 0 THEN Buffer ELSE ReadLine(g[k - 1], file[k])
      BY <3>2
    <3>4. ASSUME NEW k \in 0 .. n PROVE f[k] = IF k = 0 THEN Buffer ELSE ReadLine(f[k - 1], file[k])
      <4>1. CASE k = n
        <5>1. f[n - 1] = g[n - 1] /\ f[n] = ReadLine(g[n - 1], file[n])
          BY <2>2, <2>4
        <5> QED
          BY <2>4, <4>1, <5>1
      <4>2. CASE k # n
        <5>1. k \in 0 .. n - 1 /\ f[k] = g[k] /\ (k # 0 => f[k - 1] = g[k - 1])
          BY <2>2, <4>2
        <5> QED
          BY <3>3, <5>1
      <4> QED
        BY <4>1, <4>2
    <3>5. Is(f, n)
      <4>1. f = [k \in 0 .. n |-> f[k]]
        OBVIOUS
      <4> HIDE DEF f
      <4> QED
        BY <3>4, <4>1
    <3> HIDE DEF f, Is
    <3> QED
      BY <3>5
  <2> QED
    BY <2>3, <2>4
<1> DEFINE u == CHOOSE f : Is(f, Len(file))
<1>3. Is(u, Len(file))
  BY <1>1, <1>2
<1>4. Reads(file) = u[Len(file)]
  BY DEF Reads
<1>5. Following(u, file, Len(file))
  <2> HIDE DEF u
  <2> QED
    BY <1>3 DEF Following
<1> QED
  BY <1>4, <1>5

LEMMA StoredAt ==
  ASSUME NEW t, NEW b, NEW src, NEW a
  PROVE  /\ a = b => a \in DOMAIN Stored(t, b, src) /\ Stored(t, b, src)[a] = src
         /\ a # b /\ a \in DOMAIN t =>
              a \in DOMAIN Stored(t, b, src) /\ Stored(t, b, src)[a] = t[a]
BY DEF Stored

(* Pepsi shows at an address the last line of the file with it: its line   *)
(* is in the buffer until another address comes, and the line after it     *)
(* puts it where it belongs.                                               *)
LEMMA LastIsShown ==
  ASSUME NEW file, IsList(file), \A k \in 1 .. Len(file) : file[k].addr \in Nat,
         NEW a, NEW src, LastIn(file, a, src)
  PROVE  LET r == Reads(file) IN Stored(r.text, r.i, r.last)[a] = src
<1>1. PICK n \in Nat : n = Len(file)
  BY ListFacts
<1>2. PICK u : Following(u, file, n) /\ Reads(file) = u[n]
  BY <1>1, ReadsFollow
<1>3. PICK j \in 1 .. n : /\ file[j].addr = a /\ file[j].src = src
                          /\ \A k \in j + 1 .. n : file[k].addr # a
  BY <1>1 DEF LastIn
<1>4. ASSUME NEW k \in 1 .. n
      PROVE  /\ u[k].i = file[k].addr /\ u[k].last = file[k].src /\ u[k].i \in Nat
             /\ u[k].text = IF file[k].addr # u[k - 1].i
                            THEN Stored(u[k - 1].text, IF u[k - 1].i < 0 THEN 0 ELSE u[k - 1].i,
                                        u[k - 1].last)
                            ELSE u[k - 1].text
  <2>1. u[k] = ReadLine(u[k - 1], file[k])
    BY <1>1, <1>2, <1>4 DEF Following
  <2>2. /\ u[k].i = file[k].addr /\ u[k].last = file[k].src
        /\ u[k].text = IF file[k].addr # u[k - 1].i THEN LineBefore(u[k - 1], file[k])
                       ELSE u[k - 1].text
    BY <2>1 DEF ReadLine
  <2> QED
    BY <1>1, <1>4, <2>2 DEF LineBefore
<1> DEFINE Shown(k) == a \in DOMAIN u[k].text /\ u[k].text[a] = src
           T == {k \in j + 1 .. n : ~Shown(k)}
<1>5. T = {}
  <2> SUFFICES ASSUME T # {} PROVE FALSE
    OBVIOUS
  <2>1. PICK k \in T : \A m \in T : k <= m
    <3>1. T \in SUBSET Nat
      BY <1>1, <1>3
    <3> HIDE DEF T
    <3> QED
      BY <3>1, Least
  <2>2. k \in j + 1 .. n /\ ~Shown(k)
    OBVIOUS
  <2>3. k \in 1 .. n /\ k - 1 \in 1 .. n /\ j \in Nat /\ k \in Nat
    BY <1>1, <1>3, <2>2
  <2>4. /\ u[k - 1].i = file[k - 1].addr /\ u[k - 1].last = file[k - 1].src
        /\ ~(u[k - 1].i < 0)
        /\ u[k].text = IF file[k].addr # u[k - 1].i
                       THEN Stored(u[k - 1].text, u[k - 1].i, u[k - 1].last)
                       ELSE u[k - 1].text
    <3>1. u[k - 1].i \in Nat
      BY <1>4, <2>3
    <3>2. ~(u[k - 1].i < 0)
      BY <3>1
    <3> QED
      BY <1>4, <2>3, <3>2
  <2>5. CASE k = j + 1
    <3>1. k - 1 = j /\ file[k].addr # a
      BY <1>3, <2>2, <2>3, <2>5
    <3>2. u[k].text = Stored(u[k - 1].text, a, src)
      BY <1>3, <2>4, <3>1
    <3> QED
      BY <2>2, <3>2, StoredAt
  <2>6. CASE k # j + 1
    <3>1. k - 1 \in j + 1 .. n /\ ~(k <= k - 1)
      BY <1>1, <2>2, <2>3, <2>6
    <3>2. Shown(k - 1) /\ file[k - 1].addr # a
      BY <1>3, <2>1, <3>1
    <3> HIDE DEF T
    <3> QED
      BY <2>2, <2>4, <3>2, StoredAt
  <2> QED
    BY <2>5, <2>6
<1>6. n \in 1 .. n
  BY <1>1, <1>3
<1>7. CASE j = n
  <2>1. u[n].i = a /\ u[n].last = src
    BY <1>3, <1>4, <1>7
  <2> QED
    BY <1>2, <2>1, StoredAt
<1>8. CASE j # n
  <2>1. n \in j + 1 .. n
    BY <1>1, <1>3, <1>8
  <2>2. Shown(n) /\ u[n].i # a
    BY <1>3, <1>4, <1>5, <1>6, <2>1
  <2> HIDE DEF T
  <2> QED
    BY <1>2, <2>2, StoredAt
<1> QED
  BY <1>7, <1>8

(* The lines for the addresses m .. n.                                     *)
LEMMA ListMade ==
  ASSUME NEW S, NEW n \in Int, NEW f \in [1 .. n -> S]
  PROVE  IsList(f) /\ f \in Seq(S) /\ Len(f) = IF n > 0 THEN n ELSE 0
<1>1. CASE n > 0
  BY <1>1 DEF IsList
<1>2. CASE ~(n > 0)
  <2>1. 1 .. n = 1 .. 0
    BY <1>2
  <2>2. f \in Seq(S) /\ Len(f) = 0
    BY <2>1
  <2> QED
    BY <1>2, <2>2 DEF IsList
<1> QED
  BY <1>1, <1>2

LEMMA ListedIs ==
  ASSUME NEW m \in Int, NEW n \in Int, NEW w, w = Listed(m, n)
  PROVE  /\ IsList(w)
         /\ \A k \in 1 .. Len(w) : w[k].addr \in m .. n
         /\ \A a \in m .. n : LastIn(w, a, LineAt(a).src)
<1> DEFINE c == n - m + 1
           S == {LineAt(a) : a \in m .. n}
<1>1. c \in Int /\ w = [k \in 1 .. c |-> LineAt(m + k - 1)]
  BY DEF Listed
<1>2. \A k \in 1 .. c : m + k - 1 \in m .. n
  OBVIOUS
<1>3. w \in [1 .. c -> S]
  BY <1>1, <1>2
<1>4. IsList(w) /\ Len(w) = IF c > 0 THEN c ELSE 0
  BY <1>1, <1>3, ListMade
<1>5. 1 .. Len(w) = 1 .. c
  <2> HIDE DEF c
  <2>1. CASE c > 0
    BY <1>4, <2>1
  <2>2. CASE ~(c > 0)
    <3>1. \A k : k \notin 1 .. c /\ k \notin 1 .. 0
      BY <1>1, <2>2
    <3>2. Len(w) = 0
      BY <1>4, <2>2
    <3> QED
      BY <3>1, <3>2
  <2> QED
    BY <2>1, <2>2
<1>6. \A a : LineAt(a).addr = a
  BY DEF LineAt, InFile
<1>7. \A k \in 1 .. Len(w) : w[k] = LineAt(m + k - 1) /\ w[k].addr = m + k - 1
  BY <1>1, <1>5, <1>6
<1>8. ASSUME NEW a \in m .. n PROVE LastIn(w, a, LineAt(a).src)
  <2>1. PICK j : j = a - m + 1 /\ j \in 1 .. c /\ m + j - 1 = a
    OBVIOUS
  <2>2. w[j] = LineAt(a) /\ w[j].addr = a /\ j \in 1 .. Len(w)
    BY <1>5, <1>7, <2>1
  <2>3. ASSUME NEW k \in j + 1 .. Len(w) PROVE w[k].addr # a
    <3>1. k \in 1 .. Len(w) /\ m + k - 1 # a
      BY <1>4, <1>5, <2>1
    <3> QED
      BY <1>7, <3>1
  <2> QED
    BY <2>2, <2>3 DEF LastIn
<1> QED
  BY <1>2, <1>4, <1>5, <1>7, <1>8

(* A sequence of sequences, flattened.                                     *)
LEMMA Flattened ==
  ASSUME NEW S, NEW seqs \in Seq(Seq(S))
  PROVE  FlattenSeq(seqs) \in Seq(S)
<1>1. PICK len \in Nat : len = Len(seqs) /\ \A i \in 1 .. len : seqs[i] \in Seq(S)
  OBVIOUS
<1>2. CASE len = 0
  <2>1. Len(seqs) = 0
    BY <1>1, <1>2
  <2>2. FlattenSeq(seqs) = seqs
    BY <2>1, Zenon DEF FlattenSeq
  <2>3. seqs = << >>
    BY <2>1
  <2> QED
    BY <2>2, <2>3
<1>3. CASE len # 0
  <2> DEFINE Is(f, n) == f = [i \in 1 .. n |-> IF i = 1 THEN seqs[i] ELSE f[i - 1] \o seqs[i]]
             T == {n \in 0 .. len : ~ \E f : Is(f, n)}
  <2>0. /\ \A f, n : Is(f, n) => \A i \in 1 .. n :
                       f[i] = IF i = 1 THEN seqs[i] ELSE f[i - 1] \o seqs[i]
        /\ \A f, n : (/\ f = [i \in 1 .. n |-> f[i]]
                       /\ \A i \in 1 .. n :
                            f[i] = (IF i = 1 THEN seqs[i] ELSE f[i - 1] \o seqs[i]))
                      => Is(f, n)
    OBVIOUS
  <2>2. FlattenSeq(seqs) = (CHOOSE f : Is(f, len))[len]
    BY <1>1, <1>3 DEF FlattenSeq
  <2> HIDE DEF Is
  <2>1. T = {}
    <3> SUFFICES ASSUME T # {} PROVE FALSE
      OBVIOUS
    <3>1. PICK n \in T : \A m \in T : n <= m
      <4>1. T \in SUBSET Nat
        BY <1>1
      <4> HIDE DEF T
      <4> QED
        BY <4>1, Least
    <3>2. n \in 0 .. len /\ n \in Nat
      BY <1>1
    <3>3. CASE n = 0
      <4> DEFINE f == [i \in 1 .. 0 |-> seqs[i]]
      <4>1. f = [i \in 1 .. 0 |-> f[i]] /\ \A i : i \notin 1 .. 0
        OBVIOUS
      <4> HIDE DEF f
      <4>2. Is(f, 0)
        BY <2>0, <4>1
      <4> QED
        BY <3>3, <4>2
    <3>4. CASE n # 0
      <4>1. n - 1 \in 0 .. len /\ n \in 1 .. len /\ ~(n <= n - 1)
        BY <1>1, <3>2, <3>4
      <4>0. n - 1 \notin T
        BY <3>1, <4>1, Zenon
      <4>2. PICK g : Is(g, n - 1)
        BY <4>0, <4>1
      <4> DEFINE f == [i \in 1 .. n |-> IF i # n THEN g[i] ELSE IF n = 1 THEN seqs[n]
                                       ELSE g[n - 1] \o seqs[n]]
      <4>3. \A i \in 1 .. n - 1 : g[i] = IF i = 1 THEN seqs[i] ELSE g[i - 1] \o seqs[i]
        BY <2>0, <4>2
      <4>4. ASSUME NEW i \in 1 .. n PROVE f[i] = IF i = 1 THEN seqs[i] ELSE f[i - 1] \o seqs[i]
        <5>1. CASE i = n
          <6>1. n # 1 => f[n - 1] = g[n - 1]
            BY <3>2, <3>4
          <6>2. f[n] = IF n = 1 THEN seqs[n] ELSE g[n - 1] \o seqs[n]
            BY <3>2, <3>4
          <6> HIDE DEF f
          <6> QED
            BY <5>1, <6>1, <6>2
        <5>2. CASE i # n
          <6>1. i \in 1 .. n - 1 /\ f[i] = g[i] /\ (i # 1 => f[i - 1] = g[i - 1])
            BY <3>2, <5>2
          <6> HIDE DEF f
          <6>2. g[i] = IF i = 1 THEN seqs[i] ELSE g[i - 1] \o seqs[i]
            BY <4>3, <6>1
          <6> QED
            BY <6>1, <6>2
        <5> QED
          BY <5>1, <5>2
      <4>5. Is(f, n)
        <5>1. f = [i \in 1 .. n |-> f[i]]
          OBVIOUS
        <5> HIDE DEF f
        <5>2. \A i \in 1 .. n : f[i] = (IF i = 1 THEN seqs[i] ELSE f[i - 1] \o seqs[i])
          BY <4>4
        <5> QED
          BY <5>1, <5>2 DEF Is
      <4> HIDE DEF f
      <4> QED
        BY <4>5
    <3> QED
      BY <3>3, <3>4
  <2> DEFINE u == CHOOSE f : Is(f, len)
  <2>3. PICK g : Is(g, len)
    BY <1>1, <2>1
  <2>4. Is(u, len)
    BY <2>3
  <2>5. \A n \in 1 .. len : u[n] \in Seq(S)
    <3> DEFINE V == {n \in 1 .. len : u[n] \notin Seq(S)}
    <3>1. \A i \in 1 .. len : u[i] = IF i = 1 THEN seqs[i] ELSE u[i - 1] \o seqs[i]
      BY <2>0, <2>4
    <3>2. V = {}
      <4> HIDE DEF u
      <4> SUFFICES ASSUME V # {} PROVE FALSE
        OBVIOUS
      <4>1. PICK n \in V : \A m \in V : n <= m
        <5>1. V \in SUBSET Nat
          BY <1>1
        <5> HIDE DEF V
        <5> QED
          BY <5>1, Least
      <4>2. n \in 1 .. len /\ u[n] \notin Seq(S)
        OBVIOUS
      <4>3. n # 1 => n - 1 \in 1 .. len /\ n - 1 \notin V
        BY <1>1, <4>1, <4>2
      <4>4. n # 1 => u[n - 1] \in Seq(S)
        BY <4>3
      <4>5. CASE n = 1
        BY <1>1, <3>1, <4>2, <4>5
      <4>6. CASE n # 1
        <5>1. u[n] = u[n - 1] \o seqs[n] /\ seqs[n] \in Seq(S)
          BY <1>1, <3>1, <4>2, <4>6
        <5> QED
          BY <4>2, <4>4, <4>6, <5>1, ConcatProperties
      <4> QED
        BY <4>5, <4>6
    <3> QED
      BY <3>2
  <2>6. len \in 1 .. len
    BY <1>1, <1>3
  <2> QED
    BY <2>2, <2>5, <2>6, Zenon
<1> QED
  BY <1>2, <1>3

(* What waits to be listed: the lines of the zero page in the listing,     *)
(* those behind it in the temporary file, the names of the constants; and  *)
(* the last line pass 2 had at an address is the last listed for it, until *)
(* a TEXT runs out of the memory.                                          *)
Waiting ==
  /\ IsList(lst) /\ \A k \in 1 .. Len(lst) : lst[k].addr \in 0 .. ZMEMMAX
  /\ IsList(tmp) /\ \A k \in 1 .. Len(tmp) : tmp[k].addr \in Nat /\ tmp[k].addr > ZMEMMAX
  /\ zlabel = [a \in 0 .. ZMEMMAX |-> zlabel[a]] /\ \A a \in 0 .. ZMEMMAX : IsList(zlabel[a])
ListedAt(a, src) == LastIn(IF a > ZMEMMAX THEN tmp ELSE lst, a, src)
Displayed ==
  /\ pass = 1 => put = {}
  /\ put \subseteq DOMAIN lastAt /\ DOMAIN lastAt \subseteq Nat
  /\ at # "wild" => Waiting /\ \A a \in DOMAIN lastAt : ListedAt(a, lastAt[a])
  /\ source # "none" => at = "done"
  /\ TextShowsLines

(* The constants in the file have their places in the zero page.           *)
LEMMA ZmemListIs ==
  ASSUME Waiting, zmemptr \in 0 - 1 .. ZMEMMAX
  PROVE  /\ IsList(ZmemList)
         /\ \A k \in 1 .. Len(ZmemList) : ZmemList[k].addr \in zmemptr + 1 .. ZMEMMAX
<1> DEFINE L == UNION {{zlabel[a][k] : k \in DOMAIN zlabel[a]} : a \in 0 .. ZMEMMAX}
           S == [addr : zmemptr + 1 .. ZMEMMAX, src : {[Blank EXCEPT !.op = "ZMEM"]}, label : L]
           c == ZMEMMAX - zmemptr
           w == [k \in 1 .. c |-> ConstantsOf(zmemptr + k)]
<1>1. zmemptr \in Int /\ ZMEMMAX \in Int /\ c \in Int
  BY Sizes
<1>2. ASSUME NEW k \in 1 .. c PROVE ConstantsOf(zmemptr + k) \in Seq(S)
  <2>1. PICK a : a = zmemptr + k /\ a \in zmemptr + 1 .. ZMEMMAX /\ a \in 0 .. ZMEMMAX
    BY <1>1, <1>2
  <2>2. PICK n \in Nat : DOMAIN zlabel[a] = 1 .. n
    BY <2>1, ListFacts DEF Waiting
  <2>3. \A i \in 1 .. n : zlabel[a][i] \in L
    BY <2>1, <2>2
  <2>4. ConstantsOf(a) = [i \in 1 .. n |-> InFile(a, [Blank EXCEPT !.op = "ZMEM"], zlabel[a][i])]
    BY <2>2 DEF ConstantsOf
  <2> HIDE DEF L
  <2>5. \A i \in 1 .. n : InFile(a, [Blank EXCEPT !.op = "ZMEM"], zlabel[a][i]) \in S
    BY <2>1, <2>3 DEF InFile
  <2> HIDE DEF S
  <2> QED
    BY <2>1, <2>4, <2>5
<1> HIDE DEF S
<1>3. w \in Seq(Seq(S))
  <2>1. w \in [1 .. c -> Seq(S)]
    BY <1>2
  <2> HIDE DEF c, w
  <2> QED
    BY <1>1, <2>1, ListMade
<1>4. ZmemList \in Seq(S)
  <2>1. ZmemList = FlattenSeq(w)
    BY DEF ZmemList
  <2> HIDE DEF w
  <2> QED
    BY <1>3, <2>1, Flattened
<1>5. \A k \in 1 .. Len(ZmemList) : ZmemList[k] \in S
  BY <1>4, ElementOfSeq
<1>6. \A l \in S : l.addr \in zmemptr + 1 .. ZMEMMAX
  BY DEF S
<1> QED
  BY <1>4, <1>5, <1>6 DEF IsList

(* So pepsi shows what was listed last.                                    *)
LEMMA FileShows ==
  ASSUME Typed, Displayed, at = "done", ReadListing, UNCHANGED history PROVE TextShowsLines'
<1>1. /\ put' = put /\ lastAt' = lastAt /\ zmemptr' = zmemptr /\ zmemptr \in 0 - 1 .. ZMEMMAX
      /\ ZMEMMAX \in Int
  BY Sizes DEF ReadListing, vars, asmVars, history, put, Typed, Machine
<1> SUFFICES ASSUME source' = "read", NEW a \in put \ (zmemptr + 1 .. ZMEMMAX)
             PROVE  srctext'[a] = lastAt[a]
  BY <1>1 DEF TextShowsLines
<1>2. /\ IsList(lst) /\ \A k \in 1 .. Len(lst) : lst[k].addr \in 0 .. ZMEMMAX
      /\ IsList(tmp) /\ \A k \in 1 .. Len(tmp) : tmp[k].addr \in Nat /\ tmp[k].addr > ZMEMMAX
      /\ a \in Nat /\ ListedAt(a, lastAt[a])
  BY DEF Displayed, Waiting
<1>3. /\ IsList(ZmemList)
      /\ \A k \in 1 .. Len(ZmemList) : ZmemList[k].addr \in zmemptr + 1 .. ZMEMMAX
  BY <1>1, ZmemListIs DEF Displayed
<1>4. PICK x : x = lst \o ZmemList
  OBVIOUS
<1>5. PICK file : file = x \o tmp /\ file = File
  BY <1>4 DEF File
<1>6. IsList(x) /\ IsList(file)
  BY <1>2, <1>3, <1>4, <1>5, ListJoined
<1>7. \A k \in 1 .. Len(file) : file[k].addr \in Nat
  <2>1. ASSUME NEW b, b \notin Nat PROVE Absent(file, b)
    <3>1. Absent(lst, b) /\ Absent(ZmemList, b) /\ Absent(tmp, b)
      BY <1>1, <1>2, <1>3, <2>1 DEF Absent
    <3>2. Absent(x, b)
      BY <1>2, <1>3, <1>4, <3>1, LastJoined
    <3> QED
      BY <1>2, <1>5, <1>6, <3>1, <3>2, LastJoined
  <2> QED
    BY <2>1 DEF Absent
<1>8. LastIn(file, a, lastAt[a])
  <2>1. CASE a > ZMEMMAX
    BY <1>2, <1>5, <1>6, <2>1, LastJoined DEF ListedAt
  <2>2. CASE ~(a > ZMEMMAX)
    <3>1. LastIn(lst, a, lastAt[a])
      BY <1>2, <2>2 DEF ListedAt
    <3>2. Absent(ZmemList, a) /\ Absent(tmp, a)
      BY <1>1, <1>2, <1>3, <2>2 DEF Absent
    <3>3. LastIn(x, a, lastAt[a])
      BY <1>2, <1>3, <1>4, <3>1, <3>2, LastJoined
    <3> QED
      BY <1>2, <1>5, <1>6, <3>2, <3>3, LastJoined
  <2> QED
    BY <2>1, <2>2
<1>9. \E r \in {Reads(file)} : srctext' = Stored(r.text, r.i, r.last)
  BY <1>5 DEF ReadListing
<1> QED
  BY <1>6, <1>7, <1>8, <1>9, LastIsShown

(***************************************************************************)
(* A line of pass 2 is listed where lastAt has it                          *)
(***************************************************************************)
LEMMA LeastOfTwo ==
  ASSUME NEW x \in Int, NEW y \in Int
  PROVE  /\ Min({x, y}) = IF x <= y THEN x ELSE y
         /\ Max({x, y}) = IF x >= y THEN x ELSE y
BY DEF Min, Max

(* The addresses of the lines for one line of the source, and whether it   *)
(* is a TEXT.                                                              *)
LEMMA PlacesListed ==
  ASSUME Typed, Typed', AssemblerNext, pass = 2, at = "line", at' # "wild"
  PROVE  /\ FirstAt \in Nat /\ LastListed \in Nat /\ FirstAt <= LastListed /\ FirstAt = Here
         /\ FirstAt .. LastListed = {Here} \cup WordsOfText
         /\ \A a \in FirstAt .. LastListed :
              LineAt(a).src = IF a = Here THEN oline ELSE Blank
<1>1. pc8 \in Nat /\ pc8' \in Nat /\ TextWords \in Nat
  BY WordsNat DEF Typed, Machine
<1>2. FirstAt = Here /\ FirstAt \in Nat
  BY <1>1 DEF FirstAt, Here
<1>3. \A a : LineAt(a).src = IF a = Here THEN oline ELSE Blank
  BY <1>2 DEF LineAt, InFile
<1>4. CASE oline.op = "TEXT"
  <2>1. ~Files /\ ~Ignored /\ ~Stray
    BY <1>4 DEF Files, FileIncl, EndOfAssembly, Ignored, Hidden, Labelled, Stray, Op
  <2>2. TextAssemble
    BY <1>4, <2>1 DEF AssemblerNext, Line1, Label, Labelled, Org, NextPage, TextScan, Zmem, Equ,
       Counted, Assembled, NotAMacro, Expand, Call, Macro, Endm, Op, ExpandLine, Return,
       KeepLine, SecondPass, Rewind, Abort, Save, Finish, Fetch, FetchMacro, FetchLine,
       FetchIncluder, IncluderAtEnd, NoLine, Reading
  <2>3. pc8' = pc8 + 1 + TextWords
    BY <2>2 DEF TextAssemble
  <2>4. FirstAt = pc8 /\ LastListed = pc8 + TextWords /\ WordsOfText = pc8 + 1 .. pc8' - 1
    BY <1>4 DEF FirstAt, LastListed, WordsOfText
  <2>5. pc8 .. pc8 + TextWords = {pc8} \cup (pc8 + 1 .. pc8' - 1)
    BY <1>1, <2>3
  <2> QED
    BY <1>1, <1>2, <1>3, <2>4, <2>5
<1>5. CASE oline.op # "TEXT"
  <2>1. LastListed = FirstAt + 0 /\ WordsOfText = {}
    BY <1>5 DEF LastListed, WordsOfText
  <2> QED
    BY <1>2, <1>3, <2>1
<1> QED
  BY <1>4, <1>5

(* The name of a constant joins the others at its place.                   *)
LEMMA LabelsListed ==
  ASSUME Waiting, ZmemLabel
  PROVE  /\ zlabel' = [a \in 0 .. ZMEMMAX |-> zlabel'[a]]
         /\ \A a \in 0 .. ZMEMMAX : IsList(zlabel'[a])
<1>1. zlabel = [a \in 0 .. ZMEMMAX |-> zlabel[a]] /\ \A a \in 0 .. ZMEMMAX : IsList(zlabel[a])
  BY DEF Waiting
<1>2. CASE zlabel' = zlabel
  BY <1>1, <1>2
<1>3. CASE \E b, name : zlabel' = [zlabel EXCEPT ![b] = <<name>> \o zlabel[b]]
  <2>1. PICK b, name : zlabel' = [zlabel EXCEPT ![b] = <<name>> \o zlabel[b]]
    BY <1>3
  <2>2. ASSUME b \in 0 .. ZMEMMAX PROVE IsList(<<name>> \o zlabel[b])
    <3>1. IsList(<<name>>)
      <4>1. <<name>> \in Seq({name})
        OBVIOUS
      <4> QED
        BY <4>1 DEF IsList
    <3> QED
      BY <1>1, <2>2, <3>1, ListJoined
  <2>3. zlabel' = [a \in 0 .. ZMEMMAX |-> IF a = b THEN <<name>> \o zlabel[b] ELSE zlabel[a]]
    <3>1. \A w : zlabel' = [zlabel EXCEPT ![b] = w] =>
                  zlabel' = [a \in 0 .. ZMEMMAX |-> IF a = b THEN w ELSE zlabel[a]]
      BY <1>1
    <3> QED
      BY <2>1, <3>1
  <2> QED
    BY <1>1, <2>2, <2>3
<1> QED
  BY <1>2, <1>3 DEF ZmemLabel, NamedAlso

(* The lines for one line of the source go to the end of the listing or of *)
(* the temporary file, by their addresses.                                 *)
LEMMA LinesListed ==
  ASSUME Waiting, ListLine, pass = 2, at = "line", ~Dangling,
         FirstAt \in Nat, LastListed \in Nat, FirstAt <= LastListed
  PROVE  /\ Waiting'
         /\ \A a \in FirstAt .. LastListed :
              LastIn(IF a > ZMEMMAX THEN tmp' ELSE lst', a, LineAt(a).src)
         /\ \A a \in Nat \ (FirstAt .. LastListed) : \A src :
              ListedAt(a, src) => LastIn(IF a > ZMEMMAX THEN tmp' ELSE lst', a, src)
<1>1. PICK m, n, p, q : /\ m = FirstAt /\ n = LastListed
                        /\ p = Min({n, ZMEMMAX}) /\ q = Max({m, ZMEMMAX + 1})
  OBVIOUS
<1>2. /\ m \in Nat /\ n \in Nat /\ m <= n /\ ZMEMMAX \in Nat
      /\ p = (IF n <= ZMEMMAX THEN n ELSE ZMEMMAX)
      /\ q = (IF m >= ZMEMMAX + 1 THEN m ELSE ZMEMMAX + 1)
      /\ p \in Int /\ q \in Nat
  <2>1. m \in Nat /\ n \in Nat /\ m <= n /\ ZMEMMAX \in Nat
    BY <1>1, Sizes
  <2>2. PICK z : z = ZMEMMAX + 1
    OBVIOUS
  <2>3. n \in Int /\ m \in Int /\ ZMEMMAX \in Int /\ z \in Nat /\ z \in Int
    BY <2>1, <2>2
  <2>4. /\ Min({n, ZMEMMAX}) = IF n <= ZMEMMAX THEN n ELSE ZMEMMAX
        /\ Max({m, z}) = IF m >= z THEN m ELSE z
    BY <2>3, LeastOfTwo, Zenon
  <2>5. /\ p = (IF n <= ZMEMMAX THEN n ELSE ZMEMMAX) /\ q = (IF m >= z THEN m ELSE z)
    BY <1>1, <2>2, <2>4, Zenon
  <2> QED
    BY <2>1, <2>2, <2>3, <2>5
<1>3. PICK v, w : v = Listed(m, p) /\ w = Listed(q, n)
  OBVIOUS
<1>4. lst' = lst \o v /\ tmp' = tmp \o w /\ ZmemLabel
  BY <1>1, <1>3, Zenon DEF ListLine, LstToTmp
<1>5. /\ IsList(lst) /\ \A k \in 1 .. Len(lst) : lst[k].addr \in 0 .. ZMEMMAX
      /\ IsList(tmp) /\ \A k \in 1 .. Len(tmp) : tmp[k].addr \in Nat /\ tmp[k].addr > ZMEMMAX
  BY DEF Waiting
<1>6. /\ IsList(v) /\ \A k \in 1 .. Len(v) : v[k].addr \in m .. p
      /\ \A a \in m .. p : LastIn(v, a, LineAt(a).src)
  BY <1>2, <1>3, ListedIs
<1>7. /\ IsList(w) /\ \A k \in 1 .. Len(w) : w[k].addr \in q .. n
      /\ \A a \in q .. n : LastIn(w, a, LineAt(a).src)
  BY <1>2, <1>3, ListedIs
<1>8. Waiting'
  <2>1. IsList(lst') /\ IsList(tmp')
    BY <1>4, <1>5, <1>6, <1>7, ListJoined
  <2>2. \A k \in 1 .. Len(lst') : lst'[k].addr \in 0 .. ZMEMMAX
    <3>1. ASSUME NEW b, b \notin 0 .. ZMEMMAX PROVE Absent(lst', b)
      <4>1. Absent(lst, b) /\ Absent(v, b)
        BY <1>2, <1>5, <1>6, <3>1 DEF Absent
      <4> QED
        BY <1>4, <1>5, <1>6, <4>1, LastJoined
    <3> QED
      BY <3>1 DEF Absent
  <2>3. \A k \in 1 .. Len(tmp') : tmp'[k].addr \in Nat /\ tmp'[k].addr > ZMEMMAX
    <3>1. ASSUME NEW b, ~(b \in Nat /\ b > ZMEMMAX) PROVE Absent(tmp', b)
      <4>1. Absent(tmp, b) /\ Absent(w, b)
        BY <1>2, <1>5, <1>7, <3>1 DEF Absent
      <4> QED
        BY <1>4, <1>5, <1>7, <4>1, LastJoined
    <3> QED
      BY <3>1 DEF Absent
  <2>4. ZMEMMAX' = ZMEMMAX
    BY DEF ZMEMMAX
  <2> QED
    BY <1>4, <2>1, <2>2, <2>3, <2>4, LabelsListed DEF Waiting
<1>9. ASSUME NEW a \in FirstAt .. LastListed
      PROVE  LastIn(IF a > ZMEMMAX THEN tmp' ELSE lst', a, LineAt(a).src)
  <2>1. IF a > ZMEMMAX THEN a \in q .. n ELSE a \in m .. p
    BY <1>1, <1>2
  <2>2. CASE a > ZMEMMAX
    <3>1. LastIn(w, a, LineAt(a).src)
      BY <1>7, <2>1, <2>2
    <3>2. LastIn(tmp', a, LineAt(a).src)
      BY <1>4, <1>5, <1>7, <3>1, LastJoined
    <3> QED
      BY <2>2, <3>2
  <2>3. CASE ~(a > ZMEMMAX)
    <3>1. LastIn(v, a, LineAt(a).src)
      BY <1>6, <2>1, <2>3
    <3>2. LastIn(lst', a, LineAt(a).src)
      BY <1>4, <1>5, <1>6, <3>1, LastJoined
    <3> QED
      BY <2>3, <3>2
  <2> QED
    BY <2>2, <2>3
<1>10. ASSUME NEW a \in Nat \ (FirstAt .. LastListed), NEW src, ListedAt(a, src)
       PROVE  LastIn(IF a > ZMEMMAX THEN tmp' ELSE lst', a, src)
  <2>0. a \notin m .. n
    BY <1>1
  <2>1. Absent(v, a) /\ Absent(w, a)
    <3>1. a \notin m .. p /\ a \notin q .. n
      BY <1>2, <2>0
    <3> QED
      BY <1>6, <1>7, <3>1 DEF Absent
  <2>2. CASE a > ZMEMMAX
    BY <1>4, <1>5, <1>7, <1>10, <2>1, <2>2, LastJoined DEF ListedAt
  <2>3. CASE ~(a > ZMEMMAX)
    BY <1>4, <1>5, <1>6, <1>10, <2>1, <2>3, LastJoined DEF ListedAt
  <2> QED
    BY <2>2, <2>3
<1> QED
  BY <1>8, <1>9, <1>10

(* A line that follows a NULL pointer does nothing else.                   *)
LEMMA DanglesAway ==
  ASSUME AssemblerNext, pass = 2, at = "line", Dangling PROVE Stray
<1>1. ~Hidden /\ ~Label /\ ~Ready
  BY DEF Hidden, Label, Labelled, Ready
<1>2. /\ ~Ignored /\ ~Org /\ ~NextPage /\ ~TextScan /\ ~TextAssemble /\ ~Zmem /\ ~Equ /\ ~Counted
      /\ ~Assembled /\ ~NotAMacro /\ ~Expand /\ ~Call /\ ~Macro /\ ~Endm /\ ~Files
  BY <1>1 DEF Ignored, Org, NextPage, TextScan, TextAssemble, Zmem, Equ, Counted, Assembled,
     NotAMacro, Expand, Call, Macro, Endm, Files, Op
<1>3. /\ ~ExpandLine /\ ~Return /\ ~KeepLine /\ ~SecondPass /\ ~Abort /\ ~Save /\ ~Fetch
  BY DEF ExpandLine, Return, KeepLine, SecondPass, Rewind, Abort, Save, Finish, Fetch,
     FetchMacro, FetchLine, FetchIncluder, IncluderAtEnd, NoLine, Reading
<1> QED
  BY <1>1, <1>2, <1>3 DEF AssemblerNext, Line1

(* Every step of pot keeps what is listed.                                 *)
LEMMA DisplayedStays ==
  ASSUME Typed, Typed', Displayed, MCTranslate PROVE Displayed'
<1>1. /\ AssemblerNext /\ ListLine /\ UNCHANGED pepsiVars /\ at \notin Stopped
      /\ pass' = pass \/ SecondPass
  BY StepKeeps DEF MCTranslate, Translate
<1>2. source = "none" /\ source' = "none" /\ at # "wild"
  BY <1>1 DEF Displayed, Stopped, pepsiVars
<1>3. TextShowsLines' /\ (source' # "none" => at' = "done")
  BY <1>2 DEF TextShowsLines
<1>4. put' = put \cup NowPut
  BY PutGrows DEF NowPut
<1>5. CASE pass = 2 /\ at = "line" /\ ~Dangling
  <2>1. lastAt' = LastAt
    BY <1>5 DEF MCTranslate
  <2>2. pc8 \in Nat /\ pc8' \in Nat /\ TextWords \in Nat
    BY <1>5, WordsNat DEF Typed, Machine
  <2>0. PICK x \in Nat, y \in Nat : x = pc8 /\ y = pc8'
    BY <2>2
  <2>3. Here \in Nat /\ WordsOfText \subseteq Nat /\ DOMAIN lastAt \subseteq Nat
    <3>1. Here \in Nat
      BY <2>2 DEF Here
    <3>2. \A b \in x + 1 .. y - 1 : b \in Nat
      OBVIOUS
    <3> QED
      BY <2>0, <3>1, <3>2 DEF Displayed, WordsOfText
  <2>4. DOMAIN lastAt' = (DOMAIN lastAt) \cup {Here} \cup WordsOfText
    BY <2>1 DEF LastAt
  <2>5. NowPut \subseteq {Here} \cup WordsOfText
    <3>1. CASE Puts /\ oline.op = "TEXT"
      <4>1. NowPut = pc8 .. pc8' - 1 /\ Here = pc8 /\ WordsOfText = pc8 + 1 .. pc8' - 1
        BY <3>1 DEF NowPut, Here, WordsOfText
      <4>2. \A b \in x .. y - 1 : b = x \/ b \in x + 1 .. y - 1
        OBVIOUS
      <4> QED
        BY <2>0, <4>1, <4>2
    <3>2. CASE Puts /\ oline.op # "TEXT"
      <4>1. NowPut = pc8 .. pc8' - 1 /\ Here = pc8
        BY <3>2 DEF NowPut, Here, Puts
      <4>2. ~TextAssemble
        BY <3>2 DEF TextAssemble, Op
      <4>3. pc8' = pc8 \/ pc8' = pc8 + 1
        BY <1>1, <3>2, <4>2, PutsOnly DEF Assembled, NotAMacro, Deposit
      <4>5. y = x \/ y = x + 1
        BY <2>0, <4>3
      <4>4. \A b \in x .. y - 1 : b = x
        BY <4>5
      <4> QED
        BY <2>0, <4>1, <4>4
    <3>3. CASE ~Puts
      BY <3>3 DEF NowPut
    <3> QED
      BY <3>1, <3>2, <3>3
  <2>6. at' # "wild" => Waiting' /\ \A a \in DOMAIN lastAt' : ListedAt(a, lastAt[a])'
    <3> SUFFICES ASSUME at' # "wild" PROVE Waiting' /\ \A a \in DOMAIN lastAt' :
                   LastIn(IF a > ZMEMMAX THEN tmp' ELSE lst', a, lastAt'[a])
      BY DEF ListedAt
    <3>1. /\ FirstAt \in Nat /\ LastListed \in Nat /\ FirstAt <= LastListed
          /\ FirstAt .. LastListed = {Here} \cup WordsOfText
          /\ \A a \in FirstAt .. LastListed :
               LineAt(a).src = IF a = Here THEN oline ELSE Blank
      BY <1>1, <1>5, PlacesListed
    <3>2. Waiting /\ \A a \in DOMAIN lastAt : ListedAt(a, lastAt[a])
      BY <1>2 DEF Displayed
    <3>3. /\ Waiting'
          /\ \A a \in FirstAt .. LastListed :
               LastIn(IF a > ZMEMMAX THEN tmp' ELSE lst', a, LineAt(a).src)
          /\ \A a \in Nat \ (FirstAt .. LastListed) : \A src :
               ListedAt(a, src) => LastIn(IF a > ZMEMMAX THEN tmp' ELSE lst', a, src)
      BY <1>1, <1>5, <3>1, <3>2, LinesListed
    <3>4. ASSUME NEW a \in DOMAIN lastAt'
          PROVE  LastIn(IF a > ZMEMMAX THEN tmp' ELSE lst', a, lastAt'[a])
      <4>1. lastAt'[a] = IF a = Here THEN oline ELSE IF a \in WordsOfText THEN Blank ELSE lastAt[a]
        BY <2>1, <2>4 DEF LastAt
      <4>2. CASE a \in FirstAt .. LastListed
        <5>1. lastAt'[a] = LineAt(a).src
          BY <3>1, <4>1, <4>2
        <5> QED
          BY <3>3, <4>2, <5>1
      <4>3. CASE a \notin FirstAt .. LastListed
        <5>1. a \in DOMAIN lastAt /\ a \in Nat /\ lastAt'[a] = lastAt[a]
          BY <2>3, <2>4, <3>1, <4>1, <4>3
        <5> QED
          BY <3>2, <3>3, <4>3, <5>1
      <4> QED
        BY <4>2, <4>3
    <3> QED
      BY <3>3, <3>4
  <2>7. pass' = 2
    BY <1>1, <1>5 DEF SecondPass, Rewind
  <2>8. put' \subseteq DOMAIN lastAt' /\ DOMAIN lastAt' \subseteq Nat
    BY <1>4, <2>3, <2>4, <2>5 DEF Displayed
  <2> QED
    BY <1>3, <2>6, <2>7, <2>8 DEF Displayed
<1>6. CASE ~(pass = 2 /\ at = "line" /\ ~Dangling)
  <2>0. NowPut = {}
    <3>1. CASE Puts
      <4>1. Stray
        BY <1>1, <1>6, <3>1, DanglesAway DEF Puts
      <4>2. pc8' = pc8 /\ pc8 \in Nat
        BY <4>1 DEF Stray, asmVars, Typed, Machine
      <4> QED
        BY <4>2 DEF NowPut
    <3> QED
      BY <3>1 DEF NowPut
  <2>1. UNCHANGED <<lst, tmp, zlabel, lastAt>> /\ NowPut = {}
    BY <1>1, <1>6, <2>0 DEF ListLine, MCTranslate
  <2>2. put' = put /\ (pass' = 1 => pass = 1)
    BY <1>1, <1>4, <2>1 DEF SecondPass, Rewind
  <2>3. Waiting /\ \A a \in DOMAIN lastAt : ListedAt(a, lastAt[a])
    BY <1>2 DEF Displayed
  <2>4. Waiting' /\ \A a \in DOMAIN lastAt' : ListedAt(a, lastAt[a])'
    BY <2>1, <2>3 DEF Waiting, ListedAt
  <2> QED
    BY <1>3, <2>1, <2>2, <2>4 DEF Displayed
<1> QED
  BY <1>5, <1>6

(* When pepsi has read the listing it shows at the address of every word   *)
(* the line pot last had there, for every set of texts and every size of   *)
(* the memory: neither the buffer, nor the temporary file, nor the         *)
(* constants listed in between put a line at another address (main,        *)
(* pepsi.c).                                                               *)
THEOREM TextsShowTheLines == MCSpec => []TextShowsLines
<1>1. MCInit => Typed /\ Displayed
  <2>1. DOMAIN << >> = {} /\ << >> \in Seq({}) /\ Len(<< >>) = 0
    OBVIOUS
  <2>2. IsList(<< >>) /\ \A k : k \notin 1 .. 0
    BY <2>1 DEF IsList
  <2>3. MCInit => Waiting
    BY <2>1, <2>2 DEF MCInit, ListingInit, Waiting
  <2>4. MCInit => put = {} /\ DOMAIN lastAt = {} /\ source = "none"
    BY <2>1 DEF MCInit, ListingInit, put
  <2>5. MCInit => Displayed
    BY <2>3, <2>4 DEF Displayed, TextShowsLines
  <2> QED
    BY <2>5, MCIsAssembler, InitTyped
<1>2. Typed /\ Displayed /\ [MCNext]_mcVars => (Typed /\ Displayed)'
  <2> SUFFICES ASSUME Typed, Displayed, [MCNext]_mcVars PROVE Typed' /\ Displayed'
    OBVIOUS
  <2>1. Typed'
    BY MCIsAssembler, NextTyped
  <2>2. CASE MCTranslate
    BY <2>1, <2>2, DisplayedStays
  <2>3. CASE ReadListing /\ UNCHANGED history
    <3>1. /\ at = "done" /\ TextShowsLines'
      BY <2>3, FileShows DEF ReadListing
    <3>2. UNCHANGED <<pass, at, written, lastAt, lst, tmp, zlabel>>
      BY <2>3 DEF ReadListing, vars, readVars, history
    <3> QED
      BY <2>1, <3>1, <3>2 DEF Displayed, Waiting, ListedAt, put
  <2>4. CASE UNCHANGED mcVars
    <3>1. UNCHANGED <<pass, at, zmemptr, written, lastAt, lst, tmp, zlabel, srctext, source>>
      BY <2>4 DEF mcVars, vars, readVars, asmVars, lstVars, history
    <3> QED
      BY <2>1, <3>1 DEF Displayed, Waiting, ListedAt, TextShowsLines, put
  <2> QED
    BY <2>2, <2>3, <2>4 DEF MCNext
<1>3. Typed /\ Displayed => TextShowsLines
  BY DEF Displayed
<1> QED
  BY <1>1, <1>2, <1>3, PTL DEF MCSpec
=============================================================================
