------------------------------ MODULE Startup ------------------------------
(***************************************************************************)
(* A call of pepsi from its command line to its exit (doopts, main and     *)
(* chario_init; getparam and checkoctal for the addresses it is given).    *)
(* Options come from the command line and, one line at a time, from the    *)
(* option file, which is read twice: for options before the image and the  *)
(* listing are, for the panel, whose lines name symbols, after them.       *)
(* The program that runs in between is Pep8Cpu's.                          *)
(***************************************************************************)
EXTENDS Image, Sequences, SequencesExt

CONSTANT Setups     \* what pepsi may be called with: options, the image (none,
                    \* missing or there), lines of the option file, whether
                    \* there is a listing, its symbols, whether there is a tape

(* A parameter, an option with its own, a line of the option file.         *)
Parameter == [kind : {"name", "octal", "pages", "empty"}, name : STRING, n : Nat]
OptionUse == [opt : STRING, tok : Parameter, cnt : Int, dev : Nat]
PopLine == [tag : STRING, opts : Seq(OptionUse), tok : Parameter, cnt : Nat]
IsSetup(s) == /\ s.args \in Seq(OptionUse) /\ s.pop \in Seq(PopLine)
              /\ s.symbols \in Seq([symbol : STRING, location : Nat])

ASSUME StartupAssumption == \A s \in Setups : IsSetup(s)

VARIABLES setup,
          stage,    \* where pepsi is: command, options, image, source, load,
                    \* panel, origin, devices, run, dump, exit or failed
          args,     \* options of the command or the line still to be done
          line,     \* lines of the option file done in this reading
          flags,    \* the switches that are set
          origin, devices, dumps, symbols, watched, pc8,
          dumped    \* what was printed at the end

settings == <<flags, origin, devices, dumps>>
startVars == <<setup, stage, args, line, settings, symbols, watched, pc8, dumped>>

ADRERR == 0 - 1
NOPARA == 0 - 2
NoOrigin == [kind |-> "null", name |-> "", n |-> 0]

StartupWith(S) ==
  /\ setup \in S
  /\ stage = "command" /\ args = setup.args /\ line = 0
  /\ flags = {} /\ origin = NoOrigin /\ devices = {} /\ dumps = <<>>
  /\ symbols = <<>> /\ watched = <<>> /\ pc8 = 0 /\ dumped = <<>>

StartupInit == ImageInit /\ StartupWith(Setups)

GoTo(s) ==
  /\ stage' = s
  /\ UNCHANGED <<setup, args, line, settings, symbols, watched, pc8, dumped>>

(* checkoctal and sscanf: up to four octal digits, a sign not counted.     *)
Octal(tok) == IF tok.n < 8 * 8 * 8 * 8 THEN tok.n ELSE ADRERR

(* getparam: a symbol, the first of that name, or an octal number.  In     *)
(* page:offset the whole token is checked for octal digits, and the        *)
(* delimiter is none.                                                      *)
Named(tok, s) == tok.kind = "name" /\ s.symbol = tok.name
Param(tok) ==
  LET k == SelectInSeq(symbols, LAMBDA s : Named(tok, s))
  IN  CASE k # 0              -> symbols[k].location
        [] tok.kind = "octal" -> Octal(tok)
        [] tok.kind = "empty" -> NOPARA
        [] OTHER              -> ADRERR

(***************************************************************************)
(* Options                                                                 *)
(***************************************************************************)
Switches(o) ==
  CASE o.opt = "i" -> {"interactive", "source", "verbose", "trace"}
    [] o.opt = "s" -> {"source"}
    [] o.opt = "t" -> {"trace"}
    [] o.opt = "l" -> IF stage = "command" THEN {"norun"} ELSE {}
    [] OTHER       -> {}

(* A dump is put before the others, unless its count is not octal.  The    *)
(* slip: the others are lost.                                              *)
RequestedAlone(o) == <<[from |-> o.tok, cnt |-> o.cnt]>>
Requested(o) == <<[from |-> o.tok, cnt |-> o.cnt]>> \o dumps

Option ==
  /\ stage \in {"command", "options"} /\ args # <<>>
  /\ LET o == Head(args)
     IN  /\ flags' = flags \cup Switches(o)
         /\ origin' = IF o.opt = "o" THEN o.tok ELSE origin
         /\ devices' = IF o.opt = "e" THEN devices \cup {o.dev} ELSE devices
         /\ dumps' = IF o.opt = "d" /\ o.cnt >= 0 THEN Requested(o) ELSE dumps
         /\ stage' = IF o.opt = "?" THEN "failed" ELSE stage
  /\ args' = Tail(args)
  /\ UNCHANGED <<setup, line, symbols, watched, pc8, dumped, vars>>

CommandDone ==
  /\ stage = "command" /\ args = <<>> /\ at = "stat"
  /\ GoTo(IF "norun" \in flags THEN "exit"
          ELSE IF setup.image = "none" THEN "failed" ELSE "options")
  /\ UNCHANGED vars

(* getline leaves the last line in the buffer at the end of the file, and  *)
(* the loop handles it again before it looks.                              *)
Lines == IF setup.pop = <<>> THEN <<>> ELSE Append(setup.pop, Last(setup.pop))

(* A line of options; a line of the panel counts in the second reading,    *)
(* in the first it would be too early: a slip.                             *)
WatchesEarly(l) == stage = "options" /\ l.tag = "panel"
Watches(l) == stage = "panel" /\ l.tag = "panel"

OptionLine ==
  /\ stage \in {"options", "panel"} /\ args = <<>> /\ line < Len(Lines)
  /\ line' = line + 1
  /\ LET l == Lines[line']
     IN  /\ args' = IF stage = "options" /\ l.tag = "pepsi" THEN l.opts ELSE <<>>
         /\ watched' = IF Watches(l) /\ Param(l.tok) >= 0
                       THEN Append(watched, [addr |-> Param(l.tok), cnt |-> l.cnt])
                       ELSE watched
  /\ UNCHANGED <<setup, stage, settings, symbols, pc8, dumped, vars>>

LinesDone ==
  /\ stage \in {"options", "panel"} /\ args = <<>> /\ line = Len(Lines)
  /\ line' = 0
  /\ stage' = IF stage = "options" THEN "image" ELSE "origin"
  /\ UNCHANGED <<setup, args, settings, symbols, watched, pc8, dumped, vars>>

(***************************************************************************)
(* Image, listing, origin and devices                                      *)
(***************************************************************************)
NoImage ==
  /\ stage = "image" /\ setup.image = "missing"
  /\ GoTo("failed")
  /\ UNCHANGED vars

StatImage ==
  /\ stage = "image" /\ setup.image = "there"
  /\ Stat
  /\ GoTo(IF at' = "fatal" THEN "failed" ELSE "source")

(* How the symbols get out of the listing is Listing's.                    *)
ReadSource ==
  /\ stage = "source"
  /\ stage' = IF "source" \in flags /\ ~setup.listed THEN "failed" ELSE "load"
  /\ symbols' = IF "source" \in flags THEN setup.symbols ELSE <<>>
  /\ UNCHANGED <<setup, args, line, settings, watched, pc8, dumped, vars>>

LoadImage ==
  /\ stage = "load"
  /\ Load \/ Loaded
  /\ GoTo(IF at' = "loaded" THEN "panel" ELSE stage)

SetOrigin ==
  /\ stage = "origin"
  /\ pc8' = IF origin = NoOrigin THEN 0 ELSE Param(origin)
  /\ stage' = IF pc8' < 0 THEN "failed" ELSE "devices"
  /\ UNCHANGED <<setup, args, line, settings, symbols, watched, dumped, vars>>

(* Teletype and scope connect in threads of their own; the papertape needs *)
(* its file now.  An unknown device is warned of.                          *)
Papertape == 1
InitDevices ==
  /\ stage = "devices"
  /\ GoTo(IF Papertape \in devices /\ ~setup.tape THEN "failed" ELSE "run")
  /\ UNCHANGED vars

Run ==
  /\ stage = "run"
  /\ GoTo("dump")
  /\ UNCHANGED vars

(* After the HLT; a dump from an address without value is warned of.       *)
Dump ==
  /\ stage = "dump" /\ dumps # <<>>
  /\ dumps' = Tail(dumps)
  /\ LET addr == Param(Head(dumps).from)
     IN  dumped' = IF addr < 0 THEN dumped
                   ELSE Append(dumped, [addr |-> addr, cnt |-> Head(dumps).cnt])
  /\ UNCHANGED <<setup, stage, args, line, flags, origin, devices, symbols,
                 watched, pc8, vars>>

Exit ==
  /\ stage = "dump" /\ dumps = <<>>
  /\ GoTo("exit")
  /\ UNCHANGED vars

(* pot may have made the image before.                                     *)
Assembling == stage = "command" /\ (Save \/ Saved) /\ UNCHANGED startVars

StartupNext ==
  \/ Assembling
  \/ Option \/ CommandDone \/ OptionLine \/ LinesDone
  \/ NoImage \/ StatImage \/ ReadSource \/ LoadImage \/ SetOrigin \/ InitDevices
  \/ Run \/ Dump \/ Exit

StartupSpec == StartupInit /\ [][StartupNext]_<<vars, startVars>>

(***************************************************************************)
(* Properties                                                              *)
(***************************************************************************)
(* The options given in all: those of the lines after those of the command *)
(* line, and those of the last line once more.                             *)
OptionsOf(l) == IF l.tag = "pepsi" THEN l.opts ELSE <<>>
Given == setup.args \o FlattenSeq([k \in DOMAIN Lines |-> OptionsOf(Lines[k])])
Sourced == \E k \in DOMAIN Given : Given[k].opt \in {"s", "i"}

(* What a parameter stands for: a symbol, the first of that name, or the   *)
(* number it is.                                                           *)
Knows(tok) == \E k \in DOMAIN setup.symbols : Named(tok, setup.symbols[k])
HasPlace(tok) == Knows(tok) \/ (tok.kind = "octal" /\ tok.n < 8 * 8 * 8 * 8)
Place(tok) ==
  IF Knows(tok)
  THEN setup.symbols[SelectInSeq(setup.symbols, LAMBDA s : Named(tok, s))].location
  ELSE tok.n

(* When -s or -i is given, wherever it stands, the names of symbols can be *)
(* used wherever an address can: in the origin, the last one given, and in *)
(* every line of the panel (pepsi.1, OPTIONEN: -s allows symbolic          *)
(* addresses; an option can stand on the command line or in the file).     *)
NamesResolve ==
  stage = "run" /\ Sourced =>
    /\ \A k \in DOMAIN Given :
         Given[k].opt = "o" /\ (\A m \in k + 1 .. Len(Given) : Given[m].opt # "o") =>
           pc8 = Place(Given[k].tok)
    /\ \A k \in DOMAIN setup.pop :
         setup.pop[k].tag = "panel" /\ HasPlace(setup.pop[k].tok) =>
           \E w \in DOMAIN watched : watched[w].addr = Place(setup.pop[k].tok)

(* Every dump that was asked for is printed at the end, the last first,    *)
(* those of the last line of the option file twice, names of symbols only  *)
(* with -s or -i (pepsi.1, -d: can be given several times).                *)
Printable(o) == /\ o.opt = "d" /\ o.cnt >= 0 /\ HasPlace(o.tok)
                /\ Knows(o.tok) => Sourced
Printed(o) == IF Printable(o) THEN <<[addr |-> Place(o.tok), cnt |-> o.cnt]>> ELSE <<>>
Asked == FlattenSeq([k \in DOMAIN Given |-> Printed(Reverse(Given)[k])])
DumpsPrinted == stage = "exit" /\ "norun" \notin flags => dumped = Asked
=============================================================================
