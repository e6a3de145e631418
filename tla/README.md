# Models of pep-8

TLA+ models of the pep-8 project: `pepsi`, a simulator of a twelve-bit computer
with a teletype, an X/Y scope and a debugging prompt; `pot`, its two-pass
assembler; the image and the listing that one writes and the other loads; and
`teletype`, the terminal server at the other end of a socket. The models
are checked with TLC on small instances; some of their properties are proved
with TLAPS for every value of the constants.

Paths of C files below are relative to `src/` of the repository (`execute.c`
is `src/execute.c`), those of manual pages to `doc/`.

## Inventory

| part | state | operations | what is hard | modules |
|---|---|---|---|---|
| processor (`execute.c`, `operate.c`) | `mem8 ac8 link8 pc8 ien8 irq8 running submod memtop` | seven memory instructions, micro-operations, skips, ION/IOF/HLT, device functions | order of micro-operations, words that outgrow twelve bits | `Word8` `Pep8Cpu` `Pep8Manual` |
| main loop (`pepsi.c`) | the same | execute, memtop, interrupt, breakpoints, resume, close | a flag another thread sets; checks in an order that matters | `Pep8Cpu` `Pepsi` `Debugger` |
| teletype (`chario.c`) | `csd in_ch out_ch tty_mask`, two threads | SRI SRO DGA DPA DSM, init, close | no lock anywhere; lost lines | `Tty` `TtyUse` `Pepsi` |
| scope (`chario.c`) | `ssd out_sx out_sy out_si buf_sx buf_sy rdydly`, a thread | DGA DPA SRO DUS, init | no lock; variables read twice | `Scope` `ScopeUse` |
| papertape (`chario.c`) | a FILE and its end-of-file flag | SRI DGA, init | ready until a read has failed | `Pepsi` `Startup` |
| seven segment, GPIO (`chario.c`) | digit, mask | DPA DGA DSM | hardware | none |
| prompt (`interact.c`, `display.c`, `util.c`) | `singlestep verbose interactive`, lists of breakpoints and watches | `return g r v q . b bc bl d o p w wc x`, end of input | pointers to freed elements, array bounds, modes | `Debugger` `AddressList` |
| image loader (`pepsi.c`) | `len oc mem8` | stat, load | file sizes that are no multiple of three | `Image` `Startup` |
| listing, symbols, options (`pepsi.c`) | `text symbols dumps devices origin watched`, switches | options, option file, listing, origin, dumps | the option file is read twice; a line is stored one turn late; addresses beyond the image | `Startup` `Listing` |
| assembler, reading (`pot.c`) | `infile files macroptr run pass` | next line, FILE, `$`, rewind | nesting, two passes over the same text | `Reader` |
| assembler, translating (`pot.c`) | `mem8 pc8 memtop zmemptr symtab curmac macpara` ... | labels, `=`, `*`, PAGE, TEXT, ZMEM, words, MACRO, ENDM, calls | the two passes must agree; globals used by recursion | `Assembler` |
| assembler, listing and symbol file (`pot.c`) | listing, temporary file, `zlabel` | a line is listed, constants are listed | two files merged; a constant with many names | `Listing` (symbol file: none) |
| image format (`pot.c`, `pepsi.c`) | the file | pack, unpack | two programs must agree | `Image` |
| string and octal helpers (`strutil.c`, `octal.c`) | none | `checkoctal`; letters and blanks | | `Startup` (`Octal`) |
| terminal server (`ttysrv/tty.c`) | `accept_sock`, a thread | accept, read and show; key, control mode, send | a socket shared by two threads, clients that go at any time | `TtyServer` |
| scope display (`scope/*.java`) | fading points | graphics | | none |

How they interact. The main loop is one thread: it executes instructions, which
call device functions of `chario.c`, and between instructions it looks at
`irq8`, at the breakpoints and, through `interact`, at the user's commands. The
teletype has a reader thread (socket to `in_ch`, and a request in `irq8`) and a
writer thread (`out_ch` to socket), the scope one thread. They share plain
variables with the main loop and lock nothing. `pot` is one thread and one
process; it meets `pepsi` only in the image file and in the listing. The terminal
server is a process of two threads, and a teletype device is its client.

What makes each part correct, in a sentence: the processor computes what the
manual says, in twelve bits; the devices neither lose, repeat nor reorder what
passes through them, given a program that asks first; an interrupt is invisible
to the program it interrupts, and no request is lost; HLT, q and the end of
input end the simulator; a breakpoint is never passed; the lists of the prompt
are the lists the user made; both passes of the assembler read the same text and
give every label the same place; the image is the assembled program; what is
loaded, shown and found by name is what was written; options mean the same
wherever they stand; and the terminal server shows everything and sends each key
once. `PROJECT.json` lists, under `hazards`, the lines
where each of these could go wrong.

## Modules

**Machine words.** `Word8` models a `WORD8`, a C `int` (`types8.h`). Words
outside twelve bits occur, because `pc8` is never masked, so a word is any of
-8 .. 8191 and the bitwise operations work on two's complement.

**Processor.** In `Pep8Cpu` each instruction class is an action, with the tail
of `execute` and the `memtop` update of the main loop in it. The variable `at`
is the place in the main loop. The test of `ien8 & irq8` and the reset of `irq8`
are two steps, because another thread sets `irq8`. An access outside `mem8`
leads to `at = "wild"`, where nothing more is said. Devices are arbitrary:
`Device` returns anything and `Request` may come at any time. The constant
`Images` is a set of records of a loaded memory and its length. `Pep8Manual` has
what `pep8.7` says of instructions. `MCCpu` executes every instruction once
at boundary values, and short programs that run off both ends of the memory.

**Teletype.** `Tty` has the two threads access by access and the device
functions as operators. The socket, the typist and a hangup are external.
`Channel` is the abstract specification: a one-place channel on a line that may
be lost. `TtyUse` adds a program that may do anything but DPA without a SRO that
skipped (the examples and `pep8.7` ask first), and has `tty_getc` in its three
steps. Its variable `use` is `"careful"` when the typist waits for each character
to be read and the program asks SRI before DGA, and `"any"` otherwise.

**Simulator.** `Pepsi` composes the processor with teletype and papertape: the
device functions become steps of the loop, and `Close` waits for `tty_close`. The
tape is a position and the end-of-file flag of its `FILE`. `MCPepsi` runs the
repository's `hello.pps`, `ioi.pps` and `irq0.pps`, word by word as `pot`
assembles them, and a loop that copies a tape to the teletype, in sessions of a
program and a patient or hasty typist.

**Startup.** `Startup` is a call of `pepsi` as a sequence of stages: options of the
command line, options in the option file, image, listing, panel lines of the
option file, origin, devices, the program (which is `Pep8Cpu`'s) and the dumps.
It extends `Image`, whose `Stat` and `Load` are two of the stages, and has `pot`
write the image before. An address is a token: a name, an octal number, a
`page:offset`, or none.

**Scope.** `Scope` has the drawing thread access by access (`rdydly--` is a load
and a store, each coordinate is read twice). `ScopeUse` is a program that sets
both coordinates, asks SRO until it has skipped `asks` times (once or twice) and
intensifies.

**Prompt.** `Debugger` puts `display`, `interact` and the breakpoint check around
the steps of `Pep8Cpu`. A list is a function from allocated elements to contents
plus a first and a last pointer; a write through a pointer to a freed element is
wild. `AddressList` is what the lists should be; it also counts the
edits, so that a command that leaves a list as it was cannot pass for one that
changes it. `MCDebugger` keeps the history these properties
speak of and bounds the edits by `MaxEdits`.

**Assembler.** `Reader` is the include stack, the macro lines and the two passes.
A text is a function from file names to sequences of lines, and a stream is a
name and a count of lines. `Assembler` gives a line its parts (label, operation,
operands) as a record and has one action per kind of line, and one (`Hidden`) for the
lines whose label pass 1 looks at instead, in macro definitions. An operand is a number, a
symbol, a parameter, `.`, a displacement (`<`) or an expression of two of these; a line
that begins with a value joins its operands to it as `assemble` does (`Joined`).
`Lines` and `IsText` say what a text may hold. An instruction has an operand where its
address goes, or its displacement (the skips of `codes8.h`), so that `|` is a sum. No
operand is the name of a macro, and the arguments of a call are neither parameters nor
names with `%`. A name with `%` before the first call, and a parameter that no call ever gave, are
followed through a NULL pointer (`Stray`).
`at = "scanned"` is the place after `symscan`, where a macro's next line is read or a line is kept in
a definition. Symbols are names with a macro call number (`macnify`). The
memory is scaled: `PAGES` pages of `PAGE8` words, displacements up to `MAXDSP`.

**Listing.** `Listing` extends `Assembler`: the step of a line also lists it, in
one of two files, and `ReadListing` is `pepsi -s` reading the merged file into `text` and
`symbols`. A line of the file is an address, the source line shown there and the
label in it. A store beyond `text` leads to `source = "wild"`. `MCAssembler` has the
texts for assembler and listing, and the history variables the properties speak of:
`written` has the line that put a word at an address, `lastAt` the line pass 2 last had there, `seen`
the places of the lines read. `counted` and `astray` say what makes the two passes
read or translate different lines: a macro defined after a call of it was counted as a
word, a call or a hidden line that pass 2 obeys inside a definition, and a pass 1 that ends in an included
file or in a definition. `Orderly` is their absence; it is not a bound of
the run, which has all of these but the end in an included file.

**Image.** `Image` writes pairs of words as three bytes, as `pot` does, and loads
them as `pepsi` does, also from files of any other origin and length.

**Terminal server.** `TtyServer` has the two threads of `tty.c` access by access
(`keyb_listen` tests `accept_sock` and uses it in two steps), the descriptors, and
its clients with their TCP connections, which are external: bytes in order, closed
or reset by the client's end, reset by a write after it, SIGPIPE by another.

Several modules have a definition marked as a slip next to the one it resembles:
a plausible error in the code. Substituting it makes the run named in
`PROJECT.json` under `mutants` fail, which shows that the property is sensitive
to that code. They are not used otherwise.

## Runs

Passing runs and their bounds (the `.cfg` has the name of the run):

| run | instance | shows |
|---|---|---|
| `cpu` | one instruction: all 512 OPR words, 84 memory words, at 4 addresses, 7 accumulators, both links, 7 operand values; and every program of four instructions from fourteen, 14 steps | instructions follow the manual; words keep their range; `memtop` stays above every stored word |
| `tty_use` | three typed keys (one of eight bits), three printed characters, two masks, hangups, both uses | output is a channel and drains; no input is doubled; none is lost to careful use |
| `pepsi` | four keys; a tape of two characters; `hello.pps` on a line that may fail, `ioi.pps` with either typist, `irq0.pps` with a patient one, a tape copied | all is printed before the end; HLT ends; every key is echoed once and in order; interrupts are transparent and none is lost; the tape is copied; the composition implements `Pep8Cpu` |
| `scope` | three points, two values of a coordinate, one or two SROs a point | one draw per DUS, no torn points, the beam comes to rest; with two SROs the scope is a channel |
| `debug` | `-i` or `-t`, two list cells, every command, interrupts, `MaxEdits` 4 | no breakpoint is passed; with a user who only looks every step is one of the bare processor, unless `display` or a command reads outside its arrays; the lists implement `AddressList`; q and end of input end |
| `pot` | all texts of up to three lines of eighteen kinds, of up to five macro lines, of every operand behind up to three lines that set its names and its place, of up to three lines of values and parameters behind a macro, and of a main file of up to 3 lines with two includes of up to 2; 32 words in 8 pages, 5 symbols, displacements up to 1 | both passes read the inserted text and agree on every label; constants keep their values; an instruction in the image, decoded as the processor does, refers to the address its line names; `pepsi` shows the line of every word and finds every symbol; pot ends (see below) |
| `startup` | four words of memory, five word values; files of up to seven bytes; with one image, every call of up to two options and option file of up to two lines, listing, image and tape missing or there | round trip; every whole word is loaded; names work wherever the options stand; the dumps asked for are printed |
| `teletype` | three clients, two with letters of their own, three keys with the escape character, two descriptors | the screen is whole and in order; keys go once to the client being served; all that is written is shown |

Why the bounds are enough. The devices hold one character or one point, so that
three of them bring every pattern of one in the buffer, one on its way and one
next. Three clients bring one that is served, one that waits and one that finds no
descriptor. Two options and two lines bring every pair in either order, also across
the two files they come from. The reader and the assembler distinguish lines only by kind, and their
errors need one line to prepare, one to go wrong and one to show it. Two cells
give lists that are empty, of one element and of two, and a cell that is freed
and allocated again within four edits. The programs of `cpu` need three steps a
turn, so fourteen steps are four instructions and an interrupt. The tables are
small enough to fill (`SYMSIZ`, the zero page, the memory's last word, `STACK`).
`STACK` stands for the C stack: a macro that calls itself inside its own
definition exhausts it.

`Ends` counts an image, an error, a store out of bounds and a followed NULL pointer as ends. The
texts of `pot` call no macro before some definition has begun, and have no call in
the body of a macro that hides an ENDM behind a label. The others need not end: a
macro that calls itself survives pass 1 when pass 1 does not expand it, and pass 2
expands it for ever.

Four runs check a property that a document or a comment of the repository states
and the code violates; the entry in `findings` quotes it.

| run | property | what the counterexample does |
|---|---|---|
| `irq0_return` | `ReturnAddressKept` | a request pending at ION is served before JMP I 0 |
| `scope_drawn` | `DrawnWherePlotted` | the thread counts between the two tests of `sco_rdyout` |
| `debug_entry` | `EntryStops` | an interrupt between JMS and the breakpoint check |
| `pot_undefined` | `UnknownIsReported` | a ZMEM of an undefined symbol: no error, and an image with an unset value |

Deadlock is not checked: an ended process and `wild` have no successor, and the
bounded environments stop.

## Known divergences

These disagreements of the code with its documents became plain while it was
translated. The models have the code's behaviour; no run is spent on them. The
inputs of the passing runs leave them out, or a property says what still holds.

Processor and devices:

* TAD adds the old link as a carry, 1 and not 4096 (`execute.c:55`; `pep8.7:134` adds
  the operand to the 13-bit value of link and accumulator). `MemoryFollowsManual`
  states the code's sum, for both values of the link; it is the manual's when the
  link is clear.
* `pc8` is not masked: the word after 07777 is 010000 (`execute.c:61`; `pep8.7:20`
  has a counter of twelve bits). `TypeOK` gives it the range of `Word`.
* The interrupt request follows the character (`chario.c:134`): a DGA between the
  two leaves a request without one (`pep8.7:409`).
* `tty_close` waits for the writer thread even if there is none (`chario.c:174`):
  after a DPA to a teletype that is not enabled HLT does not end the simulator
  (`pepsi.1:19`). The runs enable the teletype.

Prompt:

* End of input with `-i` ends nothing: `running` is cleared and set again
  (`interact.c:401`, `pepsi.c:513`). `QuitEnds` has the end of input without `-i`.
* `brklast` and `lastwatch` are left at a freed element (`interact.c:219` and `108`);
  the next `b` or `w` writes through it (`interact.c:193` and `133`; `pepsi.1:165`
  and `235`), which is `at = "wild"`.

Assembler:

* `nextline` pops one file per missing line (`pot.c:738`): an included file that
  ends with FILE cuts off its includer (`pot.5:142`).
* In pass 1 a label inside a macro definition hides the rest of its line
  (`pot.c:334`, `358`); in pass 2 it does not (`561`, `569`), so that a TEXT, an origin or
  an ENDM behind it works there only (`pot.5:52`).
* `$` in an included file: `rewind` acts on that file (`pot.c:917`) and pass 2 reads
  another text.
* The bound of the include stack is off by one (`pot.c:239`, `252`; `pot.5:148`
  allows ten levels): `at = "wild"`.
* A macro called before its definition takes one word in pass 1 and its body in
  pass 2 (`pot.c:383`; `pot.5:52` gives a label the current location). When it calls
  itself, pass 2 expands it for ever (`pot.c:498`).
* A symbol that is the name of a macro turns `pot` to the macro's lines wherever it
  stands as an operand (`pot.c:494`), and its line has no word (`722`).
* A macro called inside the definition of another changes that definition
  (`pot.c:390`, `868`; `pot.5:194`).
* Words of TEXT and ZMEM above the last code line are not in the image
  (`pot.c:943`, `184`; `pot.5:111`, `201`). `ImageIsRight` has those up to the last
  word of code in it.
* The second argument of a macro is assembled as an address on the page
  (`pot.c:707`; `pot.5:167`).
* The length of a TEXT is found by searching its delimiter from the end of the
  line (`pot.c:577`), so that a delimiter in the comment counts (`pot.5:118`).

* An expression does not look at what its terms are (`pot.c:630`): an unknown name
  stands for the term before it, or for a value never set. The distance (`<`) to
  an unknown label is no error and leaves the operand out (`pot.c:474`). `ImageIsRight`
  is about texts without unknown names.
* An address past the memory is taken modulo its size (`pot.c:668`), silently.
* In the listing a label in a macro's body without `%`, and one on a line with
  `*` or PAGE, stand at another address than in the symbol table (`pot.c:556`,
  `715`). `SymbolsFound` is about texts without them.

Startup and papertape:

* The tape is ready until a read has failed (`chario.c:221`; `pep8.7:436` has it not
  ready at the end of the file): the program reads one 0377 more. `TapeCopied`
  holds with that word and without it.
* `page:offset` is never accepted: the whole token is checked for octal digits, the
  delimiter among them (`util.c:72`; `pepsi.1:270`).
* The last line of the option file is handled twice, because the end of the file
  is noticed after it (`pepsi.c:312`, `442`): the last panel line of
  `examples/bcdc.pop` is watched twice, and dumps of the last line come twice.
* A last line without a newline loses its last character (`pepsi.c:290`); of an empty
  option file an uninitialised buffer is read. `Startup` has lines that end, and takes
  an empty file for none.
* Only lines with the tag `pepsi:` are options (`pepsi.c:295`), though the usage
  text has the first line for additional options (`pepsi.c:96`), and
  `examples/hello.pop` has a line without it.
* Without an image `pepsi` prints its usage and ends (`pepsi.c:230`); the code for a
  prompt without an image after that is not reached.
* The listing is read from `.pls` (`SRC`), while `pepsi.1` names `.psy`.

Terminal server:

* The second key after a client has gone raises SIGPIPE, which ends the server
  (`ttysrv/tty.c:107`; `teletype.1` knows of `quit` alone): `server = "killed"`.
* No accepted socket is closed (`ttysrv/tty.c:179`): when the descriptors are used up
  the server exits, `server = "failed"`.

## Fairness

The main loop, the threads and `pot` never wait for anything but what a guard
says, so each gets weak fairness (`WF`) as a thread of its own: the scheduler runs
every thread. Programs, typists, hangups and a user at the prompt promise
nothing, except in three cases. In `pepsi` the typist goes on typing. In `scope`
the program goes on with its next instruction. In the debugger runs an end of
input, once there, is delivered. `ReaderThread` in `MCSpec` of `MCPepsi` is fair
to connect, because these runs assume the terminal is there; only under
`hello.pps` may the line fail (`GoodLine`). `pot` is fair in `MCTranslate`, its own
steps; nothing makes `pepsi` read the listing. In `teletype` main and the sending part
of the keyboard thread run on, nobody needs to press a key, and a client writes
what it has to write and ends; the server's exit is an outcome
`EverythingShown` allows.

## Proofs

TLAPS proves the following for all values of the constants, under the named
assumptions of the modules. Each module extends the component it is about. A
property below is proved from an inductive invariant, the one named, in three
facts: it holds initially, every action keeps it (one step of the proof per
action), and it implies the property.

**`Pep8CpuProofs`**, from `ImageAssumption` and `DeviceAssumption`. `BitAndInWord` and
`BitOrInWord`: the bitwise operations, defined by the weights of the bits, stay
within `Word`. `TypeCorrect` (`[]TypeOK`) and `MemtopIsHighest`
(`[]StoredBelowMemtop`), for every program. The invariant is `IInv`, both
together: that a store is below `memtop` needs the operand's type, and the type of
`memtop` needs where it is taken from. `NextKeeps`, that a step keeps `IInv`, is
what the modules that compose the processor cite.

In the same module, `MemoryAsInManual` and `OprAsInManual`: every step that executes
an instruction does what `pep8.7` says of it, for all words, operands, devices and
registers of twelve bits. They need no invariant; the
work is that an opcode is executed by exactly one action, and the order of the
micro-operations. For memory instructions the property also says what is kept: all words
but the addressed one of STO and JMS, all words for the others, and the registers
the manual does not name. TAD is stated as the code has it.

**`TtyUseProofs`**, from `TtyAssumption` and `TtyUseAssumption`. `TypeCorrect`,
`PrintedInOrder` (`[]OutputInOrder`), `TtyIsChannel` (the step-by-step refinement of
`Channel`), `ReturnedOnce` (`[]NoCharacterTwice`), `CarefulUseLosesNothing`
(`[]NothingOverrun`). `OutInv` says who owns `out_ch`: the program has seen SRO skip
only when the buffer is empty and the writer is not inside its three steps, and
while the line is good `put` is `sent` and the character that has not been
written. `GotInv` says that the character that may still be returned is newer than
every one that was. `CarefulInv` adds, for careful use and as long as every
character read so far has seven bits, that each of them was returned or is still in
`in_ch`.

**`ScopeUseProofs`**, from `ScopeUseAssumption`. `TypeCorrect`, which
no run checks, `EveryDusDraws` (`[]OneDrawPerDus`), `PointsAreWhole` (`[]Untorn`) and
`ScopeIsChannel`, for programs that ask as often as the channel needs. `ScopeInv` says for every
place of the drawing thread which value `rdydly` has, which coordinates it has
copied and how many draws are ahead of the program: the thread writes `rdydly`
in two steps, and only that places of program and thread exclude each other keeps
one from storing over the other.

**`PepsiProofs`**, from `TapeAssumption`, `DevicesAssumption` and those of the
processor and the teletype.
`PepsiImplementsProcessor`: the processor with teletype and papertape, whose device
functions are several steps, implements `Pep8Cpu`, where a device returns anything.
What `Pep8CpuProofs` shows of the processor then holds of the simulator:
`PepsiTypeCorrect` and `PepsiMemtopIsHighest`. The invariant is that what the
devices may return is in `DevWords`.

**`DebuggerProofs`**, from `DebuggerAssumption`, for every program, any kinds of users and
any number of list cells.
* `BreakpointsHold` (`NeverPassesBreakpoint`). `Checked` says that at the top of the loop
  `pc8` is no breakpoint unless the simulator single-steps: it holds through any
  number of interrupts, since the loop returns there only through its end, where
  both are compared.
* `PromptTypeCorrect`, from `Ranges`: neither `o` nor `d` puts anything out of range.
* `DebuggerIsTransparent` (`DebuggingIsTransparent`). `AsUser` says that `-i` and an
  ended input are the user's doing and that at the end of a turn `at` is what
  `running` says. TLC held for an earlier, stronger form of this property only
  because its users never looked outside the arrays; the proof attempt
  showed that `display` and the commands that look may end the simulator where
  the bare processor would go on, and that an ended input does the same. The property now
  says so.
* `ListsFollowEdits` (`ListsAreEdited`): both linked lists implement `AddressList`, step by
  step. `ListsLinked` says that there is a sequence `s` of distinct cells, that they are the
  allocated ones, that each points to the next and the last to `NULL`, and that the
  last pointer, if what it points to was not freed, points to the end of `s`. `b` and
  `w` make it `Append(s, c)`, `bc` takes one place out of it, `wc` makes it empty.
* `DebuggerTypeCorrect` (`[]DebuggerTypeOK`): no pointer to a first element and no link
  dangles, and no element is lost.

`Chain`, which follows the links, is a recursive function. That it finds `s`
(`ChainIs`) is an induction, which is made by hand: lemma `Least` gives every nonempty set of
natural numbers a least element, and the least place where the function and `s` differ
cannot be. The library's theorems of induction take an operator as a parameter and
cannot be cited; its `WFMin`, which takes a set, can.

**`ImageProofs`**, from `ImageAssumption`. `UnpackPacked`, `ImageRoundTrip` (`[]RoundTrip`) and
`EveryWholeWordIsLoaded` (`[]WholeWordsAreLoaded`), for every memory of an even
number of words and every file. `Inv` says that the file holds the first `i / 2` pairs
while `pot` writes, all pairs up to `memtop` afterwards, and that the words below `i` are
loaded while `pepsi` reads; `WholeInv`, for files of any length, that the length taken
from the size counts every word that is whole in it. `EveryCallLoadsTheImage` takes both to
`Startup`: whatever the options, a call implements `ImageSpec`. `ProgramsRunReady`: no call
runs a program before its image is loaded and its origin has a value.

In the same module, from `StartupAssumption` (a call has options, lines and symbols of the
right form) and for any number of each: `EveryNameResolves` (`[]NamesResolve`) and
`EveryDumpIsPrinted` (`[]DumpsPrinted`). `OptionsInv` says that, while options are read, `args`
is the part of all options given that begins behind the `d` already done and ends where
those of this line do (`IsEnds`), and that the switches, the origin and the dumps are what the
first `d` make of them (`Done`). The second reading needs that the first is over:
only then is it settled whether there are symbols, and `ParamPlace` says what `getparam`
finds with and without them. At the end `dumps` is what the first `n` options ask for and
`dumped` what the others have printed (`Printing`); options without a dump are passed over
by taking the least such `n` (`NextDump`).

**`TtyServerProofs`**, from `TtyServerAssumption`. `KeysAlwaysArrive` (`[]KeysArrive`), for any
clients, keys and interleavings. `KeysInv` says that a client stands in one place of the queue
or was accepted, that who was not accepted was sent nothing, which key the
keyboard thread has in hand, and that the client being served was sent every key
before that one since it was accepted, and one earlier at most. `OutputInOrder`
(`[]ScreenInOrder`): there is one thread that shows, `main`, and it serves one client at a
time. `ScreenInv` cuts the screen into one turn of each accepted client,
in the order they were accepted. A turn shows the beginning of what the client
wrote, the rest is unread or was lost with a reset connection, and behind every
turn but the last, or when `main` waits for the next client, nothing is left to show.

**`AssemblerProofs`**, from `ReaderAssumption`, `AssemblerAssumption` and `TextsAssumption`
(what a line is), for every set of texts and all sizes.
* `AssemblerTypeCorrect` (`[]AssemblerTypeOK`). `Typed` adds what the state is made
  of: streams stand in their files, and the lines of macro bodies are lines of the
  texts, so that every operand that is evaluated has a value. The sizes bite in
  three places: the end mark behind the last entry of a full table, the store into
  `files[]` one beyond its last element and the store of a word behind the memory all
  lead to `wild`, and to nothing else.
* `LabelsKeepTheirPlace` (`[]LabelsResolve`): the two passes agree. What a line does to the
  program is, but for the words and symbols it makes, a function of the line, of where
  the program is (`Config`: what is read next, the location counter, the mode, the
  macro last called and how often each was) and of the macro called (`HandledLine`). Pass 1 makes
  a chain of such events (`PassOne`), in which every label stands in the table
  where its line was read and every macro called is the first with its name. The chain stays
  one however the table grows (`ChainGrows`). Pass 2 goes through the beginning of that
  chain, event by event (`PassTwo`): it begins where pass 1 began, since the calls are counted from
  0 again, and a line that called a macro in pass 1 calls the same one, since a macro is
  found only where `counted` does not have its name. `Nest` says that the main file is at the
  bottom of the streams, which is what `rewind` needs.
* `ImageHoldsTheLines` (`[]ImageIsRight`). `Imaged` says what pass 2 has put: within the memory,
  code below `memtop`, and, as long as there was no error and every name had a
  value, outside the constants the words of the lines: the instruction plus the in-page
  address of what the operand means in the table, or plus the displacement, which is in its
  bounds because the line was no error (`NearEnough`). That does not change while the table grows.
  `Decoded` and `Displaced` take such a word apart as the processor does, for every size of a
  page and of a displacement.
* `TextsShowTheLines` (`[]TextShowsLines`). `Displayed` says that the last line pass 2 had at
  an address is the last for it in the listing or, behind the zero page, in the temporary
  file, as long as no TEXT has run out of the memory; the lines of a source line are
  listed for the addresses it takes (`PlacesListed`, `LinesListed`). The constants listed in between
  have their own addresses (`ZmemListIs`). `LastIsShown`: whatever file is
  read, `pepsi` shows at an address its last line there. It follows line by line the
  recursion `Reads` is, which `ReadsFollow` unfolds (as `Flattened` does that of `FlattenSeq`).
* `ConstantsKeepTheirValue` (`[]ConstantsHold`). `Held` says that a constant has an entry
  whose location is one of the words above `zmemptr` and that the word has its value
  unless code was put there. It needs that no step moves an entry of the table
  (`TableGrows`), and which words a step of pass 2 writes (`WritesOfCode`).

Only model-checked:

* every liveness property (`OutputDrains`, `AllEchoed`, `HaltEnds`, `Ends` and the like): fairness and ENABLED are out
  of the prover's reach;
* what particular programs do (`HelloPrinted`, `Transparent`, `TapeCopied` of `MCPepsi`): they are about their instructions, one by one;
* the symbols of the listing (`SymbolsFound`) and the order of the lines read
  (`AsIfInserted`): both hold of the texts of the run only (see the divergences), and the
  second compares with a recursion over the included files.

## Not modelled

* Seven segment and GPIO devices: hardware behind a library, one build only.
* Formatting: displays, dumps, messages, the columns of the listing; the symbol file,
  which is sorted and printed after the table's last use; `-m` and the refresh of
  the front panel, which read clocks.
* Parsing: characters of numbers, names and options, the line editor. The models
  start from parsed lines and commands. Names longer than the six characters of a
  symbol, and lines longer than their buffers, are left out. Lines of `pot` have at
  most one operand of an instruction, two of a macro, and expressions two terms with
  `+`, `-` or `*`; longer ones repeat the step from the second to the next term. An
  instruction with an operand has no bits where the address goes, or none where the
  displacement goes (`WellFormed`), so that
  the `|` of `pot.c:674` is a sum; one that has (`CLA 5`) is left out. So are the name of a
  macro as an operand, `%` and parameters in the arguments of a call, and bad octal numbers. `/` and
  `&`, which `pot.5` does not have, and the truncation of names are left out. After a macro call
  `symscan` goes on comparing a token whose text has been overwritten; the models
  stop at the macro found, and look at the first symbol only where a name was
  entered twice, which is an error and ends `pot` after pass 1.
* The threads of teletype and scope take their parameters apart with `strtok`, which
  keeps one place for both (`chario.c:102`, `241`); the models begin with the sockets.
* The settings of the terminal (`ttysrv/util.c`), and the Java display of the scope.

## Plan

Done, in this order: words and processor, teletype and its channel, simulator,
scope, prompt, assembler, image; then papertape, terminal server, listing and
startup; then the proofs, the assembler's and those of a call's options last. What is
left is `Tty` and `TtyServer` composed, from DPA to the screen and from key to DGA.
