------------------------------- MODULE Reader -------------------------------
(***************************************************************************)
(* How pot reads its source (pot.c: nextline, po_file_incl, the two loops  *)
(* of main).  The text is a set of files, each a sequence of lines; a      *)
(* FILE* is the name of a file and the number of lines read from it.  FILE *)
(* pushes the stream being read on files[] and opens another, the end of   *)
(* a file pops one, $ ends the pass, and between the two passes            *)
(* rewind(infile) is called on whatever stream is then being read.  The    *)
(* lines of a macro being called come before those of the file.            *)
(***************************************************************************)
EXTENDS Integers, Sequences, SequencesExt

CONSTANTS Texts,    \* the sources: functions from file names to lines
          MAXNEST   \* size of the array files[]

(* files[] has room for the stream of the main file.                       *)
ASSUME ReaderAssumption == MAXNEST \in Nat \ {0}

VARIABLES text,      \* the source being translated
          infile,    \* the stream being read
          files,     \* the streams that wait below it, files[1 .. filetop]
          macroptr,  \* the lines of a macro still to be read
          oline,     \* the line last read
          run, pass,
          at         \* where the program is

readVars == <<text, infile, files, macroptr, oline, run, pass, at>>

Main == "main"
Stopped == {"done", "fatal", "wild"}

AtEnd(s)  == s.line = Len(text[s.file])
LineOf(s) == text[s.file][s.line + 1]
Open(f)   == [file |-> f, line |-> 0]

(* One line taken from stream s, which becomes (stays) the one read; the   *)
(* slip of losing the rest of the file.                                    *)
TakeSkipping(s) ==
  /\ oline' = LineOf(s)
  /\ infile' = [s EXCEPT !.line = Len(text[s.file])]
Take(s) ==
  /\ oline' = LineOf(s)
  /\ infile' = [s EXCEPT !.line = @ + 1]

ReaderInit ==
  /\ text \in Texts
  /\ infile = Open(Main) /\ files = <<>> /\ macroptr = <<>>
  /\ oline = [op |-> "NONE"]
  /\ run = TRUE /\ pass = 1 /\ at = "read"

Reading == at = "read" /\ run

(* nextline: the next line of the macro being called ...                   *)
FetchMacro ==
  /\ Reading /\ macroptr # <<>>
  /\ oline' = Head(macroptr) /\ macroptr' = Tail(macroptr)
  /\ at' = "line"
  /\ UNCHANGED <<text, infile, files, run, pass>>

(* ... or of the file being read ...                                       *)
FetchLine ==
  /\ Reading /\ macroptr = <<>> /\ ~AtEnd(infile)
  /\ Take(infile)
  /\ at' = "line"
  /\ UNCHANGED <<text, files, macroptr, run, pass>>

(* ... or, at its end, of the file that included it: one file up, no more. *)
FetchIncluder ==
  /\ Reading /\ macroptr = <<>> /\ AtEnd(infile) /\ files # <<>>
  /\ ~AtEnd(Last(files))
  /\ Take(Last(files))
  /\ files' = Front(files)
  /\ at' = "line"
  /\ UNCHANGED <<text, macroptr, run, pass>>

(* nextline returns NULL: no line in the file above either.                *)
IncluderAtEnd ==
  /\ Reading /\ macroptr = <<>> /\ AtEnd(infile) /\ files # <<>>
  /\ AtEnd(Last(files))
  /\ infile' = Last(files) /\ files' = Front(files)
  /\ at' = "end"
  /\ UNCHANGED <<text, macroptr, oline, run, pass>>

NoLine ==
  /\ at = "read"
  /\ \/ ~run
     \/ macroptr = <<>> /\ AtEnd(infile) /\ files = <<>>
  /\ at' = "end"
  /\ UNCHANGED <<text, infile, files, macroptr, oline, run, pass>>

Fetch == FetchMacro \/ FetchLine \/ FetchIncluder \/ IncluderAtEnd \/ NoLine

(* FILE: the check lets filetop reach MAXNEST, which files[] does not      *)
(* have; what the program does after that store is left open.              *)
FileIncl(next) ==
  /\ oline.op = "FILE"
  /\ IF Len(files) >= MAXNEST \/ oline.file \notin DOMAIN text
       THEN at' = "fatal" /\ UNCHANGED <<infile, files>>
       ELSE /\ files' = Append(files, infile)
            /\ infile' = Open(oline.file)
            /\ at' = IF Len(files) + 1 = MAXNEST THEN "wild" ELSE next
  /\ UNCHANGED <<text, macroptr, oline, run, pass>>

EndOfAssembly(next) ==
  /\ oline.op = "EOA"
  /\ run' = FALSE
  /\ at' = next
  /\ UNCHANGED <<text, infile, files, macroptr, oline, pass>>

(* rewind(infile), between the passes.                                     *)
Rewind ==
  /\ at = "end" /\ pass = 1
  /\ infile' = [infile EXCEPT !.line = 0]
  /\ pass' = 2 /\ run' = TRUE /\ at' = "read"
  /\ UNCHANGED <<text, files, macroptr, oline>>

(* After the second pass the image is written.                             *)
Finish ==
  /\ at = "end" /\ pass = 2
  /\ at' = "done"
  /\ UNCHANGED <<text, infile, files, macroptr, oline, run, pass>>

(* Every stream stands in its file, and files[] has room for one more.     *)
InText(s) == s.file \in DOMAIN text /\ s.line \in 0 .. Len(text[s.file])
ReaderTypeOK ==
  /\ at \in {"read", "line", "scanned", "end"} \cup Stopped
  /\ pass \in {1, 2} /\ run \in BOOLEAN
  /\ InText(infile) /\ \A i \in DOMAIN files : InText(files[i])
  /\ at # "wild" => Len(files) < MAXNEST
=============================================================================
