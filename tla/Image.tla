------------------------------- MODULE Image -------------------------------
(***************************************************************************)
(* The memory image: pot writes the assembled memory as bytes, two words   *)
(* in three (end of main, pot.c), and pepsi loads it (main, pepsi.c).      *)
(* pepsi may also be given a file that pot never wrote.                    *)
(***************************************************************************)
EXTENDS Integers

CONSTANTS MEM8SIZ,   \* words of memory of both programs
          Words,     \* the words that are assembled
          Bytes,     \* the bytes of a file from elsewhere
          MaxSize    \* its greatest length

ASSUME ImageAssumption ==
  /\ MEM8SIZ \in Nat \ {0} /\ MEM8SIZ % 2 = 0
  /\ Words \subseteq 0 .. 4095 /\ Bytes \subseteq 0 .. 255 /\ MaxSize \in Nat

VARIABLES assembled, memtop,  \* mem8 and memtop of pot, when it made the file
          made,               \* pot made the file
          file, size,         \* the image file: its bytes 0 .. size - 1
          oc,                 \* the buffer of both programs, one pair of words
          i,                  \* the loop variable of both
          len, mem8,          \* pepsi's
          at

vars == <<assembled, memtop, made, file, size, oc, i, len, mem8, at>>

Byte(x) == x % 256

(* Two words as three bytes, and back; the slip of giving the middle byte  *)
(* to the wrong word.                                                      *)
PackedCrossed(w, v) ==
  <<Byte(w \div 16), Byte((v \div 256) * 16 + (w % 16)), Byte(v)>>
Packed(w, v) ==
  <<Byte(w \div 16), Byte((w % 16) * 16 + (v \div 256)), Byte(v)>>
First(b)  == b[1] * 16 + (b[2] \div 16)
Second(b) == (b[2] % 16) * 256 + b[3]

Files == UNION {[0 .. n - 1 -> Bytes] : n \in 0 .. MaxSize}

ImageInit ==
  /\ oc \in {<<x, x, x>> : x \in Bytes}
  /\ i = 0 /\ len = 0
  /\ mem8 = [a \in 0 .. MEM8SIZ - 1 |-> 0]
  /\ \/ /\ made = TRUE /\ at = "save"
        /\ assembled \in [0 .. MEM8SIZ - 1 -> Words]
        /\ memtop \in 1 .. MEM8SIZ
        /\ file = [k \in {} |-> 0] /\ size = 0
     \/ /\ made = FALSE /\ at = "stat"
        /\ \E n \in 0 .. MaxSize : size = n /\ file \in [0 .. n - 1 -> Bytes]
        /\ assembled = mem8 /\ memtop = 0

(* pot: fwrite of the next pair, while i < memtop.                         *)
Save ==
  /\ at = "save" /\ i < memtop
  /\ oc' = Packed(assembled[i], assembled[i + 1])
  /\ file' = [k \in 0 .. size + 2 |->
                IF k < size THEN file[k] ELSE oc'[k - size + 1]]
  /\ size' = size + 3
  /\ i' = i + 2
  /\ UNCHANGED <<assembled, memtop, made, len, mem8, at>>

Saved ==
  /\ at = "save" /\ i >= memtop
  /\ at' = "stat"
  /\ UNCHANGED <<assembled, memtop, made, file, size, oc, i, len, mem8>>

(* pepsi: the number of words of the file; the slip of counting whole      *)
(* triples.                                                                *)
WordsInTriples(n) == (n \div 3) * 2
WordsIn(n) == (n * 2) \div 3

Stat ==
  /\ at = "stat"
  /\ len' = WordsIn(size)
  /\ i' = 0
  /\ at' = IF len' > MEM8SIZ THEN "fatal" ELSE "load"
  /\ UNCHANGED <<assembled, memtop, made, file, size, oc, mem8>>

(* fread of the next three bytes: what the file has no more of stays what  *)
(* it was in the buffer.                                                   *)
Pos == (i \div 2) * 3
Load ==
  /\ at = "load" /\ i < len
  /\ oc' = [k \in 1 .. 3 |-> IF Pos + k - 1 < size THEN file[Pos + k - 1]
                                                   ELSE oc[k]]
  /\ mem8' = [mem8 EXCEPT ![i] = First(oc'), ![i + 1] = Second(oc')]
  /\ i' = i + 2
  /\ UNCHANGED <<assembled, memtop, made, file, size, len, at>>

Loaded ==
  /\ at = "load" /\ i >= len
  /\ at' = "loaded"
  /\ UNCHANGED <<assembled, memtop, made, file, size, oc, i, len, mem8>>

ImageNext == Save \/ Saved \/ Stat \/ Load \/ Loaded

ImageSpec == ImageInit /\ [][ImageNext]_vars

(* What pepsi loads is what pot assembled, every word below memtop: the    *)
(* two agree on the format and on its length (pot.c, end of main; pepsi.c, *)
(* image loading).                                                         *)
RoundTrip ==
  (at = "loaded" /\ made) =>
    memtop <= len /\ \A a \in 0 .. memtop - 1 : mem8[a] = assembled[a]

(* Of any file that fits, every whole word is loaded, twelve bits after    *)
(* twelve, whatever its length and whatever the buffer held (pepsi.c: the  *)
(* rest of a last, incomplete triple is not missed).                       *)
HalfOf(k) == k \div 2
WordOf(k) ==
  LET p == 3 * HalfOf(k)
  IN  IF k % 2 = 0 THEN file[p] * 16 + (file[p + 1] \div 16)
                   ELSE (file[p + 1] % 16) * 256 + file[p + 2]
WholeWordsAreLoaded ==
  at = "loaded" => \A k \in 0 .. MEM8SIZ - 1 :
                     12 * (k + 1) <= 8 * size => mem8[k] = WordOf(k)
=============================================================================
