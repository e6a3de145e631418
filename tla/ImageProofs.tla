---------------------------- MODULE ImageProofs ----------------------------
(***************************************************************************)
(* An image survives the way from pot to pepsi, for every size of memory   *)
(* and every content, and of a file that pot did not write every whole     *)
(* word is loaded.  Both proofs go by an invariant that says how far a     *)
(* loop has come and what it has left behind.  So does that of the options *)
(* of a call: whatever is on the command line and in the option file, what *)
(* is set, watched and dumped is what all the options together ask for.    *)
(***************************************************************************)
EXTENDS Startup, TLAPS, WellFoundedInduction, SequenceTheorems

Word12 == 0 .. 4095
Mem == [0 .. MEM8SIZ - 1 -> Word12]

(* The j-th triple of the file is the j-th pair of words.                  *)
TripleHolds(j) ==
  /\ file[3 * j] = Packed(assembled[2 * j], assembled[2 * j + 1])[1]
  /\ file[3 * j + 1] = Packed(assembled[2 * j], assembled[2 * j + 1])[2]
  /\ file[3 * j + 2] = Packed(assembled[2 * j], assembled[2 * j + 1])[3]

(* h pairs of words are in the file, and nothing else.                     *)
Written(h) ==
  /\ size = 3 * h
  /\ file = [k \in 0 .. size - 1 |-> file[k]]
  /\ \A j \in 0 .. h - 1 : TripleHolds(j)

(* The first n words have arrived.                                         *)
Arrived(n) == \A a \in 0 .. n - 1 : mem8[a] = assembled[a]

Pairs == (memtop + 1) \div 2

Shape ==
  /\ assembled \in Mem
  /\ memtop \in 0 .. MEM8SIZ
  /\ DOMAIN mem8 = 0 .. MEM8SIZ - 1
  /\ mem8 = [a \in 0 .. MEM8SIZ - 1 |-> mem8[a]]
  /\ i \in Nat /\ len \in Int /\ size \in Nat
  /\ at \in {"save", "stat", "load", "loaded", "fatal"}
  /\ at = "save" => made

(* Each phase, for an image of pot's making.                               *)
Saving  == \E h \in 0 .. Pairs : i = 2 * h /\ Written(h)
Loading == /\ len = 2 * Pairs
           /\ \E h \in 0 .. Pairs : i = 2 * h /\ Arrived(2 * h)
Phases ==
  made => /\ at = "save" => Saving
          /\ at # "save" => Written(Pairs)
          /\ at \in {"load", "loaded"} => Loading
          /\ at = "loaded" => i >= len

Inv == Shape /\ Phases

(* Three bytes hold two words: unpacking (pepsi.c, image loading) undoes   *)
(* packing (pot.c, end of main) for every two words of the machine.        *)
THEOREM UnpackPacked ==
  ASSUME NEW w \in Word12, NEW v \in Word12
  PROVE  /\ First(Packed(w, v)) = w
         /\ Second(Packed(w, v)) = v
<1>1. Packed(w, v) = << w \div 16, (w % 16) * 16 + (v \div 256), v % 256 >>
  <2>1. (w \div 16) % 256 = w \div 16
    BY DEF Word12
  <2>2. ((w % 16) * 16 + (v \div 256)) % 256 = (w % 16) * 16 + (v \div 256)
    BY DEF Word12
  <2> QED
    BY <2>1, <2>2 DEF Packed, Byte
<1>2. ((w % 16) * 16 + (v \div 256)) \div 16 = w % 16
  BY DEF Word12
<1>3. ((w % 16) * 16 + (v \div 256)) % 16 = v \div 256
  BY DEF Word12
<1>4. First(Packed(w, v)) = (w \div 16) * 16 + (w % 16)
  BY <1>1, <1>2 DEF First
<1>5. Second(Packed(w, v)) = (v \div 256) * 256 + (v % 256)
  BY <1>1, <1>3 DEF Second
<1> QED
  BY <1>4, <1>5 DEF Word12

(* A function into a set is one into any larger set.                       *)
LEMMA WiderRange ==
  ASSUME NEW D, NEW S, NEW T, S \subseteq T, NEW f \in [D -> S]
  PROVE  f \in [D -> T]
OBVIOUS

(* The assembled memory holds pairs below memtop; h of them are written    *)
(* when the loop of pot is at 2 * h.                                       *)
LEMMA PairsFit ==
  ASSUME Inv
  PROVE  /\ Pairs \in Nat /\ 2 * Pairs \in {memtop, memtop + 1}
         /\ 2 * Pairs <= MEM8SIZ
<1>1. /\ memtop \in 0 .. MEM8SIZ /\ MEM8SIZ \in Nat /\ MEM8SIZ % 2 = 0
  BY ImageAssumption DEF Inv, Shape
<1>2. /\ (memtop + 1) \div 2 \in Nat
      /\ 2 * ((memtop + 1) \div 2) \in {memtop, memtop + 1}
  BY <1>1
<1> QED
  BY <1>1, <1>2 DEF Pairs

THEOREM InitInv == ImageInit => Inv
<1> SUFFICES ASSUME ImageInit PROVE Inv
  OBVIOUS
<1>0. MEM8SIZ \in Nat /\ MEM8SIZ > 0 /\ Words \subseteq Word12 /\ 0 \in Word12
  BY ImageAssumption DEF ImageAssumption, Word12
<1>1. assembled \in Mem /\ memtop \in 0 .. MEM8SIZ
  <2>1. CASE assembled \in [0 .. MEM8SIZ - 1 -> Words]
             /\ memtop \in 1 .. MEM8SIZ
    <3>1. assembled \in Mem
      BY <2>1, <1>0, WiderRange, Zenon DEF Mem
    <3>2. memtop \in 0 .. MEM8SIZ
      BY <2>1, <1>0
    <3> QED
      BY <3>1, <3>2
  <2>2. CASE assembled = mem8 /\ memtop = 0
    BY <2>2, <1>0 DEF ImageInit, Mem
  <2> QED
    BY <2>1, <2>2 DEF ImageInit
<1>2. Shape
  BY <1>0, <1>1 DEF ImageInit, Shape
<1>3. Phases
  <2> SUFFICES ASSUME made PROVE at = "save" /\ Saving
    BY DEF Phases
  <2>1. at = "save" /\ size = 0 /\ file = [k \in {} |-> 0] /\ i = 0
    BY DEF ImageInit
  <2>2. Pairs \in Nat
    BY <1>0, <1>1 DEF Pairs
  <2>3. Written(0)
    BY <2>1 DEF Written
  <2> QED
    BY <2>1, <2>2, <2>3 DEF Saving
<1> QED
  BY <1>2, <1>3 DEF Inv

(***************************************************************************)
(* The steps.                                                              *)
(***************************************************************************)
(* One more pair: the triples before it stay, and its own is added.        *)
LEMMA SaveInv == Inv /\ Save => Inv'
<1> SUFFICES ASSUME Inv, Save PROVE Inv'
  OBVIOUS
<1>1. Shape'
  BY DEF Inv, Shape, Save
<1>2. ASSUME made PROVE Saving'
  <2>1. PICK h \in 0 .. Pairs : i = 2 * h /\ Written(h)
    BY <1>2 DEF Inv, Phases, Save, Saving
  <2>2. Pairs \in Nat /\ 2 * Pairs \in {memtop, memtop + 1}
    BY PairsFit
  <2>3. h \in Nat /\ h + 1 \in 0 .. Pairs /\ i' = 2 * (h + 1) /\ Pairs' = Pairs
    <3>1. memtop \in Int /\ i < memtop /\ i' = i + 2 /\ memtop' = memtop
      BY DEF Save, Inv, Shape
    <3>2. Pairs' = Pairs
      BY <3>1 DEF Pairs
    <3> QED
      BY <2>1, <2>2, <3>1, <3>2
  <2>4. size' = 3 * (h + 1) /\ size = 3 * h
    BY <2>1 DEF Save, Written, Inv, Shape
  <2>5. file' = [k \in 0 .. size' - 1 |-> file'[k]]
    BY <2>3, <2>4 DEF Save
  <2>6. ASSUME NEW j \in 0 .. h PROVE TripleHolds(j)'
    <3>1. /\ 3 * j \in 0 .. size + 2 /\ 3 * j + 1 \in 0 .. size + 2
          /\ 3 * j + 2 \in 0 .. size + 2
      BY <2>3, <2>4
    <3>2. CASE j < h
      <4>1. TripleHolds(j) /\ 3 * j < size /\ 3 * j + 1 < size /\ 3 * j + 2 < size
        BY <2>1, <2>3, <2>4, <3>2 DEF Written
      <4>2. /\ file'[3 * j] = file[3 * j] /\ file'[3 * j + 1] = file[3 * j + 1]
            /\ file'[3 * j + 2] = file[3 * j + 2]
        BY <3>1, <4>1 DEF Save
      <4> QED
        BY <4>1, <4>2 DEF TripleHolds, Save
    <3>3. CASE j = h
      <4>1. /\ 3 * j - size + 1 = 1 /\ 3 * j + 1 - size + 1 = 2
            /\ 3 * j + 2 - size + 1 = 3
            /\ ~(3 * j < size) /\ ~(3 * j + 1 < size) /\ ~(3 * j + 2 < size)
        BY <2>4, <2>3, <3>3
      <4>2. /\ file'[3 * j] = oc'[1] /\ file'[3 * j + 1] = oc'[2]
            /\ file'[3 * j + 2] = oc'[3]
        <5>1. \A k \in 0 .. size + 2 : ~(k < size) => file'[k] = oc'[k - size + 1]
          BY DEF Save
        <5>2. file'[3 * j] = oc'[1]
          BY <5>1, <3>1, <4>1, <2>3, <2>4
        <5>3. file'[3 * j + 1] = oc'[2]
          BY <5>1, <3>1, <4>1, <2>3, <2>4
        <5>4. file'[3 * j + 2] = oc'[3]
          BY <5>1, <3>1, <4>1, <2>3, <2>4
        <5> QED
          BY <5>2, <5>3, <5>4
      <4>3. oc' = Packed(assembled[2 * j], assembled[2 * j + 1])
        BY <2>1, <3>3 DEF Save
      <4> QED
        BY <4>2, <4>3 DEF TripleHolds, Save
    <3> QED
      BY <3>2, <3>3, <2>3
  <2> QED
    BY <2>3, <2>4, <2>5, <2>6 DEF Saving, Written
<1> QED
  BY <1>1, <1>2 DEF Inv, Phases, Save

LEMMA SavedInv == Inv /\ Saved => Inv'
<1> SUFFICES ASSUME Inv, Saved PROVE Inv'
  OBVIOUS
<1>1. Shape'
  BY DEF Inv, Shape, Saved
<1>2. Pairs' = Pairs /\ (\A h : Written(h)' <=> Written(h))
  BY DEF Saved, Pairs, Written, TripleHolds
<1>3. ASSUME made PROVE Written(Pairs)
  <2>1. PICK h \in 0 .. Pairs : i = 2 * h /\ Written(h)
    BY <1>3 DEF Inv, Phases, Saved, Saving
  <2>2. h = Pairs
    BY <2>1, PairsFit DEF Saved, Inv, Shape
  <2> QED
    BY <2>1, <2>2
<1> QED
  BY <1>1, <1>2, <1>3 DEF Inv, Phases, Saved

LEMMA StatInv == Inv /\ Stat => Inv'
<1> SUFFICES ASSUME Inv, Stat PROVE Inv'
  OBVIOUS
<1>1. Shape'
  BY DEF Inv, Shape, Stat, WordsIn
<1>2. Pairs' = Pairs /\ (\A h : Written(h)' <=> Written(h))
  BY DEF Stat, Pairs, Written, TripleHolds
<1>3. ASSUME made PROVE Loading' /\ Written(Pairs)
  <2>1. Pairs \in Nat /\ Written(Pairs)
    BY <1>3, PairsFit DEF Inv, Phases, Stat
  <2>2. len' = 2 * Pairs
    BY <2>1 DEF Stat, WordsIn, Written
  <2>3. 0 \in 0 .. Pairs /\ i' = 2 * 0 /\ Arrived(2 * 0)'
    BY <2>1 DEF Stat, Arrived
  <2> QED
    BY <1>2, <2>1, <2>2, <2>3 DEF Loading
<1> QED
  BY <1>1, <1>2, <1>3 DEF Inv, Phases, Stat

(* The next triple is that of the pair 2 * h, and unpacks to it.           *)
LEMMA LoadInv == Inv /\ Load => Inv'
<1> SUFFICES ASSUME Inv, Load PROVE Inv'
  OBVIOUS
<1>1. Shape'
  <2>1. /\ assembled' = assembled /\ memtop' = memtop /\ len' = len
        /\ size' = size /\ at' = at /\ made' = made /\ i' \in Nat
    BY DEF Inv, Shape, Load
  <2>2. /\ DOMAIN mem8' = 0 .. MEM8SIZ - 1
        /\ mem8' = [a \in 0 .. MEM8SIZ - 1 |-> mem8'[a]]
    BY DEF Inv, Shape, Load
  <2> QED
    BY <2>1, <2>2 DEF Inv, Shape, Mem
<1>2. Pairs' = Pairs /\ (\A h : Written(h)' <=> Written(h))
  BY DEF Load, Pairs, Written, TripleHolds
<1>3. ASSUME made PROVE Loading'
  <2>1. PICK h \in 0 .. Pairs : i = 2 * h /\ Arrived(2 * h)
    BY <1>3 DEF Inv, Phases, Load, Loading
  <2>2. /\ Pairs \in Nat /\ 2 * Pairs <= MEM8SIZ
        /\ len = 2 * Pairs /\ Written(Pairs) /\ MEM8SIZ \in Nat
    BY <1>3, PairsFit, ImageAssumption
    DEF ImageAssumption, Inv, Phases, Load, Loading
  <2>3. h \in 0 .. Pairs - 1 /\ h + 1 \in 0 .. Pairs /\ i' = 2 * (h + 1)
    BY <2>1, <2>2 DEF Load
  <2>4. TripleHolds(h) /\ size = 3 * Pairs /\ Pos = 3 * h
    BY <2>1, <2>2, <2>3 DEF Written, Pos
  <2> DEFINE p == Packed(assembled[2 * h], assembled[2 * h + 1])
  <2>5. oc'[1] = p[1] /\ oc'[2] = p[2] /\ oc'[3] = p[3]
    <3>1. oc' = [k \in 1 .. 3 |-> IF Pos + k - 1 < size THEN file[Pos + k - 1] ELSE oc[k]]
      BY DEF Load
    <3>2. /\ Pos + 1 - 1 = 3 * h /\ Pos + 2 - 1 = 3 * h + 1 /\ Pos + 3 - 1 = 3 * h + 2
          /\ 3 * h + 2 < size /\ 3 * h + 1 < size /\ 3 * h < size
      BY <2>2, <2>3, <2>4
    <3>3. oc'[1] = file[3 * h] /\ oc'[2] = file[3 * h + 1] /\ oc'[3] = file[3 * h + 2]
      BY <3>1, <3>2
    <3> QED
      BY <2>4, <3>3 DEF TripleHolds
  <2>6. assembled[2 * h] \in Word12 /\ assembled[2 * h + 1] \in Word12
    <3>1. 2 * h \in 0 .. MEM8SIZ - 1 /\ 2 * h + 1 \in 0 .. MEM8SIZ - 1
      BY <2>2, <2>3
    <3> QED
      BY <3>1 DEF Inv, Shape, Mem
  <2>7. First(p) = assembled[2 * h] /\ Second(p) = assembled[2 * h + 1]
    BY <2>6, UnpackPacked
  <2>8. First(oc') = assembled[2 * h] /\ Second(oc') = assembled[2 * h + 1]
    BY <2>5, <2>7 DEF First, Second
  <2>9. mem8' = [mem8 EXCEPT ![2 * h] = assembled[2 * h],
                             ![2 * h + 1] = assembled[2 * h + 1]]
    BY <2>1, <2>8 DEF Load
  <2>10. Arrived(2 * (h + 1))'
    <3> SUFFICES ASSUME NEW a \in 0 .. 2 * (h + 1) - 1
                 PROVE  mem8'[a] = assembled[a]
      BY DEF Arrived, Load
    <3>1. a \in 0 .. MEM8SIZ - 1 /\ (a < 2 * h \/ a = 2 * h \/ a = 2 * h + 1)
      BY <2>2, <2>3
    <3>2. a < 2 * h => mem8[a] = assembled[a]
      BY <2>1, <2>3 DEF Arrived
    <3> QED
      BY <2>9, <2>3, <3>1, <3>2 DEF Inv, Shape
  <2> QED
    BY <1>2, <2>2, <2>3, <2>10 DEF Loading, Load
<1> QED
  BY <1>1, <1>2, <1>3 DEF Inv, Phases, Load

LEMMA LoadedInv == Inv /\ Loaded => Inv'
<1> SUFFICES ASSUME Inv, Loaded PROVE Inv'
  OBVIOUS
<1>1. Shape'
  BY DEF Inv, Shape, Loaded
<1>2. /\ Pairs' = Pairs /\ (\A h : Written(h)' <=> Written(h))
      /\ Loading' <=> Loading
  BY DEF Loaded, Pairs, Written, TripleHolds, Loading, Arrived
<1> QED
  BY <1>1, <1>2 DEF Inv, Phases, Loaded

LEMMA StutterInv == Inv /\ UNCHANGED vars => Inv'
<1> SUFFICES ASSUME Inv, UNCHANGED vars PROVE Inv'
  OBVIOUS
<1>1. /\ assembled' = assembled /\ memtop' = memtop /\ made' = made
      /\ file' = file /\ size' = size /\ i' = i /\ len' = len
      /\ mem8' = mem8 /\ at' = at
  BY DEF vars
<1>2. Shape'
  BY <1>1 DEF Inv, Shape, Mem
<1>3. /\ Pairs' = Pairs /\ (\A h : Written(h)' <=> Written(h))
      /\ Loading' <=> Loading
  BY <1>1 DEF Pairs, Written, TripleHolds, Loading, Arrived
<1>4. Saving' <=> Saving
  BY <1>1, <1>3 DEF Saving
<1> QED
  BY <1>1, <1>2, <1>3, <1>4 DEF Inv, Phases

(* The invariant gives the property: at the end all Pairs have arrived.    *)
LEMMA InvRoundTrip == Inv => RoundTrip
<1> SUFFICES ASSUME Inv, at = "loaded", made
             PROVE  memtop <= len /\ \A a \in 0 .. memtop - 1 : mem8[a] = assembled[a]
  BY DEF RoundTrip
<1>1. PICK h \in 0 .. Pairs : i = 2 * h /\ Arrived(2 * h)
  BY DEF Inv, Phases, Loading
<1>2. len = 2 * Pairs /\ i >= len
  BY DEF Inv, Phases, Loading
<1>3. Pairs \in Nat /\ memtop <= 2 * Pairs /\ h = Pairs
  BY <1>1, <1>2, PairsFit DEF Inv, Shape
<1>4. memtop \in Nat /\ memtop <= len
  BY <1>2, <1>3 DEF Inv, Shape
<1>5. ASSUME NEW a \in 0 .. memtop - 1 PROVE mem8[a] = assembled[a]
  <2>1. a \in 0 .. 2 * h - 1
    BY <1>3, <1>4
  <2> QED
    BY <2>1, <1>1 DEF Arrived
<1> QED
  BY <1>4, <1>5

(* For every memory and every content, pepsi loads from the file that pot  *)
(* wrote the words that pot assembled.                                     *)
THEOREM ImageRoundTrip == ImageSpec => []RoundTrip
<1>1. Inv /\ [ImageNext]_vars => Inv'
  BY SaveInv, SavedInv, StatInv, LoadInv, LoadedInv, StutterInv DEF ImageNext
<1> QED
  BY InitInv, <1>1, InvRoundTrip, PTL DEF ImageSpec

(***************************************************************************)
(* Any file, also one that pot did not write: its whole words are loaded.  *)
(***************************************************************************)
(* Word k lies in the file, all twelve bits of it.                         *)
Within(k) == 12 * (k + 1) <= 8 * size

(* The words below n that lie in the file are in memory.                   *)
LoadedTo(n) ==
  \A k \in 0 .. MEM8SIZ - 1 : k < n /\ Within(k) => mem8[k] = WordOf(k)

(* How far the loop of pepsi has come: by pairs, within the memory, and    *)
(* not to its end before it has passed the length that fstat gave.         *)
WholeInv ==
  /\ at \in {"load", "loaded"} =>
       /\ len = WordsIn(size) /\ len <= MEM8SIZ
       /\ \E h \in Nat : i = 2 * h
       /\ LoadedTo(i)
  /\ at = "loaded" => i >= len

(* The length counts every word that lies in the file.                     *)
LEMMA WithinIsCounted ==
  ASSUME NEW k \in Nat, size \in Nat
  PROVE  Within(k) => k < WordsIn(size)
BY DEF Within, WordsIn

(* fread takes the bytes of word k from the file, when k is one of the     *)
(* pair being loaded; of what the file has no more of nothing is asked.    *)
LEMMA LoadReads ==
  ASSUME Inv, Load, NEW h \in Nat, i = 2 * h
  PROVE  /\ Within(i) => First(oc') = WordOf(i)
         /\ Within(i + 1) => Second(oc') = WordOf(i + 1)
<1>1. size \in Nat /\ Pos = 3 * h /\ i \div 2 = h /\ (i + 1) \div 2 = h
      /\ i % 2 = 0 /\ (i + 1) % 2 = 1
  <2>1. size \in Nat
    BY DEF Inv, Shape
  <2>2. i \div 2 = h /\ (i + 1) \div 2 = h /\ i % 2 = 0 /\ (i + 1) % 2 = 1
    OBVIOUS
  <2> QED
    BY <2>1, <2>2 DEF Pos
<1>2. oc' = [k \in 1 .. 3 |-> IF 3 * h + k - 1 < size THEN file[3 * h + k - 1]
                                                    ELSE oc[k]]
  BY <1>1 DEF Load
<1>3. /\ 3 * h < size => oc'[1] = file[3 * h]
      /\ 3 * h + 1 < size => oc'[2] = file[3 * h + 1]
      /\ 3 * h + 2 < size => oc'[3] = file[3 * h + 2]
  BY <1>1, <1>2
<1>4. Within(i) => 3 * h < size /\ 3 * h + 1 < size
  BY <1>1 DEF Within
<1>5. Within(i + 1) => 3 * h + 1 < size /\ 3 * h + 2 < size
  BY <1>1 DEF Within
<1>6. WordOf(i) = file[3 * h] * 16 + (file[3 * h + 1] \div 16)
  BY <1>1 DEF WordOf, HalfOf
<1>7. WordOf(i + 1) = (file[3 * h + 1] % 16) * 256 + file[3 * h + 2]
  BY <1>1 DEF WordOf, HalfOf
<1> QED
  BY <1>3, <1>4, <1>5, <1>6, <1>7 DEF First, Second

(* The next pair of words is loaded, and those before it stay.             *)
LEMMA LoadLoads == Inv /\ WholeInv /\ Load => WholeInv'
<1> SUFFICES ASSUME Inv, WholeInv, Load PROVE WholeInv'
  OBVIOUS
<1>1. PICK h \in Nat : i = 2 * h
  BY DEF WholeInv, Load
<1>2. /\ at' = "load" /\ len' = len /\ size' = size /\ file' = file
      /\ i' = i + 2
  BY DEF Load
<1>3. len = WordsIn(size) /\ len <= MEM8SIZ /\ LoadedTo(i) /\ i < len
  BY DEF WholeInv, Load
<1>4. i' = 2 * (h + 1) /\ h + 1 \in Nat
  BY <1>1, <1>2
<1>5. LoadedTo(i)'
  <2> SUFFICES ASSUME NEW k \in 0 .. MEM8SIZ - 1, k < i + 2, Within(k)
               PROVE  mem8'[k] = WordOf(k)
    BY <1>2 DEF LoadedTo, Within, WordOf
  <2>1. i \in Nat /\ DOMAIN mem8 = 0 .. MEM8SIZ - 1 /\ MEM8SIZ \in Nat
    BY ImageAssumption DEF ImageAssumption, Inv, Shape
  <2>2. CASE k < i
    <3>1. mem8[k] = WordOf(k)
      BY <1>3, <2>2 DEF LoadedTo
    <3>2. mem8'[k] = mem8[k]
      BY <2>1, <2>2 DEF Load
    <3> QED
      BY <3>1, <3>2
  <2>3. CASE k = i
    <3>1. mem8'[k] = First(oc')
      BY <2>1, <2>3 DEF Load
    <3> QED
      BY <3>1, <2>3, <1>1, LoadReads
  <2>4. CASE k = i + 1
    <3>1. mem8'[k] = Second(oc')
      BY <2>1, <2>4 DEF Load
    <3> QED
      BY <3>1, <2>4, <1>1, LoadReads
  <2> QED
    BY <2>1, <2>2, <2>3, <2>4
<1> QED
  BY <1>2, <1>3, <1>4, <1>5 DEF WholeInv

(* Of every file that fits into memory, whoever wrote it and whatever its  *)
(* length and the bytes that were in the buffer, pepsi loads every word    *)
(* that is there in full (pepsi.c, main: len8 and the loop of fread).      *)
THEOREM EveryWholeWordIsLoaded == ImageSpec => []WholeWordsAreLoaded
<1>1. ImageInit => WholeInv
  BY DEF ImageInit, WholeInv
<1>2. Inv /\ WholeInv /\ [ImageNext]_vars => WholeInv'
  <2> SUFFICES ASSUME Inv, WholeInv, [ImageNext]_vars PROVE WholeInv'
    OBVIOUS
  <2>1. CASE Save
    BY <2>1 DEF Save, WholeInv
  <2>2. CASE Saved
    BY <2>2 DEF Saved, WholeInv
  <2>3. CASE Stat
    <3>1. len' = WordsIn(size) /\ size' = size /\ i' = 0 /\ at' # "loaded"
          /\ (at' = "load" => ~(len' > MEM8SIZ))
      BY <2>3 DEF Stat
    <3>2. 0 \in Nat /\ i' = 2 * 0 /\ LoadedTo(i)'
      BY <3>1 DEF LoadedTo
    <3>3. len' \in Int /\ MEM8SIZ \in Int
      BY <3>1, ImageAssumption DEF ImageAssumption, Inv, Shape, WordsIn
    <3>4. at' = "load" => len' <= MEM8SIZ
      BY <3>1, <3>3
    <3>5. WordsIn(size)' = WordsIn(size)
      BY <3>1
    <3> QED
      BY <3>1, <3>2, <3>4, <3>5 DEF WholeInv
  <2>4. CASE Load
    BY <2>4, LoadLoads
  <2>5. CASE Loaded
    BY <2>5 DEF Loaded, WholeInv, LoadedTo, Within, WordOf
  <2>6. CASE UNCHANGED vars
    BY <2>6 DEF vars, WholeInv, LoadedTo, Within, WordOf
  <2> QED
    BY <2>1, <2>2, <2>3, <2>4, <2>5, <2>6 DEF ImageNext
<1>3. Inv /\ WholeInv => WholeWordsAreLoaded
  <2> SUFFICES ASSUME Inv, WholeInv, at = "loaded",
                      NEW k \in 0 .. MEM8SIZ - 1, Within(k)
               PROVE  mem8[k] = WordOf(k)
    BY DEF WholeWordsAreLoaded, Within
  <2>1. size \in Nat /\ i \in Nat /\ len \in Int /\ k \in Nat
    BY ImageAssumption DEF ImageAssumption, Inv, Shape
  <2>2. k < len /\ len <= i
    BY <2>1, WithinIsCounted DEF WholeInv
  <2> QED
    BY <2>1, <2>2 DEF WholeInv, LoadedTo
<1>4. Inv /\ [ImageNext]_vars => Inv'
  BY SaveInv, SavedInv, StatInv, LoadInv, LoadedInv, StutterInv DEF ImageNext
<1> QED
  BY InitInv, <1>1, <1>2, <1>3, <1>4, PTL DEF ImageSpec

(***************************************************************************)
(* The image in a call of pepsi                                            *)
(***************************************************************************)
(* Whatever the options, a call takes the steps of the image and no other: *)
(* it implements the specification of the image alone.                     *)
LEMMA CallStep == [StartupNext]_<<vars, startVars>> => [ImageNext]_vars
<1> SUFFICES ASSUME StartupNext PROVE [ImageNext]_vars
  OBVIOUS
<1>1. CASE Assembling
  BY <1>1 DEF Assembling, ImageNext
<1>2. CASE StatImage
  BY <1>2 DEF StatImage, ImageNext
<1>3. CASE LoadImage
  BY <1>3 DEF LoadImage, ImageNext
<1>4. CASE Option \/ CommandDone \/ OptionLine \/ LinesDone
  BY <1>4 DEF Option, CommandDone, OptionLine, LinesDone
<1>5. CASE NoImage \/ ReadSource \/ SetOrigin \/ InitDevices \/ Run \/ Dump \/ Exit
  BY <1>5 DEF NoImage, ReadSource, SetOrigin, InitDevices, Run, Dump, Exit
<1> QED
  BY <1>1, <1>2, <1>3, <1>4, <1>5 DEF StartupNext

(* So whatever pepsi is called with, what it has loaded is what pot had    *)
(* assembled (doopts and main of pepsi.c; end of main, pot.c).             *)
THEOREM EveryCallLoadsTheImage == StartupSpec => [](RoundTrip /\ WholeWordsAreLoaded)
<1>1. StartupSpec => ImageSpec
  <2>1. StartupInit => ImageInit
    BY DEF StartupInit
  <2> QED
    BY <2>1, CallStep, PTL DEF StartupSpec, ImageSpec
<1> QED
  BY <1>1, ImageRoundTrip, EveryWholeWordIsLoaded, PTL

(* Where a call stands behind the image: it is loaded, and from the        *)
(* devices on the origin has a value.                                      *)
BehindImage == stage \in {"panel", "origin", "devices", "run", "dump"}
CallInv == /\ BehindImage => at = "loaded"
           /\ stage \in {"devices", "run", "dump"} => ~(pc8 < 0)

(* No program runs before its image is loaded and without an origin that   *)
(* has a value, whichever options ask for what and whatever is missing.    *)
ProgramIsReady == stage = "run" => at = "loaded" /\ ~(pc8 < 0)

LEMMA CallInvStep == CallInv /\ [StartupNext]_<<vars, startVars>> => CallInv'
<1> SUFFICES ASSUME CallInv, [StartupNext]_<<vars, startVars>> PROVE CallInv'
  OBVIOUS
<1>1. CASE Assembling
  BY <1>1 DEF CallInv, BehindImage, Assembling, startVars
<1>2. CASE Option \/ OptionLine \/ LinesDone
  BY <1>2 DEF CallInv, BehindImage, Option, OptionLine, LinesDone, vars
<1>3. CASE CommandDone \/ NoImage \/ StatImage
  BY <1>3 DEF CallInv, BehindImage, CommandDone, NoImage, StatImage, GoTo
<1>4. CASE ReadSource \/ LoadImage
  BY <1>4 DEF CallInv, BehindImage, ReadSource, LoadImage, GoTo
<1>5. CASE SetOrigin
  BY <1>5 DEF CallInv, BehindImage, SetOrigin, vars
<1>6. CASE InitDevices \/ Run \/ Dump \/ Exit
  BY <1>6 DEF CallInv, BehindImage, InitDevices, Run, Dump, Exit, GoTo, vars
<1>7. CASE UNCHANGED <<vars, startVars>>
  BY <1>7 DEF CallInv, BehindImage, vars, startVars
<1> QED
  BY <1>1, <1>2, <1>3, <1>4, <1>5, <1>6, <1>7 DEF StartupNext

THEOREM ProgramsRunReady == StartupSpec => []ProgramIsReady
<1>1. StartupInit => CallInv
  BY DEF StartupInit, StartupWith, CallInv, BehindImage
<1>2. CallInv => ProgramIsReady
  BY DEF CallInv, BehindImage, ProgramIsReady
<1> QED
  BY <1>1, <1>2, CallInvStep, PTL DEF StartupSpec

(***************************************************************************)
(* Sequences, joined and flattened                                         *)
(***************************************************************************)
(* Every set of natural numbers has a least one.                           *)
LEMMA Least ==
  ASSUME NEW T \in SUBSET Nat, T # {}
  PROVE  \E x \in T : \A y \in T : x <= y
<1> DEFINE R == {p \in Nat \X Nat : p[1] < p[2]}
<1>1. IsWellFoundedOn(R, Nat)
  BY NatLessThanWellFounded DEF OpToRel
<1>2. \A x, y \in Nat : <<y, x>> \in R <=> y < x
  OBVIOUS
<1> HIDE DEF R
<1>3. PICK x \in T : \A y \in T : ~ (<<y, x>> \in R)
  <2>1. T \subseteq Nat
    OBVIOUS
  <2> QED
    BY <1>1, <2>1, WFMin, Zenon
<1>4. \A y \in T : ~ (y < x)
  BY <1>2, <1>3
<1> QED
  BY <1>3, <1>4

(* What the community modules call the minimum is the least.               *)
LEMMA MinLeast ==
  ASSUME NEW T \in SUBSET Nat, T # {}
  PROVE  Min(T) \in T /\ \A y \in T : Min(T) <= y
BY Least DEF Min

(* A sequence of sequences, flattened one by one.                          *)
LEMMA Flattened ==
  ASSUME NEW S, NEW seqs \in Seq(Seq(S))
  PROVE  \E u : /\ u[0] = <<>> /\ \A n \in 1 .. Len(seqs) : u[n] = u[n - 1] \o seqs[n]
                /\ \A n \in 0 .. Len(seqs) : u[n] \in Seq(S)
                /\ FlattenSeq(seqs) = u[Len(seqs)]
<1>1. PICK N \in Nat : N = Len(seqs) /\ \A k \in 1 .. N : seqs[k] \in Seq(S)
  OBVIOUS
<1>2. CASE N = 0
  <2>1. Len(seqs) = 0
    BY <1>1, <1>2
  <2>2. FlattenSeq(seqs) = seqs
    BY <2>1, Zenon DEF FlattenSeq
  <2>3. seqs = << >>
    BY <2>1
  <2> DEFINE w == [n \in 0 .. 0 |-> <<>>]
  <2>4. w[0] = << >> /\ << >> \in Seq(S) /\ \A n : n \notin 1 .. 0 /\ (n \in 0 .. 0 => n = 0)
    OBVIOUS
  <2> HIDE DEF w
  <2> QED
    BY <1>1, <1>2, <2>2, <2>3, <2>4
<1>3. CASE N # 0
  <2> DEFINE Is(f, n) == f = [k \in 1 .. n |-> IF k = 1 THEN seqs[k] ELSE f[k - 1] \o seqs[k]]
             T == {n \in 0 .. N : ~ \E f : Is(f, n)}
  <2>0. /\ \A f, n : Is(f, n) => \A k \in 1 .. n :
                       f[k] = IF k = 1 THEN seqs[k] ELSE f[k - 1] \o seqs[k]
        /\ \A f, n : (/\ f = [k \in 1 .. n |-> f[k]]
                       /\ \A k \in 1 .. n :
                            f[k] = (IF k = 1 THEN seqs[k] ELSE f[k - 1] \o seqs[k]))
                      => Is(f, n)
    OBVIOUS
  <2>2. FlattenSeq(seqs) = (CHOOSE f : Is(f, N))[N]
    BY <1>1, <1>3 DEF FlattenSeq
  <2> HIDE DEF Is
  <2>1. T = {}
    <3> SUFFICES ASSUME T # {} PROVE FALSE
      OBVIOUS
    <3>1. PICK n \in T : \A m \in T : n <= m
      <4>1. T \in SUBSET Nat
        BY <1>1
      <4> HIDE DEF T
      <4> QED
        BY <4>1, Least
    <3>2. n \in 0 .. N /\ n \in Nat
      BY <1>1
    <3>3. CASE n = 0
      <4> DEFINE f == [k \in 1 .. 0 |-> seqs[k]]
      <4>1. f = [k \in 1 .. 0 |-> f[k]] /\ \A k : k \notin 1 .. 0
        OBVIOUS
      <4> HIDE DEF f
      <4>2. Is(f, 0)
        BY <2>0, <4>1
      <4> QED
        BY <3>3, <4>2
    <3>4. CASE n # 0
      <4>1. n - 1 \in 0 .. N /\ n \in 1 .. N /\ ~(n <= n - 1)
        BY <1>1, <3>2, <3>4
      <4>0. n - 1 \notin T
        BY <3>1, <4>1, Zenon
      <4>2. PICK g : Is(g, n - 1)
        BY <4>0, <4>1
      <4> DEFINE f == [k \in 1 .. n |-> IF k # n THEN g[k] ELSE IF n = 1 THEN seqs[n]
                                       ELSE g[n - 1] \o seqs[n]]
      <4>3. \A k \in 1 .. n - 1 : g[k] = IF k = 1 THEN seqs[k] ELSE g[k - 1] \o seqs[k]
        BY <2>0, <4>2
      <4>4. ASSUME NEW k \in 1 .. n PROVE f[k] = IF k = 1 THEN seqs[k] ELSE f[k - 1] \o seqs[k]
        <5>1. CASE k = n
          <6>1. n # 1 => f[n - 1] = g[n - 1]
            BY <3>2, <3>4
          <6>2. f[n] = IF n = 1 THEN seqs[n] ELSE g[n - 1] \o seqs[n]
            BY <3>2, <3>4
          <6> HIDE DEF f
          <6> QED
            BY <5>1, <6>1, <6>2
        <5>2. CASE k # n
          <6>1. k \in 1 .. n - 1 /\ f[k] = g[k] /\ (k # 1 => f[k - 1] = g[k - 1])
            BY <3>2, <5>2
          <6> HIDE DEF f
          <6>2. g[k] = IF k = 1 THEN seqs[k] ELSE g[k - 1] \o seqs[k]
            BY <4>3, <6>1
          <6> QED
            BY <6>1, <6>2
        <5> QED
          BY <5>1, <5>2
      <4>5. Is(f, n)
        <5>1. f = [k \in 1 .. n |-> f[k]]
          OBVIOUS
        <5> HIDE DEF f
        <5>2. \A k \in 1 .. n : f[k] = (IF k = 1 THEN seqs[k] ELSE f[k - 1] \o seqs[k])
          BY <4>4
        <5> QED
          BY <5>1, <5>2 DEF Is
      <4> HIDE DEF f
      <4> QED
        BY <4>5
    <3> QED
      BY <3>3, <3>4
  <2> DEFINE u == CHOOSE f : Is(f, N)
  <2>3. PICK g : Is(g, N)
    BY <1>1, <2>1
  <2>4. Is(u, N)
    BY <2>3
  <2>5. \A n \in 1 .. N : u[n] \in Seq(S)
    <3> DEFINE V == {n \in 1 .. N : u[n] \notin Seq(S)}
    <3>1. \A k \in 1 .. N : u[k] = IF k = 1 THEN seqs[k] ELSE u[k - 1] \o seqs[k]
      BY <2>0, <2>4
    <3>2. V = {}
      <4> HIDE DEF u
      <4> SUFFICES ASSUME V # {} PROVE FALSE
        OBVIOUS
      <4>1. PICK n \in V : \A m \in V : n <= m
        <5>1. V \in SUBSET Nat
          BY <1>1
        <5> HIDE DEF V
        <5> QED
          BY <5>1, Least
      <4>2. n \in 1 .. N /\ u[n] \notin Seq(S)
        OBVIOUS
      <4>3. n # 1 => n - 1 \in 1 .. N /\ n - 1 \notin V
        BY <1>1, <4>1, <4>2
      <4>4. n # 1 => u[n - 1] \in Seq(S)
        BY <4>3
      <4>5. CASE n = 1
        BY <1>1, <3>1, <4>2, <4>5
      <4>6. CASE n # 1
        <5>1. u[n] = u[n - 1] \o seqs[n] /\ seqs[n] \in Seq(S)
          BY <1>1, <3>1, <4>2, <4>6
        <5> QED
          BY <4>2, <4>4, <4>6, <5>1, ConcatProperties
      <4> QED
        BY <4>5, <4>6
    <3> QED
      BY <3>2
  <2>6. \A k \in 1 .. N : u[k] = IF k = 1 THEN seqs[k] ELSE u[k - 1] \o seqs[k]
    BY <2>0, <2>4
  <2>11. FlattenSeq(seqs) = u[N]
    BY <2>2, Zenon
  <2> HIDE DEF u
  <2> DEFINE w == [n \in 0 .. N |-> IF n = 0 THEN <<>> ELSE u[n]]
  <2>7. w[0] = << >> /\ w[N] = u[N]
    BY <1>1, <1>3
  <2>8. \A n \in 0 .. N : w[n] \in Seq(S)
    BY <1>1, <2>5
  <2>9. ASSUME NEW n \in 1 .. N PROVE w[n] = w[n - 1] \o seqs[n]
    <3>1. w[n] = u[n] /\ w[n - 1] = (IF n = 1 THEN << >> ELSE u[n - 1]) /\ seqs[n] \in Seq(S)
      BY <1>1
    <3>2. CASE n = 1
      <4>1. << >> \o seqs[n] = seqs[n]
        BY <3>1, ConcatEmptySeq
      <4> QED
        BY <2>6, <3>1, <3>2, <4>1
    <3>3. CASE n # 1
      BY <2>6, <3>1, <3>3
    <3> QED
      BY <3>2, <3>3
  <2> HIDE DEF w
  <2>10. FlattenSeq(seqs) = w[N]
    BY <2>7, <2>11, Zenon
  <2> QED
    BY <1>1, <2>7, <2>8, <2>9, <2>10, Zenon
<1> QED
  BY <1>2, <1>3

(* Sequences put before each other one by one.                             *)
LEMMA Builds ==
  ASSUME NEW S, NEW n \in Nat, NEW x \in [1 .. n -> Seq(S)]
  PROVE  \E f : /\ f[0] = <<>> /\ \A k \in 1 .. n : f[k] = x[k] \o f[k - 1]
                /\ \A k \in 0 .. n : f[k] \in Seq(S)
<1> DEFINE Is(f, m) == /\ f[0] = <<>> /\ \A k \in 1 .. m : f[k] = x[k] \o f[k - 1]
                       /\ \A k \in 0 .. m : f[k] \in Seq(S)
           T == {m \in 0 .. n : ~ \E f : Is(f, m)}
<1>1. T = {}
  <2> SUFFICES ASSUME T # {} PROVE FALSE
    OBVIOUS
  <2>1. PICK m \in T : \A k \in T : m <= k
    <3> HIDE DEF Is
    <3>1. T \in SUBSET Nat
      OBVIOUS
    <3> HIDE DEF T
    <3> QED
      BY <3>1, Least
  <2>2. m \in 0 .. n /\ m \in Nat
    <3> HIDE DEF Is
    <3> QED
      OBVIOUS
  <2>3. CASE m = 0
    <3> DEFINE f == [k \in 0 .. 0 |-> <<>>]
    <3>1. f[0] = << >> /\ << >> \in Seq(S) /\ \A k : k \notin 1 .. 0 /\ (k \in 0 .. 0 => k = 0)
      OBVIOUS
    <3> HIDE DEF f
    <3>2. Is(f, 0)
      BY <3>1
    <3> HIDE DEF Is
    <3> QED
      BY <2>3, <3>2
  <2>4. CASE m # 0
    <3>1. m - 1 \in 0 .. n /\ ~(m <= m - 1) /\ m \in 1 .. n
      BY <2>2, <2>4
    <3>2. m - 1 \notin T
      BY <2>1, <3>1, Zenon
    <3>3. PICK g : Is(g, m - 1)
      BY <3>1, <3>2
    <3> DEFINE f == [k \in 0 .. m |-> IF k = m THEN x[m] \o g[m - 1] ELSE g[k]]
    <3>4. /\ f[m] = x[m] \o g[m - 1] /\ x[m] \in Seq(S)
          /\ \A k \in 0 .. m - 1 : f[k] = g[k]
      BY <2>2, <3>1
    <3> HIDE DEF f, T
    <3>5. f[0] = <<>>
      BY <2>2, <2>4, <3>3, <3>4
    <3>6. ASSUME NEW k \in 1 .. m PROVE f[k] = x[k] \o f[k - 1]
      <4>1. CASE k = m
        <5>1. f[m - 1] = g[m - 1]
          BY <3>1, <3>4
        <5> QED
          BY <3>4, <4>1, <5>1
      <4>2. CASE k # m
        <5>1. k \in 1 .. m - 1 /\ f[k] = g[k] /\ f[k - 1] = g[k - 1]
          BY <2>2, <3>4, <4>2
        <5>2. g[k] = x[k] \o g[k - 1]
          BY <3>3, <5>1
        <5> QED
          BY <5>1, <5>2
      <4> QED
        BY <4>1, <4>2
    <3>7. ASSUME NEW k \in 0 .. m PROVE f[k] \in Seq(S)
      <4>1. CASE k = m
        <5>1. g[m - 1] \in Seq(S)
          BY <3>1, <3>3
        <5> QED
          BY <3>4, <4>1, <5>1, ConcatProperties
      <4>2. CASE k # m
        <5>1. k \in 0 .. m - 1
          BY <2>2, <4>2
        <5> QED
          BY <3>3, <3>4, <5>1
      <4> QED
        BY <4>1, <4>2
    <3>8. Is(f, m)
      BY <3>5, <3>6, <3>7
    <3> HIDE DEF Is
    <3> QED
      BY <2>1, <2>2, <3>8 DEF T
  <2> QED
    BY <2>3, <2>4
<1>2. n \in 0 .. n
  OBVIOUS
<1>3. PICK f : Is(f, n)
  BY <1>1, <1>2
<1> QED
  BY <1>3

(* Both parts of a sequence that is joined are in it.                      *)
LEMMA Joined ==
  ASSUME NEW S, NEW s \in Seq(S), NEW t \in Seq(S), NEW w, w = s \o t
  PROVE  /\ w \in Seq(S) /\ Len(w) = Len(s) + Len(t)
         /\ \A j \in 1 .. Len(s) : w[j] = s[j]
         /\ \A j \in 1 .. Len(t) : w[Len(s) + j] = t[j]
<1>1. /\ w \in Seq(S) /\ Len(w) = Len(s) + Len(t)
      /\ \A j \in 1 .. Len(s) + Len(t) : w[j] = IF j <= Len(s) THEN s[j] ELSE t[j - Len(s)]
  BY ConcatProperties
<1>2. Len(s) \in Nat /\ Len(t) \in Nat
  BY LenProperties
<1>3. ASSUME NEW j \in 1 .. Len(s) PROVE w[j] = s[j]
  BY <1>1, <1>2
<1>4. ASSUME NEW j \in 1 .. Len(t) PROVE w[Len(s) + j] = t[j]
  <2>1. Len(s) + j \in 1 .. Len(s) + Len(t) /\ ~(Len(s) + j <= Len(s)) /\ (Len(s) + j) - Len(s) = j
    BY <1>2
  <2> QED
    BY <1>1, <2>1
<1> QED
  BY <1>1, <1>3, <1>4

(* e says where in f each of seqs ends.                                    *)
PartsAt(e, seqs, f) ==
  /\ e[0] = 0 /\ e[Len(seqs)] = Len(f)
  /\ \A n \in 0 .. Len(seqs) : e[n] \in 0 .. Len(f)
  /\ \A n \in 1 .. Len(seqs) :
       /\ e[n] = e[n - 1] + Len(seqs[n])
       /\ \A j \in 1 .. Len(seqs[n]) : f[e[n - 1] + j] = seqs[n][j]

(* Each part of a flattened sequence is at its place in the whole.         *)
LEMMA FlatParts ==
  ASSUME NEW S, NEW seqs \in Seq(Seq(S))
  PROVE  /\ FlattenSeq(seqs) \in Seq(S)
         /\ \E e : PartsAt(e, seqs, FlattenSeq(seqs))
<1>1. PICK N \in Nat : N = Len(seqs) /\ \A n \in 1 .. N : seqs[n] \in Seq(S)
  OBVIOUS
<1>2. PICK u : /\ u[0] = <<>> /\ \A n \in 1 .. N : u[n] = u[n - 1] \o seqs[n]
               /\ \A n \in 0 .. N : u[n] \in Seq(S)
               /\ FlattenSeq(seqs) = u[N]
  BY <1>1, Flattened
<1> DEFINE U == u[N]
<1>3. U \in Seq(S) /\ N \in 0 .. N
  BY <1>1, <1>2
<1>4. \A n \in 0 .. N : Len(u[n]) \in Nat
  BY <1>2, LenProperties
<1>5. ASSUME NEW n \in 1 .. N
      PROVE  /\ Len(u[n]) = Len(u[n - 1]) + Len(seqs[n])
             /\ \A j \in 1 .. Len(u[n - 1]) : u[n][j] = u[n - 1][j]
             /\ \A j \in 1 .. Len(seqs[n]) : u[n][Len(u[n - 1]) + j] = seqs[n][j]
  <2>0. n - 1 \in 0 .. N
    BY <1>1
  <2>1. PICK s, t, w : s \in Seq(S) /\ t \in Seq(S) /\ s = u[n - 1] /\ t = seqs[n] /\ w = u[n] /\ w = s \o t
    BY <1>1, <1>2, <2>0
  <2>2. /\ Len(w) = Len(s) + Len(t)
        /\ \A j \in 1 .. Len(s) : w[j] = s[j]
        /\ \A j \in 1 .. Len(t) : w[Len(s) + j] = t[j]
    <3>1. w = s \o t
      BY <2>1
    <3> HIDE DEF U
    <3> QED
      BY <3>1, Joined
  <2> QED
    BY <2>1, <2>2
<1> DEFINE Pre(n) == /\ Len(u[n]) <= Len(U)
                     /\ \A j \in 1 .. Len(u[n]) : U[j] = u[n][j]
           T == {m \in 0 .. N : ~ Pre(N - m)}
<1>6. T = {}
  <2> SUFFICES ASSUME T # {} PROVE FALSE
    OBVIOUS
  <2>1. PICK m \in T : \A k \in T : m <= k
    <3>1. T \in SUBSET Nat
      <4> HIDE DEF Pre
      <4> QED
        OBVIOUS
    <3> HIDE DEF T
    <3> QED
      BY <3>1, Least
  <2> HIDE DEF Pre
  <2>2. m \in 0 .. N /\ m \in Nat /\ ~ Pre(N - m)
    OBVIOUS
  <2>3. CASE m = 0
    <3>1. Pre(N)
      BY <1>3, <1>4 DEF Pre
    <3> QED
      BY <2>2, <2>3, <3>1
  <2>4. CASE m # 0
    <3>1. m - 1 \in 0 .. N /\ ~(m <= m - 1) /\ N - (m - 1) = (N - m) + 1
      BY <2>2, <2>4
    <3>2. m - 1 \notin T
      BY <2>1, <3>1, Zenon
    <3>3. Pre((N - m) + 1)
      BY <3>1, <3>2
    <3> HIDE DEF T, U
    <3>4. PICK n \in 1 .. N : n = (N - m) + 1 /\ n - 1 = N - m
      <4>1. (N - m) + 1 \in 1 .. N /\ ((N - m) + 1) - 1 = N - m
        BY <1>1, <2>2, <2>4
      <4> QED
        BY <4>1
    <3>5. Pre(n) /\ Len(u[n]) \in Nat /\ Len(u[n - 1]) \in Nat /\ Len(seqs[n]) \in Nat
      BY <1>1, <1>4, <3>3, <3>4, LenProperties
    <3>6. Pre(n - 1)
      <4>1. /\ Len(u[n]) <= Len(U) /\ \A j \in 1 .. Len(u[n]) : U[j] = u[n][j]
        BY <3>5 DEF Pre
      <4>2. Len(U) \in Nat /\ Len(u[n]) = Len(u[n - 1]) + Len(seqs[n])
        BY <1>3, <1>5, LenProperties
      <4>5. PICK p \in Nat, q \in Nat, v \in Nat :
              p = Len(u[n - 1]) /\ q = Len(seqs[n]) /\ v = Len(u[n]) /\ v = p + q
        BY <3>5, <4>2, Zenon
      <4>6. p <= v /\ \A j \in 1 .. p : j \in 1 .. v
        <5>1. v = p + q
          BY <4>5, Zenon
        <5> QED
          BY <5>1
      <4>3. ASSUME NEW j \in 1 .. Len(u[n - 1]) PROVE U[j] = u[n - 1][j]
        <5>1. j \in 1 .. Len(u[n])
          BY <4>5, <4>6, Zenon
        <5> QED
          BY <1>5, <4>1, <5>1
      <4>4. Len(u[n - 1]) <= Len(U)
        <5>0. PICK y \in Nat : y = Len(U) /\ v <= y
          BY <4>1, <4>2, <4>5, Zenon
        <5>1. v <= y
          BY <5>0
        <5>2. p <= y
          BY <4>6, <5>1
        <5> QED
          BY <4>5, <5>0, <5>2, Zenon
      <4> QED
        BY <4>3, <4>4 DEF Pre
    <3> QED
      BY <2>2, <3>4, <3>6
  <2> QED
    BY <2>3, <2>4
<1>7. ASSUME NEW n \in 0 .. N PROVE Pre(n)
  <2>1. N - n \in 0 .. N /\ N - (N - n) = n
    BY <1>1
  <2> HIDE DEF Pre
  <2> QED
    BY <1>6, <2>1
<1> DEFINE e == [n \in 0 .. N |-> Len(u[n])]
<1>8. \A n \in 0 .. N : e[n] = Len(u[n]) /\ e[n] \in Nat /\ e[n] <= Len(U)
  BY <1>4, <1>7
<1>9. Len(U) \in Nat
  BY <1>3, LenProperties
<1>10. ASSUME NEW n \in 1 .. N
       PROVE  /\ e[n] = e[n - 1] + Len(seqs[n])
              /\ \A j \in 1 .. Len(seqs[n]) : U[e[n - 1] + j] = seqs[n][j]
  <2>1. n - 1 \in 0 .. N /\ n \in 0 .. N
    BY <1>1
  <2>2. e[n] = e[n - 1] + Len(seqs[n])
    BY <1>5, <1>8, <2>1
  <2>3. ASSUME NEW j \in 1 .. Len(seqs[n]) PROVE U[e[n - 1] + j] = seqs[n][j]
    <3>1. Len(seqs[n]) \in Nat /\ e[n - 1] \in Nat
      BY <1>1, <1>8, <2>1, LenProperties
    <3>2. Len(u[n]) = e[n - 1] + Len(seqs[n])
      BY <1>8, <2>1, <2>2
    <3>3. e[n - 1] + j \in 1 .. Len(u[n])
      <4> HIDE DEF e
      <4> QED
        BY <3>1, <3>2
    <3>4. U[e[n - 1] + j] = u[n][e[n - 1] + j]
      <4> HIDE DEF e, U
      <4> QED
        BY <1>7, <2>1, <3>3
    <3>5. u[n][e[n - 1] + j] = seqs[n][j]
      BY <1>5, <1>8, <2>1
    <3> QED
      BY <3>4, <3>5
  <2> QED
    BY <2>2, <2>3
<1>11. e[0] = 0 /\ e[N] = Len(U)
  BY <1>1, <1>2, <1>8
<1> HIDE DEF e
<1>12. FlattenSeq(seqs) = U
  BY <1>2
<1> HIDE DEF U
<1> QED
  <2>1. PartsAt(e, seqs, U)
    BY <1>1, <1>8, <1>9, <1>10, <1>11 DEF PartsAt
  <2> QED
    BY <1>3, <1>12, <2>1

(* One put before others is the first again, and the others the rest.      *)
LEMMA HeadTailOfCons ==
  ASSUME NEW S, NEW r \in S, NEW rest \in Seq(S)
  PROVE  <<r>> \o rest # <<>> /\ Head(<<r>> \o rest) = r /\ Tail(<<r>> \o rest) = rest
<1>1. PICK one \in Seq(S) : one = <<r>> /\ Len(one) = 1 /\ one[1] = r
  <2>1. <<r>> \in Seq(S) /\ Len(<<r>>) = 1 /\ <<r>>[1] = r
    OBVIOUS
  <2> QED
    BY <2>1
<1>0. PICK w \in Seq(S) : w = one \o rest /\ w = <<r>> \o rest
  BY <1>1, ConcatProperties
<1>2. /\ Len(w) = 1 + Len(rest) /\ w[1] = r
      /\ \A j \in 1 .. Len(rest) : w[1 + j] = rest[j]
  <2>1. w = one \o rest
    BY <1>0
  <2>2. /\ Len(w) = Len(one) + Len(rest)
        /\ \A j \in 1 .. Len(one) : w[j] = one[j]
        /\ \A j \in 1 .. Len(rest) : w[Len(one) + j] = rest[j]
    BY <2>1, Joined
  <2> QED
    BY <1>1, <2>2
<1>3. w # <<>> /\ Len(rest) \in Nat
  BY <1>2, LenProperties, EmptySeq
<1>4. PICK t \in Seq(S) : t = Tail(w) /\ Len(t) = Len(w) - 1 /\ \A j \in 1 .. Len(t) : t[j] = w[j + 1]
  <2>1. /\ Tail(w) \in Seq(S) /\ Len(Tail(w)) = Len(w) - 1
        /\ \A j \in 1 .. Len(Tail(w)) : Tail(w)[j] = w[j + 1]
    BY <1>3, HeadTailProperties
  <2> QED
    BY <2>1
<1>5. Len(t) = Len(rest)
  BY <1>2, <1>3, <1>4
<1>6. \A j \in 1 .. Len(t) : t[j] = rest[j]
  <2> SUFFICES ASSUME NEW j \in 1 .. Len(t) PROVE t[j] = rest[j]
    OBVIOUS
  <2>1. j \in 1 .. Len(rest) /\ j + 1 = 1 + j
    BY <1>5
  <2> QED
    BY <1>2, <1>4, <2>1
<1>7. t = rest
  BY <1>5, <1>6, SeqEqual
<1>8. Head(w) = r
  BY <1>2, <1>3
<1> QED
  BY <1>0, <1>3, <1>4, <1>7, <1>8

(***************************************************************************)
(* The options of a call                                                   *)
(***************************************************************************)
(* What a call is made of, and that every line is one that is read.        *)
LEMMA SetupParts ==
  ASSUME IsSetup(setup)
  PROVE  /\ setup.args \in Seq(OptionUse) /\ Lines \in Seq(PopLine)
         /\ setup.pop \in Seq(PopLine) /\ setup.symbols \in Seq([symbol : STRING, location : Nat])
         /\ \A k \in DOMAIN Lines : OptionsOf(Lines[k]) \in Seq(OptionUse)
         /\ \A k \in DOMAIN setup.pop : \E j \in DOMAIN Lines : Lines[j] = setup.pop[k]
<1>1. /\ setup.args \in Seq(OptionUse) /\ setup.pop \in Seq(PopLine)
      /\ setup.symbols \in Seq([symbol : STRING, location : Nat])
  BY DEF IsSetup
<1>2. /\ Lines \in Seq(PopLine)
      /\ \A k \in DOMAIN setup.pop : \E j \in DOMAIN Lines : Lines[j] = setup.pop[k]
  <2>1. CASE setup.pop = << >>
    BY <2>1 DEF Lines
  <2>2. CASE setup.pop # << >>
    <3>1. Last(setup.pop) \in PopLine
      BY <1>1, <2>2 DEF Last
    <3>2. PICK w : w = Append(setup.pop, Last(setup.pop)) /\ w = Lines
      BY <2>2 DEF Lines
    <3> DEFINE s == setup.pop
    <3>3. PICK p \in PopLine : p = Last(setup.pop)
      BY <3>1
    <3>4. s \in Seq(PopLine) /\ w = Append(s, p)
      BY <1>1, <3>2, <3>3
    <3> HIDE DEF s
    <3>5. /\ w \in Seq(PopLine) /\ Len(w) = Len(s) + 1
          /\ \A k \in 1 .. Len(s) : w[k] = s[k]
      BY <3>4, AppendProperties
    <3>6. w \in Seq(PopLine) /\ \A k \in DOMAIN s : k \in DOMAIN w /\ w[k] = s[k]
      BY <3>4, <3>5
    <3>7. w \in Seq(PopLine) /\ \A k \in DOMAIN setup.pop : k \in DOMAIN w /\ w[k] = setup.pop[k]
      BY <3>6 DEF s
    <3> QED
      BY <3>2, <3>7
  <2> QED
    BY <2>1, <2>2
<1>3. \A k \in DOMAIN Lines : OptionsOf(Lines[k]) \in Seq(OptionUse)
  <2>1. \A l \in PopLine : OptionsOf(l) \in Seq(OptionUse)
    BY DEF PopLine, OptionsOf
  <2> QED
    BY <1>2, <2>1
<1> QED
  BY <1>1, <1>2, <1>3

Request == [from : Parameter, cnt : Int]

(* e says where in the options given those of each line end.               *)
IsEnds(e) ==
  /\ e[0] = Len(setup.args)
  /\ \A j \in 1 .. Len(setup.args) : Given[j] = setup.args[j]
  /\ \A n \in 0 .. Len(Lines) : e[n] \in 0 .. Len(Given)
  /\ \A n \in 1 .. Len(Lines) :
       /\ e[n] = e[n - 1] + Len(OptionsOf(Lines[n]))
       /\ \A j \in 1 .. Len(OptionsOf(Lines[n])) : Given[e[n - 1] + j] = OptionsOf(Lines[n])[j]
  /\ e[Len(Lines)] = Len(Given)

(* Where the options of a line begin and end among all that are given.     *)
LEMMA Ends ==
  ASSUME IsSetup(setup)
  PROVE  Given \in Seq(OptionUse) /\ \E e : IsEnds(e)
<1>1. PICK L \in Nat : L = Len(Lines) /\ DOMAIN Lines = 1 .. L
  BY SetupParts, LenProperties
<1>2. PICK seqs : /\ seqs = [k \in DOMAIN Lines |-> OptionsOf(Lines[k])]
                  /\ seqs \in Seq(Seq(OptionUse)) /\ Len(seqs) = L
                  /\ \A n \in 1 .. L : seqs[n] = OptionsOf(Lines[n])
  <2> DEFINE s == [k \in 1 .. L |-> OptionsOf(Lines[k])]
  <2>1. \A n \in 1 .. L : OptionsOf(Lines[n]) \in Seq(OptionUse)
    BY <1>1, SetupParts
  <2>2. s \in Seq(Seq(OptionUse)) /\ Len(s) = L
    BY <1>1, <2>1
  <2>3. \A n \in 1 .. L : s[n] = OptionsOf(Lines[n])
    OBVIOUS
  <2>4. s = [k \in DOMAIN Lines |-> OptionsOf(Lines[k])]
    BY <1>1
  <2> HIDE DEF s
  <2> QED
    BY <2>2, <2>3, <2>4
<1>3. PICK F \in Seq(OptionUse) : F = FlattenSeq(seqs)
  BY <1>2, FlatParts
<1>4. PICK f : /\ f[0] = 0 /\ f[L] = Len(F)
               /\ \A n \in 0 .. L : f[n] \in 0 .. Len(F)
               /\ \A n \in 1 .. L :
                    /\ f[n] = f[n - 1] + Len(seqs[n])
                    /\ \A j \in 1 .. Len(seqs[n]) : F[f[n - 1] + j] = seqs[n][j]
  <2>1. \E e : PartsAt(e, seqs, FlattenSeq(seqs))
    <3>1. seqs \in Seq(Seq(OptionUse))
      BY <1>2
    <3> QED
      BY <3>1, FlatParts, Zenon
  <2>2. PICK f : PartsAt(f, seqs, F)
    BY <1>3, <2>1
  <2> QED
    BY <1>2, <2>2 DEF PartsAt
<1>5. PICK a \in Seq(OptionUse) : a = setup.args
  BY SetupParts
<1>6. Given = a \o F
  BY <1>2, <1>3, <1>5 DEF Given
<1>7. /\ Given \in Seq(OptionUse) /\ Len(Given) = Len(a) + Len(F)
      /\ \A j \in 1 .. Len(a) : Given[j] = a[j]
      /\ \A j \in 1 .. Len(F) : Given[Len(a) + j] = F[j]
  BY <1>6, Joined
<1>8. Len(a) \in Nat /\ Len(F) \in Nat
  BY LenProperties
<1> DEFINE e == [n \in 0 .. L |-> Len(a) + f[n]]
<1>9. \A n \in 0 .. L : e[n] = Len(a) + f[n] /\ e[n] \in 0 .. Len(Given)
  BY <1>4, <1>7, <1>8
<1>10. e[0] = Len(a) /\ e[L] = Len(Given)
  BY <1>1, <1>4, <1>7, <1>8, <1>9
<1> HIDE DEF e
<1>11. ASSUME NEW n \in 1 .. L
       PROVE  /\ e[n] = e[n - 1] + Len(OptionsOf(Lines[n]))
              /\ \A j \in 1 .. Len(OptionsOf(Lines[n])) :
                   Given[e[n - 1] + j] = OptionsOf(Lines[n])[j]
  <2>1. /\ n - 1 \in 0 .. L /\ n \in 0 .. L /\ seqs[n] = OptionsOf(Lines[n])
        /\ Len(seqs[n]) \in Nat /\ f[n - 1] \in Nat /\ f[n] \in 0 .. Len(F)
        /\ f[n] = f[n - 1] + Len(seqs[n])
    <3>1. n - 1 \in 0 .. L /\ n \in 0 .. L
      BY <1>1
    <3>2. seqs[n] = OptionsOf(Lines[n]) /\ Len(seqs[n]) \in Nat
      <4>1. seqs[n] \in Seq(OptionUse)
        BY <1>2
      <4> QED
        BY <1>2, <4>1, LenProperties
    <3>3. \A k \in 0 .. L : f[k] \in 0 .. Len(F)
      BY <1>4
    <3>4. f[n - 1] \in Nat /\ f[n] \in 0 .. Len(F)
      BY <1>8, <3>1, <3>3
    <3> QED
      BY <1>4, <3>1, <3>2, <3>4
  <2>2. e[n] = e[n - 1] + Len(seqs[n])
    BY <1>8, <1>9, <2>1
  <2>3. ASSUME NEW j \in 1 .. Len(seqs[n]) PROVE Given[e[n - 1] + j] = seqs[n][j]
    <3>1. f[n - 1] + j \in 1 .. Len(F)
      BY <1>8, <2>1
    <3>2. e[n - 1] + j = Len(a) + (f[n - 1] + j)
      BY <1>8, <1>9, <2>1
    <3> QED
      BY <1>4, <1>7, <3>1, <3>2
  <2> QED
    BY <2>1, <2>2, <2>3
<1> QED
  BY <1>1, <1>5, <1>7, <1>9, <1>10, <1>11 DEF IsEnds

(* What an option puts before the dumps there are.                         *)
DumpOf(o) == IF o.opt = "d" /\ o.cnt >= 0 THEN <<[from |-> o.tok, cnt |-> o.cnt]>> ELSE <<>>

(* D[k] is what the first k options ask to be dumped.                      *)
IsDumps(D) ==
  /\ D[0] = <<>> /\ \A k \in 0 .. Len(Given) : D[k] \in Seq(Request)
  /\ \A k \in 1 .. Len(Given) : D[k] = DumpOf(Given[k]) \o D[k - 1]

(* u[n] is what the last n options have printed.                           *)
IsPrint(u) ==
  /\ u[0] = <<>> /\ \A n \in 0 .. Len(Given) : u[n] \in Seq([addr : Nat, cnt : Int])
  /\ \A n \in 1 .. Len(Given) : u[n] = u[n - 1] \o Printed(Given[Len(Given) - n + 1])
  /\ Asked = u[Len(Given)]

LEMMA DumpsAre ==
  ASSUME IsSetup(setup)
  PROVE  \E D : IsDumps(D)
<1>1. PICK G \in Seq(OptionUse) : G = Given
  BY Ends
<1>2. PICK L \in Nat : L = Len(G) /\ \A k \in 1 .. L : G[k] \in OptionUse
  BY <1>1, LenProperties
<1>3. \A o \in OptionUse : DumpOf(o) \in Seq(Request)
  <2> SUFFICES ASSUME NEW o \in OptionUse PROVE DumpOf(o) \in Seq(Request)
    OBVIOUS
  <2>1. PICK r \in Request : r = [from |-> o.tok, cnt |-> o.cnt]
    BY DEF OptionUse, Request
  <2>2. <<r>> \in Seq(Request) /\ << >> \in Seq(Request)
    OBVIOUS
  <2>3. DumpOf(o) = IF o.opt = "d" /\ o.cnt >= 0 THEN <<r>> ELSE << >>
    BY <2>1 DEF DumpOf
  <2> QED
    BY <2>2, <2>3
<1> DEFINE x == [k \in 1 .. L |-> DumpOf(G[k])]
<1>4. x \in [1 .. L -> Seq(Request)] /\ \A k \in 1 .. L : x[k] = DumpOf(G[k])
  BY <1>2, <1>3
<1> HIDE DEF x
<1>5. PICK D : /\ D[0] = <<>> /\ \A k \in 1 .. L : D[k] = x[k] \o D[k - 1]
               /\ \A k \in 0 .. L : D[k] \in Seq(Request)
  BY <1>4, Builds
<1>6. \A k \in 1 .. L : D[k] = DumpOf(G[k]) \o D[k - 1]
  BY <1>4, <1>5
<1> QED
  BY <1>1, <1>2, <1>5, <1>6 DEF IsDumps

LEMMA MinFirst ==
  ASSUME NEW T \in SUBSET Nat, T # {}, 0 \notin T
  PROVE  Min(T) \in T /\ Min(T) # 0
BY MinLeast

LEMMA PlaceIsNat ==
  ASSUME IsSetup(setup), NEW tok \in Parameter, HasPlace(tok)
  PROVE  Place(tok) \in Nat
<1>1. PICK s \in Seq([symbol : STRING, location : Nat]) : s = setup.symbols
  BY SetupParts
<1>2. ASSUME NEW k \in 1 .. Len(s) PROVE s[k].location \in Nat
  <2>1. s[k] \in [symbol : STRING, location : Nat]
    BY ElementOfSeq
  <2> QED
    BY <2>1
<1>3. CASE Knows(tok)
  <2> DEFINE I == {k \in 1 .. Len(s) : Named(tok, s[k])}
  <2>1. I # {} /\ I \in SUBSET Nat /\ I \subseteq 1 .. Len(s)
    BY <1>1, <1>3, LenProperties DEF Knows
  <2>2. Place(tok) = s[IF I # {} THEN Min(I) ELSE 0].location
    BY <1>1, <1>3 DEF Place, SelectInSeq
  <2> HIDE DEF I
  <2>3. Min(I) \in 1 .. Len(s)
    BY <2>1, MinLeast
  <2> QED
    BY <1>2, <2>1, <2>2, <2>3
<1>4. CASE ~ Knows(tok)
  BY <1>4 DEF Place, Parameter
<1> QED
  BY <1>3, <1>4

(* What getparam finds, once the listing is read or is not.                *)
LEMMA ParamPlace ==
  ASSUME IsSetup(setup), NEW tok \in Parameter,
         symbols = IF Sourced THEN setup.symbols ELSE <<>>
  PROVE  /\ Param(tok) >= 0 <=> HasPlace(tok) /\ (Knows(tok) => Sourced)
         /\ Param(tok) >= 0 => Param(tok) = Place(tok) /\ Param(tok) \in Nat
         /\ Param(tok) \in Int
<1>1. PICK s \in Seq([symbol : STRING, location : Nat]) : s = symbols
  BY SetupParts, EmptySeq
<1> DEFINE I == {k \in 1 .. Len(s) : Named(tok, s[k])}
           K == IF I # {} THEN Min(I) ELSE 0
<1>2. I \in SUBSET Nat /\ I \subseteq 1 .. Len(s) /\ DOMAIN s = 1 .. Len(s)
  BY LenProperties
<1>3. Param(tok) = CASE K # 0              -> s[K].location
                     [] tok.kind = "octal" -> Octal(tok)
                     [] tok.kind = "empty" -> NOPARA
                     [] OTHER              -> ADRERR
  BY <1>1 DEF Param, SelectInSeq
<1>4. I # {} <=> Sourced /\ Knows(tok)
  BY <1>1, <1>2 DEF Knows
<1>5. CASE I # {}
  <2>1. K = Min(I) /\ K \in I /\ K # 0 /\ K \in 1 .. Len(s)
    <3>1. 0 \notin I
      BY <1>2
    <3> HIDE DEF I
    <3> QED
      BY <1>2, <1>5, <3>1, MinFirst
  <2>2. tok.kind = "name"
    BY <2>1 DEF Named
  <2>3. Param(tok) = s[K].location
    <3> HIDE DEF K
    <3> QED
      BY <1>3, <2>1, <2>2
  <2>4. s[K].location \in Nat
    <3> HIDE DEF K
    <3>1. s[K] \in [symbol : STRING, location : Nat]
      BY <2>1, ElementOfSeq
    <3> QED
      BY <3>1
  <2>5. Sourced /\ Knows(tok) /\ HasPlace(tok)
    BY <1>4, <1>5 DEF HasPlace
  <2>6. Place(tok) = s[K].location
    BY <1>1, <2>5 DEF Place, SelectInSeq
  <2> HIDE DEF K
  <2> QED
    BY <2>3, <2>4, <2>5, <2>6
<1>6. CASE I = {}
  <2>1. K = 0 /\ ~(Sourced /\ Knows(tok))
    BY <1>4, <1>6
  <2> HIDE DEF K
  <2>2. Param(tok) = CASE tok.kind = "octal" -> Octal(tok)
                       [] tok.kind = "empty" -> NOPARA
                       [] OTHER              -> ADRERR
    BY <1>3, <2>1
  <2>3. CASE tok.kind = "octal" /\ tok.n < 8 * 8 * 8 * 8
    <3>1. ~ Knows(tok)
      BY <2>3 DEF Knows, Named
    <3>2. Param(tok) = tok.n /\ tok.n \in Nat
      BY <2>2, <2>3 DEF Octal, Parameter
    <3> QED
      BY <2>3, <3>1, <3>2 DEF HasPlace, Place
  <2>4. CASE tok.kind = "octal" /\ ~(tok.n < 8 * 8 * 8 * 8)
    <3>1. ~ Knows(tok)
      BY <2>4 DEF Knows, Named
    <3>2. Param(tok) = 0 - 1
      BY <2>2, <2>4 DEF Octal, ADRERR
    <3> QED
      BY <2>4, <3>1, <3>2 DEF HasPlace
  <2>5. CASE tok.kind # "octal"
    <3>1. Param(tok) = 0 - 1 \/ Param(tok) = 0 - 2
      BY <2>2, <2>5 DEF ADRERR, NOPARA
    <3> QED
      BY <2>1, <2>5, <3>1 DEF HasPlace
  <2> QED
    BY <2>3, <2>4, <2>5
<1> QED
  BY <1>5, <1>6

LEMMA PrintIs ==
  ASSUME IsSetup(setup)
  PROVE  \E u : IsPrint(u)
<1>1. PICK G \in Seq(OptionUse) : G = Given
  BY Ends
<1>2. PICK L \in Nat : L = Len(G) /\ DOMAIN G = 1 .. L /\ \A k \in 1 .. L : G[k] \in OptionUse
  BY <1>1, LenProperties
<1> DEFINE S == [addr : Nat, cnt : Int]
<1>3. \A o \in OptionUse : Printed(o) \in Seq(S)
  <2> SUFFICES ASSUME NEW o \in OptionUse, Printable(o) PROVE Printed(o) \in Seq(S)
    BY EmptySeq DEF Printed
  <2>1. Place(o.tok) \in Nat /\ o.cnt \in Int
    BY PlaceIsNat DEF OptionUse, Printable
  <2>2. [addr |-> Place(o.tok), cnt |-> o.cnt] \in S
    BY <2>1
  <2> QED
    BY <2>2 DEF Printed
<1> HIDE DEF S
<1> DEFINE seqs == [k \in 1 .. L |-> Printed(Reverse(G)[k])]
<1>4. \A k \in 1 .. L : Reverse(G)[k] = G[L - k + 1] /\ L - k + 1 \in 1 .. L
  BY <1>2 DEF Reverse
<1>5. seqs \in Seq(Seq(S)) /\ Len(seqs) = L /\ \A k \in 1 .. L : seqs[k] = Printed(G[L - k + 1])
  BY <1>2, <1>3, <1>4
<1>6. Asked = FlattenSeq(seqs)
  BY <1>1, <1>2 DEF Asked
<1> HIDE DEF seqs
<1>7. PICK u : /\ u[0] = <<>> /\ \A n \in 1 .. L : u[n] = u[n - 1] \o seqs[n]
               /\ \A n \in 0 .. L : u[n] \in Seq(S)
               /\ FlattenSeq(seqs) = u[L]
  BY <1>5, Flattened
<1>8. \A n \in 1 .. L : u[n] = u[n - 1] \o Printed(G[L - n + 1])
  BY <1>5, <1>7
<1> QED
  BY <1>1, <1>2, <1>6, <1>7, <1>8 DEF IsPrint, S

(***************************************************************************)
(* The switches, the names and the dumps of a call                         *)
(***************************************************************************)
(* What the first d options set.                                           *)
Done(d) ==
  /\ "source" \in flags <=> \E k \in 1 .. d : Given[k].opt \in {"s", "i"}
  /\ \A k \in 1 .. d :
       Given[k].opt = "o" /\ (\A m \in k + 1 .. d : Given[m].opt # "o") => origin = Given[k].tok
  /\ \E D : IsDumps(D) /\ dumps = D[d]

(* d options are done, and the others up to the end of the line are next.  *)
Reading(e, d) ==
  /\ IsEnds(e) /\ d \in Nat /\ line \in 0 .. Len(Lines) /\ args \in Seq(OptionUse)
  /\ d + Len(args) = e[line]
  /\ \A j \in 1 .. Len(args) : args[j] = Given[d + j]

(* The panel shows what the first n lines name.                            *)
PanelShows(n) ==
  /\ watched \in Seq([addr : Nat, cnt : Nat])
  /\ \A k \in 1 .. n :
       Lines[k].tag = "panel" /\ HasPlace(Lines[k].tok) /\ (Knows(Lines[k].tok) => Sourced) =>
         \E w \in DOMAIN watched : watched[w].addr = Place(Lines[k].tok)

OriginIsSet ==
  \A k \in DOMAIN Given :
    Given[k].opt = "o" /\ (\A m \in k + 1 .. Len(Given) : Given[m].opt # "o") =>
      pc8 = Place(Given[k].tok)

(* Of what was asked for, the last has been printed first.                 *)
Printing(D, u, n) ==
  /\ IsDumps(D) /\ IsPrint(u) /\ n \in 0 .. Len(Given)
  /\ dumps = D[n] /\ dumped = u[Len(Given) - n]

ReadingInv ==
  stage \in {"command", "options"} =>
    /\ \E e, d : Reading(e, d) /\ Done(d)
    /\ stage = "command" => line = 0
    /\ watched = <<>> /\ dumped = <<>>
ReadInv ==
  stage \in {"image", "source", "load", "panel", "origin", "devices", "run"} =>
    Done(Len(Given)) /\ args = <<>> /\ dumped = <<>>
BeforePanelInv ==
  stage \in {"image", "source", "load"} => watched = <<>> /\ line = 0
SymbolsInv ==
  stage \in {"load", "panel", "origin", "devices", "run", "dump"} =>
    symbols = IF Sourced THEN setup.symbols ELSE <<>>
PanelInv ==
  /\ stage = "panel" => line \in 0 .. Len(Lines) /\ PanelShows(line)
  /\ stage \in {"origin", "devices", "run"} => PanelShows(Len(Lines))
OriginInv == stage \in {"devices", "run"} => OriginIsSet
PrintInv ==
  /\ stage = "dump" => \E D, u, n : Printing(D, u, n)
  /\ stage = "exit" /\ "norun" \notin flags => dumped = Asked

OptionsInv ==
  /\ IsSetup(setup)
  /\ ReadingInv /\ ReadInv /\ BeforePanelInv /\ SymbolsInv /\ PanelInv /\ OriginInv /\ PrintInv

(* What a call is made with, no step of it changes.                        *)
LEMMA Settled ==
  ASSUME setup' = setup
  PROVE  /\ Given' = Given /\ Lines' = Lines /\ Sourced' = Sourced
         /\ \A e : IsEnds(e)' = IsEnds(e)
         /\ \A D : IsDumps(D)' = IsDumps(D)
         /\ \A u : IsPrint(u)' = IsPrint(u)
         /\ \A tok : /\ HasPlace(tok)' = HasPlace(tok) /\ Knows(tok)' = Knows(tok)
                     /\ Place(tok)' = Place(tok)
         /\ Asked' = Asked
<1>1. Lines' = Lines
  BY DEF Lines
<1>2. Given' = Given
  BY <1>1 DEF Given
<1>3. Sourced' = Sourced
  BY <1>2 DEF Sourced
<1>4. ASSUME NEW e PROVE IsEnds(e)' = IsEnds(e)
  BY <1>1, <1>2 DEF IsEnds
<1>5. ASSUME NEW D PROVE IsDumps(D)' = IsDumps(D)
  BY <1>2 DEF IsDumps
<1>6. ASSUME NEW tok
      PROVE  /\ HasPlace(tok)' = HasPlace(tok) /\ Knows(tok)' = Knows(tok)
             /\ Place(tok)' = Place(tok)
  <2>1. Knows(tok)' = Knows(tok)
    BY DEF Knows
  <2>2. HasPlace(tok)' = HasPlace(tok)
    BY <2>1 DEF HasPlace
  <2>3. Place(tok)' = Place(tok)
    BY <2>1 DEF Place, SelectInSeq
  <2> QED
    BY <2>1, <2>2, <2>3
<1>7. ASSUME NEW o PROVE Printed(o)' = Printed(o)
  BY <1>3, <1>6 DEF Printed, Printable
<1>8. Asked' = Asked
  BY <1>2, <1>7 DEF Asked
<1>9. ASSUME NEW u PROVE IsPrint(u)' = IsPrint(u)
  BY <1>2, <1>7, <1>8 DEF IsPrint
<1> QED
  BY <1>1, <1>2, <1>3, <1>4, <1>5, <1>6, <1>8, <1>9

(* The options of the call are at their places before the first is done.   *)
LEMMA OptionsStart == StartupInit => OptionsInv
<1> SUFFICES ASSUME StartupInit PROVE OptionsInv
  OBVIOUS
<1>1. /\ setup \in Setups /\ stage = "command" /\ args = setup.args /\ line = 0
      /\ flags = {} /\ dumps = <<>> /\ watched = <<>> /\ dumped = <<>>
  BY DEF StartupInit, StartupWith
<1>2. IsSetup(setup)
  BY <1>1, StartupAssumption
<1>3. PICK e : IsEnds(e)
  BY <1>2, Ends
<1>4. Reading(e, 0)
  <2>1. PICK a \in Seq(OptionUse) : a = setup.args /\ a = args
    BY <1>1, <1>2, SetupParts
  <2>2. Len(a) \in Nat /\ Len(Lines) \in Nat
    BY <1>2, SetupParts, LenProperties
  <2>3. e[0] = Len(a) /\ \A j \in 1 .. Len(a) : Given[j] = a[j]
    BY <1>3, <2>1 DEF IsEnds
  <2>4. \A j \in 1 .. Len(a) : 0 + j = j
    OBVIOUS
  <2>5. 0 \in 0 .. Len(Lines) /\ 0 + Len(a) = Len(a) /\ 0 \in Nat
    BY <2>2
  <2> QED
    BY <1>1, <1>3, <2>1, <2>3, <2>4, <2>5 DEF Reading
<1>5. Done(0)
  <2>1. PICK D : IsDumps(D)
    BY <1>2, DumpsAre
  <2>2. D[0] = <<>>
    BY <2>1 DEF IsDumps
  <2>3. \A k : k \notin 1 .. 0
    OBVIOUS
  <2> QED
    BY <1>1, <2>1, <2>2, <2>3 DEF Done
<1>6. ReadingInv
  BY <1>1, <1>4, <1>5 DEF ReadingInv
<1>7. ReadInv /\ BeforePanelInv /\ SymbolsInv /\ PanelInv /\ OriginInv /\ PrintInv
  BY <1>1 DEF ReadInv, BeforePanelInv, SymbolsInv, PanelInv, OriginInv, PrintInv
<1> QED
  BY <1>2, <1>6, <1>7 DEF OptionsInv

(* What a step keeps that leaves these variables alone.                    *)
LEMMA DoneStays ==
  ASSUME setup' = setup, UNCHANGED <<flags, origin, dumps>>, NEW d, Done(d)
  PROVE  Done(d)'
BY Settled DEF Done

LEMMA ReadingStays ==
  ASSUME setup' = setup, UNCHANGED <<args, line>>, NEW e, NEW d, Reading(e, d)
  PROVE  Reading(e, d)'
BY Settled DEF Reading

LEMMA PanelStays ==
  ASSUME setup' = setup, UNCHANGED watched, NEW n, PanelShows(n)
  PROVE  PanelShows(n)'
<1>1. /\ Lines' = Lines /\ Sourced' = Sourced /\ watched' = watched
      /\ \A tok : /\ HasPlace(tok)' = HasPlace(tok) /\ Knows(tok)' = Knows(tok)
                  /\ Place(tok)' = Place(tok)
  BY Settled
<1>2. watched' \in Seq([addr : Nat, cnt : Nat])
  BY <1>1 DEF PanelShows
<1>3. ASSUME NEW k \in 1 .. n, Lines[k].tag = "panel", HasPlace(Lines[k].tok),
             Knows(Lines[k].tok) => Sourced
      PROVE  \E w \in DOMAIN watched : watched[w].addr = Place(Lines[k].tok)
  BY <1>3 DEF PanelShows
<1> QED
  BY <1>1, <1>2, <1>3 DEF PanelShows

(* An option does what Done says of one more.                              *)
LEMMA OneMoreDone ==
  ASSUME OptionsInv, Option, stage \in {"command", "options"}, NEW e, NEW d, Reading(e, d), Done(d)
  PROVE  Reading(e, d + 1)' /\ Done(d + 1)'
<1>1. /\ args # <<>> /\ setup' = setup /\ line' = line /\ args' = Tail(args)
      /\ flags' = flags \cup Switches(Head(args))
      /\ origin' = IF Head(args).opt = "o" THEN Head(args).tok ELSE origin
      /\ dumps' = IF Head(args).opt = "d" /\ Head(args).cnt >= 0 THEN Requested(Head(args)) ELSE dumps
  BY DEF Option
<1>2. /\ IsEnds(e) /\ d \in Nat /\ line \in 0 .. Len(Lines) /\ args \in Seq(OptionUse)
      /\ d + Len(args) = e[line]
      /\ \A j \in 1 .. Len(args) : args[j] = Given[d + j]
  BY DEF Reading
<1>3. PICK a, b, o :
        /\ a \in Seq(OptionUse) /\ a = args /\ b = args' /\ b = Tail(a) /\ o = Head(a) /\ a # <<>>
  BY <1>1, <1>2
<1>4. /\ o = a[1] /\ b \in Seq(OptionUse) /\ Len(a) \in Nat /\ Len(b) = Len(a) - 1 /\ Len(a) # 0
      /\ \A j \in 1 .. Len(b) : b[j] = a[j + 1]
  BY <1>3
<1>5. PICK L \in Nat : /\ L = Len(Given) /\ DOMAIN Given = 1 .. L
                       /\ \A k \in 1 .. L : Given[k] \in OptionUse
  BY Ends, LenProperties DEF OptionsInv
<1>6. e[line] \in 0 .. L
  BY <1>2, <1>5 DEF IsEnds
<1>7. d + 1 \in 1 .. L /\ Given[d + 1] = o /\ o \in OptionUse
  <2>1. d + Len(a) = e[line] /\ 1 \in 1 .. Len(a)
    BY <1>2, <1>3, <1>4
  <2>2. d + 1 \in 1 .. L
    BY <1>2, <1>4, <1>5, <1>6, <2>1
  <2>3. Given[d + 1] = o
    BY <1>2, <1>3, <1>4, <2>1
  <2> QED
    BY <1>5, <2>2, <2>3
<1>8. Reading(e, d + 1)'
  <2>1. d + 1 \in Nat /\ (d + 1) + Len(b) = e[line]
    BY <1>2, <1>3, <1>4
  <2>2. ASSUME NEW j \in 1 .. Len(b) PROVE b[j] = Given[(d + 1) + j]
    <3>1. j + 1 \in 1 .. Len(a) /\ d + (j + 1) = (d + 1) + j
      BY <1>2, <1>4
    <3> QED
      BY <1>2, <1>3, <1>4, <3>1
  <2>3. IsEnds(e)' /\ line' \in 0 .. Len(Lines)' /\ Given' = Given
    BY <1>1, <1>2, Settled
  <2> QED
    BY <1>1, <1>3, <1>4, <2>1, <2>2, <2>3 DEF Reading
<1>9. "source" \in flags' <=> \E k \in 1 .. d + 1 : Given[k].opt \in {"s", "i"}
  <2>1. "source" \in flags <=> \E k \in 1 .. d : Given[k].opt \in {"s", "i"}
    BY DEF Done
  <2>2. "source" \in Switches(o) <=> o.opt \in {"s", "i"}
    <3>1. CASE o.opt = "i"
      BY <3>1 DEF Switches
    <3>2. CASE o.opt = "s"
      BY <3>2 DEF Switches
    <3>3. CASE o.opt = "t"
      BY <3>3 DEF Switches
    <3>4. CASE o.opt = "l"
      BY <3>4 DEF Switches
    <3>5. CASE o.opt \notin {"i", "s", "t", "l"}
      BY <3>5 DEF Switches
    <3> QED
      BY <3>1, <3>2, <3>3, <3>4, <3>5
  <2>3. \A k : k \in 1 .. d + 1 <=> k \in 1 .. d \/ k = d + 1
    BY <1>2
  <2> QED
    BY <1>1, <1>3, <1>7, <2>1, <2>2, <2>3
<1>10. ASSUME NEW k \in 1 .. d + 1, Given[k].opt = "o",
              \A m \in k + 1 .. d + 1 : Given[m].opt # "o"
       PROVE  origin' = Given[k].tok
  <2>1. CASE k = d + 1
    BY <1>1, <1>3, <1>7, <1>10, <2>1
  <2>2. CASE k # d + 1
    <3>1. k \in 1 .. d /\ d + 1 \in k + 1 .. d + 1 /\ \A m \in k + 1 .. d : m \in k + 1 .. d + 1
      BY <1>2, <2>2
    <3>2. origin = Given[k].tok
      BY <1>10, <3>1 DEF Done
    <3>3. o.opt # "o"
      BY <1>7, <1>10, <3>1
    <3> QED
      BY <1>1, <1>3, <3>2, <3>3
  <2> QED
    BY <2>1, <2>2
<1>11. \E D : IsDumps(D) /\ dumps' = D[d + 1]
  <2>1. PICK D : IsDumps(D) /\ dumps = D[d]
    BY DEF Done
  <2>2. /\ D[d + 1] = DumpOf(o) \o D[d] /\ D[d] \in Seq(Request)
    <3>1. (d + 1) - 1 = d /\ d \in 0 .. L
      BY <1>2, <1>7
    <3> QED
      BY <1>5, <1>7, <2>1, <3>1 DEF IsDumps
  <2>3. CASE o.opt = "d" /\ o.cnt >= 0
    <3>1. dumps' = <<[from |-> o.tok, cnt |-> o.cnt]>> \o dumps
      BY <1>1, <1>3, <2>3 DEF Requested
    <3>2. DumpOf(o) = <<[from |-> o.tok, cnt |-> o.cnt]>>
      BY <2>3 DEF DumpOf
    <3> QED
      BY <2>1, <2>2, <3>1, <3>2
  <2>4. CASE ~(o.opt = "d" /\ o.cnt >= 0)
    <3>1. dumps' = dumps
      BY <1>1, <1>3, <2>4
    <3>2. DumpOf(o) = << >>
      BY <2>4 DEF DumpOf
    <3>3. << >> \o D[d] = D[d]
      BY <2>2, ConcatEmptySeq
    <3> QED
      BY <2>1, <2>2, <3>1, <3>2, <3>3
  <2> QED
    BY <2>3, <2>4
<1>12. Done(d + 1)'
  <2>1. Given' = Given /\ \A D : IsDumps(D)' = IsDumps(D)
    BY <1>1, Settled
  <2> QED
    BY <1>9, <1>10, <1>11, <2>1 DEF Done
<1> QED
  BY <1>8, <1>12

LEMMA OptionKeeps == OptionsInv /\ Option => OptionsInv'
<1> SUFFICES ASSUME OptionsInv, Option PROVE OptionsInv'
  OBVIOUS
<1>1. /\ stage \in {"command", "options"} /\ stage' \in {stage, "failed"} /\ setup' = setup
      /\ line' = line /\ watched' = watched /\ dumped' = dumped
  BY DEF Option
<1>2. PICK e, d : Reading(e, d) /\ Done(d)
  BY <1>1 DEF OptionsInv, ReadingInv
<1>3. Reading(e, d + 1)' /\ Done(d + 1)'
  BY <1>1, <1>2, OneMoreDone
<1>4. ReadingInv'
  BY <1>1, <1>3 DEF OptionsInv, ReadingInv
<1>5. (ReadInv /\ BeforePanelInv /\ SymbolsInv /\ PanelInv /\ OriginInv /\ PrintInv)'
  BY <1>1 DEF ReadInv, BeforePanelInv, SymbolsInv, PanelInv, OriginInv, PrintInv
<1>6. IsSetup(setup)'
  BY <1>1 DEF OptionsInv
<1> QED
  BY <1>4, <1>5, <1>6 DEF OptionsInv

LEMMA CommandDoneKeeps == OptionsInv /\ CommandDone => OptionsInv'
<1> SUFFICES ASSUME OptionsInv, CommandDone PROVE OptionsInv'
  OBVIOUS
<1>1. /\ stage = "command" /\ setup' = setup
      /\ stage' = IF "norun" \in flags THEN "exit"
                  ELSE IF setup.image = "none" THEN "failed" ELSE "options"
      /\ UNCHANGED <<args, line, flags, origin, dumps, watched, dumped>>
  BY DEF CommandDone, GoTo, settings
<1>2. PICK e, d : Reading(e, d) /\ Done(d)
  BY <1>1 DEF OptionsInv, ReadingInv
<1>3. Reading(e, d)' /\ Done(d)'
  BY <1>1, <1>2, ReadingStays, DoneStays
<1>4. ReadingInv'
  BY <1>1, <1>3 DEF OptionsInv, ReadingInv
<1>5. (ReadInv /\ BeforePanelInv /\ SymbolsInv /\ PanelInv /\ OriginInv /\ PrintInv)'
  BY <1>1 DEF ReadInv, BeforePanelInv, SymbolsInv, PanelInv, OriginInv, PrintInv
<1>6. IsSetup(setup)'
  BY <1>1 DEF OptionsInv
<1> QED
  BY <1>4, <1>5, <1>6 DEF OptionsInv

(* The next line: its options are the next of the options given.           *)
LEMMA OptionsNext ==
  ASSUME OptionsInv, OptionLine, stage = "options"
  PROVE  OptionsInv'
<1>1. /\ setup' = setup /\ stage' = stage /\ args = <<>> /\ line < Len(Lines) /\ line' = line + 1
      /\ args' = OptionsOf(Lines[line'])
      /\ watched' = watched
      /\ UNCHANGED <<flags, origin, dumps, dumped>>
  BY DEF OptionLine, settings, OptionsOf, Watches
<1>2. PICK e, d : Reading(e, d) /\ Done(d)
  BY DEF OptionsInv, ReadingInv
<1>3. PICK N \in Nat : N = Len(Lines) /\ DOMAIN Lines = 1 .. N
  BY SetupParts, LenProperties DEF OptionsInv
<1>4. line \in 0 .. N /\ d \in Nat /\ d = e[line] /\ IsEnds(e)
  <2>1. line \in 0 .. N /\ d \in Nat /\ d + Len(args) = e[line] /\ IsEnds(e)
    BY <1>2, <1>3 DEF Reading
  <2>2. Len(args) = 0
    BY <1>1, EmptySeq
  <2>3. d + 0 = d
    BY <2>1
  <2> QED
    BY <2>1, <2>2, <2>3
<1>5. PICK n \in 1 .. N : n = line' /\ n = line + 1 /\ n - 1 = line
  BY <1>1, <1>3, <1>4
<1>6. PICK a \in Seq(OptionUse) : a = args' /\ a = OptionsOf(Lines[n])
  BY <1>1, <1>3, <1>5, SetupParts DEF OptionsInv
<1>7. /\ d + Len(a) = e[n]
      /\ \A j \in 1 .. Len(a) : a[j] = Given[d + j]
  BY <1>3, <1>4, <1>5, <1>6 DEF IsEnds
<1>8. Reading(e, d)'
  <2>1. IsEnds(e)' /\ Lines' = Lines /\ Given' = Given
    BY <1>1, <1>4, Settled
  <2>2. n \in 0 .. N
    BY <1>3
  <2> QED
    BY <1>3, <1>4, <1>5, <1>6, <1>7, <2>1, <2>2 DEF Reading
<1>9. Done(d)'
  BY <1>1, <1>2, DoneStays
<1>10. ReadingInv'
  BY <1>1, <1>8, <1>9 DEF OptionsInv, ReadingInv
<1>11. (ReadInv /\ BeforePanelInv /\ SymbolsInv /\ PanelInv /\ OriginInv /\ PrintInv)'
  BY <1>1 DEF ReadInv, BeforePanelInv, SymbolsInv, PanelInv, OriginInv, PrintInv
<1>12. IsSetup(setup)'
  BY <1>1 DEF OptionsInv
<1> QED
  BY <1>10, <1>11, <1>12 DEF OptionsInv

(* The next line of the panel, if that is what it is.                      *)
LEMMA PanelNext ==
  ASSUME OptionsInv, OptionLine, stage = "panel"
  PROVE  OptionsInv'
<1>1. /\ setup' = setup /\ stage' = stage /\ args = <<>> /\ line < Len(Lines) /\ line' = line + 1
      /\ args' = <<>>
      /\ UNCHANGED <<flags, origin, dumps, symbols, dumped>>
  BY DEF OptionLine, settings
<1>2. watched' = IF Lines[line'].tag = "panel" /\ Param(Lines[line'].tok) >= 0
                 THEN Append(watched, [addr |-> Param(Lines[line'].tok), cnt |-> Lines[line'].cnt])
                 ELSE watched
  BY DEF OptionLine, Watches
<1>3. PICK N \in Nat : N = Len(Lines) /\ DOMAIN Lines = 1 .. N /\ \A k \in 1 .. N : Lines[k] \in PopLine
  BY SetupParts, LenProperties DEF OptionsInv
<1>4. line \in 0 .. N /\ PanelShows(line)
  BY <1>3 DEF OptionsInv, PanelInv
<1>5. PICK n \in 1 .. N : n = line' /\ n = line + 1
  BY <1>1, <1>3, <1>4
<1>6. PICK l \in PopLine : l = Lines[n]
  BY <1>3
<1>7. l.tok \in Parameter /\ l.cnt \in Nat
  BY DEF PopLine
<1>8. symbols = IF Sourced THEN setup.symbols ELSE <<>>
  BY DEF OptionsInv, SymbolsInv
<1>9. /\ Param(l.tok) >= 0 <=> HasPlace(l.tok) /\ (Knows(l.tok) => Sourced)
      /\ Param(l.tok) >= 0 => Param(l.tok) = Place(l.tok) /\ Param(l.tok) \in Nat
  BY <1>7, <1>8, ParamPlace DEF OptionsInv
<1> DEFINE S == [addr : Nat, cnt : Nat]
<1>10. PICK w \in Seq(S) :
         /\ w = watched
         /\ \A k \in 1 .. line :
              Lines[k].tag = "panel" /\ HasPlace(Lines[k].tok) /\ (Knows(Lines[k].tok) => Sourced) =>
                \E j \in DOMAIN w : w[j].addr = Place(Lines[k].tok)
  BY <1>4 DEF PanelShows
<1>11. \E v : /\ v = watched' /\ v \in Seq(S)
              /\ \A j \in DOMAIN w : j \in DOMAIN v /\ v[j] = w[j]
              /\ l.tag = "panel" /\ Param(l.tok) >= 0 =>
                   \E j \in DOMAIN v : v[j].addr = Place(l.tok)
  <2>1. CASE l.tag = "panel" /\ Param(l.tok) >= 0
    <3>1. PICK x \in S : x = [addr |-> Param(l.tok), cnt |-> l.cnt] /\ x.addr = Place(l.tok)
      <4>1. PICK p \in Nat, c \in Nat : p = Param(l.tok) /\ p = Place(l.tok) /\ c = l.cnt
        BY <1>7, <1>9, <2>1
      <4>2. [addr |-> p, cnt |-> c] \in S /\ [addr |-> p, cnt |-> c].addr = p
        OBVIOUS
      <4> QED
        BY <4>1, <4>2
    <3>2. PICK v : v = watched' /\ v = Append(w, x)
      BY <1>2, <1>5, <1>6, <1>10, <2>1, <3>1
    <3> HIDE DEF S
    <3>3. /\ v \in Seq(S) /\ Len(v) = Len(w) + 1 /\ Len(w) \in Nat
          /\ \A j \in 1 .. Len(w) : v[j] = w[j]
          /\ v[Len(w) + 1] = x
      BY <3>2, AppendProperties
    <3>4. DOMAIN w = 1 .. Len(w) /\ DOMAIN v = 1 .. Len(v)
      BY <3>3, LenProperties
    <3>5. /\ \A j \in DOMAIN w : j \in DOMAIN v /\ v[j] = w[j]
          /\ Len(w) + 1 \in DOMAIN v /\ v[Len(w) + 1].addr = Place(l.tok)
      BY <3>1, <3>3, <3>4
    <3> QED
      BY <3>2, <3>3, <3>5
  <2>2. CASE ~(l.tag = "panel" /\ Param(l.tok) >= 0)
    <3>1. watched' = w
      BY <1>2, <1>5, <1>6, <1>10, <2>2
    <3> QED
      BY <1>10, <2>2, <3>1
  <2> QED
    BY <2>1, <2>2
<1>12. PICK v : /\ v = watched' /\ v \in Seq(S)
                /\ \A j \in DOMAIN w : j \in DOMAIN v /\ v[j] = w[j]
                /\ l.tag = "panel" /\ Param(l.tok) >= 0 =>
                     \E j \in DOMAIN v : v[j].addr = Place(l.tok)
  BY <1>11, Zenon
<1>13. ASSUME NEW k \in 1 .. n, Lines[k].tag = "panel", HasPlace(Lines[k].tok),
              Knows(Lines[k].tok) => Sourced
       PROVE  \E j \in DOMAIN v : v[j].addr = Place(Lines[k].tok)
  <2>1. CASE k = n
    BY <1>6, <1>9, <1>12, <1>13, <2>1
  <2>2. CASE k # n
    <3>1. k \in 1 .. line
      BY <1>4, <1>5, <2>2
    <3> QED
      BY <1>10, <1>12, <1>13, <3>1
  <2> QED
    BY <2>1, <2>2
<1>14. PanelShows(n)'
  <2>1. /\ Lines' = Lines /\ Sourced' = Sourced
        /\ \A tok : /\ HasPlace(tok)' = HasPlace(tok) /\ Knows(tok)' = Knows(tok)
                    /\ Place(tok)' = Place(tok)
    BY <1>1, Settled
  <2>2. watched' \in Seq([addr : Nat, cnt : Nat])
    BY <1>12
  <2> QED
    BY <1>12, <1>13, <2>1, <2>2 DEF PanelShows
<1>15. PanelInv'
  <2>1. n \in 0 .. N /\ Lines' = Lines
    BY <1>1, Settled
  <2>2. line' \in 0 .. Len(Lines')
    BY <1>3, <1>5, <2>1
  <2> QED
    BY <1>1, <1>5, <1>14, <2>2 DEF PanelInv, PanelShows
<1>16. Done(Len(Given))'
  <2>1. Done(Len(Given))
    BY DEF OptionsInv, ReadInv
  <2>2. PICK y : y = Len(Given)
    OBVIOUS
  <2>3. Done(y)' /\ Given' = Given
    BY <1>1, <2>1, <2>2, DoneStays, Settled
  <2> QED
    BY <2>2, <2>3
<1>17. ReadInv' /\ SymbolsInv'
  <2>1. Sourced' = Sourced
    BY <1>1, Settled
  <2> QED
    BY <1>1, <1>16, <2>1 DEF OptionsInv, ReadInv, SymbolsInv
<1>18. (ReadingInv /\ BeforePanelInv /\ OriginInv /\ PrintInv)'
  BY <1>1 DEF ReadingInv, BeforePanelInv, OriginInv, PrintInv
<1>19. IsSetup(setup)'
  BY <1>1 DEF OptionsInv
<1> QED
  BY <1>15, <1>17, <1>18, <1>19 DEF OptionsInv

(* All that a step leaves alone whose stage is no option's.                *)
LEMMA ReadStays ==
  ASSUME setup' = setup, UNCHANGED <<flags, origin, dumps>>, Done(Len(Given))
  PROVE  Done(Len(Given))'
<1>1. PICK y : y = Len(Given)
  OBVIOUS
<1>2. Done(y)' /\ Given' = Given
  BY <1>1, DoneStays, Settled
<1> QED
  BY <1>1, <1>2

LEMMA PanelStaysWhole ==
  ASSUME setup' = setup, UNCHANGED watched, PanelShows(Len(Lines))
  PROVE  PanelShows(Len(Lines))'
<1>1. PICK y : y = Len(Lines)
  OBVIOUS
<1>2. PanelShows(y)' /\ Lines' = Lines
  BY <1>1, PanelStays, Settled
<1> QED
  BY <1>1, <1>2

LEMMA LinesDoneKeeps == OptionsInv /\ LinesDone => OptionsInv'
<1> SUFFICES ASSUME OptionsInv, LinesDone PROVE OptionsInv'
  OBVIOUS
<1>1. /\ stage \in {"options", "panel"} /\ args = <<>> /\ line = Len(Lines) /\ line' = 0
      /\ stage' = IF stage = "options" THEN "image" ELSE "origin"
      /\ setup' = setup /\ UNCHANGED <<args, flags, origin, dumps, symbols, watched, dumped>>
  BY DEF LinesDone, settings
<1>2. Done(Len(Given)) /\ dumped = <<>>
  <2>1. CASE stage = "options"
    <3>1. PICK e, d : Reading(e, d) /\ Done(d)
      BY <2>1 DEF OptionsInv, ReadingInv
    <3>2. d \in Nat /\ d + Len(args) = e[line] /\ e[Len(Lines)] = Len(Given)
      BY <3>1 DEF Reading, IsEnds
    <3>3. d = Len(Given)
      BY <1>1, <3>2, EmptySeq
    <3> QED
      BY <2>1, <3>1, <3>3 DEF OptionsInv, ReadingInv
  <2>2. CASE stage = "panel"
    BY <2>2 DEF OptionsInv, ReadInv
  <2> QED
    BY <1>1, <2>1, <2>2
<1>3. ReadInv'
  BY <1>1, <1>2, ReadStays DEF ReadInv
<1>4. BeforePanelInv'
  BY <1>1 DEF OptionsInv, ReadingInv, BeforePanelInv
<1>5. SymbolsInv'
  BY <1>1, Settled DEF OptionsInv, SymbolsInv
<1>6. PanelInv'
  <2>1. stage = "panel" => PanelShows(Len(Lines))'
    BY <1>1, PanelStaysWhole DEF OptionsInv, PanelInv
  <2> QED
    BY <1>1, <2>1 DEF PanelInv
<1>7. (ReadingInv /\ OriginInv /\ PrintInv)'
  BY <1>1 DEF ReadingInv, OriginInv, PrintInv
<1>8. IsSetup(setup)'
  BY <1>1 DEF OptionsInv
<1> QED
  BY <1>3, <1>4, <1>5, <1>6, <1>7, <1>8 DEF OptionsInv

LEMMA ImageKeeps == OptionsInv /\ (NoImage \/ StatImage) => OptionsInv'
<1> SUFFICES ASSUME OptionsInv, NoImage \/ StatImage PROVE OptionsInv'
  OBVIOUS
<1>1. /\ stage = "image" /\ stage' \in {"failed", "source"}
      /\ setup' = setup /\ UNCHANGED <<args, line, flags, origin, dumps, symbols, watched, dumped>>
  BY DEF NoImage, StatImage, GoTo, settings
<1>2. ReadInv'
  BY <1>1, ReadStays DEF OptionsInv, ReadInv
<1>3. BeforePanelInv'
  BY <1>1 DEF OptionsInv, BeforePanelInv
<1>4. (ReadingInv /\ SymbolsInv /\ PanelInv /\ OriginInv /\ PrintInv)'
  BY <1>1 DEF ReadingInv, SymbolsInv, PanelInv, OriginInv, PrintInv
<1>5. IsSetup(setup)'
  BY <1>1 DEF OptionsInv
<1> QED
  BY <1>2, <1>3, <1>4, <1>5 DEF OptionsInv

LEMMA ReadSourceKeeps == OptionsInv /\ ReadSource => OptionsInv'
<1> SUFFICES ASSUME OptionsInv, ReadSource PROVE OptionsInv'
  OBVIOUS
<1>1. /\ stage = "source" /\ stage' \in {"failed", "load"}
      /\ symbols' = IF "source" \in flags THEN setup.symbols ELSE <<>>
      /\ setup' = setup /\ UNCHANGED <<args, line, flags, origin, dumps, watched, dumped>>
  BY DEF ReadSource, settings
<1>2. Done(Len(Given))
  BY <1>1 DEF OptionsInv, ReadInv
<1>3. SymbolsInv'
  <2>1. PICK G \in Seq(OptionUse) : G = Given
    BY Ends DEF OptionsInv
  <2>2. DOMAIN Given = 1 .. Len(Given)
    BY <2>1, LenProperties
  <2>3. "source" \in flags <=> Sourced
    BY <1>2, <2>2 DEF Done, Sourced
  <2> QED
    BY <1>1, <2>3, Settled DEF SymbolsInv
<1>4. ReadInv'
  BY <1>1, ReadStays DEF OptionsInv, ReadInv
<1>5. BeforePanelInv'
  BY <1>1 DEF OptionsInv, BeforePanelInv
<1>6. (ReadingInv /\ PanelInv /\ OriginInv /\ PrintInv)'
  BY <1>1 DEF ReadingInv, PanelInv, OriginInv, PrintInv
<1>7. IsSetup(setup)'
  BY <1>1 DEF OptionsInv
<1> QED
  BY <1>3, <1>4, <1>5, <1>6, <1>7 DEF OptionsInv

LEMMA LoadImageKeeps == OptionsInv /\ LoadImage => OptionsInv'
<1> SUFFICES ASSUME OptionsInv, LoadImage PROVE OptionsInv'
  OBVIOUS
<1>1. /\ stage = "load" /\ stage' \in {"load", "panel"}
      /\ setup' = setup /\ UNCHANGED <<args, line, flags, origin, dumps, symbols, watched, dumped>>
  BY DEF LoadImage, GoTo, settings
<1>2. ReadInv'
  BY <1>1, ReadStays DEF OptionsInv, ReadInv
<1>3. SymbolsInv'
  BY <1>1, Settled DEF OptionsInv, SymbolsInv
<1>4. BeforePanelInv'
  BY <1>1 DEF OptionsInv, BeforePanelInv
<1>5. PanelInv'
  <2>1. watched' = <<>> /\ line' = 0
    BY <1>1 DEF OptionsInv, BeforePanelInv
  <2>2. \A k : k \notin 1 .. 0
    OBVIOUS
  <2>3. <<>> \in Seq([addr : Nat, cnt : Nat])
    BY EmptySeq
  <2>4. PanelShows(0)'
    BY <2>1, <2>2, <2>3 DEF PanelShows
  <2>5. 0 \in 0 .. Len(Lines)'
    <3>1. Len(Lines) \in Nat /\ Lines' = Lines
      BY <1>1, SetupParts, LenProperties, Settled DEF OptionsInv
    <3> QED
      BY <3>1
  <2> QED
    BY <1>1, <2>1, <2>4, <2>5 DEF PanelInv, PanelShows
<1>6. (ReadingInv /\ OriginInv /\ PrintInv)'
  BY <1>1 DEF ReadingInv, OriginInv, PrintInv
<1>7. IsSetup(setup)'
  BY <1>1 DEF OptionsInv
<1> QED
  BY <1>2, <1>3, <1>4, <1>5, <1>6, <1>7 DEF OptionsInv

(* The origin that has a value is the place of the last that is given.     *)
LEMMA SetOriginKeeps == OptionsInv /\ SetOrigin => OptionsInv'
<1> SUFFICES ASSUME OptionsInv, SetOrigin PROVE OptionsInv'
  OBVIOUS
<1>1. /\ stage = "origin" /\ stage' \in {"failed", "devices"}
      /\ pc8' = IF origin = NoOrigin THEN 0 ELSE Param(origin)
      /\ pc8' < 0 => stage' = "failed"
      /\ setup' = setup /\ UNCHANGED <<args, line, flags, origin, dumps, symbols, watched, dumped>>
  BY DEF SetOrigin, settings
<1>2. ReadInv'
  BY <1>1, ReadStays DEF OptionsInv, ReadInv
<1>3. SymbolsInv'
  BY <1>1, Settled DEF OptionsInv, SymbolsInv
<1>4. PanelInv'
  BY <1>1, PanelStaysWhole DEF OptionsInv, PanelInv
<1>5. PICK G \in Seq(OptionUse) : G = Given
  BY Ends DEF OptionsInv
<1>6. DOMAIN Given = 1 .. Len(Given)
  BY <1>5, LenProperties
<1>7. ASSUME stage' = "devices", NEW k \in DOMAIN Given, Given[k].opt = "o",
             \A m \in k + 1 .. Len(Given) : Given[m].opt # "o"
      PROVE  pc8' = Place(Given[k].tok)
  <2>1. Done(Len(Given))
    BY <1>1 DEF OptionsInv, ReadInv
  <2>2. origin = Given[k].tok
    BY <1>6, <1>7, <2>1 DEF Done
  <2>3. PICK tok \in Parameter : tok = Given[k].tok
    <3>1. Given[k] \in OptionUse
      BY <1>5, <1>6, <1>7, ElementOfSeq
    <3> QED
      BY <3>1 DEF OptionUse
  <2>4. tok # NoOrigin
    <3>1. tok.kind \in {"name", "octal", "pages", "empty"}
      BY DEF Parameter
    <3>2. NoOrigin.kind = "null"
      BY DEF NoOrigin
    <3> QED
      BY <3>1, <3>2
  <2>5. pc8' = Param(tok) /\ ~(Param(tok) < 0)
    BY <1>1, <1>7, <2>2, <2>3, <2>4
  <2>6. /\ Param(tok) >= 0 <=> HasPlace(tok) /\ (Knows(tok) => Sourced)
        /\ Param(tok) >= 0 => Param(tok) = Place(tok) /\ Param(tok) \in Nat
    BY <1>1, ParamPlace DEF OptionsInv, SymbolsInv
  <2>7. Param(tok) \in Int
    BY <1>1, ParamPlace DEF OptionsInv, SymbolsInv
  <2> QED
    BY <2>3, <2>5, <2>6, <2>7
<1>8. OriginInv'
  <2>1. Given' = Given /\ \A tok : Place(tok)' = Place(tok)
    BY <1>1, Settled
  <2> QED
    BY <1>1, <1>7, <2>1 DEF OriginInv, OriginIsSet
<1>9. (ReadingInv /\ BeforePanelInv /\ PrintInv)'
  BY <1>1 DEF ReadingInv, BeforePanelInv, PrintInv
<1>10. IsSetup(setup)'
  BY <1>1 DEF OptionsInv
<1> QED
  BY <1>2, <1>3, <1>4, <1>8, <1>9, <1>10 DEF OptionsInv

LEMMA InitDevicesKeeps == OptionsInv /\ InitDevices => OptionsInv'
<1> SUFFICES ASSUME OptionsInv, InitDevices PROVE OptionsInv'
  OBVIOUS
<1>1. /\ stage = "devices" /\ stage' \in {"failed", "run"}
      /\ setup' = setup
      /\ UNCHANGED <<args, line, flags, origin, dumps, symbols, watched, pc8, dumped>>
  BY DEF InitDevices, GoTo, settings
<1>2. ReadInv'
  BY <1>1, ReadStays DEF OptionsInv, ReadInv
<1>3. SymbolsInv'
  BY <1>1, Settled DEF OptionsInv, SymbolsInv
<1>4. PanelInv'
  BY <1>1, PanelStaysWhole DEF OptionsInv, PanelInv
<1>5. OriginInv'
  BY <1>1, Settled DEF OptionsInv, OriginInv, OriginIsSet
<1>6. (ReadingInv /\ BeforePanelInv /\ PrintInv)'
  BY <1>1 DEF ReadingInv, BeforePanelInv, PrintInv
<1>7. IsSetup(setup)'
  BY <1>1 DEF OptionsInv
<1> QED
  BY <1>2, <1>3, <1>4, <1>5, <1>6, <1>7 DEF OptionsInv

(* When the program has run, all that was asked for is to be printed.      *)
LEMMA RunKeeps == OptionsInv /\ Run => OptionsInv'
<1> SUFFICES ASSUME OptionsInv, Run PROVE OptionsInv'
  OBVIOUS
<1>1. /\ stage = "run" /\ stage' = "dump"
      /\ setup' = setup
      /\ UNCHANGED <<args, line, flags, origin, dumps, symbols, watched, dumped>>
  BY DEF Run, GoTo, settings
<1>2. Done(Len(Given)) /\ dumped = <<>>
  BY <1>1 DEF OptionsInv, ReadInv
<1>3. PICK D : IsDumps(D) /\ dumps = D[Len(Given)]
  BY <1>2 DEF Done
<1>4. PICK u : IsPrint(u) /\ u[0] = <<>>
  BY PrintIs DEF OptionsInv, IsPrint
<1>5. PICK L \in Nat : L = Len(Given) /\ L \in 0 .. L /\ L - L = 0
  <2>1. PICK G \in Seq(OptionUse) : G = Given
    BY Ends DEF OptionsInv
  <2>2. PICK L \in Nat : L = Len(G)
    BY LenProperties
  <2>3. L \in 0 .. L /\ L - L = 0
    OBVIOUS
  <2> QED
    BY <2>1, <2>2, <2>3
<1>6. Printing(D, u, L)'
  <2>1. Given' = Given /\ IsDumps(D)' /\ IsPrint(u)'
    BY <1>1, <1>3, <1>4, Settled
  <2> QED
    BY <1>1, <1>2, <1>3, <1>4, <1>5, <2>1 DEF Printing
<1>7. PrintInv'
  BY <1>1, <1>6 DEF PrintInv
<1>8. SymbolsInv'
  BY <1>1, Settled DEF OptionsInv, SymbolsInv
<1>9. (ReadingInv /\ ReadInv /\ BeforePanelInv /\ PanelInv /\ OriginInv)'
  BY <1>1 DEF ReadingInv, ReadInv, BeforePanelInv, PanelInv, OriginInv
<1>10. IsSetup(setup)'
  BY <1>1 DEF OptionsInv
<1> QED
  BY <1>7, <1>8, <1>9, <1>10 DEF OptionsInv

(* An option that asks for no dump prints none.                            *)
LEMMA NoDumpNoPrint ==
  ASSUME NEW o, DumpOf(o) = <<>>
  PROVE  Printed(o) = <<>>
<1>1. ~(o.opt = "d" /\ o.cnt >= 0)
  <2> SUFFICES ASSUME o.opt = "d" /\ o.cnt >= 0 PROVE FALSE
    OBVIOUS
  <2>1. <<[from |-> o.tok, cnt |-> o.cnt]>> = <<>>
    BY DEF DumpOf
  <2> QED
    BY <2>1
<1> QED
  BY <1>1 DEF Printed, Printable

(* The dump to be printed next is that of the last option with one.        *)
LEMMA NextDump ==
  ASSUME IsSetup(setup), NEW D, NEW u, NEW n, Printing(D, u, n)
  PROVE  \E m : /\ Printing(D, u, m)
                /\ m # 0 => DumpOf(Given[m]) # <<>>
<1>1. PICK L \in Nat : /\ L = Len(Given) /\ DOMAIN Given = 1 .. L
                       /\ \A k \in 1 .. L : Given[k] \in OptionUse
  <2>1. PICK G \in Seq(OptionUse) : G = Given
    BY Ends
  <2> QED
    BY <2>1, LenProperties, ElementOfSeq
<1> DEFINE T == {m \in 0 .. L : Printing(D, u, m)}
<1>2. PICK m \in T : \A k \in T : m <= k
  <2>1. T \in SUBSET Nat /\ n \in T
    BY <1>1 DEF Printing
  <2> HIDE DEF T
  <2> QED
    BY <2>1, Least
<1>3. m \in 0 .. L /\ Printing(D, u, m)
  OBVIOUS
<1>4. ASSUME m # 0, DumpOf(Given[m]) = <<>> PROVE FALSE
  <2>1. /\ m - 1 \in 0 .. L /\ ~(m <= m - 1) /\ m \in 1 .. L
        /\ L - (m - 1) \in 1 .. L /\ L - (L - (m - 1)) + 1 = m
        /\ (L - (m - 1)) - 1 = L - m
    BY <1>1, <1>3, <1>4
  <2>2. IsDumps(D) /\ IsPrint(u) /\ dumps = D[m] /\ dumped = u[L - m]
    BY <1>1, <1>3 DEF Printing
  <2>3. D[m] = <<>> \o D[m - 1] /\ D[m - 1] \in Seq(Request)
    BY <1>1, <1>4, <2>1, <2>2 DEF IsDumps
  <2>4. D[m] = D[m - 1]
    BY <2>3, ConcatEmptySeq
  <2>5. u[L - (m - 1)] = u[L - m] \o Printed(Given[m]) /\ u[L - m] \in Seq([addr : Nat, cnt : Int])
    <3>1. \A k \in 1 .. L : u[k] = u[k - 1] \o Printed(Given[L - k + 1])
      BY <1>1, <2>2 DEF IsPrint
    <3>2. \A k \in 0 .. L : u[k] \in Seq([addr : Nat, cnt : Int])
      BY <1>1, <2>2 DEF IsPrint
    <3>3. L - m \in 0 .. L
      BY <1>1, <1>3
    <3> QED
      BY <2>1, <3>1, <3>2, <3>3
  <2>6. u[L - (m - 1)] = u[L - m]
    BY <1>4, <2>5, NoDumpNoPrint, ConcatEmptySeq
  <2>7. Printing(D, u, m - 1)
    BY <1>1, <2>1, <2>2, <2>4, <2>6 DEF Printing
  <2>8. m - 1 \in T
    BY <2>1, <2>7
  <2> HIDE DEF T
  <2>9. m <= m - 1
    BY <1>2, <2>8
  <2> QED
    BY <2>1, <2>9
<1> QED
  BY <1>3, <1>4

LEMMA DumpKeeps == OptionsInv /\ Dump => OptionsInv'
<1> SUFFICES ASSUME OptionsInv, Dump PROVE OptionsInv'
  OBVIOUS
<1>1. /\ stage = "dump" /\ stage' = "dump" /\ dumps # <<>> /\ setup' = setup
      /\ dumps' = Tail(dumps)
      /\ dumped' = IF Param(Head(dumps).from) < 0 THEN dumped
                   ELSE Append(dumped, [addr |-> Param(Head(dumps).from), cnt |-> Head(dumps).cnt])
      /\ symbols' = symbols
  BY DEF Dump
<1>2. PICK D, u, n : Printing(D, u, n)
  BY <1>1 DEF OptionsInv, PrintInv
<1>3. PICK m : Printing(D, u, m) /\ (m # 0 => DumpOf(Given[m]) # <<>>)
  BY <1>2, NextDump DEF OptionsInv
<1>4. PICK L \in Nat : /\ L = Len(Given) /\ DOMAIN Given = 1 .. L
                       /\ \A k \in 1 .. L : Given[k] \in OptionUse
  <2>1. PICK G \in Seq(OptionUse) : G = Given
    BY Ends DEF OptionsInv
  <2> QED
    BY <2>1, LenProperties, ElementOfSeq
<1>5. /\ IsDumps(D) /\ IsPrint(u) /\ m \in 0 .. L /\ dumps = D[m] /\ dumped = u[L - m]
  BY <1>3, <1>4 DEF Printing
<1>6. m # 0
  BY <1>1, <1>5 DEF IsDumps
<1>7. /\ m - 1 \in 0 .. L /\ m \in 1 .. L
      /\ L - (m - 1) \in 1 .. L /\ L - (L - (m - 1)) + 1 = m
      /\ (L - (m - 1)) - 1 = L - m /\ L - m \in 0 .. L
  BY <1>4, <1>5, <1>6
<1>8. PICK o \in OptionUse : o = Given[m]
  BY <1>4, <1>7
<1>9. o.opt = "d" /\ o.cnt >= 0 /\ o.tok \in Parameter /\ o.cnt \in Int
  BY <1>3, <1>6, <1>8 DEF DumpOf, OptionUse
<1>10. PICK r \in Request : r = [from |-> o.tok, cnt |-> o.cnt] /\ r.from = o.tok /\ r.cnt = o.cnt
  <2>1. PICK x, c : x = o.tok /\ c = o.cnt /\ x \in Parameter /\ c \in Int
    BY <1>9
  <2>2. [from |-> x, cnt |-> c] \in Request
    BY <2>1 DEF Request
  <2> QED
    BY <2>1, <2>2
<1>11. PICK rest \in Seq(Request) : rest = D[m - 1]
  BY <1>4, <1>5, <1>7 DEF IsDumps
<1>12. dumps = <<r>> \o rest
  <2>1. D[m] = DumpOf(o) \o D[m - 1]
    BY <1>4, <1>5, <1>7, <1>8 DEF IsDumps
  <2>2. DumpOf(o) = <<r>>
    BY <1>9, <1>10 DEF DumpOf
  <2> QED
    BY <1>5, <1>11, <2>1, <2>2
<1>13. Head(dumps) = r /\ dumps' = rest
  <2>1. Head(<<r>> \o rest) = r /\ Tail(<<r>> \o rest) = rest
    BY HeadTailOfCons
  <2> QED
    BY <1>1, <1>12, <2>1
<1>14. /\ Param(o.tok) >= 0 <=> HasPlace(o.tok) /\ (Knows(o.tok) => Sourced)
       /\ Param(o.tok) >= 0 => Param(o.tok) = Place(o.tok) /\ Param(o.tok) \in Nat
       /\ Param(o.tok) \in Int
  <2>1. symbols = IF Sourced THEN setup.symbols ELSE <<>>
    BY <1>1 DEF OptionsInv, SymbolsInv
  <2> QED
    BY <1>9, <2>1, ParamPlace DEF OptionsInv
<1>15. Printable(o) <=> Param(o.tok) >= 0
  BY <1>9, <1>14 DEF Printable
<1>16. PICK s \in Seq([addr : Nat, cnt : Int]) : s = dumped
  BY <1>4, <1>5, <1>7 DEF IsPrint
<1>17. dumped' = s \o Printed(o)
  <2>1. CASE Param(o.tok) >= 0
    <3>1. PICK x \in [addr : Nat, cnt : Int] :
            /\ x = [addr |-> Place(o.tok), cnt |-> o.cnt]
            /\ x = [addr |-> Param(o.tok), cnt |-> o.cnt]
      BY <1>9, <1>14, <2>1
    <3>2. Printed(o) = <<x>>
      BY <1>15, <2>1, <3>1 DEF Printed
    <3>3. dumped' = Append(s, x)
      BY <1>1, <1>10, <1>13, <1>14, <1>16, <2>1, <3>1
    <3>4. Append(s, x) = s \o <<x>>
      OBVIOUS
    <3> QED
      BY <3>2, <3>3, <3>4
  <2>2. CASE ~(Param(o.tok) >= 0)
    <3>1. Printed(o) = <<>>
      BY <1>15, <2>2 DEF Printed
    <3>2. dumped' = s
      BY <1>1, <1>10, <1>13, <1>14, <1>16, <2>2
    <3> QED
      BY <3>1, <3>2, ConcatEmptySeq
  <2> QED
    BY <2>1, <2>2
<1>18. dumped' = u[L - (m - 1)]
  <2>1. \A k \in 1 .. L : u[k] = u[k - 1] \o Printed(Given[L - k + 1])
    BY <1>4, <1>5 DEF IsPrint
  <2>2. u[L - (m - 1)] = u[L - m] \o Printed(Given[m])
    BY <1>7, <2>1
  <2> QED
    BY <1>5, <1>8, <1>16, <1>17, <2>2
<1>19. Printing(D, u, m - 1)'
  <2>1. Given' = Given /\ IsDumps(D)' /\ IsPrint(u)'
    BY <1>1, <1>5, Settled
  <2> QED
    BY <1>4, <1>7, <1>11, <1>13, <1>18, <2>1 DEF Printing
<1>20. PrintInv'
  BY <1>1, <1>19 DEF PrintInv
<1>21. SymbolsInv'
  BY <1>1, Settled DEF OptionsInv, SymbolsInv
<1>22. (ReadingInv /\ ReadInv /\ BeforePanelInv /\ PanelInv /\ OriginInv)'
  BY <1>1 DEF ReadingInv, ReadInv, BeforePanelInv, PanelInv, OriginInv
<1>23. IsSetup(setup)'
  BY <1>1 DEF OptionsInv
<1> QED
  BY <1>20, <1>21, <1>22, <1>23 DEF OptionsInv

(* When nothing is left to be printed, all has been.                       *)
LEMMA ExitKeeps == OptionsInv /\ Exit => OptionsInv'
<1> SUFFICES ASSUME OptionsInv, Exit PROVE OptionsInv'
  OBVIOUS
<1>1. /\ stage = "dump" /\ stage' = "exit" /\ dumps = <<>> /\ setup' = setup
      /\ dumped' = dumped
  BY DEF Exit, GoTo
<1>2. PICK D, u, n : Printing(D, u, n)
  BY <1>1 DEF OptionsInv, PrintInv
<1>3. PICK m : Printing(D, u, m) /\ (m # 0 => DumpOf(Given[m]) # <<>>)
  BY <1>2, NextDump DEF OptionsInv
<1>4. PICK L \in Nat : /\ L = Len(Given) /\ DOMAIN Given = 1 .. L
                       /\ \A k \in 1 .. L : Given[k] \in OptionUse
  <2>1. PICK G \in Seq(OptionUse) : G = Given
    BY Ends DEF OptionsInv
  <2> QED
    BY <2>1, LenProperties, ElementOfSeq
<1>5. /\ IsDumps(D) /\ IsPrint(u) /\ m \in 0 .. L /\ D[m] = <<>> /\ dumped = u[L - m]
  BY <1>1, <1>3, <1>4 DEF Printing
<1>6. m = 0
  <2> SUFFICES ASSUME m # 0 PROVE FALSE
    OBVIOUS
  <2>1. m \in 1 .. L /\ m - 1 \in 0 .. L
    BY <1>4, <1>5
  <2>2. PICK o \in OptionUse : o = Given[m]
    BY <1>4, <2>1
  <2>3. PICK r \in Request : DumpOf(o) = <<r>>
    BY <1>3, <2>2 DEF DumpOf, OptionUse, Request
  <2>4. PICK rest \in Seq(Request) : rest = D[m - 1]
    BY <1>4, <1>5, <2>1 DEF IsDumps
  <2>5. <<r>> \o rest = <<>>
    BY <1>4, <1>5, <2>1, <2>2, <2>3, <2>4 DEF IsDumps
  <2>6. <<r>> \o rest # <<>>
    BY HeadTailOfCons
  <2> QED
    BY <2>5, <2>6
<1>7. L - 0 = L
  OBVIOUS
<1>8. dumped' = Asked
  BY <1>1, <1>4, <1>5, <1>6, <1>7 DEF IsPrint
<1>9. PrintInv'
  BY <1>1, <1>8, Settled DEF PrintInv
<1>10. (ReadingInv /\ ReadInv /\ BeforePanelInv /\ SymbolsInv /\ PanelInv /\ OriginInv)'
  BY <1>1 DEF ReadingInv, ReadInv, BeforePanelInv, SymbolsInv, PanelInv, OriginInv
<1>11. IsSetup(setup)'
  BY <1>1 DEF OptionsInv
<1> QED
  BY <1>9, <1>10, <1>11 DEF OptionsInv

LEMMA OptionsStutter == OptionsInv /\ UNCHANGED startVars => OptionsInv'
<1> SUFFICES ASSUME OptionsInv, UNCHANGED startVars PROVE OptionsInv'
  OBVIOUS
<1>1. setup' = setup /\ UNCHANGED <<stage, args, line, flags, origin, dumps, symbols, watched, pc8, dumped>>
  BY DEF startVars, settings
<1>2. ReadingInv'
  <2> SUFFICES ASSUME stage \in {"command", "options"} PROVE ReadingInv'
    BY <1>1 DEF ReadingInv
  <2>1. PICK e, d : Reading(e, d) /\ Done(d)
    BY DEF OptionsInv, ReadingInv
  <2>2. Reading(e, d)' /\ Done(d)'
    BY <1>1, <2>1, ReadingStays, DoneStays
  <2> QED
    BY <1>1, <2>2 DEF OptionsInv, ReadingInv
<1>3. ReadInv'
  BY <1>1, ReadStays DEF OptionsInv, ReadInv
<1>4. BeforePanelInv'
  BY <1>1 DEF OptionsInv, BeforePanelInv
<1>5. SymbolsInv'
  BY <1>1, Settled DEF OptionsInv, SymbolsInv
<1>6. PanelInv'
  <2>1. stage \in {"origin", "devices", "run"} => PanelShows(Len(Lines))'
    BY <1>1, PanelStaysWhole DEF OptionsInv, PanelInv
  <2>2. stage = "panel" => PanelShows(line)' /\ line \in 0 .. Len(Lines)'
    BY <1>1, Settled DEF OptionsInv, PanelInv, PanelShows
  <2> QED
    BY <1>1, <2>1, <2>2 DEF PanelInv
<1>7. OriginInv'
  BY <1>1, Settled DEF OptionsInv, OriginInv, OriginIsSet
<1>8. PrintInv'
  <2>1. ASSUME NEW D, NEW u, NEW n, Printing(D, u, n) PROVE Printing(D, u, n)'
    BY <1>1, <2>1, Settled DEF Printing
  <2> QED
    BY <1>1, <2>1, Settled DEF OptionsInv, PrintInv
<1>9. IsSetup(setup)'
  BY <1>1 DEF OptionsInv
<1> QED
  BY <1>2, <1>3, <1>4, <1>5, <1>6, <1>7, <1>8, <1>9 DEF OptionsInv

LEMMA OptionsStep == OptionsInv /\ [StartupNext]_<<vars, startVars>> => OptionsInv'
<1> SUFFICES ASSUME OptionsInv, [StartupNext]_<<vars, startVars>> PROVE OptionsInv'
  OBVIOUS
<1>1. CASE Assembling \/ UNCHANGED <<vars, startVars>>
  BY <1>1, OptionsStutter DEF Assembling
<1>2. CASE OptionLine
  <2>1. stage \in {"options", "panel"}
    BY <1>2 DEF OptionLine
  <2> QED
    BY <1>2, <2>1, OptionsNext, PanelNext
<1> QED
  BY <1>1, <1>2, OptionKeeps, CommandDoneKeeps, LinesDoneKeeps, ImageKeeps, ReadSourceKeeps,
     LoadImageKeeps, SetOriginKeeps, InitDevicesKeeps, RunKeeps, DumpKeeps, ExitKeeps
     DEF StartupNext

(* In every call with -s or -i the names of symbols stand for their places *)
(* when the program runs: in the last origin and in every line of the      *)
(* panel (doopts and main, pepsi.c; getparam, util.c).                     *)
THEOREM EveryNameResolves == StartupSpec => []NamesResolve
<1>1. OptionsInv => NamesResolve
  <2> SUFFICES ASSUME OptionsInv, stage = "run", Sourced PROVE NamesResolve
    BY DEF NamesResolve
  <2>1. OriginIsSet /\ PanelShows(Len(Lines))
    BY DEF OptionsInv, OriginInv, PanelInv
  <2>2. \A k \in DOMAIN setup.pop : \E j \in DOMAIN Lines : Lines[j] = setup.pop[k]
    BY SetupParts DEF OptionsInv
  <2>3. DOMAIN Lines = 1 .. Len(Lines)
    BY SetupParts, LenProperties DEF OptionsInv
  <2>4. ASSUME NEW k \in DOMAIN setup.pop, setup.pop[k].tag = "panel",
               HasPlace(setup.pop[k].tok)
        PROVE  \E w \in DOMAIN watched : watched[w].addr = Place(setup.pop[k].tok)
    <3>1. PICK j \in 1 .. Len(Lines) : Lines[j] = setup.pop[k]
      BY <2>2, <2>3
    <3> QED
      BY <2>1, <2>4, <3>1 DEF PanelShows
  <2> QED
    BY <2>1, <2>4 DEF NamesResolve, OriginIsSet
<1> QED
  BY <1>1, OptionsStart, OptionsStep, PTL DEF StartupSpec

(* No call loses a dump that was asked for, or prints them in another      *)
(* order than the last first (doopts and the end of main, pepsi.c).        *)
THEOREM EveryDumpIsPrinted == StartupSpec => []DumpsPrinted
<1>1. OptionsInv => DumpsPrinted
  BY DEF OptionsInv, PrintInv, DumpsPrinted
<1> QED
  BY <1>1, OptionsStart, OptionsStep, PTL DEF StartupSpec
=============================================================================
