-------------------------- MODULE QwenSetUpProofs --------------------------
(***************************************************************************)
(* What holds of setting up a Qwen model for any module, directory and     *)
(* vocabulary file.  The load of the weights (utils/model_utils.cpp):      *)
(* which file's tensor every parameter has, also after an exception.  The  *)
(* tokenizer (token/core_bpe.cpp, token/qwen_token.cpp): an accepted file  *)
(* makes a usable one, and decoding takes encoding back.                   *)
(***************************************************************************)
EXTENDS QwenSetUp, SequenceLemmas

(* What is left of a list taken from its front.                            *)
RestOf(s, t) == /\ Len(s) <= Len(t)
                /\ \A k \in 1 .. Len(s) : s[k] = t[Len(t) - Len(s) + k]

LEMMA RestIsSuffix ==
  ASSUME NEW S, NEW s \in Seq(S), NEW t \in Seq(S), RestOf(s, t)
  PROVE  IsSuffix(s, t)
<1>1. /\ Reverse(s) \in Seq(S) /\ Len(Reverse(s)) = Len(s)
      /\ \A k \in 1 .. Len(s) : Reverse(s)[k] = s[Len(s) - k + 1]
  BY DEF Reverse
<1>2. /\ Reverse(t) \in Seq(S) /\ Len(Reverse(t)) = Len(t)
      /\ \A k \in 1 .. Len(t) : Reverse(t)[k] = t[Len(t) - k + 1]
  BY DEF Reverse
<1>3. ASSUME NEW k \in 1 .. Len(s) PROVE Reverse(s)[k] = Reverse(t)[k]
  <2>1. PICK j \in 1 .. Len(s) : j = Len(s) - k + 1
    <3>1. Len(s) \in Nat /\ k \in Int /\ 1 <= k /\ k <= Len(s)
      OBVIOUS
    <3>2. Len(s) - k + 1 \in 1 .. Len(s)
      BY <3>1
    <3> QED BY <3>2
  <2>2. s[j] = t[Len(t) - Len(s) + j]
    BY DEF RestOf
  <2>3. Len(s) \in Nat /\ Len(t) \in Nat /\ Len(s) <= Len(t)
    BY DEF RestOf
  <2>4. Len(t) - Len(s) + j = Len(t) - k + 1 /\ k \in 1 .. Len(t)
    BY <2>1, <2>3
  <2> QED BY <1>1, <1>2, <2>1, <2>2, <2>4
<1>4. IsPrefix(Reverse(s), Reverse(t))
  <2>1. Len(Reverse(s)) <= Len(Reverse(t))
    BY <1>1, <1>2 DEF RestOf
  <2> QED BY <1>1, <1>2, <1>3, <2>1, PrefixElements
<1> QED BY <1>4 DEF IsSuffix

(* Taking the first element of what is left leaves the rest.               *)
LEMMA RestTail ==
  ASSUME NEW S, NEW s \in Seq(S), NEW t \in Seq(S), RestOf(s, t), s # <<>>
  PROVE  /\ RestOf(Tail(s), t) /\ Tail(s) \in Seq(S)
         /\ Len(Tail(s)) = Len(s) - 1 /\ Len(s) - 1 \in Nat
         /\ s[1] = t[Len(t) - Len(s) + 1] /\ Len(t) - Len(s) + 1 \in 1 .. Len(t)
<1>1. /\ Len(s) \in Nat \ {0} /\ Tail(s) \in Seq(S) /\ Len(Tail(s)) = Len(s) - 1
      /\ \A k \in 1 .. Len(s) - 1 : Tail(s)[k] = s[k + 1]
  BY HeadTailProperties, EmptySeq
<1>2. ASSUME NEW k \in 1 .. Len(s) - 1 PROVE Tail(s)[k] = t[Len(t) - (Len(s) - 1) + k]
  <2>1. k + 1 \in 1 .. Len(s) /\ Len(t) - Len(s) + (k + 1) = Len(t) - (Len(s) - 1) + k
    BY <1>1
  <2>2. s[k + 1] = t[Len(t) - Len(s) + (k + 1)]
    BY <2>1 DEF RestOf
  <2> QED BY <1>1, <2>1, <2>2
<1>3. s[1] = t[Len(t) - Len(s) + 1] /\ Len(t) - Len(s) + 1 \in 1 .. Len(t)
  BY <1>1 DEF RestOf
<1>4. RestOf(Tail(s), t)
  BY <1>1, <1>2 DEF RestOf
<1> QED BY <1>1, <1>3, <1>4

LEMMA RestEnds ==
  ASSUME NEW S, NEW t \in Seq(S)
  PROVE  RestOf(<<>>, t) /\ RestOf(t, t)
<1>1. Len(t) \in Nat /\ Len(<<>>) = 0
  BY EmptySeq
<1> QED BY <1>1 DEF RestOf

(* Of the elements of a list those that pass, as a list.                   *)
LEMMA FilterTyped ==
  ASSUME NEW S, NEW T, NEW s \in Seq(S), NEW g,
         g = [k \in DOMAIN s |-> IF s[k] \in T THEN <<s[k]>> ELSE <<>>]
  PROVE  FlattenSeq(g) \in Seq(T)
<1>1. DOMAIN s = 1 .. Len(s) /\ Len(s) \in Nat
  OBVIOUS
<1>2. \A k \in 1 .. Len(s) : (IF s[k] \in T THEN <<s[k]>> ELSE <<>>) \in Seq(T)
  BY EmptySeq
<1>3. g \in Seq(Seq(T))
  BY <1>1, <1>2
<1> QED BY <1>3, FlattenTyped

----------------------------------------------------------------------------
(* The names and files of a load are lists.                                *)
LEMMA NamesTyped ==
  /\ Names \in Seq(ToSet(Names)) /\ IsInjective(Names) /\ Len(Names) \in Nat
  /\ DOMAIN Names = 1 .. Len(Names)
  /\ \A j \in 1 .. Len(Names) : Names[j] \in ToSet(Names)
  /\ ToSet(Params) \subseteq ToSet(Names)
<1>1. Params \in Seq(ToSet(Params)) /\ Buffers \in Seq(ToSet(Buffers)) /\ IsInjective(Names)
  BY WeightsAssumption
<1>2. PICK S : S = ToSet(Params) \union ToSet(Buffers)
  OBVIOUS
<1>3. Params \in Seq(S) /\ Buffers \in Seq(S)
  BY <1>1, <1>2
<1>4. Names \in Seq(S)
  BY <1>3 DEF Names
<1>5. Len(Names) \in Nat /\ DOMAIN Names = 1 .. Len(Names) /\ Names = [j \in 1 .. Len(Names) |-> Names[j]]
  BY <1>4
<1>6. \A j \in 1 .. Len(Names) : Names[j] \in ToSet(Names)
  BY <1>5 DEF ToSet
<1>7. Names \in Seq(ToSet(Names))
  BY <1>5, <1>6
<1>8. ToSet(Params) \subseteq ToSet(Names)
  <2> SUFFICES ASSUME NEW j \in DOMAIN Params PROVE Params[j] \in ToSet(Names)
    BY DEF ToSet
  <2>1. j \in 1 .. Len(Names) /\ Names[j] = Params[j]
    BY <1>3 DEF Names
  <2> QED BY <1>6, <2>1
<1> QED BY <1>1, <1>5, <1>6, <1>7, <1>8

IndexOK == index \in {NoIndex, Garbled} \union {Naming(fs) : fs \in SUBSET ToSet(Shards)}

LEMMA FilesTyped ==
  ASSUME IndexOK
  PROVE  /\ FilesOf(index) \in Seq(Reached(index))
         /\ Len(FilesOf(index)) \in Nat /\ DOMAIN FilesOf(index) = 1 .. Len(FilesOf(index))
         /\ Untouched \notin Reached(index)
<1>1. CASE index = NoIndex
  <2>1. FilesOf(index) = <<Single>> /\ Reached(index) = {Single} /\ Untouched # Single
    BY <1>1, WeightsAssumption DEF FilesOf, Reached
  <2> QED BY <2>1
<1>2. CASE index # NoIndex
  <2>1. PICK g : g = [k \in DOMAIN Shards |-> IF Shards[k] \in index.files THEN <<Shards[k]>> ELSE <<>>]
    OBVIOUS
  <2>2. FilesOf(index) = FlattenSeq(g) /\ Reached(index) = index.files
    BY <1>2, <2>1 DEF FilesOf, Reached
  <2>3. FilesOf(index) \in Seq(index.files)
    <3>1. PICK S, T : S = ToSet(Shards) /\ T = index.files
      OBVIOUS
    <3>2. Shards \in Seq(S)
      BY <3>1, WeightsAssumption
    <3>3. g = [k \in DOMAIN Shards |-> IF Shards[k] \in T THEN <<Shards[k]>> ELSE <<>>]
      BY <2>1, <3>1
    <3>4. FlattenSeq(g) \in Seq(T)
      BY <3>2, <3>3, FilterTyped
    <3> QED BY <2>2, <3>1, <3>4
  <2>4. index.files \subseteq ToSet(Shards)
    <3>1. CASE index = Garbled
      BY <3>1 DEF Garbled
    <3>2. CASE index \in {Naming(fs) : fs \in SUBSET ToSet(Shards)}
      <4>1. PICK fs \in SUBSET ToSet(Shards) : index = Naming(fs)
        BY <3>2
      <4> QED BY <4>1 DEF Naming
    <3> QED BY <1>2, <3>1, <3>2 DEF IndexOK
  <2> QED BY <2>2, <2>3, <2>4, WeightsAssumption
<1> QED BY <1>1, <1>2
(* The invariant of a load.  WeightsShape: the lists are what is left of   *)
(* the files and the names.                                                *)
WeightsShape ==
  /\ IndexOK
  /\ wphase \in {"call", "files", "tensors", "loaded", "ready", "thrown"}
  /\ queue \in Seq(Reached(index)) /\ RestOf(queue, FilesOf(index))
  /\ todo \in Seq(ToSet(Names)) /\ RestOf(todo, Names)
  /\ weights \in [ToSet(Names) -> {Untouched} \union Reached(index)]

(* The file being loaded and the name being looked up.                     *)
FilePos == Len(FilesOf(index)) - Len(queue) + 1
NamePos == Len(Names) - Len(todo) + 1

(* The load is as far as the two lists say, and no further.                *)
Before == wphase = "call" => /\ queue = <<>> /\ todo = <<>>
                             /\ \A n \in ToSet(Names) : weights[n] = Untouched
Loading ==
  wphase \in {"files", "tensors"} =>
    /\ index # Garbled
    /\ \A j \in 1 .. FilePos - 1 : Readable(FilesOf(index)[j])
BetweenFiles ==
  wphase = "files" =>
    /\ todo = <<>>
    /\ \A n \in ToSet(Names) : weights[n] = ValueOf(n, FilePos)
    /\ index = NoIndex /\ queue = <<>> => \A n \in ToSet(Params) : Holds(Single, n)
InFile ==
  wphase = "tensors" =>
    /\ queue # <<>> /\ Readable(queue[1])
    /\ \A j \in 1 .. Len(Names) :
         weights[Names[j]] = ValueOf(Names[j], IF j < NamePos THEN FilePos + 1 ELSE FilePos)
    /\ index = NoIndex =>
         \A j \in 1 .. NamePos - 1 : Names[j] \in ToSet(Params) => Holds(Single, Names[j])

WeightsInv == /\ WeightsShape /\ Before /\ Loading /\ BetweenFiles /\ InFile
              /\ LoadedFromLastFile /\ FailsBetweenTensors

----------------------------------------------------------------------------
(* The directory does not change under the load.                           *)
LEMMA ValuesKept ==
  ASSUME UNCHANGED <<index, disk>>
  PROVE  /\ FilesOf(index)' = FilesOf(index) /\ Reached(index)' = Reached(index)
         /\ IndexOK => IndexOK'
         /\ \A f, n : Holds(f, n)' <=> Holds(f, n)
         /\ \A f : Readable(f)' <=> Readable(f)
         /\ \A f, n : Copies(f, n)' <=> Copies(f, n)
         /\ \A n, k : ValueOf(n, k)' = ValueOf(n, k)
<1>1. FilesOf(index)' = FilesOf(index) /\ Reached(index)' = Reached(index)
  OBVIOUS
<1>2. IndexOK => IndexOK'
  BY DEF IndexOK
<1>3. \A f, n : Holds(f, n)' <=> Holds(f, n)
  BY DEF Holds
<1>4. \A f : Readable(f)' <=> Readable(f)
  BY DEF Readable
<1>7. \A f, n : Copies(f, n)' <=> Copies(f, n)
  BY DEF Copies, Holds, Fits
<1>5. \A n, k : Holders(n, k)' = Holders(n, k)
  BY DEF Holders, Holds
<1>6. \A n, k : ValueOf(n, k)' = ValueOf(n, k)
  BY <1>5 DEF ValueOf
<1> QED BY <1>1, <1>2, <1>3, <1>4, <1>6, <1>7

(* One file more gives a name its tensor, if it holds one.                 *)
LEMMA ValueStep ==
  ASSUME IndexOK, NEW k \in 1 .. Len(FilesOf(index)), NEW n
  PROVE  /\ ~Holds(FilesOf(index)[k], n) => ValueOf(n, k + 1) = ValueOf(n, k)
         /\ Holds(FilesOf(index)[k], n) => ValueOf(n, k + 1) = FilesOf(index)[k]
<1>1. k \in Nat /\ 1 .. (k + 1) - 1 = 1 .. (k - 1) \union {k} /\ (k + 1) - 1 = k
  BY FilesTyped
<1>2. CASE ~Holds(FilesOf(index)[k], n)
  <2>1. Holders(n, k + 1) = Holders(n, k)
    BY <1>1, <1>2 DEF Holders
  <2> QED BY <1>2, <2>1 DEF ValueOf
<1>3. CASE Holds(FilesOf(index)[k], n)
  <2>1. k \in Holders(n, k + 1) /\ \A j \in Holders(n, k + 1) : j \in Int /\ j <= k
    BY <1>1, <1>3 DEF Holders
  <2>2. Max(Holders(n, k + 1)) = k
    BY <1>1, <2>1 DEF Max
  <2> QED BY <1>3, <2>1, <2>2 DEF ValueOf
<1> QED BY <1>2, <1>3

(* No file, no value.                                                      *)
LEMMA ValueStart == \A n : ValueOf(n, 1) = Untouched
BY DEF ValueOf, Holders

LEMMA Counts ==
  ASSUME WeightsShape
  PROVE  /\ Len(queue) \in Nat /\ Len(todo) \in Nat
         /\ Len(FilesOf(index)) \in Nat /\ Len(Names) \in Nat
         /\ FilePos \in 1 .. Len(FilesOf(index)) + 1 /\ NamePos \in 1 .. Len(Names) + 1
         /\ queue = <<>> => FilePos = Len(FilesOf(index)) + 1
         /\ queue = FilesOf(index) => FilePos = 1
         /\ queue # <<>> => /\ FilePos \in 1 .. Len(FilesOf(index))
                            /\ queue[1] = FilesOf(index)[FilePos] /\ queue[1] \in Reached(index)
         /\ todo = <<>> => NamePos = Len(Names) + 1
         /\ todo = Names => NamePos = 1
         /\ todo # <<>> => /\ NamePos \in 1 .. Len(Names)
                           /\ todo[1] = Names[NamePos] /\ todo[1] \in ToSet(Names)
<1>1. /\ Len(queue) \in Nat /\ Len(todo) \in Nat /\ Len(FilesOf(index)) \in Nat
      /\ Len(Names) \in Nat /\ Len(queue) <= Len(FilesOf(index)) /\ Len(todo) <= Len(Names)
  BY FilesTyped, NamesTyped DEF WeightsShape, RestOf
<1>2. FilePos \in 1 .. Len(FilesOf(index)) + 1 /\ NamePos \in 1 .. Len(Names) + 1
  BY <1>1 DEF FilePos, NamePos
<1>3. /\ queue = <<>> => FilePos = Len(FilesOf(index)) + 1
      /\ queue = FilesOf(index) => FilePos = 1
      /\ todo = <<>> => NamePos = Len(Names) + 1
      /\ todo = Names => NamePos = 1
  <2>1. Len(<<>>) = 0
    BY EmptySeq
  <2> QED BY <1>1, <2>1 DEF FilePos, NamePos
<1>4. ASSUME queue # <<>>
      PROVE  /\ FilePos \in 1 .. Len(FilesOf(index))
             /\ queue[1] = FilesOf(index)[FilePos] /\ queue[1] \in Reached(index)
  <2>1. PICK S, s, t : S = Reached(index) /\ s = queue /\ t = FilesOf(index)
    OBVIOUS
  <2>2. s \in Seq(S) /\ t \in Seq(S) /\ RestOf(s, t) /\ s # <<>>
    BY <1>4, <2>1, FilesTyped DEF WeightsShape
  <2>3. s[1] = t[Len(t) - Len(s) + 1] /\ Len(t) - Len(s) + 1 \in 1 .. Len(t)
    BY <2>2, RestTail
  <2>4. t[Len(t) - Len(s) + 1] \in S
    BY <2>2, <2>3
  <2> QED BY <2>1, <2>3, <2>4 DEF FilePos
<1>5. ASSUME todo # <<>>
      PROVE  /\ NamePos \in 1 .. Len(Names)
             /\ todo[1] = Names[NamePos] /\ todo[1] \in ToSet(Names)
  <2>1. PICK S, s, t : S = ToSet(Names) /\ s = todo /\ t = Names
    OBVIOUS
  <2>2. s \in Seq(S) /\ t \in Seq(S) /\ RestOf(s, t) /\ s # <<>>
    BY <1>5, <2>1, NamesTyped DEF WeightsShape
  <2>3. s[1] = t[Len(t) - Len(s) + 1] /\ Len(t) - Len(s) + 1 \in 1 .. Len(t)
    BY <2>2, RestTail
  <2>4. t[Len(t) - Len(s) + 1] \in S
    BY <2>2, <2>3
  <2> QED BY <2>1, <2>3, <2>4 DEF NamePos
<1> QED BY <1>1, <1>2, <1>3, <1>4, <1>5

(* Before the first call of a load, and beside a tokenizer.                *)
LEMMA WeightsStart == WeightsInit \/ WeightsIdle => WeightsInv
<1> SUFFICES ASSUME WeightsInit \/ WeightsIdle PROVE WeightsInv
  OBVIOUS
<1>1. /\ index \in {NoIndex, Garbled} \union {Naming(fs) : fs \in SUBSET ToSet(Shards)}
      /\ wphase = "call" /\ queue = <<>> /\ todo = <<>>
      /\ weights = [n \in ToSet(Names) |-> Untouched]
  BY WeightsAssumption DEF WeightsInit, WeightsIdle
<1>2. IndexOK
  BY <1>1 DEF IndexOK
<1>3. WeightsShape
  <2>1. <<>> \in Seq(Reached(index)) /\ <<>> \in Seq(ToSet(Names))
    BY EmptySeq
  <2>2. RestOf(<<>>, FilesOf(index)) /\ RestOf(<<>>, Names)
    BY <1>2, FilesTyped, NamesTyped, EmptySeq DEF RestOf
  <2> QED BY <1>1, <1>2, <2>1, <2>2 DEF WeightsShape
<1> QED BY <1>1, <1>3 DEF WeightsInv, Before, Loading, BetweenFiles, InFile,
                          LoadedFromLastFile, FailsBetweenTensors

(* Opening the directory.                                                  *)
LEMMA OpenDirStep == WeightsInv /\ OpenDir => WeightsInv'
<1> SUFFICES ASSUME WeightsInv, OpenDir PROVE WeightsInv'
  OBVIOUS
<1>1. /\ index' = index /\ disk' = disk /\ todo' = todo /\ weights' = weights
      /\ WeightsShape /\ todo = <<>> /\ \A n \in ToSet(Names) : weights[n] = Untouched
      /\ IndexOK /\ IndexOK' /\ FilesOf(index)' = FilesOf(index) /\ Reached(index)' = Reached(index)
  BY ValuesKept DEF OpenDir, winput, WeightsInv, Before, WeightsShape
<1>2. CASE index = Garbled
  <2>1. wphase' = "thrown" /\ queue' = <<>>
    BY <1>2 DEF OpenDir
  <2>2. WeightsShape'
    <3>1. <<>> \in Seq(Reached(index)) /\ RestOf(<<>>, FilesOf(index))
      BY <1>1, FilesTyped, EmptySeq DEF RestOf
    <3> QED BY <1>1, <2>1, <3>1 DEF WeightsShape
  <2> QED BY <1>1, <1>2, <2>1, <2>2 DEF WeightsInv, Before, Loading, BetweenFiles, InFile,
                                        LoadedFromLastFile, FailsBetweenTensors
<1>3. CASE index # Garbled
  <2>1. wphase' = "files" /\ queue' = FilesOf(index)
    BY <1>3 DEF OpenDir
  <2>2. WeightsShape'
    <3>1. FilesOf(index) \in Seq(Reached(index)) /\ RestOf(FilesOf(index), FilesOf(index))
      BY <1>1, FilesTyped DEF RestOf
    <3> QED BY <1>1, <2>1, <3>1 DEF WeightsShape
  <2>3. FilePos' = 1
    <3>1. Len(FilesOf(index)) \in Nat
      BY <1>1, FilesTyped
    <3> QED BY <1>1, <2>1, <3>1 DEF FilePos
  <2>4. Loading'
    BY <1>1, <1>3, <2>3 DEF Loading
  <2>5. \A n : ValueOf(n, FilePos)' = Untouched
    BY <1>1, <2>3, ValueStart DEF ValueOf, Holders
  <2>6. ~(index = NoIndex /\ queue' = <<>>)
    BY <2>1, EmptySeq DEF FilesOf
  <2>7. BetweenFiles'
    BY <1>1, <2>5, <2>6 DEF BetweenFiles
  <2> QED BY <1>1, <2>1, <2>2, <2>4, <2>7 DEF WeightsInv, Before, InFile,
                                              LoadedFromLastFile, FailsBetweenTensors
<1> QED BY <1>2, <1>3

(* Opening a file: before its first tensor, all of the files before it.    *)
LEMMA OpenFileStep == WeightsInv /\ OpenFile => WeightsInv'
<1> SUFFICES ASSUME WeightsInv, OpenFile PROVE WeightsInv'
  OBVIOUS
<1>1. /\ index' = index /\ disk' = disk /\ queue' = queue /\ weights' = weights
      /\ wphase = "files" /\ queue # <<>>
      /\ WeightsShape /\ IndexOK /\ IndexOK'
      /\ FilesOf(index)' = FilesOf(index) /\ Reached(index)' = Reached(index)
      /\ FilePos' = FilePos
  BY ValuesKept DEF OpenFile, winput, WeightsInv, WeightsShape, FilePos
<1>2. /\ FilePos \in 1 .. Len(FilesOf(index)) /\ queue[1] = FilesOf(index)[FilePos]
      /\ DOMAIN FilesOf(index) = 1 .. Len(FilesOf(index))
  BY <1>1, Counts, FilesTyped
<1>3. /\ index # Garbled /\ \A j \in 1 .. FilePos - 1 : Readable(FilesOf(index)[j])
      /\ \A n \in ToSet(Names) : weights[n] = ValueOf(n, FilePos)
  BY <1>1 DEF WeightsInv, Loading, BetweenFiles
<1>4. /\ \A n, k : ValueOf(n, k)' = ValueOf(n, k)
      /\ \A f : Readable(f)' <=> Readable(f)
      /\ \A f, n : Holds(f, n)' <=> Holds(f, n)
      /\ \A f, n : Copies(f, n)' <=> Copies(f, n)
  BY <1>1, ValuesKept
<1>5. CASE Readable(queue[1])
  <2>1. wphase' = "tensors" /\ todo' = Names
    BY <1>5 DEF OpenFile
  <2>2. NamePos' = 1
    BY <2>1, NamesTyped DEF NamePos
  <2>3. WeightsShape'
    <3>1. RestOf(Names, Names)
      BY NamesTyped DEF RestOf
    <3> QED BY <1>1, <2>1, <3>1, NamesTyped DEF WeightsShape
  <2>4. Loading'
    BY <1>1, <1>3, <1>4 DEF Loading
  <2>5. \A j \in 1 .. Len(Names) : /\ ~(j < 1)
                                   /\ weights[Names[j]] = ValueOf(Names[j], FilePos)
    BY <1>3, NamesTyped
  <2>6. InFile'
    BY <1>1, <1>4, <1>5, <2>2, <2>5 DEF InFile
  <2> QED BY <2>1, <2>3, <2>4, <2>6 DEF WeightsInv, Before, BetweenFiles,
                                         LoadedFromLastFile, FailsBetweenTensors
<1>6. CASE ~Readable(queue[1])
  <2>1. wphase' = "thrown" /\ todo' = <<>>
    BY <1>6 DEF OpenFile
  <2>2. WeightsShape'
    <3>1. <<>> \in Seq(ToSet(Names)) /\ RestOf(<<>>, Names)
      BY NamesTyped, EmptySeq DEF RestOf
    <3> QED BY <1>1, <2>1, <3>1 DEF WeightsShape
  <2>3. 1 \in DOMAIN Names
    <3>1. Embed \in ToSet(Names)
      BY WeightsAssumption, NamesTyped
    <3>2. DOMAIN Names # {}
      BY <3>1 DEF ToSet
    <3> QED BY <3>2, NamesTyped
  <2>4. FailsBetweenTensors'
    <3>1. \A j \in DOMAIN Names : /\ ~(j < 1)
                                   /\ weights[Names[j]] = ValueOf(Names[j], FilePos)
      BY <1>3, NamesTyped
    <3> QED BY <1>1, <1>2, <1>3, <1>4, <1>6, <2>3, <3>1 DEF FailsBetweenTensors
  <2> QED BY <2>1, <2>2, <2>4 DEF WeightsInv, Before, Loading, BetweenFiles, InFile,
                                   LoadedFromLastFile
<1> QED BY <1>5, <1>6

(* One name further in a file.                                             *)
LEMMA NextName ==
  ASSUME WeightsInv, wphase = "tensors", todo # <<>>,
         UNCHANGED <<index, disk, wphase, queue>>, todo' = Tail(todo),
         weights' \in [ToSet(Names) -> {Untouched} \union Reached(index)],
         \A n \in ToSet(Names) \ {todo[1]} : weights'[n] = weights[n],
         weights'[todo[1]] = ValueOf(todo[1], FilePos + 1),
         index = NoIndex /\ todo[1] \in ToSet(Params) => Holds(Single, todo[1])
  PROVE  WeightsInv'
<1>1. /\ WeightsShape /\ IndexOK /\ IndexOK' /\ queue # <<>>
      /\ FilesOf(index)' = FilesOf(index) /\ Reached(index)' = Reached(index)
      /\ FilePos' = FilePos
  BY ValuesKept DEF WeightsInv, WeightsShape, FilePos, InFile
<1>2. /\ \A n, k : ValueOf(n, k)' = ValueOf(n, k)
      /\ \A f : Readable(f)' <=> Readable(f)
      /\ \A f, n : Holds(f, n)' <=> Holds(f, n)
  BY ValuesKept
<1>3. /\ NamePos \in 1 .. Len(Names) /\ todo[1] = Names[NamePos] /\ Len(Names) \in Nat
  BY <1>1, Counts
<1>4. RestOf(Tail(todo), Names) /\ Tail(todo) \in Seq(ToSet(Names)) /\ NamePos' = NamePos + 1
  <2>1. PICK S, s, t : S = ToSet(Names) /\ s = todo /\ t = Names
    OBVIOUS
  <2>2. s \in Seq(S) /\ t \in Seq(S) /\ RestOf(s, t) /\ s # <<>>
    BY <1>1, <2>1, NamesTyped DEF WeightsShape
  <2>3. RestOf(Tail(s), t) /\ Tail(s) \in Seq(S) /\ Len(Tail(s)) = Len(s) - 1
    BY <2>2, RestTail
  <2>4. Len(todo) \in Nat /\ Len(Names) \in Nat
    BY <1>1, Counts
  <2> QED BY <2>1, <2>3, <2>4 DEF NamePos
<1>5. WeightsShape'
  BY <1>1, <1>4 DEF WeightsShape
<1>6. Loading'
  BY <1>1, <1>2 DEF WeightsInv, Loading
<1>7. \A j \in 1 .. Len(Names) :
         weights'[Names[j]] = ValueOf(Names[j], IF j < NamePos + 1 THEN FilePos + 1 ELSE FilePos)
  <2> TAKE j \in 1 .. Len(Names)
  <2>1. weights[Names[j]] = ValueOf(Names[j], IF j < NamePos THEN FilePos + 1 ELSE FilePos)
    BY DEF WeightsInv, InFile
  <2>2. CASE j = NamePos
    BY <1>3, <2>2
  <2>3. CASE j # NamePos
    <3>1. Names[j] # todo[1] /\ Names[j] \in ToSet(Names)
      BY <1>3, <2>3, NamesTyped DEF IsInjective
    <3>2. j < NamePos + 1 <=> j < NamePos
      BY <1>3, <2>3
    <3> QED BY <2>1, <3>1, <3>2
  <2> QED BY <2>2, <2>3
<1>8. index = NoIndex =>
        \A j \in 1 .. (NamePos + 1) - 1 : Names[j] \in ToSet(Params) => Holds(Single, Names[j])
  <2> SUFFICES ASSUME index = NoIndex, NEW j \in 1 .. (NamePos + 1) - 1, Names[j] \in ToSet(Params)
               PROVE  Holds(Single, Names[j])
    OBVIOUS
  <2>1. j = NamePos \/ j \in 1 .. NamePos - 1
    BY <1>3
  <2> QED BY <1>3, <2>1 DEF WeightsInv, InFile
<1>9. InFile'
  <2>1. Readable(queue[1])
    BY DEF WeightsInv, InFile
  <2> QED BY <1>1, <1>2, <1>4, <1>7, <1>8, <2>1 DEF InFile
<1> QED BY <1>5, <1>6, <1>9 DEF WeightsInv, Before, BetweenFiles,
                                 LoadedFromLastFile, FailsBetweenTensors

(* The file being loaded is the only one without an index.                 *)
LEMMA SingleFile ==
  ASSUME WeightsShape, index = NoIndex, queue # <<>>
  PROVE  queue[1] = Single
BY Counts DEF FilesOf

LEMMA CopyTensorStep == WeightsInv /\ CopyTensor => WeightsInv'
<1> SUFFICES ASSUME WeightsInv, CopyTensor PROVE WeightsInv'
  OBVIOUS
<1>1. /\ wphase = "tensors" /\ todo # <<>> /\ todo' = Tail(todo)
      /\ UNCHANGED <<index, disk, wphase, queue>>
      /\ weights' = [weights EXCEPT ![todo[1]] = queue[1]]
      /\ Holds(queue[1], todo[1])
  BY DEF CopyTensor, winput, Copies
<1>2. /\ WeightsShape /\ IndexOK /\ queue # <<>>
      /\ weights \in [ToSet(Names) -> {Untouched} \union Reached(index)]
  BY <1>1 DEF WeightsInv, WeightsShape, InFile
<1>3. /\ FilePos \in 1 .. Len(FilesOf(index)) /\ queue[1] = FilesOf(index)[FilePos]
      /\ queue[1] \in Reached(index) /\ todo[1] \in ToSet(Names)
  BY <1>1, <1>2, Counts
<1>4. /\ weights' \in [ToSet(Names) -> {Untouched} \union Reached(index)]
      /\ \A n \in ToSet(Names) \ {todo[1]} : weights'[n] = weights[n]
      /\ weights'[todo[1]] = queue[1]
  BY <1>1, <1>2, <1>3
<1>5. ValueOf(todo[1], FilePos + 1) = queue[1]
  BY <1>1, <1>2, <1>3, ValueStep
<1>6. index = NoIndex => Holds(Single, todo[1])
  BY <1>1, <1>2, SingleFile
<1> QED BY <1>1, <1>4, <1>5, <1>6, NextName

LEMMA SkipTensorStep == WeightsInv /\ SkipTensor => WeightsInv'
<1> SUFFICES ASSUME WeightsInv, SkipTensor PROVE WeightsInv'
  OBVIOUS
<1>1. /\ wphase = "tensors" /\ todo # <<>> /\ todo' = Tail(todo)
      /\ UNCHANGED <<index, disk, wphase, queue>> /\ weights' = weights
      /\ ~Holds(queue[1], todo[1]) /\ (index # NoIndex \/ todo[1] \notin ToSet(Params))
  BY DEF SkipTensor, winput, Skips, Demanding
<1>2. /\ WeightsShape /\ IndexOK /\ queue # <<>>
      /\ weights \in [ToSet(Names) -> {Untouched} \union Reached(index)]
  BY <1>1 DEF WeightsInv, WeightsShape, InFile
<1>3. /\ FilePos \in 1 .. Len(FilesOf(index)) /\ queue[1] = FilesOf(index)[FilePos]
      /\ NamePos \in 1 .. Len(Names) /\ todo[1] = Names[NamePos]
  BY <1>1, <1>2, Counts
<1>4. weights[todo[1]] = ValueOf(todo[1], FilePos)
  BY <1>1, <1>3 DEF WeightsInv, InFile
<1>5. ValueOf(todo[1], FilePos + 1) = weights'[todo[1]]
  BY <1>1, <1>2, <1>3, <1>4, ValueStep
<1> QED BY <1>1, <1>2, <1>5, NextName

(* The exception leaves the tensors before the one it is about.            *)
LEMMA FailTensorStep == WeightsInv /\ FailTensor => WeightsInv'
<1> SUFFICES ASSUME WeightsInv, FailTensor PROVE WeightsInv'
  OBVIOUS
<1>1. /\ wphase = "tensors" /\ todo # <<>> /\ wphase' = "thrown"
      /\ UNCHANGED <<index, disk, queue, todo, weights>>
      /\ ~Copies(queue[1], todo[1])
      /\ Holds(queue[1], todo[1]) \/ index = NoIndex
  BY DEF FailTensor, winput, Skips, Demanding
<1>2. /\ WeightsShape /\ IndexOK /\ IndexOK' /\ queue # <<>> /\ Readable(queue[1])
      /\ FilesOf(index)' = FilesOf(index) /\ Reached(index)' = Reached(index)
      /\ \A n, k : ValueOf(n, k)' = ValueOf(n, k)
      /\ \A f : Readable(f)' <=> Readable(f)
      /\ \A f, n : Holds(f, n)' <=> Holds(f, n)
      /\ \A f, n : Copies(f, n)' <=> Copies(f, n)
  BY <1>1, ValuesKept DEF WeightsInv, WeightsShape, InFile
<1>3. /\ FilePos \in DOMAIN FilesOf(index) /\ queue[1] = FilesOf(index)[FilePos]
      /\ NamePos \in DOMAIN Names /\ todo[1] = Names[NamePos]
      /\ DOMAIN Names = 1 .. Len(Names)
  BY <1>1, <1>2, Counts, FilesTyped, NamesTyped
<1>4. /\ \A j \in 1 .. FilePos - 1 : Readable(FilesOf(index)[j])
      /\ \A j \in 1 .. Len(Names) :
           weights[Names[j]] = ValueOf(Names[j], IF j < NamePos THEN FilePos + 1 ELSE FilePos)
  BY <1>1 DEF WeightsInv, Loading, InFile
<1>5. WeightsShape'
  BY <1>1, <1>2 DEF WeightsShape
<1>6. FailsBetweenTensors'
  BY <1>1, <1>2, <1>3, <1>4 DEF FailsBetweenTensors
<1> QED BY <1>1, <1>5, <1>6 DEF WeightsInv, Before, Loading, BetweenFiles, InFile,
                                 LoadedFromLastFile

(* A file done: every name has the value after it.                         *)
LEMMA CloseFileStep == WeightsInv /\ CloseFile => WeightsInv'
<1> SUFFICES ASSUME WeightsInv, CloseFile PROVE WeightsInv'
  OBVIOUS
<1>1. /\ wphase = "tensors" /\ todo = <<>> /\ wphase' = "files" /\ queue' = Tail(queue)
      /\ UNCHANGED <<index, disk, todo, weights>>
  BY DEF CloseFile, winput
<1>2. /\ WeightsShape /\ IndexOK /\ IndexOK' /\ queue # <<>> /\ Readable(queue[1])
      /\ FilesOf(index)' = FilesOf(index) /\ Reached(index)' = Reached(index)
      /\ \A n, k : ValueOf(n, k)' = ValueOf(n, k)
      /\ \A f : Readable(f)' <=> Readable(f)
      /\ \A f, n : Holds(f, n)' <=> Holds(f, n)
  BY <1>1, ValuesKept DEF WeightsInv, WeightsShape, InFile
<1>3. /\ FilePos \in 1 .. Len(FilesOf(index)) /\ queue[1] = FilesOf(index)[FilePos]
      /\ NamePos = Len(Names) + 1 /\ Len(Names) \in Nat
  BY <1>1, <1>2, Counts
<1>4. RestOf(Tail(queue), FilesOf(index)) /\ Tail(queue) \in Seq(Reached(index)) /\ FilePos' = FilePos + 1
  <2>1. PICK S, s, t : S = Reached(index) /\ s = queue /\ t = FilesOf(index)
    OBVIOUS
  <2>2. s \in Seq(S) /\ t \in Seq(S) /\ RestOf(s, t) /\ s # <<>>
    BY <1>2, <2>1, FilesTyped DEF WeightsShape
  <2>3. RestOf(Tail(s), t) /\ Tail(s) \in Seq(S) /\ Len(Tail(s)) = Len(s) - 1
    BY <2>2, RestTail
  <2>4. Len(queue) \in Nat /\ Len(FilesOf(index)) \in Nat
    BY <1>2, Counts
  <2>5. Len(queue') = Len(queue) - 1
    BY <1>1, <2>1, <2>3
  <2>6. FilePos' = Len(FilesOf(index)) - Len(queue') + 1
    BY <1>2 DEF FilePos
  <2> QED BY <2>1, <2>3, <2>4, <2>5, <2>6 DEF FilePos
<1>5. WeightsShape'
  BY <1>1, <1>2, <1>4 DEF WeightsShape
<1>6. Loading'
  <2>1. ASSUME NEW j \in 1 .. FilePos PROVE Readable(FilesOf(index)[j])
    <3>1. j = FilePos \/ j \in 1 .. FilePos - 1
      BY <1>3
    <3> QED BY <1>1, <1>2, <1>3, <3>1 DEF WeightsInv, Loading
  <2>2. (FilePos + 1) - 1 = FilePos
    BY <1>3
  <2> QED BY <1>1, <1>2, <1>4, <2>1, <2>2 DEF WeightsInv, Loading
<1>7. ASSUME NEW n \in ToSet(Names) PROVE weights[n] = ValueOf(n, FilePos + 1)
  <2>1. PICK j \in 1 .. Len(Names) : n = Names[j]
    BY NamesTyped DEF ToSet
  <2>2. j < NamePos
    BY <1>3
  <2> QED BY <1>1, <2>1, <2>2 DEF WeightsInv, InFile
<1>8. ASSUME index = NoIndex, NEW n \in ToSet(Params) PROVE Holds(Single, n)
  <2>1. n \in ToSet(Names)
    BY NamesTyped
  <2>2. PICK j \in 1 .. Len(Names) : n = Names[j]
    BY <2>1, NamesTyped DEF ToSet
  <2>3. j \in 1 .. NamePos - 1
    BY <1>3
  <2> QED BY <1>1, <1>8, <2>2, <2>3 DEF WeightsInv, InFile
<1>9. BetweenFiles'
  BY <1>1, <1>2, <1>4, <1>7, <1>8 DEF BetweenFiles
<1> QED BY <1>1, <1>5, <1>6, <1>9 DEF WeightsInv, Before, InFile,
                                       LoadedFromLastFile, FailsBetweenTensors

(* No file left: each name has the tensor of the last file that holds it.  *)
LEMMA LoadReturnsStep == WeightsInv /\ LoadReturns => WeightsInv'
<1> SUFFICES ASSUME WeightsInv, LoadReturns PROVE WeightsInv'
  OBVIOUS
<1>1. /\ wphase = "files" /\ queue = <<>> /\ wphase' = "loaded"
      /\ UNCHANGED <<index, disk, queue, todo, weights>>
  BY DEF LoadReturns, winput
<1>2. /\ WeightsShape /\ IndexOK /\ IndexOK'
      /\ FilesOf(index)' = FilesOf(index) /\ Reached(index)' = Reached(index)
      /\ \A n, k : ValueOf(n, k)' = ValueOf(n, k)
  BY <1>1, ValuesKept DEF WeightsInv, WeightsShape
<1>3. FilePos = Len(FilesOf(index)) + 1
  BY <1>1, <1>2, Counts
<1>4. \A n \in ToSet(Names) : weights[n] = ValueOf(n, Len(FilesOf(index)) + 1)
  BY <1>1, <1>3 DEF WeightsInv, BetweenFiles
<1>5. ASSUME NEW n \in ToSet(Params), weights[n] = Untouched PROVE index # NoIndex
  <2> SUFFICES ASSUME index = NoIndex PROVE FALSE
    OBVIOUS
  <2>1. FilesOf(index) = <<Single>> /\ Len(FilesOf(index)) = 1 /\ 1 \in 1 .. Len(FilesOf(index))
    BY DEF FilesOf
  <2>2. Holds(FilesOf(index)[1], n)
    BY <1>1, <2>1 DEF WeightsInv, BetweenFiles
  <2>3. ValueOf(n, 1 + 1) = FilesOf(index)[1]
    BY <1>2, <2>1, <2>2, ValueStep
  <2>4. ValueOf(n, 1 + 1) = Untouched
    BY <1>4, <1>5, <2>1, NamesTyped
  <2> QED BY <2>1, <2>3, <2>4, WeightsAssumption
<1>6. WeightsShape'
  BY <1>1, <1>2 DEF WeightsShape
<1>7. LoadedFromLastFile'
  BY <1>1, <1>2, <1>4, <1>5 DEF LoadedFromLastFile
<1> QED BY <1>1, <1>6, <1>7 DEF WeightsInv, Before, Loading, BetweenFiles, InFile,
                                 FailsBetweenTensors

LEMMA TieStep == WeightsInv /\ Tie => WeightsInv'
<1> SUFFICES ASSUME WeightsInv, Tie PROVE WeightsInv'
  OBVIOUS
<1>1. /\ wphase' = "ready" /\ UNCHANGED <<index, disk, tied, queue, todo>>
      /\ weights' = IF tied THEN [weights EXCEPT ![LmHead] = weights[Embed]] ELSE weights
  BY DEF Tie, winput
<1>2. /\ WeightsShape /\ IndexOK /\ IndexOK'
      /\ FilesOf(index)' = FilesOf(index) /\ Reached(index)' = Reached(index)
      /\ weights \in [ToSet(Names) -> {Untouched} \union Reached(index)]
  BY <1>1, ValuesKept DEF WeightsInv, WeightsShape
<1>3. Embed \in ToSet(Names) /\ LmHead \in ToSet(Names)
  BY WeightsAssumption, NamesTyped
<1>4. /\ weights' \in [ToSet(Names) -> {Untouched} \union Reached(index)]
      /\ tied => weights'[LmHead] = weights'[Embed]
  BY <1>1, <1>2, <1>3
<1>5. WeightsShape'
  BY <1>1, <1>2, <1>4 DEF WeightsShape
<1>6. LoadedFromLastFile'
  BY <1>1, <1>4 DEF LoadedFromLastFile
<1> QED BY <1>1, <1>5, <1>6 DEF WeightsInv, Before, Loading, BetweenFiles, InFile,
                                 FailsBetweenTensors

LEMMA WeightsKept == WeightsInv /\ UNCHANGED wvars => WeightsInv'
<1> SUFFICES ASSUME WeightsInv, UNCHANGED wvars PROVE WeightsInv'
  OBVIOUS
<1>1. UNCHANGED <<index, disk, tied, wphase, queue, todo, weights>>
  BY DEF wvars, winput
<1>2. /\ FilesOf(index)' = FilesOf(index) /\ Reached(index)' = Reached(index)
      /\ IndexOK => IndexOK'
      /\ \A f, n : Holds(f, n)' <=> Holds(f, n)
      /\ \A f : Readable(f)' <=> Readable(f)
      /\ \A f, n : Copies(f, n)' <=> Copies(f, n)
      /\ \A n, k : ValueOf(n, k)' = ValueOf(n, k)
      /\ FilePos' = FilePos /\ NamePos' = NamePos
  BY <1>1, ValuesKept DEF FilePos, NamePos
<1>3. WeightsShape' /\ Before'
  BY <1>1, <1>2 DEF WeightsInv, WeightsShape, Before
<1>4. Loading' /\ BetweenFiles'
  BY <1>1, <1>2 DEF WeightsInv, Loading, BetweenFiles
<1>5. InFile'
  BY <1>1, <1>2 DEF WeightsInv, InFile
<1>6. LoadedFromLastFile'
  BY <1>1, <1>2 DEF WeightsInv, LoadedFromLastFile
<1>7. FailsBetweenTensors'
  BY <1>1, <1>2 DEF WeightsInv, FailsBetweenTensors
<1> QED BY <1>3, <1>4, <1>5, <1>6, <1>7 DEF WeightsInv

(* The invariant of a load is inductive.                                   *)
LEMMA WeightsInvHolds == Spec => []WeightsInv
<1>1. Init => WeightsInv
  BY WeightsStart DEF Init
<1>2. WeightsInv /\ [Next]_setUpVars => WeightsInv'
  <2> SUFFICES ASSUME WeightsInv, [Next]_setUpVars PROVE WeightsInv'
    OBVIOUS
  <2>1. CASE WeightsNext
    BY <2>1, OpenDirStep, OpenFileStep, CopyTensorStep, SkipTensorStep, FailTensorStep,
       CloseFileStep, LoadReturnsStep, TieStep DEF WeightsNext
  <2>2. CASE UNCHANGED wvars
    BY <2>2, WeightsKept
  <2> QED BY <2>1, <2>2 DEF Next, LoadStep, TokenizerStep, setUpVars
<1> QED BY <1>1, <1>2, PTL DEF Spec

(* For any module and any files: a load that returns                       *)
(* (utils/model_utils.cpp 31-117) has given every name the tensor of the   *)
(* last file that holds it, without an index leaves no parameter out, and  *)
(* ties the head to the embedding where the configuration says so.         *)
THEOREM LoadsFromLastFile == Spec => []LoadedFromLastFile
<1>1. WeightsInv => LoadedFromLastFile
  BY DEF WeightsInv
<1> QED BY <1>1, WeightsInvHolds, PTL

(* For any module and any files: an exception leaves exactly the tensors   *)
(* before the one it is about (utils/model_utils.cpp 71-100).              *)
THEOREM LoadFailsBetweenTensors == Spec => []FailsBetweenTensors
<1>1. WeightsInv => FailsBetweenTensors
  BY DEF WeightsInv
<1> QED BY <1>1, WeightsInvHolds, PTL

----------------------------------------------------------------------------
(***************************************************************************)
(* The ranks a vocabulary file is read into.                               *)
(***************************************************************************)

(* Places in an ascending list of bytes.                                   *)
LEMMA Places ==
  ASSUME NEW S \in SUBSET Bytes
  PROVE  /\ IsFiniteSet(S) /\ Cardinality(S) \in Nat
         /\ \A b \in S : Below(S, b) \in 0 .. Cardinality(S) - 1
         /\ \A b, c \in S : b < c => Below(S, b) < Below(S, c)
<1>1. IsFiniteSet(Bytes) /\ \A b \in Bytes : b \in Int
  BY BytesAssumption, FS_Interval DEF Bytes
<1>2. IsFiniteSet(S) /\ Cardinality(S) \in Nat
  BY <1>1, FS_Subset, FS_CardinalityType
<1>3. ASSUME NEW b \in S
      PROVE  /\ IsFiniteSet({c \in S : c < b}) /\ Below(S, b) \in Nat
             /\ Below(S, b) < Cardinality(S)
  <2> DEFINE T == {c \in S : c < b}
  <2>1. T \in SUBSET S /\ b \notin T
    BY <1>1
  <2> HIDE DEF T
  <2>2. IsFiniteSet(T) /\ Cardinality(T) \in Nat /\ Cardinality(T) <= Cardinality(S)
        /\ (Cardinality(S) = Cardinality(T) => S = T)
    BY <1>2, <2>1, FS_Subset, FS_CardinalityType
  <2>3. Cardinality(T) < Cardinality(S)
    BY <1>2, <2>1, <2>2
  <2> QED BY <2>2, <2>3 DEF T, Below
<1>4. ASSUME NEW b \in S, NEW c \in S, b < c PROVE Below(S, b) < Below(S, c)
  <2> DEFINE T == {d \in S : d < b}
             U == {d \in S : d < c}
  <2>1. T \in SUBSET U /\ b \in U /\ b \notin T
    BY <1>1, <1>4
  <2>2. IsFiniteSet(U) /\ Cardinality(U) \in Nat /\ Cardinality(T) \in Nat
    BY <1>3 DEF Below
  <2> HIDE DEF T, U
  <2>3. Cardinality(T) <= Cardinality(U) /\ (Cardinality(U) = Cardinality(T) => U = T)
    BY <2>1, <2>2, FS_Subset
  <2>4. Cardinality(T) < Cardinality(U)
    BY <2>1, <2>2, <2>3
  <2> QED BY <2>4 DEF T, U, Below
<1>5. \A b \in S : Below(S, b) \in 0 .. Cardinality(S) - 1
  <2> TAKE b \in S
  <2>1. PICK m, n : m = Below(S, b) /\ n = Cardinality(S)
    OBVIOUS
  <2>2. m \in Nat /\ n \in Nat /\ m < n
    BY <1>2, <1>3, <2>1
  <2>3. m \in 0 .. n - 1
    BY <2>2
  <2> QED BY <2>1, <2>3
<1> QED BY <1>2, <1>4, <1>5

(* Every byte has a rank of its own.                                       *)
LEMMA ByteRanks ==
  /\ \A b \in Bytes : ByteRank(b) \in 0 .. NumBytes - 1
  /\ \A b, c \in Bytes : ByteRank(b) = ByteRank(c) => b = c
<1>1. Printable \in SUBSET Bytes /\ Others \in SUBSET Bytes /\ Printable \cap Others = {}
      /\ Printable \union Others = Bytes
  BY BytesAssumption DEF Others
<1>2. /\ IsFiniteSet(Printable) /\ Cardinality(Printable) \in Nat
      /\ \A b \in Printable : Below(Printable, b) \in 0 .. Cardinality(Printable) - 1
      /\ \A b, c \in Printable : b < c => Below(Printable, b) < Below(Printable, c)
  BY <1>1, Places
<1>3. /\ IsFiniteSet(Others) /\ Cardinality(Others) \in Nat
      /\ \A b \in Others : Below(Others, b) \in 0 .. Cardinality(Others) - 1
      /\ \A b, c \in Others : b < c => Below(Others, b) < Below(Others, c)
  BY <1>1, Places
<1>4. Cardinality(Printable) + Cardinality(Others) = NumBytes
  <2>1. NumBytes \in Nat \ {0} /\ 0 \in Int /\ NumBytes - 1 \in Int
    BY BytesAssumption
  <2>2. Cardinality(Bytes) = NumBytes
    BY <2>1, FS_Interval DEF Bytes
  <2>3. Cardinality(Printable \union Others) =
          Cardinality(Printable) + Cardinality(Others) - Cardinality(Printable \cap Others)
    BY <1>2, <1>3, FS_Union
  <2>4. Cardinality(Printable \cap Others) = 0
    BY <1>1, FS_EmptySet
  <2>5. Cardinality(Printable \union Others) = Cardinality(Bytes)
    BY <1>1
  <2> QED BY <1>2, <1>3, <2>2, <2>3, <2>4, <2>5
<1>5. \A b \in Bytes : b \in Int
  BY BytesAssumption DEF Bytes
<1>6. \A b \in Bytes : ByteRank(b) \in 0 .. NumBytes - 1
  <2> TAKE b \in Bytes
  <2>1. CASE b \in Printable
    BY <1>2, <1>3, <1>4, <2>1 DEF ByteRank
  <2>2. CASE b \in Others
    BY <1>1, <1>2, <1>3, <1>4, <2>2 DEF ByteRank
  <2> QED BY <1>1, <2>1, <2>2
<1>7. ASSUME NEW b \in Bytes, NEW c \in Bytes, b < c PROVE ByteRank(b) # ByteRank(c)
  <2>1. CASE b \in Printable /\ c \in Printable
    BY <1>2, <1>7, <2>1 DEF ByteRank
  <2>2. CASE b \in Others /\ c \in Others
    BY <1>1, <1>2, <1>3, <1>7, <2>2 DEF ByteRank
  <2>3. CASE b \in Printable /\ c \in Others
    BY <1>1, <1>2, <1>3, <2>3 DEF ByteRank
  <2>4. CASE b \in Others /\ c \in Printable
    BY <1>1, <1>2, <1>3, <2>4 DEF ByteRank
  <2> QED BY <1>1, <2>1, <2>2, <2>3, <2>4
<1>8. \A b, c \in Bytes : ByteRank(b) = ByteRank(c) => b = c
  <2> SUFFICES ASSUME NEW b \in Bytes, NEW c \in Bytes, b # c PROVE ByteRank(b) # ByteRank(c)
    OBVIOUS
  <2>1. b < c \/ c < b
    BY <1>5
  <2> QED BY <1>7, <2>1
<1> QED BY <1>6, <1>8

(* decode_data_gym makes bytes of any string, malformed or not.            *)
LEMMA DecodeTyped ==
  ASSUME NEW s \in Seq(Seq(Character)), NEW k \in 1 .. Len(s)
  PROVE  DecodeDataGym(s[k]) \in Seq(Bytes)
<1>1. \A c : ByteOf(c) \in Bytes
  <2>1. 0 \in Bytes
    BY BytesAssumption DEF Bytes
  <2> QED BY <2>1 DEF ByteOf
<1>2. PICK u \in Seq(Character) : u = s[k]
  OBVIOUS
<1>3. WellFormed(u) \in Seq(Character)
  <2>1. CASE ~Contains(u, Bad)
    BY <2>1 DEF WellFormed
  <2>2. CASE Contains(u, Bad)
    <3> DEFINE I == {i \in 1 .. Len(u) : u[i] = Bad}
    <3>1. I # {} /\ I \in SUBSET Nat
      <4>1. PICK i \in 1 .. Len(u) : u[i] = Bad
        BY <2>2 DEF Contains
      <4>2. i \in I
        BY <4>1
      <4>3. Len(u) \in Nat
        BY <1>2
      <4>4. 1 .. Len(u) \subseteq Nat
        BY <4>3
      <4> QED BY <4>2, <4>4
    <3>2. SelectInSeq(u, LAMBDA c : c = Bad) = Min(I)
      BY <3>1 DEF SelectInSeq
    <3>3. Min(I) \in 1 .. Len(u)
      <4> HIDE DEF I
      <4>1. Min(I) \in I
        BY <3>1, LeastOfSet
      <4> QED BY <4>1 DEF I
    <3> HIDE DEF I
    <3>4. PICK m \in 1 .. Len(u) : m = Min(I)
      BY <3>3
    <3>5. SubSeq(u, 1, m - 1) \in Seq(Character)
      BY <1>2, <3>4, SubSeqProperties
    <3> QED BY <2>2, <3>2, <3>4, <3>5 DEF WellFormed
  <2> QED BY <2>1, <2>2
<1>4. DOMAIN WellFormed(u) = 1 .. Len(WellFormed(u)) /\ Len(WellFormed(u)) \in Nat
  BY <1>3
<1>5. [j \in 1 .. Len(WellFormed(u)) |-> ByteOf(u[j])] \in Seq(Bytes)
  BY <1>1, <1>4
<1> QED BY <1>2, <1>4, <1>5 DEF DecodeDataGym

(* The merges of a file that have two fields, and their bytes.             *)
Merge2 == {m \in Seq(Seq(Character)) : Len(m) = 2}

LEMMA MergesTyped == ASSUME NEW f \in Files PROVE Merges(f) \in Seq(Merge2)
<1>1. f.merges \in Seq(Seq(Seq(Character)))
  BY FilesAssumption
<1>2. PICK S, t : S = Seq(Seq(Character)) /\ t = f.merges
  OBVIOUS
<1>3. t \in Seq(S) /\ SubSeq(t, 2, Len(t)) \in Seq(S)
  BY <1>1, <1>2
<1>4. PICK s \in Seq(S) : s = Lines(f)
  BY <1>2, <1>3 DEF Lines
<1>5. PICK g : g = [k \in DOMAIN s |-> IF Len(s[k]) = 2 THEN <<s[k]>> ELSE <<>>]
  OBVIOUS
<1>6. \A k \in 1 .. Len(s) : (IF Len(s[k]) = 2 THEN <<s[k]>> ELSE <<>>) \in Seq(Merge2)
  <2> TAKE k \in 1 .. Len(s)
  <2>1. s[k] \in S
    BY <1>4
  <2>2. Len(s[k]) = 2 => s[k] \in Merge2
    BY <1>2, <2>1 DEF Merge2
  <2> QED BY <2>2, EmptySeq
<1>7. DOMAIN s = 1 .. Len(s) /\ Len(s) \in Nat
  BY <1>4
<1>8. g \in Seq(Seq(Merge2))
  BY <1>5, <1>6, <1>7
<1>9. FlattenSeq(g) \in Seq(Merge2)
  BY <1>8, FlattenTyped
<1> QED BY <1>4, <1>5, <1>9 DEF Merges

LEMMA MergedBytesTyped ==
  ASSUME NEW f \in Files
  PROVE  MergedBytes(f) \in Seq(Seq(Bytes))
<1>1. PICK ms \in Seq(Merge2) : ms = Merges(f)
  BY MergesTyped
<1>2. DOMAIN ms = 1 .. Len(ms) /\ Len(ms) \in Nat
  OBVIOUS
<1>3. ASSUME NEW k \in 1 .. Len(ms)
      PROVE  DecodeDataGym(ms[k][1]) \o DecodeDataGym(ms[k][2]) \in Seq(Bytes)
  <2>1. PICK m \in Merge2 : m = ms[k]
    OBVIOUS
  <2>2. m \in Seq(Seq(Character)) /\ Len(m) = 2
    BY DEF Merge2
  <2>3. DecodeDataGym(m[1]) \in Seq(Bytes) /\ DecodeDataGym(m[2]) \in Seq(Bytes)
    <3>1. 1 \in 1 .. Len(m) /\ 2 \in 1 .. Len(m)
      BY <2>2
    <3> QED BY <2>2, <3>1, DecodeTyped
  <2> QED BY <2>1, <2>3
<1>4. [k \in 1 .. Len(ms) |-> DecodeDataGym(ms[k][1]) \o DecodeDataGym(ms[k][2])] \in Seq(Seq(Bytes))
  BY <1>2, <1>3
<1> QED BY <1>1, <1>2, <1>4 DEF MergedBytes

(* What the first k merges make of the ranks.                              *)
Ranked(bytes, k, g) ==
  /\ DOMAIN g = {<<b>> : b \in Bytes} \union {bytes[j] : j \in 1 .. k}
  /\ \A s \in DOMAIN g : g[s] \in 0 .. NumBytes + k - 1
  /\ IsInjective(g)
  /\ \A j \in 1 .. k :
       (\A l \in j + 1 .. k : bytes[l] # bytes[j]) => g[bytes[j]] = NumBytes + j - 1

LEMMA RankedStart ==
  ASSUME NEW bytes
  PROVE  Ranked(bytes, 0, SingleByteRanks)
<1>1. DOMAIN SingleByteRanks = {<<b>> : b \in Bytes} \union {bytes[j] : j \in 1 .. 0}
  BY DEF SingleByteRanks
<1>2. \A b \in Bytes : SingleByteRanks[<<b>>] = ByteRank(b)
  BY DEF SingleByteRanks
<1>3. \A s \in DOMAIN SingleByteRanks : SingleByteRanks[s] \in 0 .. NumBytes + 0 - 1
  <2> TAKE s \in DOMAIN SingleByteRanks
  <2>1. PICK b \in Bytes : s = <<b>>
    BY DEF SingleByteRanks
  <2>2. ByteRank(b) \in 0 .. NumBytes - 1 /\ NumBytes \in Nat
    BY ByteRanks, BytesAssumption
  <2> QED BY <1>2, <2>1, <2>2
<1>4. IsInjective(SingleByteRanks)
  <2> SUFFICES ASSUME NEW s \in DOMAIN SingleByteRanks, NEW t \in DOMAIN SingleByteRanks,
                      SingleByteRanks[s] = SingleByteRanks[t]
               PROVE  s = t
    BY DEF IsInjective
  <2>1. PICK b \in Bytes : s = <<b>>
    BY DEF SingleByteRanks
  <2>2. PICK c \in Bytes : t = <<c>>
    BY DEF SingleByteRanks
  <2> QED BY <1>2, <2>1, <2>2, ByteRanks
<1> QED BY <1>1, <1>3, <1>4 DEF Ranked

(* The next merge takes a rank no token has, also if its bytes had one.    *)
LEMMA RankedStep ==
  ASSUME NEW bytes, NEW k \in Nat, NEW g, Ranked(bytes, k, g)
  PROVE  Ranked(bytes, k + 1, Assign(g, bytes[k + 1], NumBytes + (k + 1) - 1))
<1> DEFINE s == bytes[k + 1]
           r == NumBytes + k
           h == Assign(g, s, r)
<1>1. NumBytes \in Nat \ {0} /\ NumBytes + (k + 1) - 1 = r /\ r \in Nat
  BY BytesAssumption
<1>2. DOMAIN h = DOMAIN g \union {s} /\ h[s] = r /\ \A t \in DOMAIN g \ {s} : h[t] = g[t]
  BY DEF Assign
<1>3. \A t \in DOMAIN g : g[t] \in 0 .. NumBytes + k - 1
  BY DEF Ranked
<1>4. \A t \in DOMAIN g : g[t] \in Nat /\ g[t] < r
  BY <1>1, <1>3
<1>5. DOMAIN h = {<<b>> : b \in Bytes} \union {bytes[j] : j \in 1 .. k + 1}
  <2>1. 1 .. k + 1 = 1 .. k \union {k + 1}
    OBVIOUS
  <2>2. DOMAIN g = {<<b>> : b \in Bytes} \union {bytes[j] : j \in 1 .. k}
    BY DEF Ranked
  <2> HIDE DEF h
  <2> QED BY <1>2, <2>1, <2>2
<1> HIDE DEF h, r
<1>6. \A t \in DOMAIN h : h[t] \in 0 .. NumBytes + (k + 1) - 1
  <2> TAKE t \in DOMAIN h
  <2>1. h[t] \in Nat /\ h[t] <= r
    BY <1>1, <1>2, <1>4
  <2> QED BY <1>1, <2>1
<1>7. IsInjective(h)
  <2>1. \A t, u \in DOMAIN g : g[t] = g[u] => t = u
    BY DEF Ranked, IsInjective
  <2>2. \A t \in DOMAIN g \ {s} : h[t] # r
    BY <1>1, <1>2, <1>4
  <2> HIDE DEF s
  <2> QED BY <1>2, <2>1, <2>2 DEF IsInjective
<1>8. ASSUME NEW j \in 1 .. k + 1, \A l \in j + 1 .. k + 1 : bytes[l] # bytes[j]
      PROVE  h[bytes[j]] = NumBytes + j - 1
  <2>1. CASE j = k + 1
    BY <1>1, <1>2, <2>1
  <2>2. CASE j # k + 1
    <3>1. j \in 1 .. k /\ k + 1 \in j + 1 .. k + 1 /\ j + 1 .. k \subseteq j + 1 .. k + 1
      BY <2>2
    <3>2. bytes[j] # s
      BY <1>8, <3>1
    <3>3. bytes[j] \in DOMAIN g /\ g[bytes[j]] = NumBytes + j - 1
      BY <1>8, <3>1 DEF Ranked
    <3> QED BY <1>2, <3>2, <3>3
  <2> QED BY <2>1, <2>2
<1>9. Ranked(bytes, k + 1, h)
  BY <1>5, <1>6, <1>7, <1>8 DEF Ranked
<1>10. h = Assign(g, bytes[k + 1], NumBytes + (k + 1) - 1)
  BY <1>1 DEF h
<1> QED BY <1>9, <1>10

(* The merges one after the other.                                         *)
Merging(bytes, r) ==
  r = [k \in 0 .. Len(bytes) |-> IF k = 0 THEN SingleByteRanks
                                  ELSE Assign(r[k - 1], bytes[k], NumBytes + k - 1)]

LEMMA MergingExists ==
  ASSUME NEW bytes, Len(bytes) \in Nat
  PROVE  \E r : Merging(bytes, r)
<1> DEFINE Upto(n, r) == r = [k \in 0 .. n |-> IF k = 0 THEN SingleByteRanks
                                              ELSE Assign(r[k - 1], bytes[k], NumBytes + k - 1)]
           P == {n \in Nat : \E r : Upto(n, r)}
<1>1. 0 \in P
  <2>1. PICK r : r = [k \in 0 .. 0 |-> SingleByteRanks]
    OBVIOUS
  <2>2. \A k \in 0 .. 0 : k = 0
    OBVIOUS
  <2>3. Upto(0, r)
    BY <2>1, <2>2
  <2> QED BY <2>3
<1>2. ASSUME NEW n \in P PROVE n + 1 \in P
  <2>1. PICK r : Upto(n, r)
    OBVIOUS
  <2>2. PICK last : last = Assign(r[n], bytes[n + 1], NumBytes + (n + 1) - 1)
    OBVIOUS
  <2>3. PICK q : q = [k \in 0 .. n + 1 |-> IF k = n + 1 THEN last ELSE r[k]]
    OBVIOUS
  <2>4. \A k \in 0 .. n : q[k] = r[k] /\ k \in 0 .. n + 1 /\ k # n + 1
    BY <2>3
  <2>5. ASSUME NEW k \in 0 .. n + 1
        PROVE  q[k] = IF k = 0 THEN SingleByteRanks
                      ELSE Assign(q[k - 1], bytes[k], NumBytes + k - 1)
    <3>1. CASE k = n + 1
      <4>1. k # 0 /\ k - 1 = n /\ n \in 0 .. n
        BY <3>1
      <4> QED BY <2>2, <2>3, <2>4, <3>1, <4>1
    <3>2. CASE k # n + 1
      <4>1. k \in 0 .. n /\ (k # 0 => k - 1 \in 0 .. n)
        BY <3>2
      <4>2. r[k] = IF k = 0 THEN SingleByteRanks
                   ELSE Assign(r[k - 1], bytes[k], NumBytes + k - 1)
        BY <2>1, <4>1
      <4> QED BY <2>4, <4>1, <4>2
    <3> QED BY <3>1, <3>2
  <2>6. Upto(n + 1, q)
    BY <2>3, <2>5
  <2> HIDE DEF Upto
  <2>7. n + 1 \in Nat /\ \E s : Upto(n + 1, s)
    BY <2>6
  <2> QED BY <2>7
<1>3. Len(bytes) \in P
  <2> HIDE DEF P
  <2>1. P \in SUBSET Nat
    BY DEF P
  <2> QED BY <1>1, <1>2, <2>1, AllNaturals
<1> QED BY <1>3 DEF Merging

LEMMA MergedRanked ==
  ASSUME NEW f \in Files
  PROVE  Ranked(MergedBytes(f), Len(MergedBytes(f)), MergedRanks(f))
<1>1. PICK bytes \in Seq(Seq(Bytes)) : bytes = MergedBytes(f)
  BY MergedBytesTyped
<1>2. PICK n \in Nat : n = Len(bytes)
  OBVIOUS
<1> DEFINE r == CHOOSE r : Merging(bytes, r)
<1>3. Merging(bytes, r)
  BY <1>2, MergingExists
<1>4. MergedRanks(f) = r[n]
  BY <1>1, <1>2 DEF MergedRanks, Merging
<1> HIDE DEF r
<1> DEFINE P == {k \in Nat : k <= n => Ranked(bytes, k, r[k])}
<1>5. 0 \in P
  <2>1. r[0] = SingleByteRanks
    BY <1>2, <1>3 DEF Merging
  <2> QED BY <2>1, RankedStart
<1>6. ASSUME NEW k \in P PROVE k + 1 \in P
  <2> SUFFICES ASSUME k + 1 <= n PROVE Ranked(bytes, k + 1, r[k + 1])
    OBVIOUS
  <2>1. k + 1 \in 0 .. Len(bytes) /\ k + 1 # 0 /\ (k + 1) - 1 = k /\ k <= n
    BY <1>2
  <2>2. r[k + 1] = Assign(r[k], bytes[k + 1], NumBytes + (k + 1) - 1)
    BY <1>3, <2>1 DEF Merging
  <2>3. Ranked(bytes, k, r[k])
    BY <2>1
  <2> QED BY <2>2, <2>3, RankedStep
<1>7. P = Nat
  <2> HIDE DEF P
  <2>1. P \in SUBSET Nat
    BY DEF P
  <2> QED BY <1>5, <1>6, <2>1, AllNaturals
<1>8. Ranked(bytes, n, r[n])
  BY <1>7
<1> QED BY <1>1, <1>2, <1>4, <1>8

----------------------------------------------------------------------------
(* The invariant of the tokenizer.  What the file has been read into: the  *)
(* ranks once it is accepted, the added tokens one by one.                 *)
Accepting == {"added", "construct", "ready", "encoded", "decoded", "thrown", "undefined", "stuck", "destroyed"}

VocabularyShape ==
  /\ vphase \in Accepting \union {"idle", "load", "refused"}
  /\ IF vphase = "idle" THEN file = NoFile ELSE file \in Files
  /\ vphase \in {"idle", "load"} => ranks = <<>> /\ specials = <<>> /\ added = <<>>
  /\ added \in Seq([id : Int, content : Seq(Bytes)]) /\ RestOf(added, file.added)
  /\ vphase \notin {"added"} => added = <<>> \/ vphase = "refused"
  /\ vphase # "idle" => ranks \in {<<>>, MergedRanks(file)}
  /\ vphase \in Accepting => ranks = MergedRanks(file)
  /\ \A s \in DOMAIN specials : s \in Seq(Bytes)

(* The special tokens are the contents of the added tokens read so far     *)
(* that have an id.                                                        *)
ReadUpTo(n) == {file.added[k].content : k \in {j \in 1 .. n : file.added[j].id # -1}}
SpecialsRead ==
  vphase \in Accepting => DOMAIN specials = ReadUpTo(Len(file.added) - Len(added))

(* What the constructor made, while a client uses it.                      *)
Constructed ==
  Built => /\ \E copies \in SpecialCopies : tls = SlotCopies("pattern") \union copies
           /\ decoder \in Inverses(ranks) /\ specialDecoder \in Inverses(specials)

(* The call being served.                                                  *)
Called ==
  /\ vphase \notin {"encoded", "decoded", "thrown"} => items = <<>> /\ ids = <<>> /\ text = <<>>
  /\ vphase \in {"encoded", "decoded"} =>
       /\ items \in Seq(Tokens) /\ ids = [k \in DOMAIN items |-> IdOf(items[k])]
       /\ text = IF vphase = "encoded" THEN <<>>
                 ELSE FlattenSeq([k \in DOMAIN ids |-> BytesOf(ids[k])])

(* How a call goes wrong.                                                  *)
Mishaps == /\ vphase = "undefined" => SpecialPatternEmpty
           /\ vphase = "stuck" => ~SpecialPatternEmpty /\ <<>> \in DOMAIN specials

VocabularyInv == VocabularyShape /\ SpecialsRead /\ Constructed /\ Called /\ Mishaps

AddedToken == [id : Int, content : Seq(Bytes)]

LEMMA AddedTyped ==
  ASSUME VocabularyShape
  PROVE  /\ file.added \in Seq(AddedToken) /\ Len(file.added) \in Nat
         /\ added \in Seq(AddedToken) /\ Len(added) \in Nat
<1>1. added \in Seq(AddedToken)
  BY DEF VocabularyShape, AddedToken
<1>2. \A f \in Files : f.added \in Seq(AddedToken)
  BY FilesAssumption DEF AddedToken
<1>3. NoFile.added \in Seq(AddedToken)
  BY NoFileAssumption, EmptySeq
<1>4. file.added \in Seq(AddedToken)
  BY <1>2, <1>3 DEF VocabularyShape
<1> QED BY <1>1, <1>4

(* Before a tokenizer is constructed, and beside a load of weights.        *)
LEMMA VocabularyStart == VocabularyInit \/ VocabularyIdle => VocabularyInv
<1> SUFFICES ASSUME VocabularyInit \/ VocabularyIdle PROVE VocabularyInv
  OBVIOUS
<1>1. /\ vphase \in {"idle", "load"}
      /\ ranks = <<>> /\ specials = <<>> /\ added = <<>>
      /\ items = <<>> /\ ids = <<>> /\ text = <<>>
      /\ IF vphase = "idle" THEN file = NoFile ELSE file \in Files
  BY DEF VocabularyInit, VocabularyIdle
<1>2. added \in Seq(AddedToken) /\ RestOf(added, file.added)
  <2>1. Len(file.added) \in Nat
    BY <1>1, FilesAssumption, NoFileAssumption, EmptySeq
  <2> QED BY <1>1, <2>1, EmptySeq DEF RestOf
<1>3. \A s \in DOMAIN specials : s \in Seq(Bytes)
  BY <1>1
<1>4. VocabularyShape
  BY <1>1, <1>2, <1>3 DEF VocabularyShape, Accepting, AddedToken
<1> QED BY <1>1, <1>4 DEF VocabularyInv, SpecialsRead, Constructed, Called, Mishaps, Accepting, Built

(* What was read does not change once it is complete.                      *)
LEMMA ShapeKept ==
  ASSUME VocabularyShape, SpecialsRead, vphase \in Accepting, added = <<>>,
         UNCHANGED <<file, ranks, added, specials>>, vphase' \in Accepting \union {"refused"}
  PROVE  VocabularyShape' /\ SpecialsRead'
<1>1. file \in Files /\ vphase' # "idle" /\ vphase' # "load" /\ vphase # "idle"
  BY DEF VocabularyShape, Accepting
<1>2. VocabularyShape'
  BY <1>1 DEF VocabularyShape
<1>3. SpecialsRead'
  <2> SUFFICES ASSUME vphase' \in Accepting PROVE SpecialsRead'
    BY DEF SpecialsRead
  <2>1. DOMAIN specials = ReadUpTo(Len(file.added) - Len(added))
    BY DEF SpecialsRead
  <2>2. ReadUpTo(Len(file.added) - Len(added))' = ReadUpTo(Len(file.added) - Len(added))
    BY DEF ReadUpTo
  <2> QED BY <2>1, <2>2 DEF SpecialsRead
<1> QED BY <1>2, <1>3

(* After the added tokens nothing is left to read.                         *)
LEMMA AllRead ==
  ASSUME VocabularyShape, vphase \in Accepting \ {"added"}
  PROVE  added = <<>>
BY DEF VocabularyShape, Accepting

LEMMA LoadRanksStep == VocabularyInv /\ LoadRanks => VocabularyInv'
<1> SUFFICES ASSUME VocabularyInv, LoadRanks PROVE VocabularyInv'
  OBVIOUS
<1>1. /\ vphase = "load" /\ VocabularyShape /\ file \in Files
      /\ UNCHANGED <<file, specials, items, ids, text>>
      /\ ranks = <<>> /\ specials = <<>> /\ added = <<>>
      /\ items = <<>> /\ ids = <<>> /\ text = <<>>
  BY DEF LoadRanks, VocabularyInv, VocabularyShape, Called
<1>2. file.added \in Seq(AddedToken) /\ Len(file.added) \in Nat
  BY <1>1, AddedTyped
<1>3. CASE Accepted
  <2>1. ranks' = MergedRanks(file) /\ added' = file.added /\ vphase' = "added"
    BY <1>3 DEF LoadRanks
  <2>2. RestOf(file.added, file.added)
    BY <1>2 DEF RestOf
  <2>3. VocabularyShape'
    BY <1>1, <1>2, <2>1, <2>2 DEF VocabularyShape, Accepting, AddedToken
  <2>4. SpecialsRead'
    <3>1. Len(file.added) - Len(file.added) = 0
      BY <1>2
    <3>2. (Len(file.added) - Len(added))' = 0
      BY <1>1, <2>1, <3>1
    <3>3. ReadUpTo(Len(file.added) - Len(added))' = {} /\ DOMAIN specials' = {}
      BY <1>1, <3>2 DEF ReadUpTo
    <3> QED BY <3>3 DEF SpecialsRead
  <2> QED BY <1>1, <2>1, <2>3, <2>4 DEF VocabularyInv, Constructed, Called, Built, Mishaps
<1>4. CASE ~Accepted
  <2>1. ranks' = ranks /\ added' = added /\ vphase' = "refused"
    BY <1>4 DEF LoadRanks
  <2>2. VocabularyShape'
    BY <1>1, <2>1 DEF VocabularyShape, Accepting
  <2> QED BY <1>1, <2>1, <2>2 DEF VocabularyInv, SpecialsRead, Constructed, Called, Mishaps, Built, Accepting
<1> QED BY <1>3, <1>4

LEMMA AddTokenStep == VocabularyInv /\ AddToken => VocabularyInv'
<1> SUFFICES ASSUME VocabularyInv, AddToken PROVE VocabularyInv'
  OBVIOUS
<1>1. /\ vphase = "added" /\ vphase' = "added" /\ added # <<>> /\ added' = Tail(added)
      /\ specials' = IF added[1].id = -1 THEN specials
                     ELSE Assign(specials, added[1].content, added[1].id)
      /\ UNCHANGED <<file, ranks, items, ids, text>>
      /\ VocabularyShape /\ SpecialsRead
      /\ items = <<>> /\ ids = <<>> /\ text = <<>>
  BY DEF AddToken, VocabularyInv, Called
<1>2. PICK s, t : s = added /\ t = file.added
  OBVIOUS
<1>3. s \in Seq(AddedToken) /\ t \in Seq(AddedToken) /\ Len(s) \in Nat /\ Len(t) \in Nat /\ RestOf(s, t) /\ s # <<>>
  BY <1>1, <1>2, AddedTyped DEF VocabularyShape
<1>4. /\ RestOf(Tail(s), t) /\ Tail(s) \in Seq(AddedToken) /\ Len(Tail(s)) = Len(s) - 1
      /\ s[1] = t[Len(t) - Len(s) + 1] /\ Len(t) - Len(s) + 1 \in 1 .. Len(t)
  BY <1>3, RestTail
<1>5. s[1].content \in Seq(Bytes)
  <2>1. s[1] \in AddedToken
    BY <1>3, <1>4
  <2> QED BY <2>1 DEF AddedToken
<1>6. \A u \in DOMAIN specials' : u \in Seq(Bytes)
  BY <1>1, <1>2, <1>5 DEF VocabularyShape, Assign
<1>7. VocabularyShape'
  BY <1>1, <1>2, <1>4, <1>6 DEF VocabularyShape, Accepting, AddedToken
<1>8. SpecialsRead'
  <2> DEFINE n == Len(t) - Len(s)
             Taken(k) == IF t[k].id # -1 THEN {t[k].content} ELSE {}
  <2>1. n \in Nat /\ Len(t) - Len(Tail(s)) = n + 1 /\ 1 .. n + 1 = (1 .. n) \union {n + 1}
    <3>1. Len(s) <= Len(t) /\ Len(s) \in Nat /\ Len(t) \in Nat /\ Len(Tail(s)) = Len(s) - 1
      BY <1>3, <1>4 DEF RestOf
    <3>2. n \in Nat /\ Len(t) - Len(Tail(s)) = n + 1
      <4>1. PICK i, j \in Nat : i = Len(s) /\ j = Len(t) /\ i <= j
        BY <3>1
      <4>2. j - i \in Nat /\ j - (i - 1) = (j - i) + 1
        BY <4>1
      <4> QED BY <3>1, <4>1, <4>2
    <3> HIDE DEF n
    <3>3. 1 .. n + 1 = (1 .. n) \union {n + 1}
      BY <3>2
    <3> QED BY <3>2, <3>3
  <2>2. DOMAIN specials = ReadUpTo(n)
    BY <1>1, <1>2 DEF SpecialsRead, Accepting
  <2>3. ReadUpTo(n + 1) = ReadUpTo(n) \union Taken(n + 1)
    <3> HIDE DEF n
    <3> QED BY <1>2, <2>1 DEF ReadUpTo
  <2>4. DOMAIN specials' = DOMAIN specials \union Taken(n + 1)
    <3>1. DOMAIN Assign(specials, s[1].content, s[1].id) = DOMAIN specials \union {s[1].content}
      BY DEF Assign
    <3> QED BY <1>1, <1>2, <1>4, <3>1
  <2>5. ReadUpTo(Len(file.added) - Len(added))' = ReadUpTo(n + 1)
    BY <1>1, <1>2, <2>1 DEF ReadUpTo
  <2> QED BY <2>2, <2>3, <2>4, <2>5 DEF SpecialsRead
<1> QED BY <1>1, <1>7, <1>8 DEF VocabularyInv, Constructed, Called, Mishaps, Built

LEMMA ConstructStep == VocabularyInv /\ (AddedAll \/ Construct \/ ConstructThrows) => VocabularyInv'
<1> SUFFICES ASSUME VocabularyInv, AddedAll \/ Construct \/ ConstructThrows PROVE VocabularyInv'
  OBVIOUS
<1>1. /\ VocabularyShape /\ SpecialsRead
      /\ vphase \in {"added", "construct"} /\ vphase' \in {"construct", "ready", "refused"}
      /\ UNCHANGED <<file, ranks, added, specials, items, ids, text>>
  BY DEF VocabularyInv, AddedAll, Construct, ConstructThrows
<1>2. added = <<>> /\ items = <<>> /\ ids = <<>> /\ text = <<>>
  BY <1>1, AllRead DEF VocabularyInv, AddedAll, Construct, ConstructThrows, Called, Accepting
<1>3. VocabularyShape' /\ SpecialsRead'
  BY <1>1, <1>2, ShapeKept DEF Accepting
<1>4. Called'
  BY <1>1, <1>2 DEF Called
<1>5. Constructed'
  <2>1. CASE Construct
    <3>1. /\ \E copies \in SpecialCopies : tls' = SlotCopies("pattern") \union copies
          /\ decoder' \in Inverses(ranks) /\ specialDecoder' \in Inverses(specials)
      BY <2>1 DEF Construct
    <3>2. SpecialCopies' = SpecialCopies
      BY <1>1 DEF SpecialCopies, SpecialPatternEmpty
    <3> QED BY <1>1, <3>1, <3>2 DEF Constructed
  <2>2. CASE AddedAll \/ ConstructThrows
    BY <2>2 DEF AddedAll, ConstructThrows, Constructed, Built
  <2> QED BY <2>1, <2>2
<1> QED BY <1>1, <1>3, <1>4, <1>5 DEF VocabularyInv, Mishaps

(* A call of the tokenizer leaves it as it was constructed.                *)
LEMMA ToolsKept ==
  ASSUME VocabularyInv, vphase \in Accepting \ {"added", "construct"},
         vphase \in {"ready", "encoded", "decoded", "thrown"} \/ ~Built',
         UNCHANGED <<file, ranks, added, specials, decoder, specialDecoder>>,
         tls' = tls \/ ~Built', vphase' \in Accepting,
         vphase' = "undefined" => SpecialPatternEmpty,
         vphase' = "stuck" => ~SpecialPatternEmpty /\ <<>> \in DOMAIN specials
  PROVE  VocabularyShape' /\ SpecialsRead' /\ Constructed' /\ Mishaps'
<1>1. VocabularyShape /\ SpecialsRead /\ added = <<>>
  BY AllRead DEF VocabularyInv
<1>2. VocabularyShape' /\ SpecialsRead'
  BY <1>1, ShapeKept
<1>3. Constructed'
  <2> SUFFICES ASSUME Built' PROVE Constructed'
    BY DEF Constructed
  <2>1. Built /\ tls' = tls
    BY DEF Built
  <2>2. SpecialCopies' = SpecialCopies
    BY DEF SpecialCopies, SpecialPatternEmpty
  <2> QED BY <2>1, <2>2 DEF VocabularyInv, Constructed
<1>4. Mishaps'
  BY DEF Mishaps, SpecialPatternEmpty
<1> QED BY <1>2, <1>3, <1>4

(* What the slots have of the special tokens, as the constructor left it.  *)
LEMMA SpecialSlots ==
  ASSUME VocabularyInv, Built, NEW k \in Slots
  PROVE  /\ <<"special", k>> \notin tls => SpecialPatternEmpty
         /\ <<"empty", k>> \in tls => ~SpecialPatternEmpty /\ <<>> \in DOMAIN specials
<1>1. PICK copies \in SpecialCopies : tls = SlotCopies("pattern") \union copies
  BY DEF VocabularyInv, Constructed
<1>2. <<"special", k>> \in SlotCopies("special")
  BY DEF SlotCopies
<1>3. <<"empty", k>> \notin SlotCopies("pattern") \union SlotCopies("special")
  BY DEF SlotCopies
<1> QED BY <1>1, <1>2, <1>3 DEF SpecialCopies

LEMMA EncodeStep == VocabularyInv /\ (Encode \/ EncodeUndefined \/ EncodeRepeats) => VocabularyInv'
<1> SUFFICES ASSUME VocabularyInv, Encode \/ EncodeUndefined \/ EncodeRepeats PROVE VocabularyInv'
  OBVIOUS
<1>1. /\ vphase = "ready" /\ vphase' \in {"encoded", "undefined", "stuck"}
      /\ UNCHANGED <<file, ranks, added, specials, decoder, specialDecoder, text, tls>>
      /\ items = <<>> /\ ids = <<>> /\ text = <<>>
  BY DEF VocabularyInv, Called, Encode, EncodeUndefined, EncodeRepeats
<1>2. /\ vphase' = "undefined" => SpecialPatternEmpty
      /\ vphase' = "stuck" => ~SpecialPatternEmpty /\ <<>> \in DOMAIN specials
  BY <1>1, SpecialSlots DEF Encode, EncodeUndefined, EncodeRepeats, Built
<1>3. VocabularyShape' /\ SpecialsRead' /\ Constructed' /\ Mishaps'
  BY <1>1, <1>2, ToolsKept DEF Accepting
<1>4. Called'
  <2>1. CASE EncodeUndefined \/ EncodeRepeats
    BY <1>1, <2>1 DEF EncodeUndefined, EncodeRepeats, Called
  <2>2. CASE Encode
    <3>1. PICK n \in 1 .. MaxItems : items' \in [1 .. n -> Tokens]
      BY <2>2 DEF Encode
    <3>2. n \in Nat
      BY BytesAssumption
    <3>3. items' \in Seq(Tokens)
      BY <3>1, <3>2
    <3>4. ids' = [k \in DOMAIN items' |-> IdOf(items'[k])] /\ vphase' = "encoded"
      BY <2>2 DEF Encode
    <3>5. Tokens' = Tokens
      BY <1>1 DEF Tokens, Item
    <3>6. [k \in DOMAIN items |-> IdOf(items[k])]' = [k \in DOMAIN items' |-> IdOf(items'[k])]
      BY <1>1 DEF IdOf
    <3> QED BY <1>1, <3>3, <3>4, <3>5, <3>6 DEF Called
  <2> QED BY <2>1, <2>2
<1> QED BY <1>3, <1>4 DEF VocabularyInv

LEMMA DecodeStep == VocabularyInv /\ Decode => VocabularyInv'
<1> SUFFICES ASSUME VocabularyInv, Decode PROVE VocabularyInv'
  OBVIOUS
<1>1. /\ vphase = "encoded" /\ vphase' = "decoded"
      /\ UNCHANGED <<file, ranks, added, specials, decoder, specialDecoder, items, ids, tls>>
      /\ text' = FlattenSeq([k \in DOMAIN ids |-> BytesOf(ids[k])])
      /\ items \in Seq(Tokens) /\ ids = [k \in DOMAIN items |-> IdOf(items[k])]
  BY DEF VocabularyInv, Called, Decode
<1>2. VocabularyShape' /\ SpecialsRead' /\ Constructed' /\ Mishaps'
  BY <1>1, ToolsKept DEF Accepting
<1>3. Tokens' = Tokens
  BY <1>1 DEF Tokens, Item
<1>4. [k \in DOMAIN items |-> IdOf(items[k])]' = [k \in DOMAIN items |-> IdOf(items[k])]
  BY <1>1 DEF IdOf
<1>5. [k \in DOMAIN ids |-> BytesOf(ids[k])]' = [k \in DOMAIN ids |-> BytesOf(ids[k])]
  BY <1>1 DEF BytesOf
<1>6. Called'
  BY <1>1, <1>3, <1>4, <1>5 DEF Called
<1> QED BY <1>2, <1>6 DEF VocabularyInv

LEMMA OtherCallsStep == VocabularyInv /\ (DecodeThrows \/ NextCall \/ Destroy) => VocabularyInv'
<1> SUFFICES ASSUME VocabularyInv, DecodeThrows \/ NextCall \/ Destroy PROVE VocabularyInv'
  OBVIOUS
<1>1. /\ vphase \in {"ready", "encoded", "decoded", "thrown"}
      /\ vphase' \in {"thrown", "ready", "destroyed"}
      /\ UNCHANGED <<file, ranks, added, specials, decoder, specialDecoder>>
      /\ tls' = tls \/ vphase' = "destroyed"
  BY DEF DecodeThrows, NextCall, Destroy
<1>2. VocabularyShape' /\ SpecialsRead' /\ Constructed' /\ Mishaps'
  BY <1>1, ToolsKept DEF Accepting, Built
<1>3. Called'
  BY DEF VocabularyInv, Called, DecodeThrows, NextCall, Destroy
<1> QED BY <1>2, <1>3 DEF VocabularyInv

LEMMA VocabularyKept == VocabularyInv /\ UNCHANGED vvars => VocabularyInv'
<1> SUFFICES ASSUME VocabularyInv, UNCHANGED vvars PROVE VocabularyInv'
  OBVIOUS
<1>1. UNCHANGED <<file, vphase, ranks, added, specials, decoder, specialDecoder, items, ids, text, tls>>
  BY DEF vvars
<1>2. VocabularyShape' /\ SpecialsRead'
  BY <1>1 DEF VocabularyInv, VocabularyShape, SpecialsRead, ReadUpTo
<1>3. Constructed' /\ Mishaps'
  BY <1>1 DEF VocabularyInv, Constructed, Mishaps, SpecialCopies, SpecialPatternEmpty, Built
<1>4. Tokens' = Tokens
  BY <1>1 DEF Tokens, Item
<1>5. [k \in DOMAIN items |-> IdOf(items[k])]' = [k \in DOMAIN items |-> IdOf(items[k])]
  BY <1>1 DEF IdOf
<1>6. [k \in DOMAIN ids |-> BytesOf(ids[k])]' = [k \in DOMAIN ids |-> BytesOf(ids[k])]
  BY <1>1 DEF BytesOf
<1>7. Called'
  BY <1>1, <1>4, <1>5, <1>6 DEF VocabularyInv, Called
<1> QED BY <1>1, <1>2, <1>3, <1>7 DEF VocabularyInv

(* The invariant of the tokenizer is inductive.                            *)
LEMMA VocabularyInvHolds == Spec => []VocabularyInv
<1>1. Init => VocabularyInv
  BY VocabularyStart DEF Init
<1>2. VocabularyInv /\ [Next]_setUpVars => VocabularyInv'
  <2> SUFFICES ASSUME VocabularyInv, [Next]_setUpVars PROVE VocabularyInv'
    OBVIOUS
  <2>1. CASE VocabularyNext
    BY <2>1, LoadRanksStep, AddTokenStep, ConstructStep, EncodeStep, DecodeStep,
       OtherCallsStep DEF VocabularyNext
  <2>2. CASE UNCHANGED vvars
    BY <2>2, VocabularyKept
  <2> QED BY <2>1, <2>2 DEF Next, LoadStep, TokenizerStep, setUpVars
<1> QED BY <1>1, <1>2, PTL DEF Spec

----------------------------------------------------------------------------
(* The last merge that made a token is a merge, and none after it did.     *)
LEMMA LastMerges ==
  ASSUME file \in Files, NEW s \in Range(MergedBytes(file))
  PROVE  /\ LastMerge(s) \in 1 .. Len(MergedBytes(file)) /\ MergedBytes(file)[LastMerge(s)] = s
         /\ \A l \in LastMerge(s) + 1 .. Len(MergedBytes(file)) : MergedBytes(file)[l] # s
<1>1. PICK bytes \in Seq(Seq(Bytes)) : bytes = MergedBytes(file)
  BY MergedBytesTyped
<1>2. PICK n \in Nat : n = Len(bytes) /\ DOMAIN bytes = 1 .. n
  OBVIOUS
<1> DEFINE K == {k \in 1 .. n : bytes[k] = s}
           T == {n - k : k \in K}
<1>3. T \in SUBSET Nat /\ T # {}
  <2>1. PICK k \in 1 .. n : bytes[k] = s
    BY <1>1, <1>2 DEF Range
  <2> QED BY <2>1
<1>4. PICK x \in T : \A y \in T : x <= y
  <2> HIDE DEF T
  <2> QED BY <1>3, LeastElement
<1>5. PICK m \in K : x = n - m
  OBVIOUS
<1>6. \A k \in K : m >= k
  <2> TAKE k \in K
  <2>1. n - k \in T /\ k \in Int /\ m \in Int
    OBVIOUS
  <2>2. n - m <= n - k
    BY <1>4, <1>5, <2>1
  <2> QED BY <2>1, <2>2
<1>7. LastMerge(s) = Max(K)
  BY <1>1, <1>2 DEF LastMerge
<1>8. Max(K) \in K /\ \A k \in K : Max(K) >= k
  <2> HIDE DEF K
  <2> QED BY <1>6 DEF Max
<1>9. PICK j : j = LastMerge(s)
  OBVIOUS
<1>10. j \in 1 .. n /\ bytes[j] = s /\ \A k \in K : j >= k
  BY <1>7, <1>8, <1>9
<1>11. ASSUME NEW l \in j + 1 .. n PROVE bytes[l] # s
  <2>1. l \in 1 .. n /\ ~(j >= l)
    BY <1>10
  <2> QED BY <1>10, <2>1
<1> QED BY <1>1, <1>2, <1>9, <1>10, <1>11

(* The ranks an accepted file gives a tokenizer.                           *)
LEMMA RanksUsable ==
  ASSUME VocabularyShape, vphase \in Accepting
  PROVE  /\ \A b \in Bytes : <<b>> \in DOMAIN ranks
         /\ IsInjective(ranks)
         /\ \A s, t \in Range(MergedBytes(file)) :
              LastMerge(s) < LastMerge(t) => ranks[s] < ranks[t]
<1>1. file \in Files /\ ranks = MergedRanks(file)
  BY DEF VocabularyShape, Accepting
<1>2. Ranked(MergedBytes(file), Len(MergedBytes(file)), ranks)
  BY <1>1, MergedRanked
<1>3. ASSUME NEW s \in Range(MergedBytes(file))
      PROVE  LastMerge(s) \in Int /\ ranks[s] = NumBytes + LastMerge(s) - 1
  <2>1. PICK j : j = LastMerge(s)
    OBVIOUS
  <2>2. /\ j \in 1 .. Len(MergedBytes(file)) /\ MergedBytes(file)[j] = s
        /\ \A l \in j + 1 .. Len(MergedBytes(file)) : MergedBytes(file)[l] # s
    BY <1>1, <2>1, LastMerges
  <2>3. ranks[MergedBytes(file)[j]] = NumBytes + j - 1
    BY <1>2, <2>2 DEF Ranked
  <2> QED BY <2>1, <2>2, <2>3
<1>4. ASSUME NEW s \in Range(MergedBytes(file)), NEW t \in Range(MergedBytes(file)),
             LastMerge(s) < LastMerge(t)
      PROVE  ranks[s] < ranks[t]
  <2>1. PICK i, j : i = LastMerge(s) /\ j = LastMerge(t)
    OBVIOUS
  <2>2. /\ i \in Int /\ j \in Int /\ i < j /\ NumBytes \in Nat
        /\ ranks[s] = NumBytes + i - 1 /\ ranks[t] = NumBytes + j - 1
    BY <1>3, <1>4, <2>1, BytesAssumption
  <2> QED BY <2>2
<1>5. \A b \in Bytes : <<b>> \in DOMAIN ranks
  BY <1>2 DEF Ranked
<1> QED BY <1>2, <1>4, <1>5 DEF Ranked

(* The special tokens are those the file adds.                             *)
LEMMA SpecialsTaken ==
  ASSUME VocabularyInv, vphase \in Accepting \ {"added"}
  PROVE  DOMAIN specials = TakenContents
<1>1. VocabularyShape /\ added = <<>> /\ Len(added) = 0
  BY AllRead, EmptySeq DEF VocabularyInv
<1>2. Len(file.added) \in Nat /\ DOMAIN file.added = 1 .. Len(file.added)
  BY <1>1, AddedTyped
<1>3. Len(file.added) - Len(added) = Len(file.added)
  BY <1>1, <1>2
<1>4. DOMAIN specials = ReadUpTo(Len(file.added))
  BY <1>3 DEF VocabularyInv, SpecialsRead
<1> QED BY <1>2, <1>4 DEF ReadUpTo, TakenContents

(* For every vocabulary file, malformed strings, unmapped characters and   *)
(* empty added tokens included: a file that is accepted (core_bpe.cpp      *)
(* 487-646) makes a tokenizer in which each byte is a token, no two tokens *)
(* share an id and later merges rank higher; encode is undefined only if   *)
(* it adds nothing but empty tokens, and repeats itself only if it adds an *)
(* empty one beside others (qwen_token.cpp 32, core_bpe.cpp 716-750).      *)
THEOREM AcceptedIsUsable == Spec => []UsableWhenAccepted
<1>1. VocabularyInv => UsableWhenAccepted
  <2> SUFFICES ASSUME VocabularyInv PROVE UsableWhenAccepted
    OBVIOUS
  <2>1. VocabularyShape
    BY DEF VocabularyInv
  <2>2. ASSUME Built
        PROVE  /\ \A b \in Bytes : <<b>> \in DOMAIN ranks
               /\ IsInjective(ranks)
               /\ \A s, t \in Range(MergedBytes(file)) :
                    LastMerge(s) < LastMerge(t) => ranks[s] < ranks[t]
               /\ \/ TakenContents \subseteq {<<>>}
                  \/ SlotCopies("pattern") \union SlotCopies("special") \subseteq tls
    <3>1. vphase \in Accepting \ {"added"}
      BY <2>2 DEF Built, Accepting
    <3>2. \/ TakenContents \subseteq {<<>>}
          \/ SlotCopies("pattern") \union SlotCopies("special") \subseteq tls
      <4>1. PICK copies \in SpecialCopies : tls = SlotCopies("pattern") \union copies
        BY <2>2 DEF VocabularyInv, Constructed
      <4>2. DOMAIN specials = TakenContents
        BY <3>1, SpecialsTaken
      <4> QED BY <4>1, <4>2 DEF SpecialCopies, SpecialPatternEmpty
    <3> QED BY <2>1, <3>1, <3>2, RanksUsable
  <2>3. ASSUME vphase \in {"undefined", "stuck"}
        PROVE  /\ vphase = "undefined" => TakenContents \subseteq {<<>>}
               /\ vphase = "stuck" => <<>> \in TakenContents /\ TakenContents # {<<>>}
    <3>1. DOMAIN specials = TakenContents
      BY <2>3, SpecialsTaken DEF Accepting
    <3> QED BY <3>1 DEF VocabularyInv, Mishaps, SpecialPatternEmpty
  <2> QED BY <2>2, <2>3 DEF UsableWhenAccepted
<1> QED BY <1>1, VocabularyInvHolds, PTL

(* Looking up the id of a token gives the token, unless the id is shared.  *)
LEMMA IdsDecode ==
  ASSUME VocabularyInv, Built, NEW t \in Tokens, ~Ambiguous(t)
  PROVE  BytesOf(IdOf(t)) = t.bytes
<1>1. /\ IsInjective(ranks) /\ decoder \in Inverses(ranks) /\ specialDecoder \in Inverses(specials)
  BY RanksUsable DEF VocabularyInv, Constructed, Built, Accepting
<1>2. /\ DOMAIN decoder = Range(ranks) /\ \A i \in Range(ranks) : decoder[i] \in DOMAIN ranks /\ ranks[decoder[i]] = i
      /\ DOMAIN specialDecoder = Range(specials)
      /\ \A i \in Range(specials) : specialDecoder[i] \in DOMAIN specials /\ specials[specialDecoder[i]] = i
  BY <1>1 DEF Inverses
<1>3. CASE t \in {Item(s, FALSE) : s \in DOMAIN ranks \ {<<>>}}
  <2>1. PICK s \in DOMAIN ranks : t = Item(s, FALSE)
    BY <1>3
  <2>2. t.bytes = s /\ ~t.special
    BY <2>1 DEF Item
  <2>3. IdOf(t) = ranks[s] /\ ranks[s] \in Range(ranks)
    BY <2>2 DEF IdOf, Range
  <2>4. BytesOf(IdOf(t)) = decoder[ranks[s]]
    BY <1>2, <2>3 DEF BytesOf
  <2>5. decoder[ranks[s]] = s
    BY <1>1, <1>2, <2>3 DEF IsInjective
  <2> QED BY <2>2, <2>4, <2>5
<1>4. CASE t \in {Item(s, TRUE) : s \in DOMAIN specials \ {<<>>}}
  <2>1. PICK s \in DOMAIN specials : t = Item(s, TRUE)
    BY <1>4
  <2>2. t.bytes = s /\ t.special
    BY <2>1 DEF Item
  <2>3. IdOf(t) = specials[s] /\ specials[s] \in Range(specials)
    BY <2>2 DEF IdOf, Range
  <2>4. specials[s] \notin Range(ranks) /\ \A u \in DOMAIN specials \ {s} : specials[u] # specials[s]
    BY <2>2, <2>3 DEF Ambiguous
  <2>5. BytesOf(IdOf(t)) = specialDecoder[specials[s]]
    BY <1>2, <2>3, <2>4 DEF BytesOf
  <2>6. specialDecoder[specials[s]] = s
    BY <1>2, <2>3, <2>4
  <2> QED BY <2>2, <2>5, <2>6
<1> QED BY <1>3, <1>4 DEF Tokens

(* For every vocabulary file and every text of unambiguous tokens: decode  *)
(* (core_bpe.cpp 823-845) gives back the bytes encode was given.           *)
THEOREM DecodeInvertsEncode == Spec => []RoundTrip
<1>1. VocabularyInv => RoundTrip
  <2> SUFFICES ASSUME VocabularyInv, vphase = "decoded", \A k \in DOMAIN items : ~Ambiguous(items[k])
               PROVE  text = FlattenSeq([k \in DOMAIN items |-> items[k].bytes])
    BY DEF RoundTrip
  <2>1. /\ items \in Seq(Tokens) /\ ids = [k \in DOMAIN items |-> IdOf(items[k])]
        /\ text = FlattenSeq([k \in DOMAIN ids |-> BytesOf(ids[k])])
    BY DEF VocabularyInv, Called
  <2>2. \A k \in DOMAIN items : BytesOf(ids[k]) = items[k].bytes
    <3> TAKE k \in DOMAIN items
    <3>1. items[k] \in Tokens
      BY <2>1
    <3>2. PICK t \in Tokens : t = items[k]
      BY <3>1
    <3>3. BytesOf(IdOf(t)) = t.bytes
      BY <3>2, IdsDecode DEF Built
    <3> QED BY <2>1, <3>2, <3>3
  <2>3. DOMAIN ids = DOMAIN items
    BY <2>1
  <2>4. [k \in DOMAIN ids |-> BytesOf(ids[k])] = [k \in DOMAIN items |-> items[k].bytes]
    BY <2>2, <2>3
  <2> QED BY <2>1, <2>4
<1> QED BY <1>1, VocabularyInvHolds, PTL

(* Both halves keep their types, for any module, directory and file.       *)
THEOREM SetUpTypeOK == Spec => []TypeOK
<1>1. WeightsInv => WeightsTypeOK
  <2> SUFFICES ASSUME WeightsInv PROVE WeightsTypeOK
    OBVIOUS
  <2>1. WeightsShape
    BY DEF WeightsInv
  <2>2. IsSuffix(queue, FilesOf(index))
    <3>1. PICK S, s, t : S = Reached(index) /\ s = queue /\ t = FilesOf(index)
      OBVIOUS
    <3>2. s \in Seq(S) /\ t \in Seq(S) /\ RestOf(s, t)
      BY <2>1, <3>1, FilesTyped DEF WeightsShape
    <3> QED BY <3>1, <3>2, RestIsSuffix
  <2>3. IsSuffix(todo, Params \o Buffers)
    <3>1. PICK S, s, t : S = ToSet(Names) /\ s = todo /\ t = Names
      OBVIOUS
    <3>2. s \in Seq(S) /\ t \in Seq(S) /\ RestOf(s, t)
      BY <2>1, <3>1, NamesTyped DEF WeightsShape
    <3>3. IsSuffix(todo, Names)
      BY <3>1, <3>2, RestIsSuffix
    <3> QED BY <3>3 DEF Names
  <2> QED BY <2>1, <2>2, <2>3 DEF WeightsTypeOK, WeightsShape
<1>2. VocabularyInv => VocabularyTypeOK
  <2> SUFFICES ASSUME VocabularyInv PROVE VocabularyTypeOK
    OBVIOUS
  <2>1. VocabularyShape
    BY DEF VocabularyInv
  <2>2. IsSuffix(added, file.added)
    <3>1. PICK s, t : s = added /\ t = file.added
      OBVIOUS
    <3>2. s \in Seq(AddedToken) /\ t \in Seq(AddedToken) /\ RestOf(s, t)
      BY <2>1, <3>1, AddedTyped DEF VocabularyShape
    <3> QED BY <3>1, <3>2, RestIsSuffix
  <2>3. Range(ranks) \subseteq Nat /\ \A s \in DOMAIN ranks : s \in Seq(Bytes)
    <3>1. CASE ranks = <<>>
      BY <3>1 DEF Range
    <3>2. CASE ranks # <<>>
      <4>1. file \in Files /\ ranks = MergedRanks(file)
        BY <2>1, <3>2 DEF VocabularyShape
      <4>2. PICK bytes \in Seq(Seq(Bytes)) : bytes = MergedBytes(file)
        BY <4>1, MergedBytesTyped
      <4>3. Ranked(bytes, Len(bytes), ranks) /\ Len(bytes) \in Nat
        BY <4>1, <4>2, MergedRanked
      <4>4. Range(ranks) \subseteq Nat
        BY <4>3 DEF Ranked, Range
      <4>5. \A j \in 1 .. Len(bytes) : bytes[j] \in Seq(Bytes)
        BY <4>2
      <4>6. \A b \in Bytes : <<b>> \in Seq(Bytes)
        OBVIOUS
      <4> QED BY <4>3, <4>4, <4>5, <4>6 DEF Ranked
    <3> QED BY <3>1, <3>2
  <2>4. \A s \in DOMAIN specials : s \in Seq(Bytes)
    BY <2>1 DEF VocabularyShape
  <2>5. /\ Len(ids) = Len(items) \/ vphase = "thrown"
        /\ vphase \in {"encoded", "decoded"} => text = <<>> \/ vphase = "decoded"
    <3>1. CASE vphase \in {"encoded", "decoded"}
      <4>1. items \in Seq(Tokens) /\ ids = [k \in DOMAIN items |-> IdOf(items[k])]
            /\ (vphase = "encoded" => text = <<>>)
        BY <3>1 DEF VocabularyInv, Called
      <4>2. Len(ids) = Len(items)
        BY <4>1
      <4> QED BY <3>1, <4>1, <4>2
    <3>2. CASE vphase \notin {"encoded", "decoded"}
      BY <3>2 DEF VocabularyInv, Called
    <3> QED BY <3>1, <3>2
  <2> QED BY <2>1, <2>2, <2>3, <2>4, <2>5 DEF VocabularyTypeOK, VocabularyShape, Accepting
<1> QED BY <1>1, <1>2, WeightsInvHolds, VocabularyInvHolds, PTL DEF TypeOK
============================================================================
