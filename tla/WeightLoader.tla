---------------------------- MODULE WeightLoader ----------------------------
(***************************************************************************)
(* load_module_from_safetensors and load_module_from_safetensors_dir       *)
(* (utils/model_utils.cpp 31-117) over a module built by the constructors  *)
(* of model/qwen3.cpp, and the step InitModel (model/test_qwen3.cpp 49-80) *)
(* takes after them: which tensor of which file each parameter ends with,  *)
(* and what a load that throws leaves behind.                              *)
(*                                                                         *)
(* A tensor is known by the file it comes from; whether its shape is the   *)
(* one of the parameter is part of what the file holds.                    *)
(***************************************************************************)
EXTENDS Integers, SequencesExt

CONSTANTS Params,      \* names of named_parameters(), in their order
          Buffers,     \* names of named_buffers(), in their order
          Embed,       \* the name of the embedding's weight
          LmHead,      \* the name of the head's weight
          Shards,      \* files an index may name, in the order of std::set
          Single,      \* model.safetensors
          Contents,    \* what a file may hold, see Readable
          Indexes      \* what an index file may be: see NoIndex, Garbled

Names == Params \o Buffers             \* the order they are looked up in

VARIABLES
  index,      \* model.safetensors.index.json: NoIndex, Garbled or the files it names
  disk,       \* the content of each file
  tied,       \* tie_word_embeddings of the configuration
  wphase,     \* "call", "files", "tensors", "loaded", "ready" or "thrown"
  queue,      \* files still to load
  todo,       \* names still to look up in the first file of queue
  weights     \* where the value of each parameter and buffer comes from

winput == <<index, disk, tied>>
wvars  == <<winput, wphase, queue, todo, weights>>

(* An index is absent, does not parse, or names files in its weight_map.   *)
NoIndex    == [present |-> FALSE, parses |-> FALSE, files |-> {}]
Garbled    == [present |-> TRUE, parses |-> FALSE, files |-> {}]
Naming(fs) == [present |-> TRUE, parses |-> TRUE, files |-> fs]
Untouched  == "untouched"    \* as constructed: for a linear layer or an embedding
                             \* torch::empty, whatever the memory held

(* No two parameters or buffers of a module share a name, and an index     *)
(* names files of the directory.                                           *)
ASSUME WeightsAssumption ==
  /\ Params \in Seq(ToSet(Params)) /\ Buffers \in Seq(ToSet(Buffers)) /\ IsInjective(Names)
  /\ {Embed, LmHead} \subseteq ToSet(Params)
  /\ Shards \in Seq(ToSet(Shards))
  /\ Indexes \subseteq {NoIndex, Garbled} \union {Naming(fs) : fs \in SUBSET ToSet(Shards)}
  /\ Untouched \notin ToSet(Shards) \union {Single}

(* A file cannot be read when it is absent, is not parsed, has bad offsets *)
(* or a tensor of an unsupported type; otherwise it maps the names it      *)
(* holds to "fits" or "misshaped".                                         *)
Readable(f) == disk[f].readable
Holds(f, n) == n \in DOMAIN disk[f].tensors
Fits(f, n)  == disk[f].tensors[n] = "fits"

(* Only the files the call will read matter.                               *)
Reached(i) == IF i = NoIndex THEN {Single} ELSE i.files

WeightsInit == /\ index \in Indexes
               /\ disk \in [Reached(index) -> Contents]
               /\ tied \in BOOLEAN
               /\ wphase = "call"
               /\ queue = <<>>
               /\ todo = <<>>
               /\ weights = [n \in ToSet(Names) |-> Untouched]

(* Without an index the single file is loaded strictly, the files of an    *)
(* index are not: the strict parameter of the directory form is not read.  *)
FilesOf(i) == IF i = NoIndex THEN <<Single>>
              ELSE FlattenSeq([k \in DOMAIN Shards |->
                                 IF Shards[k] \in i.files THEN <<Shards[k]>> ELSE <<>>])
Demanding  == index = NoIndex

OpenDir == /\ wphase = "call"
           /\ IF index = Garbled
              THEN wphase' = "thrown" /\ queue' = <<>>
              ELSE wphase' = "files" /\ queue' = FilesOf(index)
           /\ UNCHANGED <<winput, todo, weights>>

(* The whole file is checked before the first tensor is copied.            *)
OpenFile == /\ wphase = "files"
            /\ queue # <<>>
            /\ IF Readable(queue[1])
               THEN wphase' = "tensors" /\ todo' = Names
               ELSE wphase' = "thrown" /\ todo' = <<>>
            /\ UNCHANGED <<winput, queue, weights>>

(* load_tensor on the next name.                                           *)
Copies(f, n) == Holds(f, n) /\ Fits(f, n)
SkipsMissing(f, n) == ~Holds(f, n)      \* mutant: no file is loaded strictly
Skips(f, n)  == ~Holds(f, n) /\ (~Demanding \/ n \notin ToSet(Params))

CopyTensor == /\ wphase = "tensors"
              /\ todo # <<>>
              /\ Copies(queue[1], todo[1])
              /\ weights' = [weights EXCEPT ![todo[1]] = queue[1]]
              /\ todo' = Tail(todo)
              /\ UNCHANGED <<winput, wphase, queue>>

SkipTensor == /\ wphase = "tensors"
              /\ todo # <<>>
              /\ Skips(queue[1], todo[1])
              /\ todo' = Tail(todo)
              /\ UNCHANGED <<winput, wphase, queue, weights>>

RollBack ==                 \* mutant: a failing file takes its tensors back
  /\ wphase = "tensors"
  /\ todo # <<>>
  /\ ~Copies(queue[1], todo[1]) /\ ~Skips(queue[1], todo[1])
  /\ wphase' = "thrown"
  /\ weights' = [n \in DOMAIN weights |->
                   IF weights[n] = queue[1] THEN Untouched ELSE weights[n]]
  /\ UNCHANGED <<winput, queue, todo>>

(* A missing parameter of a strict load, or a tensor of another shape.     *)
FailTensor == /\ wphase = "tensors"
              /\ todo # <<>>
              /\ ~Copies(queue[1], todo[1]) /\ ~Skips(queue[1], todo[1])
              /\ wphase' = "thrown"
              /\ UNCHANGED <<winput, queue, todo, weights>>

CloseFile == /\ wphase = "tensors"
             /\ todo = <<>>
             /\ wphase' = "files"
             /\ queue' = Tail(queue)
             /\ UNCHANGED <<winput, todo, weights>>

LoadReturns == /\ wphase = "files"
               /\ queue = <<>>
               /\ wphase' = "loaded"
               /\ UNCHANGED <<winput, queue, todo, weights>>

(* InitModel copies the embedding into the head when the two are tied.     *)
Tie == /\ wphase = "loaded"
       /\ weights' = IF tied THEN [weights EXCEPT ![LmHead] = weights[Embed]] ELSE weights
       /\ wphase' = "ready"
       /\ UNCHANGED <<winput, queue, todo>>

WeightsNext == \/ OpenDir \/ OpenFile \/ CopyTensor \/ SkipTensor \/ FailTensor
               \/ CloseFile \/ LoadReturns \/ Tie

WeightsSpec == WeightsInit /\ [][WeightsNext]_wvars

----------------------------------------------------------------------------
(* Properties *)

WeightsTypeOK ==
  /\ wphase \in {"call", "files", "tensors", "loaded", "ready", "thrown"}
  /\ index = Garbled \/ IsSuffix(queue, FilesOf(index))
  /\ IsSuffix(todo, Params \o Buffers)
  /\ weights \in [ToSet(Names) -> {Untouched} \union Reached(index)]

(* The value name n has when the files before the k-th have been loaded.   *)
Holders(n, k)   == {j \in 1 .. k - 1 : Holds(FilesOf(index)[j], n)}
ValueOf(n, k)   == IF Holders(n, k) = {} THEN Untouched
                   ELSE FilesOf(index)[Max(Holders(n, k))]

(* A load that returns has given every name the tensor of the last file    *)
(* that holds it.  Without an index no parameter is left out; with one,    *)
(* those in none of its files keep what torch::empty left in memory, and   *)
(* the caller is not told (model_utils.cpp 103-117), unless it is a head   *)
(* tied to an embedding that was loaded.                                   *)
LoadedFromLastFile ==
  /\ wphase = "loaded" =>
       \A n \in ToSet(Names) :
         /\ weights[n] = ValueOf(n, Len(FilesOf(index)) + 1)
         /\ weights[n] = Untouched /\ n \in ToSet(Params) => index # NoIndex
  /\ wphase = "ready" /\ tied => weights[LmHead] = weights[Embed]

(* A load that throws leaves exactly the tensors before the one it failed  *)
(* on: all of the earlier files, the names before it of its own file, and  *)
(* none after it (model_utils.cpp 71-100).                                 *)
FailsBetweenTensors ==
  wphase = "thrown" /\ index # Garbled =>
    \E k \in DOMAIN FilesOf(index), i \in DOMAIN Names :
      LET f == FilesOf(index)[k] IN
      /\ \/ ~Readable(f) /\ i = 1
         \/ Readable(f) /\ ~Copies(f, Names[i]) /\ (Holds(f, Names[i]) \/ index = NoIndex)
      /\ \A j \in 1 .. k - 1 : Readable(FilesOf(index)[j])
      /\ \A j \in DOMAIN Names :
           weights[Names[j]] = ValueOf(Names[j], IF j < i THEN k + 1 ELSE k)
============================================================================
