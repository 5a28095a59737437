----------------------------- MODULE QwenSetUp -----------------------------
(***************************************************************************)
(* Setting up what a client of a Qwen model directory needs: the weights   *)
(* (InitModel of model/test_qwen3.cpp) or the tokenizer (QwenToken of      *)
(* token/test_token.cpp).  The two share nothing, so each is explored      *)
(* beside the other and not in every order with it.                        *)
(***************************************************************************)
EXTENDS WeightLoader, Vocabulary

CONSTANTS NoFile,     \* the file of a tokenizer that is not constructed
          NoDisk      \* the directory of a model that is not loaded

ASSUME NoFileAssumption == NoFile.added = <<>>

setUpVars == <<wvars, vvars>>

WeightsIdle == /\ index = NoIndex /\ disk = NoDisk /\ tied = FALSE
               /\ wphase = "call" /\ queue = <<>> /\ todo = <<>>
               /\ weights = [n \in ToSet(Names) |-> Untouched]
VocabularyIdle == /\ file = NoFile
                  /\ vphase = "idle"
                  /\ ranks = <<>> /\ specials = <<>> /\ decoder = <<>> /\ specialDecoder = <<>>
                  /\ added = <<>> /\ items = <<>> /\ ids = <<>> /\ text = <<>>
                  /\ tls = {}

Init == \/ WeightsInit /\ VocabularyIdle
        \/ WeightsIdle /\ VocabularyInit

LoadStep      == vphase = "idle" /\ WeightsNext /\ UNCHANGED vvars
TokenizerStep == vphase # "idle" /\ VocabularyNext /\ UNCHANGED wvars
Next == LoadStep \/ TokenizerStep

Spec == Init /\ [][Next]_setUpVars

(* The variables of both halves have their types.                          *)
TypeOK == WeightsTypeOK /\ VocabularyTypeOK
============================================================================
