-------------------------- MODULE UncachedDecoding --------------------------
(***************************************************************************)
(* Generation without a KV cache: the Qwen3Runner test (model/             *)
(* test_qwen3.cpp 383-408) and Qwen3Model::forward with _kv_cache == NULL  *)
(* (model/qwen3.cpp 305-382, 633-667).  Every step forwards all tokens     *)
(* again.  This is what generation with a cache has to agree with.         *)
(*                                                                         *)
(* A hidden state is the term of what it was computed from: a token, or    *)
(* Attend of the hidden state before the layer and of the key/values the   *)
(* attention saw.  Two states are equal only if all their inputs are.      *)
(***************************************************************************)
EXTENDS Integers, Sequences

CONSTANTS Prompts,      \* the tokenised prompts
          Token,        \* the vocabulary
          NumLayers,
          MaxNew        \* how many tokens may follow the prompt

VARIABLES prompt,       \* the prompt of the current request, or <<>>
          tokens,       \* the tokens forwarded last
          logits        \* what their last position yielded, or <<>>

vars == <<prompt, tokens, logits>>

(* The key (rotated by its position) and value one token contributes.      *)
KV(hidden, position) == [h |-> hidden, pos |-> position]

(* Attention, residual and MLP of one layer at a query position.           *)
Attend(hidden, visible) == <<hidden, visible>>

(* hidden[l][p]: the state of the p-th token (from 1) before layer l; the  *)
(* causal mask lets it see the tokens up to itself.                        *)
HiddenStates(toks) ==
  LET hidden[l \in 0 .. NumLayers] ==
        IF l = 0 THEN toks
        ELSE [p \in DOMAIN toks |->
                Attend(hidden[l - 1][p], [j \in 1 .. p |-> KV(hidden[l - 1][j], j - 1)])]
  IN  hidden

(* logits_to_keep = 1: only the last position reaches lm_head.             *)
Logits(toks) == HiddenStates(toks)[NumLayers][Len(toks)]

Init == prompt = <<>> /\ tokens = <<>> /\ logits = <<>>

Start == /\ prompt' \in Prompts
         /\ tokens' = prompt'
         /\ logits' = Logits(tokens')

(* Some token is picked from the logits, pushed, and all is forwarded.     *)
Extend == /\ prompt # <<>>
          /\ Len(tokens) < Len(prompt) + MaxNew
          /\ \E t \in Token : tokens' = Append(tokens, t)
          /\ logits' = Logits(tokens')
          /\ UNCHANGED prompt

(* The loop ends: at max_new_tokens or at an end-of-text token.            *)
Drop == prompt' = <<>> /\ tokens' = <<>> /\ logits' = <<>>

Next == Start \/ Extend \/ Drop

Spec == Init /\ [][Next]_vars
============================================================================
