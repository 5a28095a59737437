--------------------------- MODULE CachedDecoding ---------------------------
(***************************************************************************)
(* Generation with the KV cache: KVCache (model/kv_cache.cpp), the cached  *)
(* path through Qwen3ForCausalLM::forward (model/qwen3.cpp 305-382 and     *)
(* 611-730, the eager attention of the CPU build), and the client loop of  *)
(* the Qwen3RunnerCache tests (model/test_qwen3.cpp 533-536, 652-667,      *)
(* 716-743): a prefill at position 0, then one token per forward.          *)
(*                                                                         *)
(* One action is one layer, so that a forward can fail between layers.     *)
(* Hidden states are the terms of UncachedDecoding.                        *)
(***************************************************************************)
EXTENDS Integers, Sequences

CONSTANTS Prompts, Token, NumLayers, MaxNew,     \* as in UncachedDecoding
          MaxSeqLen,    \* max_seq_len, the positions of a cache
          Zero          \* the content of a position never written

ASSUME DecodingAssumption ==
  /\ NumLayers \in Nat \ {0} /\ MaxSeqLen \in Nat \ {0} /\ MaxNew \in Nat
  /\ Prompts \subseteq Seq(Token) \ {<<>>}
  /\ Zero \notin Token

VARIABLES
  cache,      \* _k_cache and _v_cache: cache[layer][position]
  phase,      \* "idle", or "forward" while model->forward runs
  ids,        \* input_ids of that forward
  startPos,   \* start_pos of that forward
  layer,      \* the next layer to run
  hidden,     \* hidden_states, one per token of ids
  prompt,     \* the prompt of the current request, or <<>>
  served,     \* the tokens whose forward has returned
  logits      \* what the last forward returned, or <<>>

call == <<ids, startPos, layer, hidden>>
vars == <<cache, phase, call, prompt, served, logits>>

KV(h, position)    == [h |-> h, pos |-> position]
Attend(h, visible) == <<h, visible>>

Layer    == 0 .. NumLayers - 1
Position == 0 .. MaxSeqLen - 1
Empty    == [l \in Layer |-> [p \in Position |-> Zero]]

Init == /\ cache = Empty
        /\ phase = "idle"
        /\ ids = <<>> /\ startPos = 0 /\ layer = 0 /\ hidden = <<>>
        /\ prompt = <<>> /\ served = <<>> /\ logits = <<>>

----------------------------------------------------------------------------
(* The client *)

Forward(input, start) == /\ phase' = "forward"
                         /\ ids' = input
                         /\ startPos' = start
                         /\ layer' = 0
                         /\ hidden' = input       \* embed_tokens

(* kv_cache->reset(), between requests.                                    *)
Reset == /\ phase = "idle"
         /\ cache' = Empty
         /\ prompt' = <<>> /\ served' = <<>> /\ logits' = <<>>
         /\ UNCHANGED <<phase, call>>

(* A request starts with its prompt at position 0, whether or not the      *)
(* cache was reset after the request before it.                            *)
Prefill == /\ phase = "idle"
           /\ prompt' \in Prompts
           /\ Forward(prompt', 0)
           /\ served' = <<>> /\ logits' = <<>>
           /\ UNCHANGED cache

(* The token picked last goes in at prompt_len + step.  The client may     *)
(* stop at any step: at gen_len, or at an end-of-text token.               *)
Step == Len(served) - Len(prompt)

DecodeEarly == /\ phase = "idle"         \* mutant: the position of the token before
               /\ served # <<>>
               /\ Step < MaxNew
               /\ \E t \in Token : Forward(<<t>>, Len(prompt) + Step - 1)
               /\ UNCHANGED <<cache, prompt, served, logits>>

Decode == /\ phase = "idle"
          /\ served # <<>>
          /\ Step < MaxNew
          /\ \E t \in Token : Forward(<<t>>, Len(prompt) + Step)
          /\ UNCHANGED <<cache, prompt, served, logits>>

(* Several tokens at once in the middle of a request.                      *)
DecodeMany == /\ phase = "idle"
              /\ served # <<>>
              /\ Step + 2 <= MaxNew
              /\ \E s, t \in Token : Forward(<<s, t>>, Len(prompt) + Step)
              /\ UNCHANGED <<cache, prompt, served, logits>>

----------------------------------------------------------------------------
(* Qwen3Model::forward and, in each layer, Qwen3Attention::forward *)

Fits == startPos + Len(ids) <= MaxSeqLen

UpdatedNoOffset ==        \* mutant: every input is rotated from position 0 on
  [cache EXCEPT ![layer] =
     [p \in Position |->
        IF p \in startPos .. startPos + Len(ids) - 1
        THEN KV(hidden[p - startPos + 1], p - startPos)
        ELSE @[p]]]

(* KVCache::update: copy the rows of this input into the layer's slice.    *)

Updated ==
  [cache EXCEPT ![layer] =
     [p \in Position |->
        IF p \in startPos .. startPos + Len(ids) - 1
        THEN KV(hidden[p - startPos + 1], p)     \* rotated by arange + start_pos
        ELSE @[p]]]

ValidAll(kv) == [j \in 1 .. MaxSeqLen |-> kv[layer][j - 1]]   \* mutant: the whole cache

(* What update returns: positions 0 .. start_pos + seq_len - 1.            *)
Valid(kv) == [j \in 1 .. startPos + Len(ids) |-> kv[layer][j - 1]]

(* One token after position 0 needs no mask and gets none; any other input *)
(* gets a square one, which can only be added when nothing is cached       *)
(* before it.                                                              *)
IsDecode  == Len(ids) = 1 /\ startPos > 0
MaskFits  == IsDecode \/ Len(ids) = startPos + Len(ids)

Visible(p, kv) == IF IsDecode THEN Valid(kv) ELSE SubSeq(Valid(kv), 1, p)

RunLayer == /\ phase = "forward"
            /\ layer < NumLayers
            /\ Fits /\ MaskFits
            /\ cache' = Updated
            /\ hidden' = [p \in DOMAIN hidden |-> Attend(hidden[p], Visible(p, Updated))]
            /\ layer' = layer + 1
            /\ UNCHANGED <<phase, ids, startPos, prompt, served, logits>>

(* The client learns of an exception.                                      *)
Abandon == /\ phase' = "idle"
           /\ ids' = <<>> /\ startPos' = 0 /\ layer' = 0 /\ hidden' = <<>>
           /\ prompt' = IF served = <<>> THEN <<>> ELSE prompt
           /\ UNCHANGED <<served, logits>>

(* length_error: nothing is written.                                       *)
Overflow == /\ phase = "forward"
            /\ layer < NumLayers
            /\ ~Fits
            /\ Abandon
            /\ UNCHANGED cache

(* The mask has another shape than the scores: the layer's rows are        *)
(* already written.                                                        *)
MaskMismatch == /\ phase = "forward"
                /\ layer < NumLayers
                /\ Fits /\ ~MaskFits
                /\ Abandon
                /\ cache' = Updated

(* norm, then lm_head on the last position.                                *)
Return == /\ phase = "forward"
          /\ layer = NumLayers
          /\ phase' = "idle"
          /\ served' = served \o ids
          /\ logits' = hidden[Len(hidden)]
          /\ ids' = <<>> /\ startPos' = 0 /\ layer' = 0 /\ hidden' = <<>>
          /\ UNCHANGED <<cache, prompt>>

Next == \/ Reset \/ Prefill \/ Decode \/ DecodeMany
        \/ RunLayer \/ Overflow \/ MaskMismatch \/ Return

Spec == Init /\ [][Next]_vars

----------------------------------------------------------------------------
(* Properties *)

(* Generation with the cache is generation without it: whatever was        *)
(* decoded, refused or left behind by another request before, each forward *)
(* returns what forwarding all the tokens again would.  The Correctness    *)
(* test of test_qwen3.cpp asks this of one prompt and a cache just reset.  *)
servedPrompt == IF served = <<>> THEN <<>> ELSE prompt

Uncached == INSTANCE UncachedDecoding WITH prompt <- servedPrompt, tokens <- served

ImplementsUncached == Uncached!Spec

(* Between two calls every layer holds, for each token served, exactly the *)
(* key/value that an uncached forward would compute, even after a call     *)
(* that failed with some layers written.                                   *)
ContextCached ==
  phase = "idle" =>
    LET states == Uncached!HiddenStates(served)
    IN  \A l \in Layer : \A p \in 1 .. Len(served) :
          cache[l][p - 1] = KV(states[l][p], p - 1)

(* The control state and every index stay in range.                        *)
TypeOK == /\ phase \in {"idle", "forward"}
          /\ DOMAIN cache = Layer /\ \A l \in Layer : DOMAIN cache[l] = Position
          /\ ids \in Seq(Token) /\ Len(hidden) = Len(ids)
          /\ startPos \in Nat /\ layer \in 0 .. NumLayers
          /\ prompt \in Prompts \union {<<>>}
          /\ served \in Seq(Token) /\ Len(served) <= MaxSeqLen
============================================================================
