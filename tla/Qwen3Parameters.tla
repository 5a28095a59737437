-------------------------- MODULE Qwen3Parameters --------------------------
(***************************************************************************)
(* What the constructors of model/qwen3.cpp register, in the order in      *)
(* which named_parameters() of torch::nn::Module visits it: the parameters *)
(* of a module, then those of its submodules as they were registered.      *)
(* A name is the path of the modules that lead to the parameter.           *)
(* Qwen3Model keeps its rotary embedding without registering it (605), so  *)
(* that the buffers inv_freq and original_inv_freq have no name.           *)
(***************************************************************************)
EXTENDS Integers, SequencesExt, TLC

Within(module, names) == [k \in DOMAIN names |-> <<module>> \o names[k]]
Weight                == << <<"weight">> >>
Weights(modules)      == FlattenSeq([k \in DOMAIN modules |-> Within(modules[k], Weight)])

Attention    == Weights(<<"q_proj", "k_proj", "v_proj", "o_proj", "q_norm", "k_norm">>)
MLP          == Weights(<<"gate_proj", "up_proj", "down_proj">>)
DecoderLayer == Weights(<<"input_layernorm">>) \o Within("self_attn", Attention)
                \o Weights(<<"post_attention_layernorm">>) \o Within("mlp", MLP)

Layers(n) == FlattenSeq([i \in 1 .. n |-> Within("layers", Within(ToString(i - 1), DecoderLayer))])
Qwen3Model(n)       == Weights(<<"embed_tokens">>) \o Layers(n) \o Weights(<<"norm">>)
Qwen3ForCausalLM(n) == Within("model", Qwen3Model(n)) \o Weights(<<"lm_head">>)

EmbedWeight  == <<"model", "embed_tokens", "weight">>
LmHeadWeight == <<"lm_head", "weight">>
============================================================================
