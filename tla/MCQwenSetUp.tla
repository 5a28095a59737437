---------------------------- MODULE MCQwenSetUp ----------------------------
(***************************************************************************)
(* QwenSetUp for TLC: the parameters of a model of one layer and a buffer, *)
(* in a single file or two shards with tensors missing or misshaped;       *)
(* tokenizer files of up to two merges over three bytes, with characters   *)
(* that stand for no byte, malformed strings, repeated and short merges,   *)
(* and added tokens that are empty or whose ids clash.                     *)
(***************************************************************************)
EXTENDS QwenSetUp, Qwen3Parameters

MCParams  == Qwen3ForCausalLM(1)
MCBuffers == << <<"buffer">> >>
MCShards  == <<"shard1", "shard2">>

(* A file with everything, with all but one, with one misshaped, with the  *)
(* first or the second half, with the ends only, or with nothing.          *)
Whole      == ToSet(MCParams \o MCBuffers)
Half1      == ToSet(SubSeq(MCParams, 1, 7))
Ends       == {MCParams[1], MCParams[14], MCBuffers[1]}
File(held) == [readable |-> TRUE, tensors |-> [n \in held |-> "fits"]]
Misshaped(c, n) == [c EXCEPT !.tensors[n] = "misshaped"]
MCContents ==
  {[readable |-> FALSE, tensors |-> <<>>], File({}), File(Whole), File(Half1),
   File(Whole \ Half1), File(Ends), Misshaped(File(Ends), MCParams[14]),
   Misshaped(File(Half1), MCParams[7])}
  \union {File(Whole \ {n}) : n \in Whole}
  \union {Misshaped(File(Whole), n) : n \in Whole}
MCIndexes  == {NoIndex, Garbled} \union {Naming(fs) : fs \in SUBSET ToSet(MCShards)}
MCNoDisk   == <<>>

----------------------------------------------------------------------------
(* Bytes 1 and 2 are printable; character 3 stands for byte 0 and          *)
(* character 0 for none.                                                   *)
MCPrintable == {1, 2}
MCEndOfText == {<<1, 1, 1>>}
Characters  == <<1, 2, 3>>

MCMerges == {<< <<1>>, <<2>> >>, << <<3>>, <<1>> >>, << <<0>>, <<1>> >>,
             << <<1, 2>>, <<3>> >>, << <<>>, <<1>> >>, << <<1>>, <<Bad, 2>> >>,
             << <<1>> >>}
MergeLists == UNION {[1 .. n -> MCMerges] : n \in 0 .. 2}

(* The vocabulary a trainer writes: every character, then every merge.     *)
Pairs(ms)  == SelectSeq(ms, LAMBDA m : Len(m) = 2)
Written(ms) == [k \in 1 .. 3 |-> <<<<Characters[k]>>, k - 1>>]
               \o [k \in DOMAIN Pairs(ms) |-> <<Pairs(ms)[k][1] \o Pairs(ms)[k][2], 2 + k>>]

Tokenizer(form, parses, pattern, ms, vocab, tokens) ==
  [form |-> form, parses |-> parses, pattern |-> pattern,
   merges |-> IF form = "vocab.bpe" THEN << << <<1>> >> >> \o ms ELSE ms,
   vocab |-> vocab, added |-> tokens]

Added(i, s) == [id |-> i, content |-> s]
AddedLists == {<<>>, <<Added(-1, <<2>>)>>, <<Added(7, <<2, 2>>)>>,
               <<Added(1, <<2, 2>>)>>, <<Added(7, <<2, 2>>), Added(7, <<0, 0>>)>>,
               <<Added(7, <<2, 2>>), Added(8, <<2, 2>>)>>,
               <<Added(7, <<>>)>>, <<Added(7, <<2, 2>>), Added(8, <<>>)>>}
Forms == {"tokenizer.json", "vocab.bpe"}

SwapLast(v) == [k \in DOMAIN v |-> IF k = Len(v) THEN <<v[k][1], v[k][2] - 1>>
                                   ELSE IF k = Len(v) - 1 THEN <<v[k][1], v[k][2] + 1>>
                                   ELSE v[k]]
MCFiles ==
  {Tokenizer(form, TRUE, TRUE, ms, Written(ms), tokens) :
     form \in Forms, ms \in MergeLists, tokens \in AddedLists}
  \union {Tokenizer(form, TRUE, TRUE, ms, vocab, <<Added(7, <<2, 2>>)>>) :
            form \in Forms, ms \in MergeLists,
            vocab \in UNION {{Front(Written(x)), SwapLast(Written(x)), <<>>,
                              Append(Written(x), <<<<1, 1, 1>>, 9>>)} : x \in MergeLists}}
  \union {Tokenizer(form, parses, ~parses, << <<<<1>>, <<2>>>> >>, Written(<< <<<<1>>, <<2>>>> >>), <<>>) :
            form \in Forms, parses \in BOOLEAN}
MCNoFile == Tokenizer("none", FALSE, FALSE, <<>>, <<>>, <<>>)
============================================================================
