# SmartLLM in TLA+

SmartLLM is a C++ runtime for Qwen3 language models: a byte-pair tokenizer, a
model on libtorch with a key/value cache, a weight loader, and an HTTP service
that is still a skeleton. This directory holds TLA+ models of its stateful and
algorithmic parts, TLC configurations that check them, and proofs for TLAPS.
Paths below are relative to `src/src/`.

## Inventory

| Component | State | Operations | Talks to | What is hard | Correct when |
|---|---|---|---|---|---|
| Slot allocator, `search/token/core_bpe.cpp` 45-84 | two atomic 64-bit words | `allocate`, `release` | every encode | lock-free claims, memory orders, exceptions | no two encodes share a scratch area; refusals only when slots are scarce |
| Byte-pair merge, `core_bpe.cpp` 86-204 | `parts` with cached ranks | `get_rank`, `_byte_pair_merge`, `byte_pair_encode` | scan loop | incremental cache of ranks | equals byte-pair encoding as defined; lossless |
| Encode policy and scan loop, `tiktoken.cpp` 52-131, `core_bpe.cpp` 871-1029 | `start`, `start_find`, `next_special`, `ret` | `encode` | allocator, merge, PCRE2 | overlapping special tokens, allowed and disallowed sets, exceptions | greedy leftmost allowed specials, nothing lost |
| Encode workers, `test_token.cpp` 93-115 | `next_index`, futures | `RunMulti` | tokenizer | threads, exceptions in threads | each line once, join returns |
| Vocabulary loaders, `core_bpe.cpp` 205-668, `qwen_token.cpp` | maps | `data_gym_to_mergeable_bpe_ranks` in two forms, `QwenToken` | files | malformed and unmapped characters, repeated merges, validation | what is accepted can encode every byte, ranks follow the merges |
| CoreBPE construction, decoding, `core_bpe.cpp` 670-844 | encoder and decoder maps, patterns per slot | constructor, destructor, `decode_bytes` | loaders | id collisions between ordinary and added tokens | decode inverts encode |
| KV cache, `search/model/kv_cache.cpp` | one K and V tensor per layer | `update`, `reset` | attention | stale rows, overflow, partial failure | a request sees exactly its own prefix |
| Qwen3 model, `search/model/qwen3.cpp` | weights, cache pointer | `forward` | cache, layers | positions, masks, prefill against decode | cached forward = uncached forward |
| Generation clients, `search/model/test_qwen3.cpp` | prompt, step, tokens | prefill, decode, reset | model, cache | position arithmetic, reuse of the cache | positions contiguous |
| Weight loading, `search/utils/model_utils.cpp` | module parameters | `load_module_from_safetensors(_dir)`, `InitModel` | files | partial overwrite, shards, `strict`, tied head | it is known which file each parameter ends with, also after a failure |
| Layers, `search/layers/` | weights | activation, norm, rotary, sampler | model | numerics | not modelled |
| HTTP service, `search/main.cpp` | phase of the process | start-up, detaching, routing, end | brpc, file helpers | start-up races of several processes | nobody serves without a log directory; a failed start has a reason |
| File helpers, `common/file_utils.cpp` | descriptors, advisory locks | `lock_file`, `file_size`, reads, `file_write`, `mkdirs`, `unzip` | kernel | lock held after a throw, descriptor leak, kills between two system calls | readers in the lock see no mixture; calls return |
| Lock wrappers, `common/lock.h` | mutexes, spin and reader-writer locks | scoped guards, `Wait`, `SharedInt` | pthread | nesting, unlocking and locking again, waits, exceptions | exclusion; no lock is held that no guard gives back |
| Network, `common/net_utils.cpp` | buffers of the caller, files | get, post, put, delete, SFTP up- and download, download | libcurl, the files | answers that break off, retries with the same buffers, failing flushes | buffers hold what arrived; after success a file is whole |
| String, URL, base64 and digests, `common/{string,url,crypt,hash}_utils`, `base64.cpp`, `murmurhash2.cc` | incremental hasher, RC4 state | hashing, coding, splitting, counting | | word and block boundaries, unaligned input | variants of a hash agree; what is encoded or split is given back |
| Timer and system helpers | none | calendar, `/proc` | C library | | not modelled |
| `search/token/vec.bak` | | an old copy of the tokenizer, not built | | | |

How they interact: a caller's thread enters `TikTokenEncoding::encode`, which
checks the policy and calls `CoreBPE::encode`; that claims a slot, alternates
between PCRE2 matches in the slot's scratch area and byte-pair merges, and
releases the slot. Only the slot words (and the shared line counter of the
test driver) are shared between threads. The model is single-threaded: a client
calls `forward(ids, logits_to_keep, start_pos)`, each layer calls
`KVCache::update`, and cache and client agree on positions by convention only.
Setting up is done before: the weights are copied tensor by tensor into the
parameters the constructors registered, and a vocabulary file becomes the maps
of the tokenizer. The service, the transfers and any user of the file helpers
meet in the file system, where other processes and kills interleave.

## Modules

Tokenizer and model:

| Module | Models | State and actions |
|---|---|---|
| `SlotAllocator` | `allocate`, `release`, and the claim/release bracket of `_encode_native` | `bitmap` = `bitmap_`; per thread `pc`, and the C++ locals `word`, `old`, `slot`. `Call`, `Load`, `NextWord`, `Refuse`, `CasSuccess`, `CasFail`, `Match`, `Release`, `Throw`: one atomic access each |
| `SlotRelaxed` | the same with the relaxed loads of C++ | `may[t][w]` = the values of a word that a load of the thread may still return; `Read` takes one of them, `Write` adds one for everybody else |
| `SlotPool` | what an allocator promises | a grant is of a free slot; a refusal needs every slot to have been busy at some moment of the call |
| `SlotHistory` | `SlotAllocator` with history variables | states that the allocator implements the pool, and the doc comment of `core_bpe.h` |
| `EncodeWorkers` | `RunMulti` composed with `SlotAllocator` | `nextIndex` = `next_index`; `TakeLine`, `Leave`, and the allocator's actions inside `func` |
| `BpeMerge` | `byte_pair_encode`, `_byte_pair_merge`, `get_rank` | `parts` = the vector of (start, rank); `Begin`, `Merge`, `Emit`, `Throw`, `SingleByte` |
| `BpeReference` | byte-pair encoding as a definition | tokens and the leftmost pair of the lowest rank |
| `EncodeScan` | `TikTokenEncoding::encode` and the scan loop | the C++ locals; `Check`, `FindAllowed`, `SkipDisallowed`, `FindNone`, `EncodePiece`, `ThrowOnPiece`, `PushSpecial`, `Return` |
| `CachedDecoding` | `KVCache`, the cached forward, the cached client loop | `cache[layer][position]`; one `RunLayer` per layer, `Overflow` and `MaskMismatch` between layers |
| `UncachedDecoding` | the uncached client loop and forward | the specification the cached one implements |
| `Vocabulary` | the loaders of vocabulary files, `QwenToken`, constructor, destructor and `decode_bytes` of `CoreBPE` | the C++ maps; `LoadRanks`, `AddToken`, `AddedAll`, `Construct`, `ConstructThrows`, then calls: `Encode`, `EncodeUndefined`, `EncodeRepeats`, `Decode`, `DecodeThrows`, `Destroy` |
| `Qwen3Parameters` | the parameters the constructors of `qwen3.cpp` register, in order | operators |
| `WeightLoader` | `load_module_from_safetensors`, its directory form, `InitModel` | `weights` = the tensor each parameter holds; one step per tensor: `CopyTensor`, `SkipTensor`, `FailTensor`; `OpenDir`, `OpenFile`, `CloseFile`, `Tie` |
| `QwenSetUp` | `WeightLoader` and `Vocabulary` side by side | |

Helpers and service:

| Module | Models | State and actions |
|---|---|---|
| `Locks` | `lock.h`: mutex, spin lock, reader-writer lock and its stand-in, `CondVar`, guards, `SharedInt` | `guards[t]` = the guards on a thread's stack; `writer`, `reads` = the locks. `Construct`, `LockAgain`, `Unlock`, `Wait`, `Granted`, `Destruct`, and the methods of `SharedInt` |
| `SharedFiles` | the file helpers, called by several processes | one system call a step: a call in progress `call[p]`, its `section[p]` of `lock_file`, open descriptors `fds[p]`; `Killed` between any two |
| `NetTransfers` | requests into buffers, SFTP transfers, the download of a file | `buf`, `code`, `headers` of the caller; `Header` and `Block` are libcurl's callbacks |
| `SearchService` | the process of `main.cpp` | `phase[p]`; `Launch`, `TestLogDir`, `Mkdirs`, `Start`, `Answer`, `AskedToQuit` |
| `FileClients` | the three above on one file system | a behaviour's initial state fixes which helpers it mixes |
| `AtomicFiles` | what `lock_file` and the helpers promise to who uses a file only inside it | `holder`, `inside`; contents without blocks, descriptors or system calls: `Enter`, `Leave`, `Read`, `Write`, `Download`, `Fails`, `Die`. `FileClients` implements it |
| `Bytes`, `Digests` | exclusive or; `murmurhash2.cc`, `hash_utils.cc` without md5 | operators on words of the true width, as sequences of bytes |
| `Rc4` | RC4 of `crypt_utils.cpp` | operators on a key `state`, `x`, `y` |
| `Streams` | a caller of the incremental hasher `CMurmurHash2A` and of RC4 | an `input` handed over piece by piece: `Hand` is one `Add` and one `_rc4`, `Finish` is `End`; at the end the other hashes take the whole input, and the input with a byte changed |
| `Codecs` | `base64.cpp`, URL codecs | operators |
| `TextUtils` | splitting, lines, UTF-8 lengths, `format_number` | operators |
| `Utilities` | the input of `Streams` as a whole, given to the codecs and the functions on text | properties only |

Proofs: `SlotAllocatorProofs` (allocator, pool and workers), `BpeMergeProofs`,
`EncodeScanProofs`, `CachedDecodingProofs`, `QwenSetUpProofs`,
`FileClientsProofs` (files, transfers and service), `CommonProofs` (`lock.h` and the
streams), and `SequenceLemmas` with what they share; see below.

Modules named `MC...` give constants to TLC. Operators marked `mutant` stand for
plausible mistakes in a definition next to them; each property has one that
breaks it. They are used by no specification.

### Abstractions

* An atomic word is the set of its 1 bits. `SlotAllocator` takes a load to read
  its current value, as processors that keep the order of loads do (x86).
  `SlotRelaxed` takes C++ at its word: a relaxed load may return any value the word
  has had since this thread last wrote it, and those of the two words are
  not ordered with each other. Values that other synchronisation rules out
  are allowed too, so what holds there holds in C++; a compare-exchange acts on
  the latest value, also when it fails for good.
* The acquire and release orders are modelled for what they are there for, the
  visibility of plain writes: `seen` and `published` carry the set of scratch areas whose last
  write happens before a thread's next step, and before an acquiring read of a
  word.
* A spurious failure of the weak compare-exchange is a step that changes nothing.
* The pattern that splits ordinary text is external; it is taken to leave no byte
  out, as the Qwen pattern does by its alternatives for letters, digits, other
  characters and white space. Where it splits is left open.
* In `EncodeScan` special tokens are non-empty and there is at least one. What
  happens otherwise is in `Vocabulary`, where an added token without content is an
  empty special token (`qwen_token.cpp` 32). If there is no other, the joined
  pattern is empty, no special regex is compiled and encode indexes an empty
  vector: the phase `undefined`. Beside others it is an alternative that matches
  anywhere, and encode takes it again and again: the phase `stuck`. If it comes first
  in the `unordered_map`, nothing is put before the next token and it leaves no
  alternative (`SpecialCopies` takes both orders).
* A hidden state is the term of what it was computed from (token, key/values
  seen), so two states are equal only if the same inputs went in. Keys carry the
  position they were rotated by. One cell stands for the key and the value row,
  which `update` writes from the same input, one after the other.
* The CPU build is modelled: eager attention with a square mask. The GPU and NPU
  kernels are not.
* Lists the code filters are written as the join of `<<x>>` and `<<>>` over the
  list, which the proofs can take apart.
* A client of the cache may, beyond what the tests do, start a request without
  a reset, pass several tokens in the middle of a request, and go on after an
  exception. None of it may make a later forward wrong.
* A tensor is known by the file it comes from, a safetensors file by whether it
  opens and which tensors it holds, fitting or misshaped. A string of a
  vocabulary file is a sequence of code points; json and UTF-8 parsing are
  external. Setting up weights and tokenizer share no state, so the two are
  explored side by side, not in every order.
* An encode in `Vocabulary` cuts its text into known tokens in any way: the
  round trip holds for all of them, the way the merge loop takes is `BpeMerge`.
* pthread, `flock`, libcurl, brpc, Boost and the kernel are external. A lock
  is granted in any order of its waiters; an advisory lock belongs to the open
  description and ends with the process; a transfer may end with an error after
  any callback; a process may be killed between any two system calls. A thread
  that locks a guard twice waits for ever (or aborts, where pthread notices).
* A file is a sequence of blocks; what the kernel or `memset` fills in is the
  block `NUL`. `boost::filesystem::create_directories` returns whether it made
  the directory, which is why `mkdirs` reports an existing one as a failure.
* What a process does in `FileClients` is fixed by a *mix* in the initial state,
  so that helpers that share nothing are not multiplied with each other.
* Hashes are computed at their true widths and with their own constants. RC4 is
  the same algorithm over 16 instead of 256 values; a base64 character is its
  place in the alphabet.

## Runs

| Run | Bounds | Shows |
|---|---|---|
| `slots` | 2 threads, 2 words of 2 bits, relaxed loads | exclusive slots, exact bitmap, no data race on scratch areas, only owners free, refusals only when threads plus lost slots are as many as the slots |
| `slot_pool` | 3 threads, 2 words of 1 bit | the allocator implements `SlotPool`; a refusal only if at one moment of the call encodes in progress plus lost slots exceeded the slots |
| `slot_first_free` | same | violated: the doc comment of `core_bpe.h` 29 does not hold of concurrent calls |
| `workers` | 3 threads, 3 one-bit words, 4 lines | each line once; no line comes back empty, slots lost to exceptions or not; nothing left out |
| `workers_scarce` | 3 threads, 2 one-bit words, 4 lines | with refusals too the join returns |
| `bpe` | all pieces up to 5 of 2 bytes; up to 3 merges | the merge loop implements `BpeReference`; cached ranks are fresh; lossless; throws only on an unknown byte; terminates |
| `scan` | all texts up to 4 of 3 bytes and 4 longer ones; 3 overlapping pairs of special tokens, all orders and parameter sets | the tokens cover the text; the specials are the greedy leftmost allowed ones; terminates |
| `decoding` | 2 layers, 4 positions, prompts up to 2 of 2 tokens, up to 3 tokens after them | cached generation implements uncached generation; between calls the cache holds exactly the context |
| `set_up` | the parameters of a one-layer model in one file or two shards; merge lists up to 2 over 3 bytes, 8 lists of added tokens, both file forms | which file each parameter ends with; what a failed load leaves; an accepted tokenizer can encode every byte, is undefined or never ends only because of empty added tokens, and decodes what it encodes |
| `locks` | 2 threads with 2 guards each; a mutex, a reader-writer lock, its stand-in, a `SharedInt` | exclusion; a lock is held as often as guards say; no increment is lost |
| `files` | 2 processes, 3 descriptors each, contents of 1 and 2 blocks, 2 requests, 6 mixes | the calls implement `AtomicFiles`; inside `lock_file` no mixture is read, and a file is whole after success; each descriptor has an owner; buffers hold the answers; start-up races; a call of `lock_file` returns |
| `utilities` | inputs up to 7 of 2 bytes, up to 4 of the bytes that matter to each codec, one of each length up to 17; every way of cutting | `StreamsAgree`: the incremental, neutral and aligned hashes agree with those they stand for, and RC4 in pieces is RC4 of the whole, and undone; `EveryByteTells`: changing a byte, to three others, changes each hash, with 64-bit seeds too; `ConversionsInvert`: what is encoded or split is given back |

Why the bounds are enough. Two words of two bits have a word that fills, a second
word, and a lowest zero bit to compete for; leaks make slots scarce with two
threads. `slot_pool` has more threads than slots, so refusals overlap claims and
releases, and callers come and go behind a search; `workers_scarce` adds the exceptions to that; `workers` has just
as many slots as threads, the boundary at which a refusal would be wrong. A merge
touches the part, its left neighbour and two parts to the right: five bytes are
enough for a merge with all of them inside the piece and for merges of merges. In `scan` one special token contains, overlaps or
starts another. In `decoding` two layers show how the rows of one
depend on those of the other, a generation overflows the cache, and requests
follow each other with and without a reset; the client is not limited in the
number of requests.

In `set_up` every single tensor is missing or misshaped in turn, a shard repeats
or contradicts the other, and a merge repeats another, has an unmapped
character, a malformed string or a missing half; added tokens take the id of an
ordinary token, of each other, or none, or are empty, alone or beside others. Two guards of a thread are enough to
nest, to release out of order and to lock again while another thread waits;
`MaxReads` and `MaxInt` cap counters that only repeat. In `files` a
content of two blocks and one of one can be mixed, cut and padded; the third
descriptor is the one that an earlier `lock_file` kept, so that the limit is
reached; two requests are a try and its repetition. The hashes take 4- and
8-byte words: 17 bytes are two of the longer, a tail, and each length between.

Deadlock is not checked in three runs because the program may stop there: `locks`
(a thread that locks twice waits for ever), `set_up` (after a load or a
destructor) and `utilities` (at the end of the input).

The violated run. `allocate` "returns the first free slot, -1 on failure". A
thread finds word 0 full; a slot of word 0 is then freed and one of word 1
claimed; the thread finds word 1 full and returns -1, with a slot free at every
moment of the call. `RefusedOnlyWhenCrowded` says what still holds if loads are made
in order: at one moment of the call there were more encodes in progress, together
with lost slots, than slots. Those that come and go while the thread searches
cannot refuse it together. `RefusedOnlyNearScarce` is what holds in whatever order
loads are made.

### Fairness

`BpeMerge` and `EncodeScan` are sequential code that waits for nothing: weak
fairness of the whole step. `EncodeWorkers` has weak fairness per thread: each
worker is an operating system thread that is always scheduled again, and a weak
compare-exchange does not fail spuriously for ever. Nothing is assumed about
the order in which threads win: that they cannot starve each other follows
from the finite number of lines.

`FileClients` has weak fairness of a helper call that has begun and of a
transfer (the scheduler runs a process that can run; libcurl's time limits end a
transfer), and strong fairness of `Flock` and of the end of `func`. `Flock` is
enabled only while nobody holds the lock, so weak fairness would let the kernel
serve the same caller again and again; Linux queues the waiters. `FuncEnds` is
disabled while `func` is in a call of its own; that `func` ends at all is what
`lock_file` asks of its caller. Nothing makes a kill, or a throw of `func`,
happen. The other specifications state no liveness.

## Proofs

All theorems hold for every value of the constants that meets the named
assumptions, which TLC evaluates in the runs:

| Assumption | Says | Because |
|---|---|---|
| `SizesAssumption`, `ThreadsAssumption`, `LinesAssumption` | positive numbers of words and bits, finitely many threads, a number of lines | |
| `BpeAssumption` | pieces are byte sequences, a table gives each of its tokens a rank of its own, below `NoRank` | the loaders make no other table: `AcceptedIsUsable` |
| `SpecialsAssumption` | special tokens are finitely many, at least one, none empty | see Abstractions; the cases left out are hazards |
| `DecodingAssumption` | layers and cache length are positive, prompts not empty, no token is the zero of a fresh cache | `reset` zeroes the cache |
| `WeightsAssumption` | the registered names differ, the embedding and the head are among them, an index names shards | libtorch refuses to register a name twice |
| `BytesAssumption`, `FilesAssumption` (`Vocabulary`), `NoFileAssumption` | a merge list is made of code points, an added token has a number and bytes | what the parsers return |
| `FilesAssumption` (`SharedFiles`), `NetAssumption`, `ServiceAssumption` | files and directories are different paths, what is written has no `NUL` block | |
| `MixesAssumption` | a mix that starts services does not also unzip | a helper that makes the log directory itself would make it without any start-up; no client of the repository does |
| `KindAssumption` | kinds of locks, the one of `SharedInt` a mutex | `lock.h` |
| `StateSizeAssumption`, `InputsAssumption` | RC4 permutes 1 to 256 values; inputs are byte sequences, seeds have four or eight bytes, the key is not empty | the code has 256; a key of no bytes would read behind its end |

**The slot allocator** (`SlotAllocatorProofs`): `TypeCorrect`, `SlotSafety`
(exclusive slots), `BitmapAlwaysExact`, `NoScratchRace`, `OwnerFrees`.
None of the safety properties is inductive without the others, and a part
about free slots is missing: a claim is race-free only because the last write of
a *free* slot is published in its word. The inductive invariant `SlotInv` is
`TypeOK`, the three properties, and `FreePublished`. `ClaimTakes` and
`ReleaseFrees` are the arithmetic of slot numbers (a slot is word times bits plus
bit, and the two are recovered by division); every step of the allocator
then either leaves slots and bitmap alone (`QuietStep`) or has a lemma of its
own (`CasSuccessStep`, `MatchStep`, `ReleaseStep`, `ThrowStep`).

**Refusals** (`RefusalCrowded`). `allocate`
looks at one word after the other: when it gives up on the last word, slots
of the words before may be free again. `Within(v, B)` says what remains true of
them for one search *v*, the watcher, when there were at most *B* slots taken and
searches going on since it began. Call a search at level *j* when it has passed *j* words.
As long as the watcher is at level *j* or beyond, the slots taken in words *j* and up,
the searches at level *j* and beyond, and *j* whole words of slots together are at most
*B*. A search rises to *j + 1* only by finding word *j* full
(`MayPass`: its slots count at level *j* but no longer at *j + 1*, which makes room for
the search), a claim exchanges a search for a slot (`ClaimStep`), nothing else
grows (`OtherStep`). At the refusal *j* is the number of words: all
slots plus the search itself are at most *B* (`RefuserSurrounded`). *B* is `crowd`
of the watcher, the most encodes in progress and lost slots there were at a moment
of its call (`CrowdGrows`, `CrowdStep`); a level once bounded stays bounded when
*B* grows, and a watcher that begins is at no level.

**Relaxed loads** (`RelaxedSlotSafety`, `RelaxedBitmapExact`,
`RelaxedNoScratchRace`, `RelaxedOwnerFrees`, `RelaxedRefusals`). `SlotRelaxed` leaves
only coherence with a thread's own writes, and the read-modify-writes, which
act on the latest value. The first four properties rest on the latter alone and
survive. What changes is the bound of refusals. With two words or more, threads
plus lost slots are at least two words of slots (all 128 in the code) where somebody is
refused; with loads in order they are *more* than all. The difference is real: with
two words of one bit TLC finds one of two threads refused, after the other has had
first slot 1, by an old value of word 0, and then slot 0. So 127 threads that lose no slot are never refused.

`RelaxedInv` looks at word 0 to see it. `MayPassFirst` are the threads that may
still read that word as full and hold none of its slots. When the word was last
filled, these threads shared the threads and lost slots with the owners of its slots, and since
then only gave way (`FirstFilled`). Whoever searches or encodes beyond word 0 is one of
them (`BeyondFirst`), so when a later word fills too, its slots come on top of
those of word 0 (`LaterFilled`), and that stays true of whoever reads it late.

**The pool** (`AllocatorImplementsPool`). A refusal of the pool
needs every slot to have been busy at some moment of the call. `SeenInv` follows
the scan: all of the words passed, the bits of the snapshot, and what is taken
now have been seen busy. A failed compare-exchange that finds the word full, and
the last `NextWord`, complete the set.

**The workers.**
`WorkersRefineAllocator`: the workers are a use of the allocator, and all that
is proved of it holds for them. `LinesAlwaysAccounted` and `NoLineLeftOut`
follow from `WorkersInv`, which adds to the accounting that who has a line is
still working (`BusyInside`), and that while lines are left only an exception ends a
worker (`ThrownCounted`). `EmptiedWhenScarce` uses the levels with
*B* = the number of threads for every watcher: an exception that loses a slot also ends its worker
(`LostMadeUp`), so slots taken and searches going on stay within it.

**The merge** (`BpeMergeProofs`): `PartsAlwaysCover`, `RanksAlwaysFresh`,
`ThrowsOnUnknownByte`, from the invariant `MergeInv`. Beside the three it needs
`SegmentsKnown`, that a segment of several bytes is a token, because a merge had
its rank; that is why only a single byte can be unknown at the end.
`MergedParts` describes the parts after an erase, `MergeStep` goes
through the ranks: those looked up again and those that kept their neighbours.

**The merge computes byte-pair encoding** (`MergeLoopImplementsBpe`). The segments between the parts are the tokens of
`BpeReference`. The loop's first least rank is the definition's leftmost pair of
the lowest rank (`ScanFindsPair`, `ScanPicksFirst`), a merge maps to a merge (`MergeMaps`), and it stops
exactly when no pair has a rank (`ExhaustedMaps`). `MergeIsLossless` is about the
ids the caller gets: the segments join to the piece (`SegmentsJoin`), and an id
tells the bytes of its token, because no two tokens share a rank (`RankSpells`).

**Recursive definitions.** Several properties say what a recursive definition
computes: the segments joined, the greedy special tokens, the hidden states of
a stack of layers, the ranks after a list of merges, the chunks of a buffer. The
induction theorems of the library take the induction hypothesis as an operator, which
the provers cannot instantiate. `SequenceLemmas` goes by sets instead: a set of
naturals that is not empty has a least element (`LeastElement`, from the
well-foundedness of the finite sets), so a set of naturals with 0 and every successor
is `Nat` (`AllNaturals`). Such a set is made for each definition: first of the
lengths for which a function with the recursive equation exists at all, which is
what the equation of a recursive function rests on (`JoinsExists`, `GreedyExists`,
`LayeredExists`, `MergingExists`), then of those for which it does what is
claimed (`FlattenAppend`, `StatesCausal`, `MergedRanked`).

**The scan** (`EncodeScanProofs`): `ScanIsLossless`, `ScanFindsSpecials`. `ScanInv`
keeps three things. `PlacesInRange`: where the loop is, and that a match found is an
allowed token ahead of it. `SpansInOrder` and `BytesCovered`: what is pushed so far
is in order and leaves no known byte out. `SpecialsFound`: the special tokens pushed,
the one found, and the greedy ones from there on are together the greedy ones of the
whole text. A match that is not allowed moves on by a single byte, and no greedy
token starts at the byte passed (`DisallowedIsPassed`); one that is allowed is the greedy one
whatever the order of the alternation, because only one special token can match
at a place when none begins another (`OneStartsTheOther`, `AllowedIsGreedy`).
`SpecialsAsDefined` states that last condition itself; without it the order of an
`unordered_map` decides.

**Cached decoding** (`CachedDecodingProofs`): `CacheIsRight`,
`CachedImplementsUncached`. The hidden states of an uncached forward are causal: the first
*n* depend on the first *n* tokens only (`StatesCausal`, by layers). So a forward that
continues the served tokens need not recompute them. `DecodingInv` says what
holds in the middle of a forward: the layers that have run hold the input too,
the others only what was served before (`Written`), and the states carried
from layer to layer are the ones an uncached forward would have (`Within`). A call that
fails between two layers leaves rows behind the served context, which the
next one overwrites before it reads them (`AbandonStep`, `UpdatedRight`, `VisibleRight`).
Each step then maps to one of the uncached loop or to none (`UncachedStep`).

**Loading weights** (`QwenSetUpProofs`): `LoadsFromLastFile`,
`LoadFailsBetweenTensors`. `WeightsInv` gives every parameter its value from the two
lists that are still to do: names before the current one have the tensor of
the last file up to and including this one, the others that of the last file before it
(`ValueOf`, `InFile`). Closing a file then says it of all names (`BetweenFiles`), and a failure
finds just what its place in the lists says.

**The tokenizer's files** (`QwenSetUpProofs`): `AcceptedIsUsable`, `DecodeInvertsEncode`.
`ByteRanks` is about the two loops that number the single bytes: the printable ones
and then the others get all ranks below `NumBytes`, each once. `MergedRanked`
goes through the merges: after *k* of them the ranks are those of the bytes and of
the tokens merged, all below `NumBytes + k`, no two alike, and a
merge that repeats one takes the later rank. `LastMerges` turns that into the order of
the ranks. `VocabularyInv` follows the maps from the file to a call;
`IdsDecode` is the round trip of one token. The special tokens are the contents of
the added tokens read so far (`ReadUpTo`, `SpecialsRead`), so what the constructor
makes of an empty one (`SpecialSlots`) is said of the file: `Mishaps` is what must be
in it for encode to be undefined or not to end.

**Files, transfers and service** (`FileClientsProofs`), for any number of
processes and whatever is killed. `Sound` says what the code makes of a call
in progress: it is on a file, it is not past what it reads or writes, a transfer
has its file open from its first to its last step. `LockIsHeld`: who is in
`lock_file` holds the lock, who has a guarded file open is in it. With that a step of
another process cannot touch a guarded file that is open (`OthersRight`), and `Right`
is inductive: a guarded file is the beginning of something that was written as a whole, a writer is
just behind its last block and a reader within a file that nobody changes. Hence
`GuardedReadsAreWhole` and `GuardedWritesAreWhole`. `DescriptorsAreExplained` has one case per
way out of a call. `BuffersAreRight` follows the answers: one more (`BodyGrows`)
begins the buffer anew for a post and is added to it by the other requests, also when it
broke off; while one is arriving, what has arrived is at the end
(`Running`). `StartUpIsRight` adds which start-ups overlapped the making of the
directory (`StartUpInv`).

**Files as atomic operations** (`FilesImplementAtomicFiles`). To clients that use some
files only inside `lock_file`, the system calls of the helpers are one operation per
helper. The mapping: the file being written has no content yet (`Settled`,
`BeingWritten`), inside is who is in `func`, and of a client only
its call on a guarded file is seen, or what that returned. The invariants are those
above. Two processes are never inside (`InsideAlone`), so a read
that returns has measured and read what is there now; its blocks hold no `NUL`, so the
reader that cuts its string at one cuts nothing (`NothingCut`). A call maps to a
beginning (`CallBeginsAtomic`), its steps to stutters and to a return
(`FileStepAtomic`), the callbacks of a download likewise (`TransferBeginsAtomic`,
`TransferStepAtomic`). A killed writer leaves a beginning of what it wrote, which is
what `Die` may leave (`KillAtomic`); steps on other files are `Elsewhere` or
nothing (`OutsideAtomic`).

**The locks** (`CommonProofs`): `GuardsExclude`, `LocksGivenBack`,
`IncrementsKept`. `LocksInv` counts: a thread holds a lock at least as often as
its guards say, exactly as often unless it locked a guard twice; a writer is
alone; who waits for a condition holds nothing with that guard; and what
`Increment` has read stays the value until it writes, because a method has its guard
around it.

**Hashes and RC4 in pieces** (`CommonProofs`: `StreamsAlwaysAgree`), for inputs of any
length, every way of cutting them, every address and every key. The operators fold
over words and bytes. A fold is taken step by step: there is a sequence of
intermediate values that begins at the base, goes on by the operation, and ends
at the fold (`SetFoldExists`, `TypedFoldSteps` in `SequenceLemmas`; since a lemma
cannot take an operator, each folded operation has an instance, `MixSteps`, `TakeByteSteps`,
`ScheduledSteps`, `CryptSteps` and so on). `StreamInv` ties what the callers hold to the steps over the whole
input, which do not know the cuts: the hasher after *n* bytes has the hash after
the last whole word before *n*, and in its tail the bytes since (`Hashed`); the cipher has the
key after *n* bytes, and what was sent is each byte sealed with the key at its
place (`Sealed`). `AddStep` takes any piece over: bytes that
complete a word, whole words, bytes that are left. Sealing twice gives the byte
back because exclusive or does (`XorTwice`, `SealedTwice`). The neutral version puts
together the words that the other reads (`WordOfBytes`). The aligned one joins two
neighbouring words by shifts into the unaligned one (`JoinedWords`), with
two cases for what is left behind the last aligned word (`AlignedAgrees`).

**No byte is left out of a hash** (`CommonProofs`: `EveryByteAlwaysTells`), for inputs of
any length, any change of a byte (`OtherBytes` may be all bytes) and any seed, of 32 bits
or of 64 (two arbitrary halves). Every step of the hashes can be undone, in words of any
width. A product modulo 2^n with an odd factor tells its other factor:
at the lowest byte that differs both products have the same carry, and the
odd low byte of the factor has an inverse modulo 256 (`TimesTells`). A word
with its own shift to the right in it tells the word: the highest byte that differs is
known from those above it (`ShiftTells`). So does a sum, and an exclusive or. Hence
`Mix`, `Mix64`, `HashStep`, `Cross` and `Final` tell each of their operands when the other
is given. A byte lies in one word or behind the words (`OneWordOrRest`); with
one word changed the intermediate values are the same up to it and differ ever after
(`FoldTells`). For `MurmurHash2_64B`, where two halves take words in turns, one half
differs (`TurnsTell`), and the four last steps are undone one by one (`CrossedTells`).

Only model-checked:

* what has to happen in the end: `Terminates` of the merge and of the scan,
  `JoinReturns`, `LockCallReturns`. Fairness and `ENABLED` are outside what the prover
  handles.
* `ConversionsInvert`: `uri_decode`, the splitting of lines and the UTF-8 lengths
  are `RECURSIVE` operators, with which the prover loses its arithmetic.

Hazards the model contains and no property judges, because the code does what one would fear
and nothing in the repository says it should not: `lock_file` keeps its descriptor
(`kept`) and, after a throw of `func`, the lock; a read guard locked twice leaves the
lock taken (`relocked`); which of two special tokens is found where one begins the
other depends on the order of a map; "all" is expanded differently for allowed and for
disallowed tokens.

## Not modelled

* `layers/` and the GPU and NPU attention kernels: floating-point tensor
  arithmetic. `sampler.cpp` seeds a global generator at every call, which
  would matter to concurrent callers; the repository has none.
* `timer.cpp`: wrappers of `strptime`, `mktime` and `strftime`. They normalise a date
  that does not exist, while a test expects `parseTime` to refuse February 31
  (`common/test_common.cpp` 17-21); that depends on the C library alone.
* `system_utils.cpp`: reads of `/proc`. In `file_utils.cpp`, listing a directory,
  deleting files and `get_current_dir`: each one call of Boost.
* md5 and the OpenSSL form of base64, ICU conversions, lexical casts and printf:
  library calls.
* Three helpers have undefined behaviour for some inputs, and any result would be
  a model of them: `str_del` goes on with an iterator it has invalidated
  (`string_utils.cpp` 342-351), `generate_custom` indexes fields that may not
  exist, and `url_decode_gbk` reads behind a trailing `%`. `Utilities` uses only
  inputs for which the functions are defined.
* Third-party code, build scripts, and `vec.bak`, which no target builds.

## Plan

Done: the components of the inventory that have state, their refinements, relaxed
loads, `lock_file` as atomic operations, and the proofs above. What is left:

1. The codecs as recursive functions instead of operators, in a module apart, with
   proofs that base64 and the URL codecs invert, and that split pieces join.
2. The round trip of `format_number` and the lengths of UTF-8 prefixes, likewise.
