----------------------------- MODULE EncodeScan -----------------------------
(***************************************************************************)
(* One call of TikTokenEncoding::encode (token/tiktoken.cpp 52-131) and,   *)
(* below it, the scan loop of CoreBPE::_encode_native (token/core_bpe.cpp  *)
(* 871-1029): which parts of the text become special tokens, which are     *)
(* encoded as ordinary text, and which calls are refused.                  *)
(*                                                                         *)
(* A position is a byte offset.  The result is kept as the spans of text   *)
(* its tokens stand for; how a piece of ordinary text becomes tokens is    *)
(* module BpeMerge, how the scratch slot is obtained module SlotAllocator. *)
(***************************************************************************)
EXTENDS Integers, SequencesExt

CONSTANTS Byte,
          Texts,         \* the texts that may be encoded
          SpecialSets,   \* the sets of special tokens of a vocabulary
          KnownSets,     \* the sets of single bytes of a vocabulary
          All            \* the string "all" of allowed/disallowed_special

(* An empty special token would match everywhere without moving on.        *)
ASSUME SpecialsAssumption ==
  /\ Texts \subseteq Seq(Byte)
  /\ \A S \in SpecialSets : /\ IsFiniteSet(S) /\ S # {}
                            /\ S \subseteq Seq(Byte) \ {<<>>}
                            /\ All \notin S

VARIABLES
  text, specials, known,      \* the input and the vocabulary
  order,                      \* the special tokens as the regex alternates them
  allowed, disallowed,        \* the parameters; expanded once checked
  phase,                      \* "call", "find", "ordinary", "push", "done",
                              \* "rejected" (invalid_argument) or "thrown"
  start,                      \* bytes encoded so far
  startFind,                  \* where the next special match is looked for
  next,                       \* next_special: a span, or NoSpan
  out                         \* the spans of the tokens pushed on ret, each marked
                              \* as a special token or a piece of ordinary text

input == <<text, specials, known, order>>
vars  == <<input, allowed, disallowed, phase, start, startFind, next, out>>

NoSpan     == <<>>
Span(b, e) == <<b, e>>
Token(span, special) == [from |-> span[1], to |-> span[2], special |-> special]
Piece(b, e)     == SubSeq(text, b + 1, e)
OccursAt(s, p)  == p + Len(s) <= Len(text) /\ Piece(p, p + Len(s)) = s
Occurs(s)       == \E p \in 0 .. Len(text) : OccursAt(s, p)

(* pcre2_match of the alternation in text.substr(from): the leftmost       *)
(* match and, there, the first alternative.                                *)
MatchesAt(p) == {k \in DOMAIN order : OccursAt(order[k], p)}
MatchStarts(from) == {p \in from .. Len(text) : MatchesAt(p) # {}}
SpecialMatch(from) ==
  LET p == Min(MatchStarts(from))
  IN  Span(p, p + Len(order[Min(MatchesAt(p))]))

(* The regex is built in the order of an unordered_map: any order.         *)
Init == /\ text \in Texts
        /\ specials \in SpecialSets
        /\ known \in KnownSets
        /\ order \in SetToSeqs(specials)
        /\ allowed \in (SUBSET specials) \union {{All}}
        /\ disallowed \in (SUBSET specials) \union {{All}}
        /\ phase = "call"
        /\ start = 0
        /\ startFind = 0
        /\ next = NoSpan
        /\ out = <<>>

(* "all" stands for every special token; what is allowed is taken out of   *)
(* an "all" that is disallowed, and of nothing else.                       *)
AllowedSet    == IF All \in allowed THEN specials ELSE allowed
DisallowedSet == IF All \in disallowed THEN specials \ AllowedSet ELSE disallowed

Check == /\ phase = "call"
         /\ allowed'    = AllowedSet
         /\ disallowed' = DisallowedSet
         /\ phase' = IF \E s \in DisallowedSet : Occurs(s) THEN "rejected" ELSE "find"
         /\ UNCHANGED <<input, start, startFind, next, out>>

(* Find the next allowed special token, skipping the others.               *)
FindAllowed == /\ phase = "find"
               /\ MatchStarts(startFind) # {}
               /\ LET m == SpecialMatch(startFind)
                  IN  /\ Piece(m[1], m[2]) \in allowed
                      /\ next' = m
               /\ phase' = "ordinary"
               /\ UNCHANGED <<input, allowed, disallowed, start, startFind, out>>

SkipWholeMatch == /\ phase = "find"       \* mutant: skips all of the match
                  /\ MatchStarts(startFind) # {}
                  /\ LET m == SpecialMatch(startFind)
                     IN  /\ Piece(m[1], m[2]) \notin allowed
                         /\ startFind' = m[2]
                  /\ UNCHANGED <<input, allowed, disallowed, phase, start, next, out>>

SkipDisallowed == /\ phase = "find"
                  /\ MatchStarts(startFind) # {}
                  /\ LET m == SpecialMatch(startFind)
                     IN  /\ Piece(m[1], m[2]) \notin allowed
                         /\ startFind' = m[1] + 1
                  /\ UNCHANGED <<input, allowed, disallowed, phase, start, next, out>>

FindNone == /\ phase = "find"
            /\ MatchStarts(startFind) = {}
            /\ phase' = "ordinary"
            /\ UNCHANGED <<input, allowed, disallowed, start, startFind, next, out>>

EndOfText == Len(text)    \* mutant: the special token is encoded as text too

(* The ordinary text up to the special token is split into pieces by the   *)
(* pattern, which leaves nothing out; each piece is encoded at once.       *)
End == IF next = NoSpan THEN Len(text) ELSE next[1]

Known(e) == \A k \in start + 1 .. e : text[k] \in known

EncodePiece ==
  /\ phase = "ordinary"
  /\ \E e \in start + 1 .. End :
       /\ start' = e
       /\ \/ /\ Known(e) \/ e > start + 1
             /\ out' = Append(out, Token(Span(start, e), FALSE))
          \/ /\ ~Known(e) /\ e = start + 1      \* one unknown byte yields no token
             /\ out' = out
  /\ UNCHANGED <<input, allowed, disallowed, phase, startFind, next>>

(* byte_pair_encode met bytes that no ranked token covers.                 *)
ThrowOnPiece ==
  /\ phase = "ordinary"
  /\ \E e \in start + 2 .. End : ~Known(e)
  /\ phase' = "thrown"
  /\ UNCHANGED <<input, allowed, disallowed, start, startFind, next, out>>

EndOrdinary == /\ phase = "ordinary"
               /\ start >= End
               /\ phase' = "push"
               /\ UNCHANGED <<input, allowed, disallowed, start, startFind, next, out>>

PushStuck ==              \* mutant: goes on at the special token
               /\ phase = "push"
               /\ next # NoSpan
               /\ out'       = out
               /\ start'     = next[1]
               /\ startFind' = next[1]
               /\ next'      = NoSpan
               /\ phase'     = "find"
               /\ UNCHANGED <<input, allowed, disallowed>>

(* Push the special token and go on after it.                              *)
PushSpecial == /\ phase = "push"
               /\ next # NoSpan
               /\ out'       = Append(out, Token(next, TRUE))
               /\ start'     = next[2]
               /\ startFind' = next[2]
               /\ next'      = NoSpan
               /\ phase'     = "find"
               /\ UNCHANGED <<input, allowed, disallowed>>

Return == /\ phase = "push"
          /\ next = NoSpan
          /\ phase' = "done"
          /\ UNCHANGED <<input, allowed, disallowed, start, startFind, next, out>>

Finished == phase \in {"done", "rejected", "thrown"} /\ UNCHANGED vars

Next == \/ Check \/ FindAllowed \/ SkipDisallowed \/ FindNone
        \/ EncodePiece \/ ThrowOnPiece \/ EndOrdinary \/ PushSpecial \/ Return
        \/ Finished

(* The call runs on its caller's thread without waiting for anything.      *)
Spec == Init /\ [][Next]_vars /\ WF_vars(Next)

----------------------------------------------------------------------------
(* Properties *)

(* The tokens spell the text in order, without a gap or an overlap, but    *)
(* for single unknown bytes, up to where encoding has come.                *)
Covered == {p \in 0 .. Len(text) - 1 : 
                 \E k \in DOMAIN out : out[k].from <= p /\ p < out[k].to}

Lossless == /\ \A j, k \in DOMAIN out : j < k => out[j].to <= out[k].from
            /\ \A p \in 0 .. start - 1 : p \in Covered \/ text[p + 1] \notin known
            /\ phase = "done" => start = Len(text)

(* The special tokens found are the greedy leftmost allowed ones, whatever *)
(* order the regex was built in and however many disallowed ones are       *)
(* skipped on the way, unless one special token begins with another.       *)
PrefixFree == \A r, s \in specials : IsPrefix(r, s) => r = s

AllowedFrom(p) == {q \in p .. Len(text) : \E s \in allowed : OccursAt(s, q)}

Greedy == LET g[p \in 0 .. Len(text)] ==
                IF AllowedFrom(p) = {} THEN <<>>
                ELSE LET q == Min(AllowedFrom(p))
                         s == CHOOSE s \in allowed : OccursAt(s, q)
                     IN  <<Span(q, q + Len(s))>> \o g[q + Len(s)]
          IN  g[0]

SpecialsPushed ==
  FlattenSeq([k \in DOMAIN out |->
                IF out[k].special THEN <<Span(out[k].from, out[k].to)>> ELSE <<>>])

SpecialsAsDefined == phase = "done" /\ PrefixFree => SpecialsPushed = Greedy

(* Every call returns or throws.                                           *)
Terminates == <>(phase \in {"done", "rejected", "thrown"})
============================================================================
