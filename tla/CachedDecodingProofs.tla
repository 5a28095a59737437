------------------------ MODULE CachedDecodingProofs ------------------------
(***************************************************************************)
(* Generation with the KV cache implements generation without it, for any  *)
(* vocabulary, prompts, number of layers and length of the cache.  The     *)
(* invariant says what the layers that have run and those that have not    *)
(* hold while a forward is under way.                                      *)
(***************************************************************************)
EXTENDS CachedDecoding, SequenceLemmas

States(toks) == Uncached!HiddenStates(toks)

----------------------------------------------------------------------------
(* The hidden states of an uncached forward *)

(* What one layer makes of the states before it.                           *)
Through(h, p) == Attend(h[p], [j \in 1 .. p |-> KV(h[j], j - 1)])
Layered(toks, h) ==
  h = [l \in 0 .. NumLayers |->
         IF l = 0 THEN toks ELSE [p \in DOMAIN toks |-> Through(h[l - 1], p)]]

LEMMA LayeredExists == \A toks : \E h : Layered(toks, h)
<1> TAKE toks
<1> DEFINE Next1(h) == [p \in DOMAIN toks |-> Through(h, p)]
           Upto(n, h) == /\ h[0] = toks
                         /\ \A l \in 1 .. n : h[l] = Next1(h[l - 1])
           P == {n \in Nat : \E h : Upto(n, h)}
<1>1. 0 \in P
  <2> DEFINE h == [l \in {0} |-> toks]
  <2>1. Upto(0, h)
    <3> HIDE DEF Next1
    <3> QED OBVIOUS
  <2> HIDE DEF Upto, h
  <2> QED BY <2>1
<1>2. ASSUME NEW n \in P PROVE n + 1 \in P
  <2>1. PICK h : Upto(n, h)
    OBVIOUS
  <2> DEFINE g == [l \in 0 .. n + 1 |-> IF l = n + 1 THEN Next1(h[n]) ELSE h[l]]
  <2> HIDE DEF Next1
  <2>2. n \in Nat /\ g[0] = toks /\ g[n + 1] = Next1(h[n]) /\ \A l \in 0 .. n : g[l] = h[l]
    BY <2>1
  <2>3. ASSUME NEW l \in 1 .. n + 1 PROVE g[l] = Next1(g[l - 1])
    <3>1. CASE l = n + 1
      BY <2>2, <3>1
    <3>2. CASE l \in 1 .. n
      <4>1. l \in 0 .. n /\ l - 1 \in 0 .. n
        BY <2>2, <3>2
      <4>2. h[l] = Next1(h[l - 1])
        BY <2>1, <3>2
      <4> QED BY <2>2, <4>1, <4>2
    <3> QED BY <2>2, <3>1, <3>2
  <2>4. Upto(n + 1, g)
    BY <2>2, <2>3
  <2> HIDE DEF Upto, g
  <2> QED BY <2>2, <2>4
<1>3. NumLayers \in P
  <2> HIDE DEF P
  <2>1. P \in SUBSET Nat
    BY DEF P
  <2>2. P = Nat
    BY <1>1, <1>2, <2>1, AllNaturals
  <2> QED BY <2>2, DecodingAssumption
<1>4. PICK h : Upto(NumLayers, h)
  BY <1>3
<1> DEFINE g == [l \in 0 .. NumLayers |-> h[l]]
<1>5. NumLayers \in Nat
  BY DecodingAssumption
<1>6. \A l \in 0 .. NumLayers : g[l] = IF l = 0 THEN toks ELSE Next1(g[l - 1])
  <2> HIDE DEF Next1
  <2> TAKE l \in 0 .. NumLayers
  <2>1. CASE l = 0
    BY <1>4, <1>5, <2>1
  <2>2. CASE l \in 1 .. NumLayers
    <3>1. l - 1 \in 0 .. NumLayers /\ l # 0
      BY <1>5, <2>2
    <3> QED BY <1>4, <2>2, <3>1
  <2> QED BY <1>5, <2>1, <2>2
<1>7. Layered(toks, g)
  <2>1. g = [l \in 0 .. NumLayers |-> g[l]]
    OBVIOUS
  <2> HIDE DEF g
  <2> QED BY <1>6, <2>1 DEF Layered
<1> QED BY <1>7

LEMMA StatesLayered == \A toks : Layered(toks, States(toks))
<1> TAKE toks
<1>1. States(toks) = CHOOSE h : Layered(toks, h)
  BY DEF States, Uncached!HiddenStates, Layered, Through, Attend, KV, Uncached!Attend, Uncached!KV
<1> QED BY <1>1, LayeredExists

LEMMA StatesOf ==
  ASSUME NEW toks
  PROVE  /\ States(toks)[0] = toks
         /\ \A l \in Layer : \A p \in DOMAIN toks :
              States(toks)[l + 1][p] = Through(States(toks)[l], p)
<1> DEFINE h == States(toks)
<1>1. Layered(toks, h)
  BY StatesLayered
<1>2. NumLayers \in Nat
  BY DecodingAssumption
<1> HIDE DEF h
<1>3. h[0] = toks
  BY <1>1, <1>2 DEF Layered
<1>4. ASSUME NEW l \in Layer, NEW p \in DOMAIN toks PROVE h[l + 1][p] = Through(h[l], p)
  <2>1. l + 1 \in 0 .. NumLayers /\ l + 1 # 0 /\ (l + 1) - 1 = l
    BY <1>2 DEF Layer
  <2>2. h[l + 1] = [q \in DOMAIN toks |-> Through(h[(l + 1) - 1], q)]
    BY <1>1, <2>1 DEF Layered
  <2> QED BY <2>1, <2>2
<1> QED BY <1>3, <1>4 DEF h

(* The mask is causal: what comes later changes nothing of a state.        *)
LEMMA StatesCausal ==
  ASSUME NEW s, NEW t, NEW n \in Nat, NEW m \in Nat, n <= m,
         DOMAIN s = 1 .. n, DOMAIN t = 1 .. m, \A p \in 1 .. n : t[p] = s[p]
  PROVE  \A l \in 0 .. NumLayers : \A p \in 1 .. n : States(t)[l][p] = States(s)[l][p]
<1> DEFINE g == States(s)
           h == States(t)
           P == {l \in Nat : l <= NumLayers => \A p \in 1 .. n : h[l][p] = g[l][p]}
<1>1. NumLayers \in Nat
  BY DecodingAssumption
<1>2. /\ g[0] = s /\ h[0] = t
      /\ \A l \in Layer : \A p \in 1 .. n : g[l + 1][p] = Through(g[l], p)
      /\ \A l \in Layer : \A p \in 1 .. m : h[l + 1][p] = Through(h[l], p)
  BY StatesOf
<1> HIDE DEF g, h
<1>3. 0 \in P
  BY <1>2
<1>4. ASSUME NEW l \in P PROVE l + 1 \in P
  <2> SUFFICES ASSUME l + 1 <= NumLayers, NEW p \in 1 .. n PROVE h[l + 1][p] = g[l + 1][p]
    OBVIOUS
  <2>1. l \in Layer /\ l <= NumLayers /\ p \in 1 .. m
    BY <1>1 DEF Layer
  <2>2. \A j \in 1 .. p : j \in 1 .. n
    OBVIOUS
  <2>3. \A j \in 1 .. n : h[l][j] = g[l][j]
    BY <2>1
  <2>4. Through(h[l], p) = Through(g[l], p)
    <3>1. \A j \in 1 .. p : h[l][j] = g[l][j]
      BY <2>2, <2>3
    <3>2. [j \in 1 .. p |-> KV(h[l][j], j - 1)] = [j \in 1 .. p |-> KV(g[l][j], j - 1)]
      BY <3>1
    <3> QED BY <2>3, <3>2 DEF Through
  <2> QED BY <1>2, <2>1, <2>4
<1>5. P = Nat
  <2>1. P \in SUBSET Nat
    OBVIOUS
  <2> HIDE DEF P
  <2> QED BY <1>3, <1>4, <2>1, AllNaturals
<1>6. \A l \in 0 .. NumLayers : l \in P /\ l <= NumLayers
  BY <1>1, <1>5
<1> QED BY <1>6 DEF g, h

----------------------------------------------------------------------------
(* The inductive invariant *)

Context == served \o ids
Cached(l, toks, n) ==
  \A p \in 1 .. n : cache[l][p - 1] = KV(States(toks)[l][p], p - 1)

(* Between two calls nothing of the last input is left, and what was       *)
(* served began with a prompt.                                             *)
Between ==
  phase = "idle" =>
    /\ ids = <<>> /\ hidden = <<>>
    /\ served # <<>> => prompt \in Prompts /\ Len(prompt) <= Len(served)

(* A forward continues what was served, and carries the states an uncached *)
(* forward of all the tokens would have before the same layer.             *)
Within ==
  phase = "forward" =>
    /\ ids # <<>> /\ startPos = Len(served) /\ prompt \in Prompts
    /\ served = <<>> => ids = prompt
    /\ served # <<>> => Len(prompt) <= Len(served) /\ Len(served) < Len(prompt) + MaxNew
    /\ layer > 0 => Fits /\ MaskFits
    /\ hidden = [p \in 1 .. Len(ids) |-> States(Context)[layer][startPos + p]]

(* The layers that have run hold the input too, the others only what was   *)
(* served before it.                                                       *)
Written ==
  phase = "forward" =>
    \A l \in Layer :
      /\ l < layer => Cached(l, Context, Len(Context))
      /\ l >= layer => Cached(l, Context, Len(served))

DecodingInv == TypeOK /\ ContextCached /\ Between /\ Within /\ Written

LEMMA CountsAreNumbers ==
  /\ NumLayers \in Nat /\ NumLayers > 0 /\ MaxSeqLen \in Nat /\ MaxNew \in Nat
  /\ \A q \in Prompts : q \in Seq(Token) /\ q # <<>> /\ Len(q) \in Nat /\ Len(q) > 0
<1>1. ASSUME NEW q \in Prompts PROVE q \in Seq(Token) /\ q # <<>> /\ Len(q) \in Nat /\ Len(q) > 0
  <2>1. q \in Seq(Token) /\ q # <<>>
    BY DecodingAssumption
  <2> QED BY <2>1, EmptySeq
<1> QED BY <1>1, DecodingAssumption

(* The tokens of a call and those before it, position by position.         *)
LEMMA ContextIs ==
  ASSUME NEW a \in Seq(Token), NEW b \in Seq(Token)
  PROVE  /\ a \o b \in Seq(Token) /\ Len(a \o b) = Len(a) + Len(b)
         /\ DOMAIN (a \o b) = 1 .. Len(a) + Len(b)
         /\ DOMAIN a = 1 .. Len(a) /\ DOMAIN b = 1 .. Len(b)
         /\ Len(a) \in Nat /\ Len(b) \in Nat
         /\ \A p \in 1 .. Len(a) : (a \o b)[p] = a[p]
         /\ \A p \in 1 .. Len(b) : (a \o b)[Len(a) + p] = b[p]
<1>1. a \o b \in Seq(Token) /\ Len(a \o b) = Len(a) + Len(b)
  BY ConcatProperties
<1>2. Len(a) \in Nat /\ Len(b) \in Nat /\ DOMAIN a = 1 .. Len(a) /\ DOMAIN b = 1 .. Len(b)
  BY LenProperties
<1>3. DOMAIN (a \o b) = 1 .. Len(a) + Len(b)
  BY <1>1, LenProperties
<1>4. \A p \in 1 .. Len(a) : (a \o b)[p] = a[p]
  BY <1>2, ConcatProperties
<1>5. \A p \in 1 .. Len(b) : (a \o b)[Len(a) + p] = b[p]
  <2> TAKE p \in 1 .. Len(b)
  <2>1. Len(a) + p \in 1 .. Len(a) + Len(b) /\ ~(Len(a) + p <= Len(a)) /\ (Len(a) + p) - Len(a) = p
    BY <1>2
  <2> QED BY <1>2, <2>1, ConcatProperties
<1> QED BY <1>1, <1>2, <1>3, <1>4, <1>5

(* What was computed for the tokens served stays right when more follow.   *)
LEMMA ContextExtends ==
  ASSUME NEW a \in Seq(Token), NEW b \in Seq(Token)
  PROVE  \A l \in 0 .. NumLayers : \A p \in 1 .. Len(a) : States(a \o b)[l][p] = States(a)[l][p]
<1> DEFINE c == a \o b
           n == Len(a)
           m == Len(a) + Len(b)
<1>1. /\ n \in Nat /\ m \in Nat /\ n <= m /\ DOMAIN a = 1 .. n /\ DOMAIN c = 1 .. m
      /\ \A p \in 1 .. n : c[p] = a[p]
  BY ContextIs
<1> HIDE DEF c, n, m
<1>2. \A l \in 0 .. NumLayers : \A p \in 1 .. n : States(c)[l][p] = States(a)[l][p]
  BY <1>1, StatesCausal
<1> QED BY <1>2 DEF c, n

----------------------------------------------------------------------------
(* One layer *)

LEMMA UpdatedKeeps ==
  ASSUME TypeOK, layer \in Layer
  PROVE  /\ DOMAIN Updated = Layer /\ \A l \in Layer : DOMAIN Updated[l] = Position
         /\ \A l \in Layer : l # layer => Updated[l] = cache[l]
         /\ \A p \in Position : p < startPos => Updated[layer][p] = cache[layer][p]
         /\ \A p \in Position : startPos <= p /\ p < startPos + Len(ids) =>
              Updated[layer][p] = KV(hidden[p - startPos + 1], p)
<1>1. startPos \in Nat /\ Len(ids) \in Nat /\ DOMAIN cache = Layer /\ Position \subseteq Int
  BY LenProperties, CountsAreNumbers DEF TypeOK, Position
<1> DEFINE row == [p \in Position |->
                     IF p \in startPos .. startPos + Len(ids) - 1
                     THEN KV(hidden[p - startPos + 1], p)
                     ELSE cache[layer][p]]
<1>2. Updated = [cache EXCEPT ![layer] = row]
  BY DEF Updated
<1>3. \A p \in Position : p < startPos => row[p] = cache[layer][p]
  BY <1>1
<1>4. \A p \in Position : startPos <= p /\ p < startPos + Len(ids) =>
        row[p] = KV(hidden[p - startPos + 1], p)
  BY <1>1
<1>5. DOMAIN row = Position
  OBVIOUS
<1> HIDE DEF row
<1>6. DOMAIN Updated = Layer /\ Updated[layer] = row /\ \A l \in Layer : l # layer => Updated[l] = cache[l]
  BY <1>1, <1>2
<1> QED BY <1>3, <1>4, <1>5, <1>6 DEF TypeOK

(* The rows of the input are those an uncached forward would compute.      *)
LEMMA UpdatedRight ==
  ASSUME DecodingInv, phase = "forward", layer < NumLayers, Fits
  PROVE  \A p \in 1 .. Len(Context) :
           Updated[layer][p - 1] = KV(States(Context)[layer][p], p - 1)
<1>1. /\ layer \in Layer /\ startPos = Len(served) /\ startPos \in Nat
      /\ served \in Seq(Token) /\ ids \in Seq(Token)
  BY CountsAreNumbers DEF DecodingInv, TypeOK, Within, Layer
<1>2. Len(Context) = startPos + Len(ids) /\ Len(ids) \in Nat /\ Len(Context) <= MaxSeqLen
  BY <1>1, ContextIs DEF Context, Fits
<1>3. Cached(layer, Context, Len(served))
  BY <1>1 DEF DecodingInv, Written, Layer
<1> TAKE p \in 1 .. Len(Context)
<1>4. p \in Nat /\ p - 1 \in Position
  BY <1>2, CountsAreNumbers DEF Position
<1>5. CASE p <= startPos
  <2>1. Updated[layer][p - 1] = cache[layer][p - 1]
    BY <1>1, <1>4, <1>5, UpdatedKeeps DEF DecodingInv
  <2>2. p \in 1 .. Len(served)
    BY <1>1, <1>4, <1>5
  <2> QED BY <1>3, <2>1, <2>2 DEF Cached
<1>6. CASE p > startPos
  <2>1. startPos <= p - 1 /\ p - 1 < startPos + Len(ids)
    BY <1>1, <1>2, <1>4, <1>6
  <2>2. Updated[layer][p - 1] = KV(hidden[(p - 1) - startPos + 1], p - 1)
    BY <1>1, <1>4, <2>1, UpdatedKeeps DEF DecodingInv
  <2>3. (p - 1) - startPos + 1 = p - startPos /\ p - startPos \in 1 .. Len(ids) /\ startPos + (p - startPos) = p
    BY <1>1, <1>2, <1>4, <2>1
  <2>4. hidden[p - startPos] = States(Context)[layer][p]
    BY <2>3 DEF DecodingInv, Within
  <2> QED BY <2>2, <2>3, <2>4
<1> QED BY <1>1, <1>4, <1>5, <1>6

(* What a query sees is what the uncached mask lets it see.                *)
LEMMA VisibleRight ==
  ASSUME DecodingInv, phase = "forward", layer < NumLayers, Fits, MaskFits, NEW p \in 1 .. Len(ids)
  PROVE  Visible(p, Updated) =
           [j \in 1 .. startPos + p |-> KV(States(Context)[layer][j], j - 1)]
<1> DEFINE row == [j \in 1 .. Len(Context) |-> KV(States(Context)[layer][j], j - 1)]
<1>1. /\ startPos = Len(served) /\ startPos \in Nat /\ served \in Seq(Token) /\ ids \in Seq(Token)
  BY DEF DecodingInv, TypeOK, Within
<1>2. Len(Context) = startPos + Len(ids) /\ Len(ids) \in Nat /\ p \in Nat
  BY <1>1, ContextIs DEF Context
<1>3. Valid(Updated) = row
  BY <1>2, UpdatedRight DEF Valid
<1>4. CASE IsDecode
  <2>1. p = 1 /\ Len(Context) = startPos + p
    BY <1>2, <1>4 DEF IsDecode
  <2> QED BY <1>3, <1>4, <2>1 DEF Visible
<1>5. CASE ~IsDecode
  <2>1. startPos = 0 /\ Len(Context) = Len(ids)
    BY <1>1, <1>2, <1>5 DEF MaskFits
  <2>2. PICK S : S = {row[j] : j \in 1 .. Len(Context)}
    OBVIOUS
  <2>3. row \in Seq(S) /\ Len(row) = Len(Context)
    <3>1. row \in [1 .. Len(Context) -> S]
      BY <2>2
    <3>2. Len(Context) \in Nat
      BY <1>2
    <3> HIDE DEF row
    <3> QED BY <3>1, <3>2
  <2>4. \A j \in 1 .. p : row[j] = KV(States(Context)[layer][j], j - 1)
    <3>1. \A j \in 1 .. p : j \in 1 .. Len(Context)
      BY <1>2, <2>1
    <3> QED BY <3>1
  <2>5. SubSeq(row, 1, p) = [j \in 1 .. p |-> row[j]]
    <3> HIDE DEF row
    <3>1. p \in 1 .. Len(row)
      BY <2>1, <2>3
    <3> QED BY <2>3, <3>1
  <2>6. [j \in 1 .. p |-> row[j]] = [j \in 1 .. startPos + p |-> KV(States(Context)[layer][j], j - 1)]
    <3> HIDE DEF row
    <3> QED BY <1>2, <2>1, <2>4
  <2> QED BY <1>3, <1>5, <2>5, <2>6 DEF Visible
<1> QED BY <1>4, <1>5

----------------------------------------------------------------------------
(* The steps *)

LEMMA DecodingInit == Init => DecodingInv
<1> SUFFICES ASSUME Init PROVE DecodingInv
  OBVIOUS
<1>1. TypeOK
  BY CountsAreNumbers DEF Init, TypeOK, Empty
<1>2. ContextCached
  BY DEF Init, ContextCached
<1> QED BY <1>1, <1>2 DEF Init, DecodingInv, Between, Within, Written

(* A forward begins with no layer run, on what the served tokens left.     *)
LEMMA ForwardBegins ==
  ASSUME DecodingInv, phase = "idle", NEW input \in Seq(Token), input # <<>>,
         Forward(input, Len(served')), cache' = cache,
         served' = served \/ served' = <<>>, prompt' \in Prompts,
         served' = <<>> => input = prompt',
         served' # <<>> => /\ Len(prompt') <= Len(served)
                           /\ Len(served) < Len(prompt') + MaxNew
  PROVE  DecodingInv'
<1>1. /\ phase' = "forward" /\ ids' = input /\ startPos' = Len(served') /\ layer' = 0
      /\ hidden' = input
  BY DEF Forward
<1>2. served \in Seq(Token) /\ Len(served) <= MaxSeqLen
  BY DEF DecodingInv, TypeOK
<1>3. served' \in Seq(Token) /\ Len(served') <= MaxSeqLen /\ Len(served') \in Nat
  <2>1. CASE served' = <<>>
    <3>1. served' \in Seq(Token) /\ Len(served') = 0
      BY <2>1
    <3> QED BY <3>1, CountsAreNumbers
  <2>2. CASE served' = served
    <3>1. Len(served) \in Nat
      BY <1>2, LenProperties
    <3> QED BY <1>2, <2>2, <3>1
  <2> QED BY <2>1, <2>2
<1>4. TypeOK'
  <2>1. Len(hidden') = Len(ids') /\ ids' \in Seq(Token) /\ startPos' \in Nat /\ layer' \in 0 .. NumLayers
    BY <1>1, <1>3, CountsAreNumbers
  <2>2. DOMAIN cache' = Layer /\ \A l \in Layer : DOMAIN cache'[l] = Position
    BY DEF DecodingInv, TypeOK
  <2> QED BY <1>1, <1>3, <2>1, <2>2 DEF TypeOK
<1>5. ContextCached' /\ Between'
  BY <1>1 DEF ContextCached, Between
<1> DEFINE T == served' \o input
<1>6. Context' = T
  BY <1>1 DEF Context
<1>7. /\ \A p \in 1 .. Len(input) : T[Len(served') + p] = input[p]
      /\ DOMAIN input = 1 .. Len(input)
  BY <1>3, ContextIs
<1>8. Within'
  <2>1. /\ served' = <<>> => ids' = prompt'
        /\ served' # <<>> => Len(prompt') <= Len(served') /\ Len(served') < Len(prompt') + MaxNew
    BY <1>1
  <2>2. ~(layer' > 0)
    BY <1>1
  <2>3. States(T)[0] = T
    BY StatesOf
  <2>4. input = [p \in 1 .. Len(input) |-> T[Len(served') + p]]
    <3>1. input = [p \in 1 .. Len(input) |-> input[p]]
      BY <1>7
    <3> HIDE DEF T
    <3> QED BY <1>7, <3>1
  <2>5. hidden' = [p \in 1 .. Len(ids') |-> States(Context')[layer'][startPos' + p]]
    <3> HIDE DEF T
    <3> QED BY <1>1, <1>6, <2>3, <2>4
  <2>6. ids' # <<>> /\ startPos' = Len(served') /\ prompt' \in Prompts
    BY <1>1
  <2> QED BY <2>1, <2>2, <2>5, <2>6 DEF Within, States, Uncached!HiddenStates
<1>9. Written'
  <2>1. ASSUME NEW l \in Layer, NEW p \in 1 .. Len(served')
        PROVE  cache'[l][p - 1] = KV(States(T)[l][p], p - 1)
    <3>1. served' = served
      BY <2>1, LenProperties
    <3>2. cache[l][p - 1] = KV(States(served)[l][p], p - 1)
      BY <3>1 DEF DecodingInv, ContextCached, States
    <3>3. States(T)[l][p] = States(served')[l][p]
      <4>1. l \in 0 .. NumLayers
        BY CountsAreNumbers DEF Layer
      <4> QED BY <1>3, <4>1, ContextExtends
    <3> HIDE DEF T
    <3> QED BY <3>1, <3>2, <3>3
  <2>2. ASSUME NEW l \in Layer PROVE ~(l < layer')
    BY <1>1, CountsAreNumbers DEF Layer
  <2>3. \A l \in Layer : Cached(l, Context, Len(served))'
    <3>1. \A l \in Layer : \A p \in 1 .. Len(served') :
            cache'[l][p - 1] = KV(States(Context')[l][p], p - 1)
      <4> HIDE DEF T
      <4> QED BY <1>6, <2>1
    <3> QED BY <3>1 DEF Cached, States, Uncached!HiddenStates
  <2> QED BY <2>2, <2>3 DEF Written
<1> QED BY <1>4, <1>5, <1>8, <1>9 DEF DecodingInv

LEMMA LayerStep ==
  ASSUME DecodingInv, RunLayer
  PROVE  DecodingInv'
<1>1. /\ phase = "forward" /\ layer \in Layer /\ layer < NumLayers /\ Fits /\ MaskFits /\ layer' = layer + 1
      /\ phase' = "forward" /\ ids' = ids /\ startPos' = startPos
      /\ prompt' = prompt /\ served' = served /\ cache' = Updated /\ TypeOK
      /\ hidden' = [p \in DOMAIN hidden |-> Attend(hidden[p], Visible(p, Updated))]
  BY CountsAreNumbers DEF RunLayer, DecodingInv, TypeOK, Layer
<1>2. /\ startPos = Len(served) /\ startPos \in Nat /\ served \in Seq(Token) /\ ids \in Seq(Token)
      /\ hidden = [p \in 1 .. Len(ids) |-> States(Context)[layer][startPos + p]]
  BY <1>1 DEF DecodingInv, TypeOK, Within
<1>3. /\ Len(Context) = startPos + Len(ids) /\ Len(ids) \in Nat
      /\ DOMAIN Context = 1 .. startPos + Len(ids)
  BY <1>2, ContextIs DEF Context
<1>4. Context' = Context
  BY <1>1 DEF Context
<1>5. hidden' = [p \in 1 .. Len(ids) |-> States(Context)[layer + 1][startPos + p]]
  <2>1. DOMAIN hidden = 1 .. Len(ids)
    BY <1>2
  <2>2. ASSUME NEW p \in 1 .. Len(ids)
        PROVE  Attend(hidden[p], Visible(p, Updated)) = States(Context)[layer + 1][startPos + p]
    <3>1. startPos + p \in DOMAIN Context
      BY <1>2, <1>3
    <3>2. States(Context)[layer + 1][startPos + p] = Through(States(Context)[layer], startPos + p)
      BY <1>1, <3>1, StatesOf
    <3>3. Visible(p, Updated) = [j \in 1 .. startPos + p |-> KV(States(Context)[layer][j], j - 1)]
      BY <1>1, VisibleRight
    <3>4. hidden[p] = States(Context)[layer][startPos + p]
      BY <1>2
    <3> QED BY <3>2, <3>3, <3>4 DEF Through
  <2> QED BY <1>1, <2>1, <2>2
<1>6. TypeOK'
  <2>1. Len(hidden') = Len(ids')
    BY <1>1, <1>3, <1>5
  <2>2. layer' \in 0 .. NumLayers
    BY <1>1, CountsAreNumbers DEF Layer
  <2>3. DOMAIN cache' = Layer /\ \A l \in Layer : DOMAIN cache'[l] = Position
    BY <1>1, UpdatedKeeps
  <2> QED BY <1>1, <2>1, <2>2, <2>3 DEF TypeOK
<1>7. ContextCached' /\ Between'
  BY <1>1 DEF ContextCached, Between
<1>8. Within'
  <2>1. Fits' /\ MaskFits'
    BY <1>1 DEF Fits, MaskFits, IsDecode
  <2>2. hidden' = [p \in 1 .. Len(ids') |-> States(Context')[layer'][startPos' + p]]
    BY <1>1, <1>4, <1>5
  <2> QED BY <1>1, <2>1, <2>2 DEF Within, DecodingInv, States, Uncached!HiddenStates
<1>9. Written'
  <2> SUFFICES ASSUME NEW l \in Layer
               PROVE  /\ l < layer' => Cached(l, Context, Len(Context))'
                      /\ l >= layer' => Cached(l, Context, Len(served))'
    BY DEF Written
  <2>1. /\ l < layer => Cached(l, Context, Len(Context))
        /\ l >= layer => Cached(l, Context, Len(served))
        /\ l \in Nat /\ layer \in Nat
    BY <1>1, CountsAreNumbers DEF DecodingInv, Written, Layer
  <2>2. l # layer => cache'[l] = cache[l]
    BY <1>1, UpdatedKeeps
  <2>3. \A p \in 1 .. Len(Context) : cache'[layer][p - 1] = KV(States(Context)[layer][p], p - 1)
    BY <1>1, UpdatedRight
  <2>4. ASSUME l < layer' , NEW p \in 1 .. Len(Context)
        PROVE  cache'[l][p - 1] = KV(States(Context)[l][p], p - 1)
    <3>1. CASE l = layer
      BY <2>3, <3>1
    <3>2. CASE l # layer
      <4>1. l < layer
        BY <1>1, <2>1, <2>4, <3>2
      <4> QED BY <2>1, <2>2, <3>2, <4>1 DEF Cached
    <3> QED BY <3>1, <3>2
  <2>5. ASSUME l >= layer' , NEW p \in 1 .. Len(served)
        PROVE  cache'[l][p - 1] = KV(States(Context)[l][p], p - 1)
    <3>1. l # layer /\ l >= layer
      BY <1>1, <2>1, <2>5
    <3> QED BY <2>1, <2>2, <3>1 DEF Cached
  <2> QED BY <1>1, <1>4, <2>4, <2>5 DEF Cached, States, Uncached!HiddenStates
<1> QED BY <1>6, <1>7, <1>8, <1>9 DEF DecodingInv

(* A refused input leaves the rows of the served tokens alone, even when   *)
(* the layer it fails in has written its own.                              *)
LEMMA AbandonStep ==
  ASSUME DecodingInv, phase = "forward", layer < NumLayers, Abandon,
         cache' = cache \/ (Fits /\ cache' = Updated)
  PROVE  DecodingInv'
<1>1. /\ phase' = "idle" /\ ids' = <<>> /\ startPos' = 0 /\ layer' = 0 /\ hidden' = <<>>
      /\ prompt' = (IF served = <<>> THEN <<>> ELSE prompt) /\ served' = served
  BY DEF Abandon
<1>2. /\ startPos = Len(served) /\ served \in Seq(Token) /\ Len(served) <= MaxSeqLen
      /\ ids \in Seq(Token) /\ TypeOK /\ layer \in Layer /\ Len(served) \in Nat
  BY CountsAreNumbers, LenProperties DEF DecodingInv, Within, TypeOK, Layer
<1>3. \A l \in Layer : \A p \in 1 .. Len(served) : cache'[l][p - 1] = cache[l][p - 1]
  <2>1. CASE cache' = cache
    BY <2>1
  <2>2. CASE cache' = Updated
    <3> TAKE l \in Layer
    <3> TAKE p \in 1 .. Len(served)
    <3>1. p - 1 \in Position /\ p - 1 < startPos
      BY <1>2, CountsAreNumbers DEF Position
    <3> QED BY <1>2, <2>2, <3>1, UpdatedKeeps
  <2> QED BY <2>1, <2>2
<1>4. \A l \in Layer : Cached(l, Context, Len(served))
  <2>1. ASSUME NEW l \in Layer PROVE Cached(l, Context, Len(served))
    <3>1. \A p \in 1 .. Len(served) : p \in 1 .. Len(Context)
      BY <1>2, ContextIs DEF Context
    <3>2. /\ l < layer => Cached(l, Context, Len(Context))
          /\ l >= layer => Cached(l, Context, Len(served))
          /\ l \in Nat /\ layer \in Nat
      BY <1>2, CountsAreNumbers DEF DecodingInv, Written, Layer
    <3> QED BY <3>1, <3>2 DEF Cached
  <2> QED BY <2>1
<1>5. ContextCached'
  <2>1. ASSUME NEW l \in Layer, NEW p \in 1 .. Len(served)
        PROVE  cache'[l][p - 1] = KV(States(served)[l][p], p - 1)
    <3>1. l \in 0 .. NumLayers
      BY CountsAreNumbers DEF Layer
    <3>2. States(Context)[l][p] = States(served)[l][p]
      BY <1>2, <3>1, ContextExtends DEF Context
    <3>3. cache[l][p - 1] = KV(States(Context)[l][p], p - 1)
      BY <1>4 DEF Cached
    <3> QED BY <1>3, <3>2, <3>3
  <2> QED BY <1>1, <2>1 DEF ContextCached, States, Uncached!HiddenStates
<1>6. Between'
  BY <1>1 DEF DecodingInv, Within, Between
<1>7. TypeOK'
  <2>1. DOMAIN cache' = Layer /\ \A l \in Layer : DOMAIN cache'[l] = Position
    BY <1>2, UpdatedKeeps DEF TypeOK
  <2>2. prompt' \in Prompts \union {<<>>}
    BY <1>1, <1>2 DEF TypeOK
  <2> QED BY <1>1, <1>2, <2>1, <2>2, CountsAreNumbers DEF TypeOK
<1>8. Within' /\ Written'
  BY <1>1 DEF Within, Written
<1> QED BY <1>5, <1>6, <1>7, <1>8 DEF DecodingInv

(* The sequence of tokens a successful forward leaves behind is the one    *)
(* the uncached loop forwards, and so is what it returns.                  *)
LEMMA ReturnStep ==
  ASSUME DecodingInv, Return
  PROVE  /\ DecodingInv'
         /\ served' = Context /\ logits' = States(Context)[NumLayers][Len(Context)]
         /\ prompt' = prompt /\ prompt \in Prompts /\ served' # <<>>
<1>1. /\ phase = "forward" /\ layer = NumLayers /\ phase' = "idle" /\ served' = Context
      /\ ids' = <<>> /\ startPos' = 0 /\ layer' = 0 /\ hidden' = <<>>
      /\ logits' = hidden[Len(hidden)] /\ cache' = cache /\ prompt' = prompt
  BY DEF Return, Context
<1>2. /\ startPos = Len(served) /\ startPos \in Nat /\ served \in Seq(Token) /\ ids \in Seq(Token)
      /\ hidden = [p \in 1 .. Len(ids) |-> States(Context)[layer][startPos + p]]
      /\ Len(hidden) = Len(ids) /\ prompt \in Prompts /\ ids # <<>> /\ Fits
  BY <1>1, CountsAreNumbers DEF DecodingInv, TypeOK, Within
<1>3. /\ Len(Context) = startPos + Len(ids) /\ Len(ids) \in Nat /\ Len(ids) > 0
      /\ Context \in Seq(Token) /\ Context # <<>>
  <2>1. Len(Context) = startPos + Len(ids) /\ Len(ids) \in Nat /\ Context \in Seq(Token)
    BY <1>2, ContextIs DEF Context
  <2>2. Len(ids) > 0
    BY <1>2, <2>1, EmptySeq
  <2> QED BY <1>2, <2>1, <2>2, EmptySeq
<1>4. logits' = States(Context)[NumLayers][Len(Context)]
  <2>1. Len(ids) \in 1 .. Len(ids)
    BY <1>3
  <2> QED BY <1>1, <1>2, <1>3, <2>1
<1>5. ContextCached'
  <2>1. ASSUME NEW l \in Layer PROVE Cached(l, Context, Len(Context))
    <3>1. l < layer
      BY <1>1, CountsAreNumbers DEF Layer
    <3> QED BY <1>1, <3>1 DEF DecodingInv, Written
  <2> QED BY <1>1, <2>1 DEF ContextCached, Cached, States, Uncached!HiddenStates
<1>6. Between'
  <2>1. Len(prompt) <= Len(Context)
    <3>1. CASE served = <<>>
      <4>1. ids = prompt
        BY <1>1, <3>1 DEF DecodingInv, Within
      <4> QED BY <1>2, <1>3, <4>1
    <3>2. CASE served # <<>>
      <4>1. Len(prompt) <= Len(served) /\ Len(prompt) \in Nat
        BY <1>1, <1>2, <3>2, CountsAreNumbers DEF DecodingInv, Within
      <4> QED BY <1>2, <1>3, <4>1
    <3> QED BY <3>1, <3>2
  <2> QED BY <1>1, <1>2, <2>1 DEF Between
<1>7. TypeOK'
  <2>1. Len(Context) <= MaxSeqLen
    BY <1>2, <1>3 DEF Fits
  <2>2. DOMAIN cache' = Layer /\ \A l \in Layer : DOMAIN cache'[l] = Position
    BY <1>1 DEF DecodingInv, TypeOK
  <2> QED BY <1>1, <1>2, <1>3, <2>1, <2>2, CountsAreNumbers DEF TypeOK
<1>8. Within' /\ Written'
  BY <1>1 DEF Within, Written
<1>9. DecodingInv'
  BY <1>5, <1>6, <1>7, <1>8 DEF DecodingInv
<1> QED BY <1>1, <1>2, <1>3, <1>4, <1>9

(* A prompt starts at position 0, a picked token at the length served.     *)
LEMMA BeginStep ==
  ASSUME DecodingInv, Prefill \/ Decode \/ DecodeMany
  PROVE  DecodingInv'
<1>0. /\ phase = "idle" /\ served \in Seq(Token) /\ Len(served) \in Nat
      /\ served # <<>> => prompt \in Prompts /\ Len(prompt) <= Len(served)
  BY LenProperties DEF Prefill, Decode, DecodeMany, DecodingInv, Between, TypeOK
<1>1. CASE Prefill
  <2>1. /\ prompt' \in Prompts /\ prompt' \in Seq(Token) /\ prompt' # <<>>
        /\ served' = <<>> /\ cache' = cache
    BY <1>1, CountsAreNumbers DEF Prefill
  <2>2. Forward(prompt', Len(served'))
    BY <1>1, <2>1 DEF Prefill
  <2>3. PICK input \in Seq(Token) : input = prompt' /\ Forward(input, Len(served'))
    BY <2>1, <2>2
  <2> QED BY <1>0, <2>1, <2>3, ForwardBegins
<1>2. CASE Decode \/ DecodeMany
  <2>1. /\ served # <<>> /\ prompt' = prompt /\ served' = served /\ cache' = cache
        /\ prompt \in Prompts /\ Len(prompt) <= Len(served) /\ Len(prompt) \in Nat
    BY <1>0, <1>2, CountsAreNumbers DEF Decode, DecodeMany
  <2>2. Len(prompt) + Step = Len(served)
    BY <1>0, <2>1 DEF Step
  <2>3. Len(served) < Len(prompt) + MaxNew
    BY <1>0, <1>2, <2>1, CountsAreNumbers DEF Decode, DecodeMany, Step
  <2>4. PICK input \in Seq(Token) : input # <<>> /\ Forward(input, Len(served))
    <3>1. CASE Decode
      <4>1. PICK t \in Token : Forward(<<t>>, Len(prompt) + Step)
        BY <3>1 DEF Decode
      <4>2. <<t>> \in Seq(Token) /\ <<t>> # <<>>
        OBVIOUS
      <4> QED BY <2>2, <4>1, <4>2
    <3>2. CASE DecodeMany
      <4>1. PICK s, t \in Token : Forward(<<s, t>>, Len(prompt) + Step)
        BY <3>2 DEF DecodeMany
      <4>2. <<s, t>> \in Seq(Token) /\ <<s, t>> # <<>>
        OBVIOUS
      <4> QED BY <2>2, <4>1, <4>2
    <3> QED BY <1>2, <3>1, <3>2
  <2>5. Forward(input, Len(served'))
    BY <2>1, <2>4
  <2> QED BY <1>0, <2>1, <2>3, <2>4, <2>5, ForwardBegins
<1> QED BY <1>1, <1>2

LEMMA ResetStep ==
  ASSUME DecodingInv, Reset
  PROVE  DecodingInv'
<1>1. /\ phase = "idle" /\ phase' = phase /\ ids' = ids /\ startPos' = startPos
      /\ layer' = layer /\ hidden' = hidden /\ cache' = Empty
      /\ prompt' = <<>> /\ served' = <<>>
  BY DEF Reset, call
<1>2. TypeOK'
  <2>1. DOMAIN cache' = Layer /\ \A l \in Layer : DOMAIN cache'[l] = Position
    BY <1>1 DEF Empty
  <2> QED BY <1>1, <2>1, CountsAreNumbers DEF DecodingInv, TypeOK
<1>3. ContextCached'
  BY <1>1 DEF ContextCached
<1> QED BY <1>1, <1>2, <1>3 DEF DecodingInv, Between, Within, Written

LEMMA DecodingStep == DecodingInv /\ [Next]_vars => DecodingInv'
<1> SUFFICES ASSUME DecodingInv, [Next]_vars PROVE DecodingInv'
  OBVIOUS
<1>1. CASE Reset
  BY <1>1, ResetStep
<1>2. CASE Prefill \/ Decode \/ DecodeMany
  BY <1>2, BeginStep
<1>3. CASE RunLayer
  BY <1>3, LayerStep
<1>4. CASE Overflow \/ MaskMismatch
  <2>1. /\ phase = "forward" /\ layer < NumLayers /\ Abandon
        /\ cache' = cache \/ (Fits /\ cache' = Updated)
    BY <1>4 DEF Overflow, MaskMismatch
  <2> QED BY <2>1, AbandonStep
<1>5. CASE Return
  BY <1>5, ReturnStep
<1>6. CASE UNCHANGED vars
  <2>1. /\ cache' = cache /\ phase' = phase /\ ids' = ids /\ startPos' = startPos /\ layer' = layer
        /\ hidden' = hidden /\ prompt' = prompt /\ served' = served
    BY <1>6 DEF vars, call
  <2>2. TypeOK' <=> TypeOK
    BY <2>1 DEF TypeOK
  <2>3. ContextCached' <=> ContextCached
    BY <2>1 DEF ContextCached, Uncached!HiddenStates
  <2>4. Between' <=> Between
    BY <2>1 DEF Between
  <2>5. Within' <=> Within
    BY <2>1 DEF Within, Context, Fits, MaskFits, IsDecode, States, Uncached!HiddenStates
  <2>6. Written' <=> Written
    BY <2>1 DEF Written, Cached, Context, States, Uncached!HiddenStates
  <2> QED BY <2>2, <2>3, <2>4, <2>5, <2>6 DEF DecodingInv
<1> QED BY <1>1, <1>2, <1>3, <1>4, <1>5, <1>6 DEF Next

LEMMA DecodingInvHolds == Spec => []DecodingInv
  BY DecodingInit, DecodingStep, PTL DEF Spec

(* The control state and every index stay in range, whatever is forwarded, *)
(* refused or reset (Qwen3Model::forward and KVCache::update).             *)
THEOREM DecodingTypeOK == Spec => []TypeOK
<1>1. DecodingInv => TypeOK
  BY DEF DecodingInv
<1> QED BY DecodingInvHolds, <1>1, PTL

(* Between two calls every layer holds exactly the keys and values that an *)
(* uncached forward of the served tokens would compute, also after a call  *)
(* that failed with some layers written (KVCache::update).                 *)
THEOREM CacheIsRight == Spec => []ContextCached
<1>1. DecodingInv => ContextCached
  BY DEF DecodingInv
<1> QED BY DecodingInvHolds, <1>1, PTL

----------------------------------------------------------------------------
(* Generation without the cache *)

LEMMA UncachedInit == Init => Uncached!Init
  BY DEF Init, Uncached!Init, servedPrompt

(* Every step is one of the uncached loop or changes nothing it can see:   *)
(* a returning forward is the step that forwards all the tokens.           *)
LEMMA UncachedStep == DecodingInv /\ [Next]_vars => [Uncached!Next]_(Uncached!vars)
<1> SUFFICES ASSUME DecodingInv, [Next]_vars PROVE [Uncached!Next]_(Uncached!vars)
  OBVIOUS
<1>1. CASE Reset \/ Prefill
  <2>1. served' = <<>> /\ logits' = <<>>
    BY <1>1 DEF Reset, Prefill
  <2>2. Uncached!Drop
    BY <2>1 DEF Uncached!Drop, servedPrompt
  <2> QED BY <2>2 DEF Uncached!Next
<1>2. CASE Decode \/ DecodeMany \/ RunLayer
  BY <1>2 DEF Decode, DecodeMany, RunLayer, Uncached!vars, servedPrompt
<1>3. CASE Overflow \/ MaskMismatch
  BY <1>3 DEF Overflow, MaskMismatch, Abandon, Uncached!vars, servedPrompt
<1>4. CASE Return
  <2>1. /\ served' = Context /\ logits' = States(Context)[NumLayers][Len(Context)]
        /\ prompt' = prompt /\ prompt \in Prompts /\ served' # <<>>
    BY <1>4, ReturnStep
  <2>2. servedPrompt' = prompt
    BY <2>1 DEF servedPrompt
  <2>3. logits' = Uncached!Logits(served')
    BY <2>1 DEF Uncached!Logits, States
  <2>4. /\ phase = "forward" /\ layer > 0 /\ served \in Seq(Token) /\ ids \in Seq(Token)
    BY <1>4, CountsAreNumbers DEF Return, DecodingInv, TypeOK
  <2>5. CASE served = <<>>
    <3>1. ids = prompt
      BY <2>4, <2>5 DEF DecodingInv, Within
    <3>2. served' = prompt
      BY <2>1, <2>4, <2>5, <3>1, ConcatEmptySeq DEF Context
    <3>3. Uncached!Start
      BY <2>1, <2>2, <2>3, <3>2 DEF Uncached!Start
    <3> QED BY <3>3 DEF Uncached!Next
  <2>6. CASE served # <<>>
    <3>1. Len(served) < Len(prompt) + MaxNew /\ MaskFits /\ startPos = Len(served)
      BY <2>4, <2>6 DEF DecodingInv, Within
    <3>2. Len(served) \in Nat /\ Len(served) > 0
      BY <2>4, <2>6, EmptySeq
    <3>3. Len(ids) = 1
      BY <2>4, <3>1, <3>2, LenProperties DEF MaskFits, IsDecode
    <3>4. PICK t \in Token : served' = Append(served, t)
      <4>1. ids[1] \in Token
        <5>1. ids \in Seq(Token) /\ 1 \in 1 .. Len(ids)
          BY <2>4, <3>3
        <5> QED BY <5>1, ElementOfSeq
      <4>2. ids = <<ids[1]>>
        <5>0. PICK t \in Token : t = ids[1]
          BY <4>1
        <5>1. <<ids[1]>> \in Seq(Token) /\ Len(<<ids[1]>>) = 1 /\ <<ids[1]>>[1] = ids[1]
          BY <5>0
        <5> QED BY <2>4, <3>3, <5>1, SeqEqual
      <4>3. Context = Append(served, ids[1])
        BY <2>4, <4>1, <4>2, AppendIsConcat DEF Context
      <4>4. served' = Append(served, ids[1])
        BY <2>1, <4>3
      <4> QED BY <4>1, <4>4
    <3>5. servedPrompt = prompt /\ prompt # <<>>
      BY <2>1, <2>6, CountsAreNumbers DEF servedPrompt
    <3>6. Uncached!Extend
      BY <2>2, <2>3, <3>1, <3>4, <3>5 DEF Uncached!Extend
    <3> QED BY <3>6 DEF Uncached!Next
  <2> QED BY <2>5, <2>6
<1>5. CASE UNCHANGED vars
  BY <1>5 DEF vars, Uncached!vars, servedPrompt
<1> QED BY <1>1, <1>2, <1>3, <1>4, <1>5 DEF Next

(* For any prompts, vocabulary, number of layers and cache length: what    *)
(* generation with the KV cache returns is what the loop without it would, *)
(* whatever failed, was refused or was left by another request before      *)
(* (the Qwen3RunnerCache and Qwen3Runner loops of test_qwen3.cpp).         *)
THEOREM CachedImplementsUncached == Spec => ImplementsUncached
  BY UncachedInit, UncachedStep, DecodingInvHolds, PTL DEF Spec, ImplementsUncached, Uncached!Spec
=============================================================================
