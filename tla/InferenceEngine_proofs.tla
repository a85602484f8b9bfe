----------------------- MODULE InferenceEngine_proofs -----------------------
(***************************************************************************)
(* Proofs about InferenceEngine, for any number of layers, any requests    *)
(* and any model.                                                          *)
(***************************************************************************)
EXTENDS InferenceEngine, SequenceTheorems, TLAPS

-----------------------------------------------------------------------------
\* The decoder stack when n layers of it have been built.
Built(n) == [i \in 1 .. n |-> i - 1]

StackInv ==
    /\ initialized => stack = Built(NumLayers)
    /\ step \in {"idle", "load"} /\ ~ initialized => stack = << >>
    /\ step \in {"load", "build", "finish"} => ~ initialized /\ generated = << >>
    /\ step = "build" => at \in 0 .. NumLayers - 1 /\ stack = Built(at)
    /\ step = "finish" => stack = Built(NumLayers)
    /\ step \in {"prefill", "layer", "head", "feed"} => initialized
    /\ step = "prefill" => generated = << >>

\* The text of the running call, and how much of it a layer has seen.
Text == query.prompt \o generated

Saw(l, n) ==
    /\ Len(kv[l]) = n
    /\ \A i \in 1 .. n : kv[l][i] = <<Text[i], i - 1>>

\* Within a pass the layers that have run have seen the whole text, and the
\* others all of it but the input of the pass.
TextInv ==
    /\ step \in {"layer", "head", "feed"} =>
          /\ query.prompt # << >>
          /\ generated # << >> => Len(generated) < query.max_new_tokens
    /\ step = "layer" =>
          /\ at \in 1 .. NumLayers
          /\ mask = Len(Text)
          /\ mask = feed.position + Len(feed.tokens)
          /\ \A i \in DOMAIN feed.tokens : feed.tokens[i] = Text[feed.position + i]
          /\ \A l \in Layers : Saw(l, IF l + 1 < at THEN Len(Text) ELSE feed.position)
    /\ step = "head" =>
          /\ mask = Len(Text)
          /\ \A l \in Layers : Saw(l, Len(Text))
    /\ step = "feed" =>
          /\ generated # << >>
          /\ mask = Len(Text) - 1
          /\ \A l \in Layers : Saw(l, Len(Text) - 1)

EngineInv == EngineTypeOK /\ StackInv /\ TextInv

\* No exception while the decoder stack or the head is built: EngineRetry
\* shows what happens otherwise.
BuildsOnce == EngineFaults \cap {"load_layer", "load_head"} = {}

Predicts == \A c \in [Layers -> Seq(Token \X Nat)] : Predict(c) \in Token

LEMMA EngineStart == EngineInit => EngineInv
  BY EngineAssumption
     DEF EngineInit, EngineInv, EngineTypeOK, StackInv, TextInv, EngineStep, EmptyKv, Layers

LEMMA QueryType ==
    ASSUME NEW q \in Query
    PROVE  q.prompt \in Seq(Token) /\ q.max_new_tokens \in Int
  BY EngineAssumption

\* The second of two lists begins behind the first.
LEMMA ConcatAt ==
    ASSUME NEW S, NEW s \in Seq(S), NEW t \in Seq(S), NEW j \in 1 .. Len(t)
    PROVE  (s \o t)[Len(s) + j] = t[j]
  OBVIOUS

LEMMA AppendConcat ==
    ASSUME NEW S, NEW s \in Seq(S), NEW t \in Seq(S), NEW e \in S
    PROVE  s \o Append(t, e) = Append(s \o t, e)
<1>1. <<e>> \in Seq(S) /\ s \o t \in Seq(S)
  OBVIOUS
<1>2. Append(t, e) = t \o <<e>> /\ Append(s \o t, e) = (s \o t) \o <<e>>
  BY <1>1, AppendIsConcat
<1>. QED  BY <1>1, <1>2, ConcatAssociative

LEMMA BuiltFacts ==
    ASSUME NEW n \in Nat
    PROVE  /\ Len(Built(n)) = n
           /\ \A i \in 1 .. n : Built(n)[i] = i - 1
           /\ Append(Built(n), n) = Built(n + 1)
           /\ n <= NumLayers => Built(n) \in Seq(Layers)
           /\ n = 0 => Built(n) = << >>
<1>1. Built(n) \in Seq(Nat)
  BY DEF Built
<1>2. Append(Built(n), n) = Built(n + 1)
  BY <1>1 DEF Built
<1>. QED  BY <1>1, <1>2, EngineAssumption DEF Built, Layers

\* An exception ends the call and changes nothing but the caches.
LEMMA RaiseKeeps ==
    ASSUME EngineInv, Raises, kv' \in [Layers -> Seq(Token \X Nat)], mask' \in Nat,
           ~ initialized => step \in {"idle", "load"}
    PROVE  EngineInv'
  BY DEF EngineInv, EngineTypeOK, StackInv, TextInv, Raises, EngineStep, runtime

LEMMA GenerateKeeps ==
    ASSUME EngineInv, NEW q \in Query, Generate(q)
    PROVE  EngineInv'
  BY DEF EngineInv, EngineTypeOK, StackInv, TextInv, Generate, EngineStep, runtime, cacheVars

LEMMA LoadKeeps ==
    ASSUME EngineInv, LoadModel
    PROVE  EngineInv'
<1>1. CASE Raises
  BY <1>1, RaiseKeeps DEF LoadModel, EngineInv, EngineTypeOK, StackInv, cacheVars
<1>2. CASE step' = "build" /\ at' = 0 /\ UNCHANGED <<runtime, query, feed, generated>>
  BY <1>2, BuiltFacts, EngineAssumption
     DEF LoadModel, EngineInv, EngineTypeOK, StackInv, TextInv, EngineStep, runtime, cacheVars
<1>. QED  BY <1>1, <1>2 DEF LoadModel

LEMMA BuildKeeps ==
    ASSUME EngineInv, BuildLayer, BuildsOnce
    PROVE  EngineInv'
<1>1. /\ stack' = Append(stack, at) /\ at' = at + 1
      /\ step' = IF at + 1 = NumLayers THEN "finish" ELSE "build"
      /\ UNCHANGED <<initialized, query, feed, generated, kv, mask>>
      /\ step = "build"
  BY DEF BuildLayer, BuildsOnce, cacheVars
<1>2. at \in 0 .. NumLayers - 1 /\ stack = Built(at) /\ ~ initialized /\ generated = << >>
  BY <1>1 DEF EngineInv, StackInv
<1>3. stack' = Built(at + 1) /\ stack' \in Seq(Layers)
  <2>1. at \in Nat /\ at + 1 \in Nat /\ at + 1 <= NumLayers
    BY <1>2, EngineAssumption
  <2>2. stack' = Append(Built(at), at)
    BY <1>1, <1>2
  <2>. QED  BY <2>1, <2>2, BuiltFacts
<1>. QED
  BY <1>1, <1>2, <1>3, EngineAssumption
     DEF EngineInv, EngineTypeOK, StackInv, TextInv, EngineStep

LEMMA FinishKeeps ==
    ASSUME EngineInv, FinishRuntime, BuildsOnce
    PROVE  EngineInv'
<1>1. EmptyKv \in [Layers -> Seq(Token \X Nat)]
  BY DEF EmptyKv
<1>2. /\ step = "finish" /\ initialized' /\ kv' = EmptyKv /\ step' = "prefill"
      /\ UNCHANGED <<stack, mask, query, at, feed, generated>>
      /\ initialized' = TRUE
  BY DEF FinishRuntime, BuildsOnce
<1>. QED
  BY <1>1, <1>2 DEF EngineInv, EngineTypeOK, StackInv, TextInv, EngineStep

LEMMA PrefillKeeps ==
    ASSUME EngineInv, Prefill
    PROVE  EngineInv'
<1>1. CASE Raises /\ UNCHANGED cacheVars
  BY <1>1, RaiseKeeps DEF Prefill, EngineInv, EngineTypeOK, StackInv, cacheVars
<1>2. CASE /\ query.prompt # << >>
           /\ kv' = EmptyKv
           /\ mask' = Len(query.prompt)
           /\ Pass(query.prompt, 0)
           /\ UNCHANGED generated
  <2>1. /\ step = "prefill" /\ initialized /\ generated = << >> /\ stack = Built(NumLayers)
        /\ query.prompt \in Seq(Token)
    BY QueryType DEF Prefill, EngineInv, EngineTypeOK, StackInv
  <2>2. /\ feed' = [tokens |-> query.prompt, position |-> 0] /\ at' = 1 /\ step' = "layer"
        /\ UNCHANGED <<initialized, stack, query, generated>>
    BY <1>2 DEF Pass, runtime
  <2>3. Text' = query.prompt
    BY <2>1, <2>2 DEF Text
  <2>4. EngineTypeOK'
    BY <1>2, <2>1, <2>2 DEF EngineInv, EngineTypeOK, EngineStep, EmptyKv
  <2>5. ASSUME NEW l \in Layers PROVE Saw(l, 0)'
    BY <1>2 DEF Saw, EmptyKv
  <2>6. TextInv'
    <3>1. \A l \in Layers : ~ (l + 1 < 1)
      BY DEF Layers
    <3>. QED  BY <1>2, <2>1, <2>2, <2>3, <2>5, <3>1, EngineAssumption DEF TextInv
  <2>7. StackInv'
    BY <2>1, <2>2 DEF StackInv
  <2>. QED  BY <2>4, <2>6, <2>7 DEF EngineInv
<1>. QED  BY <1>1, <1>2 DEF Prefill

LEMMA LayerKeeps ==
    ASSUME EngineInv, RunLayer
    PROVE  EngineInv'
<1>1. /\ step = "layer" /\ initialized /\ at \in 1 .. NumLayers /\ stack = Built(NumLayers)
      /\ mask' = mask
  BY DEF RunLayer, EngineInv, StackInv, TextInv
<1>2. /\ NumLayers \in Nat /\ Len(stack) = NumLayers /\ stack[at] = at - 1
      /\ at - 1 \in Layers
  <2>1. NumLayers \in Nat
    BY EngineAssumption
  <2>2. Len(Built(NumLayers)) = NumLayers /\ \A i \in 1 .. NumLayers : Built(NumLayers)[i] = i - 1
    BY <2>1, BuiltFacts
  <2>. QED  BY <1>1, <2>1, <2>2 DEF Layers
<1>3. PICK l \in Layers : l = at - 1 /\ stack[at] = l
  BY <1>2
<1>4. /\ kv \in [Layers -> Seq(Token \X Nat)] /\ mask \in Nat
      /\ feed.tokens \in Seq(Token) /\ feed.position \in Nat
      /\ generated \in Seq(Token) /\ query \in Query
  BY DEF EngineInv, EngineTypeOK
<1>5. Keys \in Seq(Token \X Nat) /\ Len(Keys) = Len(feed.tokens)
  <2>1. \A i \in 1 .. Len(feed.tokens) :
           <<feed.tokens[i], feed.position + i - 1>> \in Token \X Nat
    BY <1>4
  <2>2. Len(feed.tokens) \in Nat /\ DOMAIN feed.tokens = 1 .. Len(feed.tokens)
    BY <1>4
  <2>. QED  BY <2>1, <2>2 DEF Keys
<1>6. kv[l] \o Keys \in Seq(Token \X Nat)
  BY <1>4, <1>5
<1>7. kv' \in [Layers -> Seq(Token \X Nat)]
  <2>1. CASE kv' = kv  BY <1>4, <2>1
  <2>2. CASE kv' = [kv EXCEPT ![l] = kv[l] \o Keys]  BY <1>4, <1>6, <2>2
  <2>. QED  BY <1>3, <2>1, <2>2 DEF RunLayer
<1>8. CASE Raises
  BY <1>1, <1>4, <1>7, <1>8, RaiseKeeps
<1>9. CASE /\ kv' = [kv EXCEPT ![l] = kv[l] \o Keys]
           /\ at' = at + 1
           /\ step' = IF at = Len(stack) THEN "head" ELSE "layer"
           /\ UNCHANGED <<runtime, query, feed, generated>>
  <2>1. Text' = Text /\ UNCHANGED <<initialized, stack, query, feed, generated>>
    BY <1>9 DEF Text, runtime
  <2>2. EngineTypeOK'
    BY <1>1, <1>4, <1>7, <1>9, <2>1 DEF EngineInv, EngineTypeOK, EngineStep
  <2>3. StackInv'
    BY <1>1, <1>9, <2>1 DEF StackInv
  <2>4. /\ mask = Len(Text) /\ mask = feed.position + Len(feed.tokens)
        /\ \A i \in DOMAIN feed.tokens : feed.tokens[i] = Text[feed.position + i]
    BY <1>1 DEF EngineInv, TextInv
  <2>5. Len(Text) \in Nat /\ Len(feed.tokens) \in Nat
        /\ DOMAIN feed.tokens = 1 .. Len(feed.tokens)
    BY <1>4, <2>4
  <2>6. /\ kv[l] \in Seq(Token \X Nat) /\ Len(kv[l]) = feed.position
        /\ \A i \in 1 .. feed.position : kv[l][i] = <<Text[i], i - 1>>
    <3>1. Saw(l, feed.position)
      BY <1>1, <1>3, <1>4 DEF EngineInv, TextInv, Layers
    <3>. QED  BY <1>4, <3>1 DEF Saw
  <2>7. \A i \in 1 .. Len(feed.tokens) :
           Keys[i] = <<Text[feed.position + i], feed.position + i - 1>>
    BY <2>4, <2>5 DEF Keys
  <2>8. Saw(l, Len(Text))'
    <3>1. kv'[l] = kv[l] \o Keys
      BY <1>4, <1>9
    <3>2. Len(kv'[l]) = Len(Text)
      BY <1>5, <2>4, <2>5, <2>6, <3>1
    <3>3. ASSUME NEW i \in 1 .. Len(Text) PROVE kv'[l][i] = <<Text[i], i - 1>>
      <4>1. CASE i <= feed.position
        BY <1>4, <1>5, <2>5, <2>6, <3>1, <4>1
      <4>2. CASE i > feed.position
        <5>1. PICK j \in 1 .. Len(feed.tokens) : i = feed.position + j
          <6>1. i - feed.position \in 1 .. Len(feed.tokens)
            BY <1>4, <2>4, <2>5, <4>2
          <6>. QED  BY <1>4, <2>5, <6>1
        <5>2. kv'[l][i] = Keys[j]
          <6>1. j \in 1 .. Len(Keys)
            BY <1>5, <5>1
          <6>2. (kv[l] \o Keys)[Len(kv[l]) + j] = Keys[j]
            BY <1>5, <2>6, <6>1, ConcatAt
          <6>. QED  BY <2>6, <3>1, <5>1, <6>2
        <5>3. feed.position + j - 1 = i - 1
          BY <1>4, <2>5, <5>1
        <5>. QED  BY <2>7, <5>1, <5>2, <5>3, Zenon
      <4>. QED  BY <1>4, <2>5, <4>1, <4>2
    <3>. QED  BY <2>1, <3>2, <3>3 DEF Saw
  <2>9. ASSUME NEW m \in Layers
        PROVE  /\ m + 1 < at' => Saw(m, Len(Text))'
               /\ ~ (m + 1 < at') => Saw(m, feed.position)'
    <3>1. CASE m = l
      BY <1>1, <1>3, <1>9, <2>8, <3>1 DEF Layers
    <3>2. CASE m # l
      <4>1. kv'[m] = kv[m]
        BY <1>4, <1>9, <3>2
      <4>2. m + 1 < at <=> m + 1 < at'
        BY <1>1, <1>2, <1>3, <1>9, <3>2 DEF Layers
      <4>3. Saw(m, IF m + 1 < at THEN Len(Text) ELSE feed.position)
        BY <1>1 DEF EngineInv, TextInv
      <4>4. CASE m + 1 < at  BY <2>1, <4>1, <4>2, <4>3, <4>4 DEF Saw
      <4>5. CASE ~ (m + 1 < at)  BY <2>1, <4>1, <4>2, <4>3, <4>5 DEF Saw
      <4>. QED  BY <4>4, <4>5
    <3>. QED  BY <3>1, <3>2
  <2>10. CASE at = NumLayers
    <3>1. \A m \in Layers : Saw(m, Len(Text))'
      <4>1. \A m \in Layers : m + 1 < at'
        BY <1>2, <1>9, <2>10 DEF Layers
      <4>. QED  BY <2>9, <4>1
    <3>2. TextInv'
      BY <1>1, <1>2, <1>9, <2>1, <2>4, <2>10, <3>1 DEF EngineInv, TextInv
    <3>. QED  BY <2>2, <2>3, <3>2 DEF EngineInv
  <2>11. CASE at # NumLayers
    <3>1. \A m \in Layers : Saw(m, IF m + 1 < at THEN Len(Text) ELSE feed.position)'
      BY <2>9
    <3>2. step' = "layer" /\ at' \in 1 .. NumLayers
      BY <1>1, <1>2, <1>9, <2>11
    <3>3. TextInv'
      BY <1>1, <1>9, <2>1, <2>4, <3>1, <3>2 DEF EngineInv, TextInv
    <3>. QED  BY <2>2, <2>3, <3>3 DEF EngineInv
  <2>. QED  BY <2>10, <2>11
<1>. QED  BY <1>3, <1>8, <1>9 DEF RunLayer

LEMMA PickKeeps ==
    ASSUME EngineInv, PickToken, Predicts
    PROVE  EngineInv'
<1>1. /\ step = "head" /\ initialized /\ UNCHANGED <<kv, mask>>
      /\ kv \in [Layers -> Seq(Token \X Nat)] /\ mask \in Nat
      /\ generated \in Seq(Token) /\ query.prompt \in Seq(Token)
      /\ query.max_new_tokens \in Int
  BY QueryType DEF PickToken, EngineInv, EngineTypeOK, StackInv, cacheVars
<1>2. CASE Raises
  BY <1>1, <1>2, RaiseKeeps
<1>3. CASE /\ ~ DecodeRefuses
           /\ generated' = IF query.max_new_tokens = 0 THEN << >>
                           ELSE Append(generated, Predict(kv))
           /\ step' = IF Len(generated') = query.max_new_tokens THEN "idle" ELSE "feed"
           /\ UNCHANGED <<runtime, query, at, feed>>
  <2>1. UNCHANGED <<initialized, stack, query, at, feed>>
    BY <1>3 DEF runtime
  <2>2. Predict(kv) \in Token
    BY <1>1 DEF Predicts
  <2>3. generated' \in Seq(Token)
    BY <1>1, <1>3, <2>2
  <2>4. EngineTypeOK'
    BY <1>1, <1>3, <2>1, <2>3 DEF EngineInv, EngineTypeOK, EngineStep
  <2>5. StackInv'
    BY <1>1, <1>3, <2>1 DEF EngineInv, StackInv
  <2>6. CASE step' = "idle"
    BY <2>4, <2>5, <2>6 DEF EngineInv, TextInv
  <2>7. CASE step' = "feed"
    <3>1. generated' = Append(generated, Predict(kv)) /\ query.max_new_tokens # 0
      BY <1>1, <1>3, <2>7
    <3>2. generated # << >> => Len(generated) < query.max_new_tokens
      BY <1>1 DEF EngineInv, TextInv
    <3>3. generated = << >> => query.max_new_tokens >= 0
      BY <1>1, <1>3 DEF DecodeRefuses
    <3>4. /\ generated' # << >> /\ Len(generated') < query.max_new_tokens
          /\ Len(generated') = Len(generated) + 1
      BY <1>1, <1>3, <2>3, <2>7, <3>1, <3>2, <3>3
    <3>5. Text \in Seq(Token) /\ Text' \in Seq(Token) /\ Len(Text') = Len(Text) + 1
          /\ \A i \in 1 .. Len(Text) : Text'[i] = Text[i]
      <4>1. Text' = query.prompt \o Append(generated, Predict(kv))
        BY <2>1, <3>1 DEF Text
      <4>2. Text' = Append(Text, Predict(kv))
        <5>1. \A x, y \in Seq(Token), z \in Token : x \o Append(y, z) = Append(x \o y, z)
          BY AppendConcat
        <5>2. query.prompt \in Seq(Token) /\ generated \in Seq(Token)
          BY <1>1
        <5>. QED  BY <2>2, <4>1, <5>1, <5>2, Zenon DEF Text
      <4>3. Text \in Seq(Token)
        BY <1>1 DEF Text
      <4>. QED  BY <2>2, <4>2, <4>3
    <3>6. mask = Len(Text) /\ query.prompt # << >>
      BY <1>1 DEF EngineInv, TextInv
    <3>7. ASSUME NEW l \in Layers PROVE Saw(l, Len(Text) - 1)'
      <4>1. Saw(l, Len(Text))
        BY <1>1 DEF EngineInv, TextInv
      <4>2. Len(Text') - 1 = Len(Text)
        BY <3>5
      <4>. QED  BY <1>1, <3>5, <4>1, <4>2 DEF Saw
    <3>8. mask' = Len(Text') - 1
      BY <1>1, <3>5, <3>6
    <3>9. TextInv'
      BY <2>1, <2>7, <3>4, <3>6, <3>7, <3>8 DEF TextInv
    <3>. QED  BY <2>4, <2>5, <3>9 DEF EngineInv
  <2>. QED  BY <1>3, <2>6, <2>7
<1>. QED  BY <1>2, <1>3 DEF PickToken

LEMMA FeedKeeps ==
    ASSUME EngineInv, Feed
    PROVE  EngineInv'
<1>1. /\ step = "feed" /\ step' = "layer" /\ at' = 1 /\ mask' = mask + 1
      /\ feed' = [tokens |-> <<generated[Len(generated)]>>, position |-> Len(kv[0])]
      /\ UNCHANGED <<initialized, stack, kv, query, generated>>
  BY DEF Feed, Pass, runtime
<1>2. /\ kv \in [Layers -> Seq(Token \X Nat)] /\ mask \in Nat
      /\ generated \in Seq(Token) /\ query.prompt \in Seq(Token)
      /\ NumLayers \in Nat \ {0} /\ 0 \in Layers
  BY QueryType, EngineAssumption DEF EngineInv, EngineTypeOK, Layers
<1>3. /\ generated # << >> /\ mask = Len(Text) - 1 /\ query.prompt # << >>
      /\ Len(generated) < query.max_new_tokens
      /\ \A l \in Layers : Saw(l, Len(Text) - 1)
  BY <1>1 DEF EngineInv, TextInv
<1>4. /\ Text \in Seq(Token) /\ Len(Text) \in Nat \ {0} /\ Text' = Text
      /\ Len(generated) \in Nat \ {0}
      /\ Text[Len(Text)] = generated[Len(generated)]
      /\ generated[Len(generated)] \in Token
  <2>1. Text \in Seq(Token) /\ Len(Text) = Len(query.prompt) + Len(generated)
    BY <1>2 DEF Text
  <2>2. Len(generated) \in Nat \ {0} /\ Len(query.prompt) \in Nat
    BY <1>2, <1>3
  <2>3. Text[Len(Text)] = generated[Len(generated)]
    BY <1>2, <2>1, <2>2, ConcatAt DEF Text
  <2>. QED  BY <1>1, <1>2, <2>1, <2>2, <2>3 DEF Text
<1>5. Len(kv[0]) = Len(Text) - 1
  BY <1>2, <1>3 DEF Saw
<1>6. /\ feed'.position = Len(Text) - 1 /\ feed'.tokens = <<Text[Len(Text)]>>
      /\ feed' \in [tokens : Seq(Token), position : Nat]
  BY <1>1, <1>4, <1>5
<1>7. EngineTypeOK'
  BY <1>1, <1>2, <1>6 DEF EngineInv, EngineTypeOK, EngineStep
<1>8. StackInv'
  BY <1>1 DEF EngineInv, StackInv
<1>9. ASSUME NEW l \in Layers
      PROVE  Saw(l, IF l + 1 < at THEN Len(Text) ELSE feed.position)'
  <2>1. ~ (l + 1 < at')
    BY <1>1 DEF Layers
  <2>2. Saw(l, feed.position)'
    BY <1>1, <1>3, <1>4, <1>6 DEF Saw
  <2>. QED  BY <2>1, <2>2
<1>10. \A i \in DOMAIN feed'.tokens : feed'.tokens[i] = Text'[feed'.position + i]
  <2>1. DOMAIN feed'.tokens = {1} /\ Len(feed'.tokens) = 1
    BY <1>6
  <2>2. feed'.position + 1 = Len(Text)
    BY <1>4, <1>6
  <2>. QED  BY <1>4, <1>6, <2>1, <2>2
<1>11. TextInv'
  <2>1. mask' = Len(Text') /\ mask' = feed'.position + Len(feed'.tokens) /\ at' \in 1 .. NumLayers
    BY <1>1, <1>2, <1>3, <1>4, <1>6
  <2>. QED  BY <1>1, <1>3, <1>9, <1>10, <2>1 DEF TextInv
<1>. QED  BY <1>7, <1>8, <1>11 DEF EngineInv

LEMMA StepKeeps ==
    ASSUME EngineInv, [EngineNext]_engineVars, BuildsOnce, Predicts
    PROVE  EngineInv'
<1>1. CASE UNCHANGED engineVars
  BY <1>1 DEF EngineInv, EngineTypeOK, StackInv, TextInv, Saw, Text, engineVars, runtime, cacheVars
<1>. QED
  BY <1>1, GenerateKeeps, LoadKeeps, BuildKeeps, FinishKeeps, PrefillKeeps, LayerKeeps,
     PickKeeps, FeedKeeps DEF EngineNext, Advance

LEMMA EngineAlways ==
    ASSUME BuildsOnce, Predicts
    PROVE  EngineSpec => []EngineInv
<1>1. EngineInv /\ [EngineNext]_engineVars => EngineInv'
  BY StepKeeps
<1>. QED  BY <1>1, EngineStart, PTL DEF EngineSpec

-----------------------------------------------------------------------------
\* What keeps the state well typed when building the stack may raise too: a
\* stack that was built in several attempts repeats layers, but the loop over
\* it stays within it, and there is a token to feed.
Shape ==
    /\ EngineTypeOK
    /\ step = "build" => at \in 0 .. NumLayers - 1
    /\ initialized \/ step = "finish" => Len(stack) >= 1
    /\ step \in {"prefill", "layer", "head", "feed"} => initialized
    /\ step = "layer" => at \in 1 .. Len(stack)
    /\ step = "feed" => generated # << >>

LEMMA ShapeOfRaise ==
    ASSUME Shape, Raises, kv' \in [Layers -> Seq(Token \X Nat)], mask' \in Nat
    PROVE  Shape'
  BY DEF Shape, EngineTypeOK, Raises, EngineStep, runtime

LEMMA ShapeOfBuilding ==
    ASSUME Shape, LoadModel \/ BuildLayer \/ FinishRuntime
    PROVE  Shape'
<1>0. /\ NumLayers \in Nat \ {0} /\ stack \in Seq(Layers) /\ at \in Nat
      /\ kv \in [Layers -> Seq(Token \X Nat)] /\ mask \in Nat
      /\ EmptyKv \in [Layers -> Seq(Token \X Nat)]
  BY EngineAssumption DEF Shape, EngineTypeOK, EmptyKv
<1>1. CASE Raises /\ UNCHANGED cacheVars
  BY <1>0, <1>1, ShapeOfRaise DEF cacheVars
<1>2. CASE LoadModel /\ ~ Raises
  BY <1>0, <1>2 DEF LoadModel, Shape, EngineTypeOK, EngineStep, runtime, cacheVars
<1>3. CASE BuildLayer /\ ~ Raises
  <2>1. /\ step = "build" /\ stack' = Append(stack, at) /\ at' = at + 1
        /\ step' = IF at + 1 = NumLayers THEN "finish" ELSE "build"
        /\ UNCHANGED <<initialized, query, feed, generated, kv, mask>>
    BY <1>3 DEF BuildLayer, cacheVars
  <2>2. at \in Layers /\ (at + 1 # NumLayers => at + 1 \in 0 .. NumLayers - 1)
    BY <1>0, <2>1 DEF Shape, Layers
  <2>. HIDE DEF Layers
  <2>3. stack' \in Seq(Layers) /\ Len(stack') >= 1
    BY <1>0, <2>1, <2>2
  <2>. QED  BY <1>0, <2>1, <2>2, <2>3 DEF Shape, EngineTypeOK, EngineStep
<1>4. CASE FinishRuntime /\ ~ (Raises /\ UNCHANGED cacheVars)
  BY <1>0, <1>4 DEF FinishRuntime, Shape, EngineTypeOK, EngineStep
<1>. QED  BY <1>1, <1>2, <1>3, <1>4 DEF LoadModel, BuildLayer, FinishRuntime

LEMMA ShapeOfPass ==
    ASSUME Shape, initialized, NEW tokens \in Seq(Token), NEW position \in Nat,
           Pass(tokens, position), UNCHANGED generated,
           kv' \in [Layers -> Seq(Token \X Nat)], mask' \in Nat
    PROVE  Shape'
<1>1. Len(stack) \in Nat /\ Len(stack) >= 1
  BY DEF Shape, EngineTypeOK
<1>2. 1 \in 1 .. Len(stack)
  BY <1>1
<1>. QED  BY <1>2 DEF Pass, Shape, EngineTypeOK, EngineStep, runtime

LEMMA ShapeOfLayer ==
    ASSUME Shape, RunLayer
    PROVE  Shape'
<1>0. /\ step = "layer" /\ initialized /\ at \in 1 .. Len(stack) /\ stack \in Seq(Layers)
      /\ stack[at] \in Layers /\ Len(stack) \in Nat /\ mask' = mask /\ mask \in Nat
      /\ kv \in [Layers -> Seq(Token \X Nat)]
      /\ feed.tokens \in Seq(Token) /\ feed.position \in Nat
  BY DEF RunLayer, Shape, EngineTypeOK
<1>1. Keys \in Seq(Token \X Nat)
  <2>1. \A i \in 1 .. Len(feed.tokens) :
           <<feed.tokens[i], feed.position + i - 1>> \in Token \X Nat
    BY <1>0
  <2>2. Len(feed.tokens) \in Nat /\ DOMAIN feed.tokens = 1 .. Len(feed.tokens)
    BY <1>0
  <2>. QED  BY <2>1, <2>2 DEF Keys
<1>2. kv' \in [Layers -> Seq(Token \X Nat)]
  <2>1. kv[stack[at]] \o Keys \in Seq(Token \X Nat)
    BY <1>0, <1>1
  <2>2. CASE kv' = kv  BY <1>0, <2>2
  <2>3. CASE kv' = [kv EXCEPT ![stack[at]] = kv[stack[at]] \o Keys]
    BY <1>0, <2>1, <2>3
  <2>. QED  BY <2>2, <2>3 DEF RunLayer
<1>3. CASE Raises
  BY <1>0, <1>2, <1>3, ShapeOfRaise
<1>4. CASE ~ Raises
  <2>1. /\ at' = at + 1
        /\ step' = IF at = Len(stack) THEN "head" ELSE "layer"
        /\ UNCHANGED <<initialized, stack, query, feed, generated>>
    BY <1>4 DEF RunLayer, runtime
  <2>2. at' \in Nat /\ (at # Len(stack) => at' \in 1 .. Len(stack))
    BY <1>0, <2>1
  <2>. QED  BY <1>0, <1>2, <2>1, <2>2 DEF Shape, EngineTypeOK, EngineStep
<1>. QED  BY <1>3, <1>4

LEMMA ShapeStep ==
    ASSUME Shape, [EngineNext]_engineVars, Predicts
    PROVE  Shape'
<1>0. /\ kv \in [Layers -> Seq(Token \X Nat)] /\ mask \in Nat /\ generated \in Seq(Token)
      /\ query.prompt \in Seq(Token) /\ 0 \in Layers
      /\ EmptyKv \in [Layers -> Seq(Token \X Nat)]
  BY QueryType, EngineAssumption DEF Shape, EngineTypeOK, EmptyKv, Layers
<1>1. ASSUME NEW q \in Query, Generate(q) PROVE Shape'
  BY <1>1 DEF Generate, Shape, EngineTypeOK, EngineStep, runtime, cacheVars
<1>2. CASE Prefill
  <2>1. CASE Raises /\ UNCHANGED cacheVars
    BY <1>0, <2>1, ShapeOfRaise DEF cacheVars
  <2>2. CASE ~ (Raises /\ UNCHANGED cacheVars)
    <3>1. /\ kv' = EmptyKv /\ mask' = Len(query.prompt) /\ Pass(query.prompt, 0)
          /\ UNCHANGED generated /\ initialized
      BY <1>2, <2>2 DEF Prefill, Shape
    <3>2. mask' \in Nat /\ kv' \in [Layers -> Seq(Token \X Nat)] /\ 0 \in Nat
      BY <1>0, <3>1
    <3>. QED  BY <1>0, <3>1, <3>2, ShapeOfPass
  <2>. QED  BY <2>1, <2>2
<1>3. CASE PickToken
  <2>1. step = "head" /\ initialized /\ UNCHANGED <<kv, mask>>
    BY <1>3 DEF PickToken, Shape, cacheVars
  <2>2. CASE Raises
    BY <1>0, <2>1, <2>2, ShapeOfRaise
  <2>3. CASE ~ Raises
    <3>1. /\ generated' = IF query.max_new_tokens = 0 THEN << >>
                          ELSE Append(generated, Predict(kv))
          /\ step' = IF Len(generated') = query.max_new_tokens THEN "idle" ELSE "feed"
          /\ UNCHANGED <<initialized, stack, query, at, feed>>
      BY <1>3, <2>3 DEF PickToken, runtime
    <3>2. Predict(kv) \in Token
      BY <1>0 DEF Predicts
    <3>3. generated' \in Seq(Token) /\ (step' = "feed" => generated' # << >>)
      <4>1. CASE query.max_new_tokens = 0
        <5>1. generated' = << >> /\ Len(generated') = 0
          BY <3>1, <4>1
        <5>. QED  BY <3>1, <4>1, <5>1
      <4>2. CASE query.max_new_tokens # 0
        <5>1. generated' = Append(generated, Predict(kv))
          BY <3>1, <4>2
        <5>2. \A e \in Token : Append(generated, e) \in Seq(Token) /\ Append(generated, e) # << >>
          <6>. SUFFICES ASSUME NEW e \in Token
                        PROVE  Append(generated, e) \in Seq(Token) /\ Append(generated, e) # << >>
            OBVIOUS
          <6>1. Append(generated, e) \in Seq(Token) /\ Len(Append(generated, e)) = Len(generated) + 1
            BY <1>0, AppendProperties
          <6>2. Len(generated) \in Nat
            BY <1>0, LenProperties
          <6>. QED  BY <6>1, <6>2
        <5>. QED  BY <3>2, <5>1, <5>2, Zenon
      <4>. QED  BY <4>1, <4>2
    <3>. QED  BY <2>1, <3>1, <3>3 DEF Shape, EngineTypeOK, EngineStep
  <2>. QED  BY <2>2, <2>3
<1>4. CASE Feed
  <2>1. /\ mask' = mask + 1 /\ Pass(<<generated[Len(generated)]>>, Len(kv[0]))
        /\ UNCHANGED <<kv, generated>> /\ initialized /\ generated # << >>
    BY <1>4 DEF Feed, Shape
  <2>2. /\ <<generated[Len(generated)]>> \in Seq(Token) /\ Len(kv[0]) \in Nat
        /\ mask' \in Nat
    BY <1>0, <2>1
  <2>. QED  BY <1>0, <2>1, <2>2, ShapeOfPass
<1>5. CASE UNCHANGED engineVars
  BY <1>5 DEF Shape, EngineTypeOK, engineVars, runtime, cacheVars
<1>. QED  BY <1>1, <1>2, <1>3, <1>4, <1>5, ShapeOfBuilding, ShapeOfLayer
          DEF EngineNext, Advance

\* The state of an engine stays well typed, whatever calls fail, also when
\* building the stack fails and is tried again.
THEOREM EngineTypes ==
    ASSUME Predicts
    PROVE  EngineSpec => []EngineTypeOK
<1>1. EngineInit => Shape
  BY EngineStart, EngineAssumption DEF EngineInit, EngineInv, Shape
<1>2. Shape /\ [EngineNext]_engineVars => Shape'
  BY ShapeStep
<1>3. Shape => EngineTypeOK
  BY DEF Shape
<1>. QED  BY <1>1, <1>2, <1>3, PTL DEF EngineSpec

\* No layer of a pass ever attends over a mask of another length than its
\* keys, whatever failed before.
THEOREM MaskAlwaysFits ==
    ASSUME BuildsOnce, Predicts
    PROVE  EngineSpec => []MaskCoversKeys
<1>1. ASSUME EngineInv PROVE MaskCoversKeys
  <2>. SUFFICES ASSUME step = "layer", NEW i \in at .. Len(stack)
                PROVE  /\ mask = Len(kv[stack[i]]) + Len(feed.tokens)
                       /\ feed.position = Len(kv[stack[i]])
    BY DEF MaskCoversKeys
  <2>1. /\ NumLayers \in Nat /\ at \in 1 .. NumLayers
        /\ stack = Built(NumLayers) /\ mask = feed.position + Len(feed.tokens)
    BY <1>1, EngineAssumption DEF EngineInv, StackInv, TextInv
  <2>2. Len(stack) = NumLayers /\ i \in 1 .. NumLayers
    BY <2>1, BuiltFacts
  <2>3. stack[i] = i - 1 /\ i - 1 \in Layers /\ ~ (i - 1 + 1 < at)
    <3>1. Built(NumLayers)[i] = i - 1
      BY <2>1, <2>2, BuiltFacts
    <3>2. i \in Nat /\ i >= at /\ at \in Nat /\ i - 1 \in 0 .. NumLayers - 1
      BY <2>1, <2>2
    <3>. QED  BY <2>1, <3>1, <3>2 DEF Layers
  <2>4. Saw(i - 1, feed.position)
    BY <1>1, <2>3 DEF EngineInv, TextInv
  <2>. QED  BY <2>1, <2>3, <2>4 DEF Saw
<1>. QED  BY <1>1, EngineAlways, PTL

\* The decoder stack of an engine that runs has each layer once, in order.
THEOREM StackBuiltOnce ==
    ASSUME BuildsOnce, Predicts
    PROVE  EngineSpec => []BuiltOnce
<1>1. EngineInv => BuiltOnce
  BY DEF EngineInv, StackInv, Built, BuiltOnce
<1>. QED  BY <1>1, EngineAlways, PTL

\* When the head computes its logits, the caches are those of a model that
\* has read the whole text from the start.
LEMMA CachesAreText ==
    ASSUME EngineInv, step = "head"
    PROVE  Predict(kv) = WholeText(query.prompt \o generated)
<1>1. Text \in Seq(Token) /\ kv \in [Layers -> Seq(Token \X Nat)]
  BY QueryType DEF EngineInv, EngineTypeOK, Text
<1>2. ASSUME NEW l \in Layers
      PROVE  kv[l] = [i \in DOMAIN Text |-> <<Text[i], i - 1>>]
  <2>. DEFINE g == [i \in 1 .. Len(Text) |-> <<Text[i], i - 1>>]
  <2>1. Saw(l, Len(Text))
    BY DEF EngineInv, TextInv
  <2>2. \A i \in 1 .. Len(Text) : <<Text[i], i - 1>> \in Token \X Nat
    BY <1>1
  <2>3. g \in Seq(Token \X Nat) /\ Len(g) = Len(Text)
    BY <1>1, <2>2
  <2>4. kv[l] \in Seq(Token \X Nat) /\ Len(kv[l]) = Len(g)
        /\ \A i \in 1 .. Len(kv[l]) : kv[l][i] = g[i]
    BY <1>1, <2>1, <2>3 DEF Saw
  <2>5. kv[l] = g
    BY <2>3, <2>4, SeqEqual
  <2>. QED  BY <1>1, <2>5
<1>3. kv = [l \in Layers |-> [i \in DOMAIN Text |-> <<Text[i], i - 1>>]]
  BY <1>1, <1>2
<1>. QED  BY <1>3 DEF WholeText, Text

LEMMA PromiseKept ==
    ASSUME EngineInv, [EngineNext]_engineVars, BuildsOnce, Predicts
    PROVE  [Promise!Next]_(Promise!vars)
<1>. USE DEF Promise!vars
<1>1. ASSUME Raises, step # "idle" PROVE Promise!Next
  BY <1>1 DEF Raises, Promise!Next, Promise!Fail
<1>2. ASSUME NEW q \in Query, Generate(q) PROVE Promise!Next
  BY <1>2 DEF Generate, Promise!Next, Promise!Start
<1>3. ASSUME step # "idle", step' # "idle", UNCHANGED <<query, generated>>
      PROVE  UNCHANGED Promise!vars
  BY <1>3
<1>4. CASE LoadModel
  BY <1>1, <1>3, <1>4 DEF LoadModel
<1>5. CASE BuildLayer
  BY <1>1, <1>3, <1>5 DEF BuildLayer
<1>6. CASE FinishRuntime
  BY <1>1, <1>3, <1>6 DEF FinishRuntime
<1>7. CASE Prefill
  BY <1>1, <1>3, <1>7 DEF Prefill, Pass
<1>8. CASE RunLayer
  BY <1>1, <1>3, <1>8 DEF RunLayer
<1>9. CASE Feed
  BY <1>3, <1>9 DEF Feed, Pass
<1>10. CASE PickToken
  <2>1. /\ step = "head" /\ generated \in Seq(Token) /\ query.max_new_tokens \in Int
        /\ generated # << >> => Len(generated) < query.max_new_tokens
    BY <1>10, QueryType DEF PickToken, EngineInv, EngineTypeOK, TextInv
  <2>2. CASE Raises
    BY <1>1, <2>1, <2>2
  <2>3. CASE /\ ~ DecodeRefuses
             /\ generated' = IF query.max_new_tokens = 0 THEN << >>
                             ELSE Append(generated, Predict(kv))
             /\ step' = IF Len(generated') = query.max_new_tokens THEN "idle" ELSE "feed"
             /\ query' = query
    <3>1. Predict(kv) = WholeText(query.prompt \o generated)
      BY <2>1, CachesAreText
    <3>2. generated = << >> => query.max_new_tokens >= 0
      BY <2>1, <2>3 DEF DecodeRefuses
    <3>3. query.max_new_tokens = 0 => generated = << >> /\ generated' = << >>
      BY <2>1, <2>3
    <3>4. \/ generated' = generated
          \/ generated' = Append(generated, WholeText(query.prompt \o generated))
      BY <2>3, <3>1, <3>3
    <3>5. CASE step' = "idle"
      <4>1. Len(generated') = query.max_new_tokens
        BY <2>3, <3>5
      <4>. QED  BY <2>1, <2>3, <3>4, <3>5, <4>1 DEF Promise!Next, Promise!Return
    <3>6. CASE step' # "idle"
      <4>1. query.max_new_tokens # 0
        BY <2>1, <2>3, <3>3, <3>6
      <4>2. Len(generated) < query.max_new_tokens
        BY <2>1, <3>2, <4>1
      <4>3. generated' = Append(generated, WholeText(query.prompt \o generated))
        BY <2>3, <3>1, <4>1
      <4>. QED  BY <2>1, <2>3, <3>6, <4>2, <4>3 DEF Promise!Next, Promise!Generate
    <3>. QED  BY <3>5, <3>6
  <2>. QED  BY <1>10, <2>2, <2>3 DEF PickToken
<1>11. CASE UNCHANGED engineVars
  BY <1>11 DEF engineVars
<1>. QED
  BY <1>2, <1>4, <1>5, <1>6, <1>7, <1>8, <1>9, <1>10, <1>11 DEF EngineNext, Advance

\* Decoding with caches and a mask that outlive failed calls generates what
\* greedy generation from the whole text generates.
THEOREM DecodingRecomputes ==
    ASSUME BuildsOnce, Predicts
    PROVE  EngineSpec => Recomputes
<1>1. EngineInit => Promise!Init
  BY DEF EngineInit, Promise!Init
<1>2. EngineInv /\ [EngineNext]_engineVars => [Promise!Next]_(Promise!vars)
  BY PromiseKept
<1>. QED
  BY <1>1, <1>2, EngineAlways, PTL DEF EngineSpec, Recomputes, Promise!Spec
=============================================================================
