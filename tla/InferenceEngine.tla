-------------------------- MODULE InferenceEngine --------------------------
(***************************************************************************)
(* InferenceEngine.generate of engine/engine.py: the construction of the   *)
(* decoder stack on the first call, prefill, and greedy decoding over a    *)
(* key-value cache and an attention mask that live as long as the engine.  *)
(*                                                                         *)
(* The engine runs in one thread; a call is a sequence of steps because    *)
(* each of them may raise, and what it did until then stays.  Attention    *)
(* and experts are abstracted to the text they attend to: the cache of a   *)
(* layer is the sequence of the tokens it has keys for, each with the      *)
(* position it was rotated to, and the model predicts from those caches.   *)
(***************************************************************************)
EXTENDS Integers, Sequences

CONSTANTS
    Token,
    NumLayers,      \* num_layers
    Query,          \* the requests callers make
    Predict(_),     \* the token the model predicts from the layers' caches
    EngineFaults    \* the calls that may raise

Layers == 0 .. NumLayers - 1

\* Shapes are what prefill and decode look at; the padding inside a mask is
\* left out.
ASSUME EngineAssumption ==
    /\ NumLayers \in Nat \ {0}
    /\ EngineFaults \subseteq {"load", "load_layer", "load_head",
                               "attention", "moe", "head"}
    /\ \A q \in Query :
            /\ q.prompt \in Seq(Token)
            /\ q.max_new_tokens \in Int
            /\ q.batch \in Nat
            /\ q.mask_fits \in BOOLEAN

VARIABLES
    initialized,    \* _runtime_initialized
    stack,          \* _decoder_layers: the layer_idx of each
    kv,             \* _kv_cache, all layers empty while there is none
    mask,           \* length of _attention_mask
    step,           \* what the running call does next: see EngineStep
    query,          \* the request of the current or last call
    at,             \* index of the loop over the layers
    feed,           \* input tokens and cache_position of the current pass
    generated       \* the tokens generated for query

runtime == <<initialized, stack>>
cacheVars == <<kv, mask>>
engineVars == <<runtime, cacheVars, step, query, at, feed, generated>>

EngineStep == {"idle", "load", "build", "finish", "prefill", "layer", "head", "feed"}

EmptyKv == [l \in Layers |-> << >>]

EngineTypeOK ==
    /\ initialized \in BOOLEAN
    /\ stack \in Seq(Layers)
    /\ kv \in [Layers -> Seq(Token \X Nat)]
    /\ mask \in Nat
    /\ step \in EngineStep
    /\ query \in Query
    /\ at \in Nat
    /\ feed \in [tokens : Seq(Token), position : Nat]
    /\ generated \in Seq(Token)

-----------------------------------------------------------------------------
EngineInit ==
    /\ initialized = FALSE
    /\ stack = << >>
    /\ kv = EmptyKv
    /\ mask = 0
    /\ step = "idle"
    /\ query \in Query
    /\ at = 0
    /\ feed = [tokens |-> << >>, position |-> 0]
    /\ generated = << >>

\* Mutant: a call that raised is tried again.
RaisesRetries ==
    /\ step' = IF initialized THEN "prefill" ELSE "load"
    /\ generated' = << >>
    /\ UNCHANGED <<runtime, query, at, feed>>

\* An exception leaves generate; nothing is undone.
Raises ==
    /\ step' = "idle"
    /\ UNCHANGED <<runtime, query, at, feed, generated>>

Generate(q) ==
    /\ step = "idle"
    /\ step' = IF initialized THEN "prefill" ELSE "load"
    /\ query' = q
    /\ generated' = << >>
    /\ UNCHANGED <<runtime, cacheVars, at, feed>>

(***************************************************************************)
(* _initialize_runtime                                                     *)
(***************************************************************************)

\* The checkpoint, the embeddings and the rotary embedding.
LoadModel ==
    /\ step = "load"
    /\ UNCHANGED cacheVars
    /\ \/ /\ step' = "build"
          /\ at' = 0
          /\ UNCHANGED <<runtime, query, feed, generated>>
       \/ "load" \in EngineFaults /\ Raises

\* Mutant: one layer too many.
BuildLayerOneMore ==
    /\ step = "build"
    /\ UNCHANGED cacheVars
    /\ \/ /\ stack' = Append(stack, at)
          /\ at' = at + 1
          /\ step' = IF at = NumLayers THEN "finish" ELSE "build"
          /\ UNCHANGED <<initialized, query, feed, generated>>
       \/ "load_layer" \in EngineFaults /\ Raises

\* One layer of the loop, appended once its weights are in place.
BuildLayer ==
    /\ step = "build"
    /\ UNCHANGED cacheVars
    /\ \/ /\ stack' = Append(stack, at)
          /\ at' = at + 1
          /\ step' = IF at' = NumLayers THEN "finish" ELSE "build"
          /\ UNCHANGED <<initialized, query, feed, generated>>
       \/ "load_layer" \in EngineFaults /\ Raises

\* The final norm and the head; only then is the runtime initialized.
FinishRuntime ==
    /\ step = "finish"
    /\ \/ /\ initialized' = TRUE
          /\ kv' = EmptyKv
          /\ step' = "prefill"
          /\ UNCHANGED <<stack, mask, query, at, feed, generated>>
       \/ "load_head" \in EngineFaults /\ Raises /\ UNCHANGED cacheVars

(***************************************************************************)
(* _prefill and _decode                                                    *)
(***************************************************************************)

\* _forward_layers over the tokens, from a position on.
Pass(tokens, position) ==
    /\ feed' = [tokens |-> tokens, position |-> position]
    /\ at' = 1
    /\ step' = "layer"
    /\ UNCHANGED <<runtime, query>>

\* Mutant: a cache that exists is used again.
PrefillKeepsCache ==
    /\ step = "prefill"
    /\ IF query.prompt = << >> \/ ~ query.mask_fits
       THEN Raises /\ UNCHANGED cacheVars
       ELSE /\ mask' = Len(query.prompt)
            /\ Pass(query.prompt, 0)
            /\ UNCHANGED <<kv, generated>>

\* A new cache and the mask of the prompt, unless the request is refused.
Prefill ==
    /\ step = "prefill"
    /\ IF query.prompt = << >> \/ ~ query.mask_fits
       THEN Raises /\ UNCHANGED cacheVars
       ELSE /\ kv' = EmptyKv
            /\ mask' = Len(query.prompt)
            /\ Pass(query.prompt, 0)
            /\ UNCHANGED generated

\* The keys of the input, rotated to the positions from cache_position on.
Keys == [i \in DOMAIN feed.tokens |-> <<feed.tokens[i], feed.position + i - 1>>]

\* One decoder layer: attention extends the cache of the layer and needs a
\* mask as long as its keys; the experts come after it.
RunLayer ==
    /\ step = "layer"
    /\ UNCHANGED mask
    /\ LET l == stack[at] IN
       \/ "attention" \in EngineFaults /\ Raises /\ UNCHANGED kv
       \/ /\ kv' = [kv EXCEPT ![l] = @ \o Keys]
          /\ \/ "moe" \in EngineFaults /\ Raises
             \/ mask # Len(kv'[l]) /\ Raises
             \/ /\ mask = Len(kv'[l])
                /\ at' = at + 1
                /\ step' = IF at = Len(stack) THEN "head" ELSE "layer"
                /\ UNCHANGED <<runtime, query, feed, generated>>

\* What decode refuses; it is called with the logits of the prompt.
DecodeRefuses ==
    /\ generated = << >>
    /\ \/ query.max_new_tokens < 0
       \/ query.max_new_tokens > 0 /\ query.batch # 1

\* Final norm, head and the greedy choice: the token ends the call, or is
\* the input of the next pass.
PickToken ==
    /\ step = "head"
    /\ UNCHANGED cacheVars
    /\ \/ "head" \in EngineFaults /\ Raises
       \/ DecodeRefuses /\ Raises
       \/ /\ ~ DecodeRefuses
          /\ generated' = IF query.max_new_tokens = 0
                          THEN << >>
                          ELSE Append(generated, Predict(kv))
          /\ step' = IF Len(generated') = query.max_new_tokens THEN "idle" ELSE "feed"
          /\ UNCHANGED <<runtime, query, at, feed>>

\* Mutant: every pass of the loop is fed the first generated token.
FeedFirst ==
    /\ step = "feed"
    /\ mask' = mask + 1
    /\ Pass(<<generated[1]>>, Len(kv[0]))
    /\ UNCHANGED <<kv, generated>>

\* The loop of _decode up to the layers: the mask grows first.
Feed ==
    /\ step = "feed"
    /\ mask' = mask + 1
    /\ Pass(<<generated[Len(generated)]>>, Len(kv[0]))
    /\ UNCHANGED <<kv, generated>>

Advance ==
    \/ LoadModel
    \/ BuildLayer
    \/ FinishRuntime
    \/ Prefill
    \/ RunLayer
    \/ PickToken
    \/ Feed

EngineNext == Advance \/ \E q \in Query : Generate(q)

\* The thread that runs a call is never descheduled for good.
EngineSpec == EngineInit /\ [][EngineNext]_engineVars /\ WF_engineVars(Advance)

-----------------------------------------------------------------------------
(***************************************************************************)
(* Properties                                                              *)
(***************************************************************************)

\* Every layer that still has to run in a pass will attend to exactly the
\* keys the mask covers, and its new keys continue the positions it has,
\* although a failed call leaves a mask longer than the cache and layers of
\* different lengths behind (engine.py:593-606 and 538-539).
MaskCoversKeys ==
    step = "layer" =>
        \A i \in at .. Len(stack) :
            /\ mask = Len(kv[stack[i]]) + Len(feed.tokens)
            /\ feed.position = Len(kv[stack[i]])

\* The execution graph is built exactly once (engine.py:194): an initialized
\* engine runs each layer once per pass, in order.
BuiltOnce == initialized => stack = [i \in 1 .. NumLayers |-> i - 1]

\* Decoding over the cache is generation from the whole text: each token is
\* the one the model predicts when every layer has seen the prompt and all
\* tokens generated so far from position 0 on.
WholeText(text) ==
    Predict([l \in Layers |-> [i \in DOMAIN text |-> <<text[i], i - 1>>]])

Promise == INSTANCE Generation WITH
    running   <- step # "idle",
    output    <- generated,
    NextToken <- WholeText

Recomputes == Promise!Spec

\* Every call returns or raises.
CallEnds == step # "idle" ~> step = "idle"
=============================================================================
