------------------------- MODULE MCInferenceEngine -------------------------
(***************************************************************************)
(* Instances of InferenceEngine for TLC: two tokens, prompts of one and    *)
(* two tokens, requests that prefill or decode refuse, and a model whose   *)
(* prediction depends on every key of every layer and on its position.     *)
(***************************************************************************)
EXTENDS InferenceEngine, SequencesExt

MCToken == {0, 1}

Ask(prompt, max, batch, fits) ==
    [prompt |-> prompt, max_new_tokens |-> max, batch |-> batch, mask_fits |-> fits]

MCQuery ==
    {Ask(<<1>>, 3, 1, TRUE), Ask(<<0, 1>>, 4, 1, TRUE), Ask(<<1>>, 0, 2, TRUE),
     Ask(<<1, 1>>, 2, 2, TRUE), Ask(<<1>>, -1, 1, TRUE), Ask(<< >>, 2, 1, TRUE),
     Ask(<<0>>, 1, 1, FALSE)}

Digest(keys) ==
    FoldLeft(LAMBDA d, key : (3 * d + 2 * key[1] + key[2] + 1) % 11, 0, keys)

MCPredict(caches) ==
    FoldSet(LAMBDA l, d : d + (l + 1) * Digest(caches[l]), 0, DOMAIN caches) % 2
=============================================================================
