---------------------------- MODULE Generation ----------------------------
(***************************************************************************)
(* What InferenceEngine.generate promises, with no layers, caches or       *)
(* masks: greedy generation.  Each token is predicted from the whole text, *)
(* the prompt and the tokens generated so far; a call that returns has     *)
(* generated as many tokens as it was asked for; a call may fail, and the  *)
(* next one is not affected by that.                                       *)
(***************************************************************************)
EXTENDS Integers, Sequences

CONSTANTS
    Token,
    Query,          \* requests: records with a prompt and max_new_tokens
    NextToken(_)    \* the token that follows a text

VARIABLES
    running,    \* whether a call is being served
    query,      \* the request of the current or last call
    output      \* the tokens generated for it

vars == <<running, query, output>>

Init ==
    /\ running = FALSE
    /\ query \in Query
    /\ output = << >>

Start(q) ==
    /\ ~ running
    /\ running' = TRUE
    /\ query' = q
    /\ output' = << >>

Generate ==
    /\ running
    /\ Len(output) < query.max_new_tokens
    /\ output' = Append(output, NextToken(query.prompt \o output))
    /\ UNCHANGED <<running, query>>

\* The last token and the return are one step of the caller's view.
Return ==
    /\ running
    /\ running' = FALSE
    /\ query' = query
    /\ \/ output' = output
       \/ output' = Append(output, NextToken(query.prompt \o output))
    /\ Len(output') = query.max_new_tokens

Fail ==
    /\ running
    /\ running' = FALSE
    /\ UNCHANGED <<query, output>>

Next ==
    \/ \E q \in Query : Start(q)
    \/ Generate
    \/ Return
    \/ Fail

Spec == Init /\ [][Next]_vars
=============================================================================
