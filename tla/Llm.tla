-------------------------------- MODULE Llm ---------------------------------
(***************************************************************************)
(* Inference in the kernel (llm/llm_runtime.c): the prompt is cut into     *)
(* tokens, each token is decoded into the key and value caches at its      *)
(* position, and new tokens are sampled until one ends the answer or the   *)
(* context is full.  What the floating-point numbers say is left out:      *)
(* sampling may return any token, and a row of a cache is the number of    *)
(* the token it was computed from.  As in the code the ids below BYTES are *)
(* the bytes, the others stand for words of the vocabulary, the text of id *)
(* 0 is empty and id 2 ends an answer.                                     *)
(***************************************************************************)
EXTENDS Integers, Sequences, SequencesExt

CONSTANTS
  BYTES,             \* 256
  Letters,           \* the bytes of prompts
  Vocab,             \* the words from id BYTES on: texts with scores; << >>: not loaded
  n_ctx, n_layer,
  LLM_MAX_BATCH,
  out_size,
  MaxPrompt          \* bound: length of a prompt

VARIABLES
  phase,             \* "idle", "prefill", "generate" or "done"
  prompt,            \* ghost: the text that was asked
  tokens,            \* the prompt as tokens
  max_gen,
  pos,
  cache,             \* rows of all layers, one layer behind the other; 0: cleared
  beyond,            \* ghost: a row was written behind the cache
  made,              \* ghost: the tokens generated
  output             \* the answer

llmvars == <<phase, prompt, tokens, max_gen, pos, cache, beyond, made, output>>

Ids      == 0 .. BYTES + Len(Vocab) - 1
Words    == BYTES .. BYTES + Len(Vocab) - 1
Entry(v) == Vocab[v - BYTES + 1]

llm_detokenize(tok) == IF tok \in Words THEN Entry(tok).text
                       ELSE IF tok = 0 THEN << >> ELSE <<tok>>

-----------------------------------------------------------------------------
(* The first word of the vocabulary with that text, 0 when there is none.   *)
Word(text) == LET vs == {v \in Words : Entry(v).text = text}
              IN IF vs = {} THEN 0 ELSE Min(vs)

Joined(ts, i) == Word(llm_detokenize(ts[i]) \o llm_detokenize(ts[i + 1]))

(* The places where two neighbours can be one token, and of these the first *)
(* with the best score.                                                     *)
Places(ts)    == {i \in 1 .. Len(ts) - 1 : Joined(ts, i) # 0}
Score(ts, i)  == Entry(Joined(ts, i)).score
BestPlace(ts) == Min({i \in Places(ts) : \A j \in Places(ts) : Score(ts, j) <= Score(ts, i)})

Merged[ts \in Seq(Ids)] ==
  IF Places(ts) = {} THEN ts
  ELSE LET i == BestPlace(ts)
       IN Merged[SubSeq(ts, 1, i - 1) \o <<Joined(ts, i)>> \o SubSeq(ts, i + 2, Len(ts))]

llm_tokenize(text, max_tokens) == Merged[SubSeq(text, 1, Min({Len(text), max_tokens}))]

-----------------------------------------------------------------------------
Cleared == [r \in 0 .. n_layer * n_ctx - 1 |-> 0]

Init ==
  /\ phase = "idle" /\ prompt = << >> /\ tokens = << >> /\ max_gen = 0 /\ pos = 0
  /\ cache = Cleared /\ beyond = FALSE /\ made = << >> /\ output = << >>

(* How many tokens may be generated behind a prompt of n tokens.            *)
Limit(n) == Max({1, Min({LLM_MAX_BATCH, n_ctx - n})})

llm_reset == pos' = 0 /\ cache' = Cleared

(* llm_infer up to the first token.                                         *)
llm_infer(text) ==
  /\ phase = "idle"
  /\ prompt' = text /\ tokens' = llm_tokenize(text, n_ctx)
  /\ max_gen' = Limit(Len(tokens'))
  /\ llm_reset
  /\ phase' = "prefill"
  /\ UNCHANGED <<made, output, beyond>>

(* Layer after layer, the row of the token is stored at pos.                *)
Rows == {l * n_ctx + pos : l \in 0 .. n_layer - 1}

Store ==
  /\ cache' = [r \in DOMAIN cache |-> IF r \in Rows THEN pos + 1 ELSE cache[r]]
  /\ beyond' = (beyond \/ ~ (Rows \subseteq DOMAIN cache))

llm_decode == Store /\ pos' = pos + 1

Prefill ==
  /\ phase = "prefill"
  /\ IF pos < Len(tokens)
     THEN llm_decode /\ UNCHANGED phase
     ELSE phase' = "generate" /\ UNCHANGED <<pos, cache, beyond>>
  /\ UNCHANGED <<prompt, tokens, max_gen, made, output>>

(* A text without room is left out.                                         *)
infer_cb(out, text) == IF Len(out) + Len(text) < out_size THEN out \o text ELSE out

Full(p) == p >= n_ctx

(* Every token may be sampled; 0 is also the answer when memory is short.   *)
llm_sample == Ids

(* One turn of the loop of llm_generate with the sampled token.             *)
llm_generate(tok) ==
  /\ phase = "generate"
  /\ IF tok = 2
     THEN phase' = "done" /\ UNCHANGED <<pos, cache, beyond, made, output>>
     ELSE /\ llm_decode
          /\ made' = Append(made, tok)
          /\ output' = infer_cb(output, llm_detokenize(tok))
          /\ phase' = IF Full(pos') \/ Len(made') >= max_gen THEN "done" ELSE "generate"
  /\ UNCHANGED <<prompt, tokens, max_gen>>

(* The caller has its answer.  What the next llm_reset clears is cleared    *)
(* here already, because nobody looks at it before.                         *)
Return ==
  /\ phase = "done" /\ phase' = "idle"
  /\ llm_reset
  /\ prompt' = << >> /\ tokens' = << >> /\ max_gen' = 0
  /\ made' = << >> /\ output' = << >> /\ beyond' = FALSE

LlmNext == \/ phase = "idle" /\ \E text \in BoundedSeq(Letters, MaxPrompt) : llm_infer(text)
           \/ Prefill
           \/ \E tok \in llm_sample : llm_generate(tok)
           \/ Return

-----------------------------------------------------------------------------
TextOf(ts) == FlattenSeq([i \in DOMAIN ts |-> llm_detokenize(ts[i])])

(* The tokens of a prompt spell it, as far as its bytes fit into the        *)
(* context, and no two neighbours could still be joined.  While a prompt is *)
(* answered every layer keeps the row of each token at its own position,    *)
(* and nothing is stored behind the cache, unless the prompt alone fills    *)
(* the context; and even then there is only one token too many.  The answer *)
(* is what was generated, as long as there is room for it.                  *)
InferenceExact ==
  /\ TextOf(tokens) = SubSeq(prompt, 1, Min({Len(prompt), n_ctx})) /\ Places(tokens) = {}
  /\ pos <= n_ctx =>
       /\ ~ beyond
       /\ \A l \in 0 .. n_layer - 1 : \A t \in 0 .. n_ctx - 1 :
            cache[l * n_ctx + t] = IF t < pos THEN t + 1 ELSE 0
  /\ pos > n_ctx => pos = n_ctx + 1 /\ Len(tokens) = n_ctx
  /\ Len(output) < out_size
  /\ Len(TextOf(made)) < out_size => output = TextOf(made)
=============================================================================
