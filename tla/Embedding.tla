------------------------------ MODULE Embedding ------------------------------
(***************************************************************************)
(* The embedding client (platform/embeddings.py) and its provider: batches *)
(* with retries, the fallback to one text at a time and the halving of     *)
(* texts that exceed the context of the model, and the two caches in front *)
(* of single queries.  A text is a record [id, words]; a vector is named   *)
(* by the span of words it was computed from.                              *)
(***************************************************************************)
EXTENDS Integers, Sequences, SequencesExt, FiniteSets

CONSTANTS
    TextIds,           \* the texts there are
    Batches,           \* sequences of texts the indexer may ask for
    Queries,           \* texts a learner may ask for
    ContextWords,      \* longest text the provider accepts
    BatchRetries,      \* empty_response_retry_attempts
    TextRetries,       \* single_text_empty_response_retry_attempts
    CacheSize,         \* _query_cache_max
    MaxRequests        \* bound: calls of the client

Text == [id : TextIds, words : Nat]

EmbeddingLimits ==
    /\ ContextWords \in Nat /\ CacheSize \in Nat \ {0} /\ MaxRequests \in Nat
    /\ BatchRetries \in Nat /\ TextRetries \in Nat
    /\ Batches \subseteq Seq(Text) \ {<<>>} /\ Queries \subseteq Text

VARIABLES
    texts,             \* the call in progress
    asQuery,           \* whether it is embed_query
    phase,             \* idle, batch, single, done, failed
    todo,              \* spans still to embed one by one: [text, from, to]
    spans,             \* spans embedded, in the order they will be merged
    tries,             \* requests made in _embed_batch_with_empty_retry
    rounds,            \* retries of that in _embed_text_no_truncation
    cached,            \* _query_cache_order: the ids in memory, oldest first
    redis,             \* ids in Redis
    served,            \* calls so far
    vectors            \* history: the spans the last call returned

embedVars == <<texts, asQuery, phase, todo, spans, tries, rounds, cached, redis, served, vectors>>

Whole(i) == [text |-> i, from |-> 1, to |-> texts[i].words]
Words(span) == span.to - span.from + 1
AllWhole == [i \in 1 .. Len(texts) |-> Whole(i)]

\* (mutant: nothing is ever evicted.)
PutQueryCacheUnbounded(id) == IF id \in ToSet(cached) THEN cached ELSE Append(cached, id)

\* _put_query_cache: a known text keeps its place, the oldest one is evicted.
PutQueryCache(id) ==
    IF id \in ToSet(cached) THEN cached
    ELSE LET all == Append(cached, id)
         IN  IF Len(all) > CacheSize THEN Tail(all) ELSE all

InitEmbedding ==
    /\ texts = <<>> /\ asQuery = FALSE /\ phase = "idle" /\ todo = <<>> /\ spans = <<>>
    /\ tries = 0 /\ rounds = 0 /\ cached = <<>> /\ redis = {} /\ served = 0 /\ vectors = <<>>

Begin(sought, query) ==
    /\ phase \in {"idle", "done", "failed"} /\ served < MaxRequests
    /\ texts' = sought /\ asQuery' = query
    /\ served' = served + 1
    /\ todo' = <<>> /\ tries' = 0 /\ rounds' = 0

\* embed_texts of a batch of the indexer; a single text may be in memory.
EmbedTexts ==
    \E batch \in Batches :
        /\ Begin(batch, FALSE)
        /\ IF Len(batch) = 1 /\ batch[1].id \in ToSet(cached)
           THEN phase' = "done" /\ vectors' = <<[text |-> 1, from |-> 1, to |-> batch[1].words]>>
           ELSE phase' = "batch" /\ vectors' = <<>>
        /\ spans' = <<>>
        /\ UNCHANGED <<cached, redis>>

\* embed_query: memory, then Redis, then the provider.
EmbedQuery ==
    \E query \in Queries :
        /\ Begin(<<query>>, TRUE)
        /\ LET whole == <<[text |-> 1, from |-> 1, to |-> query.words]>>
           IN  IF query.id \in ToSet(cached)
               THEN phase' = "done" /\ vectors' = whole /\ UNCHANGED cached
               ELSE \/ /\ query.id \in redis
                       /\ phase' = "done" /\ vectors' = whole
                       /\ cached' = PutQueryCache(query.id)
                    \/ /\ phase' = "batch" /\ vectors' = <<>> /\ UNCHANGED cached
        /\ spans' = <<>>
        /\ UNCHANGED redis

\* The call returns.  A single text goes into the memory cache, a query into
\* Redis as well, when Redis can be reached.
Return(result) ==
    /\ phase' = "done" /\ vectors' = result
    /\ cached' = IF Len(texts) = 1 THEN PutQueryCache(texts[1].id) ELSE cached
    /\ \/ redis' = IF asQuery THEN redis \cup {texts[1].id} ELSE redis
       \/ redis' = redis
    /\ UNCHANGED <<texts, asQuery, served>>

GiveUp ==
    /\ phase' = "failed"
    /\ UNCHANGED <<texts, asQuery, todo, spans, tries, rounds, cached, redis, served, vectors>>

Fits(span) == Words(span) <= ContextWords

\* One vector per text of the batch.
BatchAnswered ==
    /\ phase = "batch" /\ \A i \in 1 .. Len(texts) : Fits(Whole(i))
    /\ Return(AllWhole)
    /\ UNCHANGED <<todo, spans, tries, rounds>>

OneByOne ==
    /\ phase' = "single" /\ todo' = AllWhole
    /\ tries' = 0 /\ rounds' = 0 /\ spans' = <<>>
    /\ UNCHANGED <<texts, asQuery, cached, redis, served, vectors>>

\* (mutant: the vectors that did come are taken.)
BatchShortTaken ==
    /\ phase = "batch"
    /\ Return(Tail(AllWhole))
    /\ UNCHANGED <<todo, spans, tries, rounds>>

\* No vectors, or fewer than texts: ValueError, asked again, and after the
\* last try every text by itself.
BatchShort ==
    /\ phase = "batch"
    /\ IF tries < BatchRetries
       THEN /\ tries' = tries + 1
            /\ UNCHANGED <<texts, asQuery, phase, todo, spans, rounds, cached, redis, served, vectors>>
       ELSE OneByOne

BatchTooLong ==
    /\ phase = "batch" /\ \E i \in 1 .. Len(texts) : ~Fits(Whole(i))
    /\ OneByOne

\* The span is done; with the last one the parts are merged and returned.
TextAnswered ==
    /\ phase = "single" /\ Fits(Head(todo))
    /\ spans' = Append(spans, Head(todo)) /\ todo' = Tail(todo)
    /\ tries' = 0 /\ rounds' = 0
    /\ IF Len(todo) = 1
       THEN Return(spans')
       ELSE UNCHANGED <<texts, asQuery, phase, cached, redis, served, vectors>>

TextShort ==
    /\ phase = "single"
    /\ CASE tries < BatchRetries ->
            /\ tries' = tries + 1
            /\ UNCHANGED <<texts, asQuery, phase, todo, spans, rounds, cached, redis, served, vectors>>
         [] tries = BatchRetries /\ rounds < TextRetries ->
            /\ tries' = 0 /\ rounds' = rounds + 1
            /\ UNCHANGED <<texts, asQuery, phase, todo, spans, cached, redis, served, vectors>>
         [] OTHER -> GiveUp

\* The provider says the text exceeds its context: both halves by themselves.
TextSplit ==
    /\ phase = "single" /\ ~Fits(Head(todo))
    /\ IF Words(Head(todo)) < 2
       THEN GiveUp
       ELSE LET span == Head(todo)
                mid  == span.from + Words(span) \div 2
            IN  /\ todo' = <<[span EXCEPT !.to = mid - 1], [span EXCEPT !.from = mid]>> \o Tail(todo)
                /\ tries' = 0 /\ rounds' = 0
                /\ UNCHANGED <<texts, asQuery, phase, spans, cached, redis, served, vectors>>

\* Any other error of the provider passes through.
Refused == phase \in {"batch", "single"} /\ GiveUp

NextEmbedding ==
    \/ EmbedTexts \/ EmbedQuery
    \/ BatchAnswered \/ BatchShort \/ BatchTooLong
    \/ TextAnswered \/ TextShort \/ TextSplit \/ Refused

SpecEmbedding == InitEmbedding /\ [][NextEmbedding]_embedVars

-----------------------------------------------------------------------------
Span == [text : Nat, from : Nat, to : Nat]

\* Types of a call and of the caches, of which the one in memory is bounded.
EmbeddingTypeOK ==
    /\ texts \in Seq(Text) /\ asQuery \in BOOLEAN
    /\ phase \in {"idle", "batch", "single", "done", "failed"}
    /\ todo \in Seq(Span) /\ spans \in Seq(Span) /\ vectors \in Seq(Span)
    /\ tries \in 0 .. BatchRetries /\ rounds \in 0 .. TextRetries
    /\ cached \in Seq(TextIds) /\ Len(cached) <= CacheSize /\ IsInjective(cached)
    /\ redis \subseteq TextIds
    /\ served \in 0 .. MaxRequests
    /\ phase = "single" => todo # <<>>
    /\ phase # "idle" => texts # <<>>

\* Spans that begin, follow and end as the words of the texts do.
Begins(s) == s.text = 1 /\ s.from = 1

Follows(s, t) ==
    IF s.to = texts[s.text].words THEN t.text = s.text + 1 /\ t.from = 1
    ELSE t.text = s.text /\ t.from = s.to + 1

EndsAll(s) == s.text = Len(texts) /\ s.to = texts[s.text].words

Chain(list) == \A k \in DOMAIN list : k + 1 \in DOMAIN list => Follows(list[k], list[k + 1])

\* A call that returns has embedded every word of every text exactly once, in
\* order, whatever mixture of short answers, retries and halvings it took: the
\* vectors line up with the texts (the indexer zips them with its chunks) and
\* nothing was cut off (_embed_batch, _embed_text_no_truncation).
NothingTruncated ==
    phase = "done" =>
        /\ vectors # <<>> /\ Begins(vectors[1]) /\ EndsAll(vectors[Len(vectors)])
        /\ Chain(vectors)

-----------------------------------------------------------------------------
(* The inductive invariant behind it.                                      *)

\* One by one, what is embedded and what is still to be go on from each other.
TilesSoFar ==
    phase = "single" =>
        /\ \A k \in DOMAIN todo :
              todo[k].text \in DOMAIN texts /\ todo[k].to <= texts[todo[k].text].words
        /\ Chain(spans) /\ Chain(todo) /\ EndsAll(todo[Len(todo)])
        /\ IF spans = <<>> THEN Begins(todo[1])
           ELSE Begins(spans[1]) /\ Follows(spans[Len(spans)], todo[1])

EmbeddingInv == EmbeddingTypeOK /\ TilesSoFar /\ NothingTruncated
=============================================================================
