---------------------------- MODULE ContentChunks ----------------------------
(***************************************************************************)
(* One document on its way into the index: the markdown elements become    *)
(* blocks (content/parsing/parser.py) and the blocks are gathered into     *)
(* chunks (content/parsing/chunker.py), one block per step.                *)
(* An element is a record: its markdown kind, the type its wording         *)
(* suggests, its length in tokens, the alphanumeric characters it holds,   *)
(* and the features the parser looks for.                                  *)
(***************************************************************************)
EXTENDS Numbering, Sequences, SequencesExt

CONSTANTS
    Elements,          \* the markdown elements documents are made of
    MaxElements,       \* bound: elements of a document
    TargetTokens,      \* chunk_target_tokens
    OverlapTokens,     \* chunk_overlap_tokens
    MinSignal,         \* min_text_chars_for_chunk
    MathFloor          \* the 8 characters a chunk with mathematics needs

VARIABLES
    parsedBlocks,      \* the parsed document
    upcoming,          \* position of the next block to read
    currentBlocks,     \* positions of the blocks gathered for the next chunk
    currentHeading,    \* position of the heading they are under, 0 before the first
    builtChunks,       \* the chunks built, each [blocks, title, type]
    droppedBlocks      \* positions flushed in a group without enough signal

chunkVars == <<parsedBlocks, upcoming, currentBlocks, currentHeading, builtChunks, droppedBlocks>>

StructuralTypes == {"image", "table", "code_block", "html_block", "math_block"}
BlockTypes == StructuralTypes \cup {"heading", "paragraph", "blockquote", "list"}
TypePriority == <<"definition", "theorem", "proof", "example", "checkpoint", "exercise", "concept">>
AtomicTypes == {TypePriority[i] : i \in 1 .. 6}
ChunkTypes == AtomicTypes \cup {"concept"}

ChunkSettings ==
    /\ Elements \subseteq
           [kind : {"heading", "paragraph", "blockquote", "list", "table", "fence", "html", "hr"},
            ctype : ChunkTypes, tokens : Nat, signal : Nat,
            math : {"none", "inline", "block"}, image : {"none", "inline", "leading", "only"},
            caption : BOOLEAN]
    /\ MaxElements \in Nat
    /\ TargetTokens \in Nat \ {0} /\ OverlapTokens \in Nat
    /\ MinSignal \in Nat /\ MathFloor \in Nat

-----------------------------------------------------------------------------
(* The parser.                                                             *)

\* A paragraph that starts with an image, or holds nothing but images.
ImageOnly(e) == e.image \in {"leading", "only"}

ContainerType(e) ==
    IF e.kind \in {"table", "blockquote", "list"} THEN e.kind
    ELSE IF ImageOnly(e) THEN "image"
    ELSE IF e.math = "block" THEN "math_block" ELSE "paragraph"

\* A thematic break and whatever else commonmark leaves as a single token.
FallbackType(e) ==
    IF e.math = "block" THEN "math_block"
    ELSE IF e.image # "none" THEN "image" ELSE "paragraph"

BlockType(e) ==
    CASE e.kind = "heading" -> "heading"
      [] e.kind \in {"paragraph", "blockquote", "list", "table"} -> ContainerType(e)
      [] e.kind = "fence"   -> "code_block"
      [] e.kind = "html"    -> IF e.image # "none" THEN "image" ELSE "html_block"
      [] OTHER              -> FallbackType(e)

\* parse_markdown_blocks: code and HTML are "concept" whatever they say.
ParsedBlock(e) ==
    [type    |-> BlockType(e),
     ctype   |-> IF e.kind \in {"fence", "html"} THEN "concept" ELSE e.ctype,
     tokens  |-> e.tokens,
     signal  |-> e.signal,
     math    |-> e.math,
     caption |-> e.caption]

Block == [type : BlockTypes, ctype : ChunkTypes, tokens : Nat, signal : Nat,
          math : {"none", "inline", "block"}, caption : BOOLEAN]

\* A caption paragraph right after an image becomes part of the image block.
Captioned(image, caption) ==
    [image EXCEPT !.tokens = @ + caption.tokens,
                  !.signal = @ + caption.signal,
                  !.math   = IF @ = "none" THEN caption.math ELSE @]

\* The i-th block is the caption of the image before it.
JoinsImage(list, i) ==
    /\ i - 1 \in DOMAIN list /\ list[i - 1].type = "image"
    /\ list[i].type = "paragraph" /\ list[i].caption

MergeImageCaptions(list) ==
    LET merged == [i \in DOMAIN list |->
                      IF i + 1 \in DOMAIN list /\ JoinsImage(list, i + 1)
                      THEN Captioned(list[i], list[i + 1]) ELSE list[i]]
    IN  Kept(merged, {i \in DOMAIN list : ~JoinsImage(list, i)})

ParseMarkdownBlocks(document) ==
    MergeImageCaptions([i \in 1 .. Len(document) |-> ParsedBlock(document[i])])

-----------------------------------------------------------------------------
(* The chunker.                                                            *)

\* The sum of a sequence of amounts, counted one by one.
Total(amounts) == Cardinality(UNION {{n} \X (1 .. amounts[n]) : n \in DOMAIN amounts})

Tokens(group) == Total([n \in DOMAIN group |-> parsedBlocks[group[n]].tokens])
Signal(group) == Total([n \in DOMAIN group |-> parsedBlocks[group[n]].signal])

Atomic(p) == parsedBlocks[p].type \in StructuralTypes \/ parsedBlocks[p].ctype \in AtomicTypes

\* The longest tail of the flushed group, none of it atomic, that fits in the
\* overlap.
Rest(group, k) == SubSeq(group, k, Len(group))
FitsOverlap(group, k) ==
    /\ \A i \in k .. Len(group) : ~Atomic(group[i])
    /\ Tokens(Rest(group, k)) <= OverlapTokens
OverlapSeed(group) ==
    IF OverlapTokens = 0 THEN <<>>
    ELSE Rest(group, CHOOSE k \in 1 .. Len(group) + 1 :
                         /\ FitsOverlap(group, k)
                         /\ \A j \in 1 .. k - 1 : ~FitsOverlap(group, j))

\* _dominant_chunk_type
DominantType(group) ==
    LET present == {i \in DOMAIN TypePriority :
                       \E n \in DOMAIN group : parsedBlocks[group[n]].ctype = TypePriority[i]}
    IN  TypePriority[CHOOSE i \in present : \A j \in present : i <= j]

\* _build_chunk gives up on a group that says too little.
EnoughSignal(group) ==
    LET mathematical == \E i \in DOMAIN group : parsedBlocks[group[i]].math # "none"
    IN  Signal(group) >= IF mathematical THEN MathFloor ELSE MinSignal

\* What a flush makes of a group: a chunk, or nothing.
Chunk(group) ==
    IF group # <<>> /\ EnoughSignal(group)
    THEN <<[blocks |-> group, title |-> currentHeading, type |-> DominantType(group)]>> ELSE <<>>
Unsaid(group) == IF EnoughSignal(group) THEN {} ELSE ToSet(group)

Close(group) ==
    /\ builtChunks' = builtChunks \o Chunk(group)
    /\ droppedBlocks' = droppedBlocks \cup Unsaid(group)

\* Two groups flushed in one step: the gathered blocks, then an atomic block.
CloseBoth(group, p) ==
    /\ builtChunks' = builtChunks \o (Chunk(group) \o Chunk(<<p>>))
    /\ droppedBlocks' = droppedBlocks \cup Unsaid(group) \cup Unsaid(<<p>>)

InitDocument(document) ==
    /\ parsedBlocks = ParseMarkdownBlocks(document)
    /\ upcoming = 1 /\ currentBlocks = <<>> /\ currentHeading = 0
    /\ builtChunks = <<>> /\ droppedBlocks = {}

InitChunks == \E n \in 0 .. MaxElements : \E document \in [1 .. n -> Elements] : InitDocument(document)

AtHeading == upcoming <= Len(parsedBlocks) /\ parsedBlocks[upcoming].type = "heading"
AtText == upcoming <= Len(parsedBlocks) /\ parsedBlocks[upcoming].type # "heading"

\* A heading closes the group; the overlap of the group goes on under the new
\* heading.  A heading without text leaves the old one in force.
ReadHeading ==
    /\ AtHeading
    /\ IF currentBlocks = <<>>
       THEN UNCHANGED <<currentBlocks, builtChunks, droppedBlocks>>
       ELSE Close(currentBlocks) /\ currentBlocks' = OverlapSeed(currentBlocks)
    /\ currentHeading' = IF parsedBlocks[upcoming].signal > 0 THEN upcoming ELSE currentHeading
    /\ upcoming' = upcoming + 1
    /\ UNCHANGED parsedBlocks

StandsAlone(p) == Atomic(p) \/ parsedBlocks[p].tokens >= TargetTokens

\* (mutant: the gathered blocks are not flushed before the atomic block.)
ReadAloneUnflushed ==
    /\ AtText /\ StandsAlone(upcoming)
    /\ CloseBoth(<<>>, upcoming)
    /\ currentBlocks' = <<>>
    /\ upcoming' = upcoming + 1
    /\ UNCHANGED <<parsedBlocks, currentHeading>>

\* A structural, atomic or oversized block is a chunk of its own.
ReadAlone ==
    /\ AtText /\ StandsAlone(upcoming)
    /\ CloseBoth(currentBlocks, upcoming)
    /\ currentBlocks' = <<>>
    /\ upcoming' = upcoming + 1
    /\ UNCHANGED <<parsedBlocks, currentHeading>>

\* _should_flush; its second condition needs two structural blocks in a row,
\* which ReadAlone never leaves in the gathered group.
ShouldFlush(p) == Tokens(currentBlocks) + parsedBlocks[p].tokens > TargetTokens

ReadProse ==
    /\ AtText /\ ~StandsAlone(upcoming)
    /\ IF currentBlocks # <<>> /\ ShouldFlush(upcoming)
       THEN Close(currentBlocks) /\ currentBlocks' = Append(OverlapSeed(currentBlocks), upcoming)
       ELSE currentBlocks' = Append(currentBlocks, upcoming) /\ UNCHANGED <<builtChunks, droppedBlocks>>
    /\ upcoming' = upcoming + 1
    /\ UNCHANGED <<parsedBlocks, currentHeading>>

\* The flush after the last block leaves no overlap behind.
FlushRest ==
    /\ upcoming > Len(parsedBlocks) /\ currentBlocks # <<>>
    /\ Close(currentBlocks)
    /\ currentBlocks' = <<>>
    /\ UNCHANGED <<parsedBlocks, upcoming, currentHeading>>

NextChunks == ReadHeading \/ ReadAlone \/ ReadProse \/ FlushRest

SpecChunks == InitChunks /\ [][NextChunks]_chunkVars

-----------------------------------------------------------------------------
\* A chunk of a document is made of some of its blocks.
ChunkOf(document) ==
    [blocks : Seq(DOMAIN document) \ {<<>>}, title : 0 .. Len(document), type : ChunkTypes]

ChunksTypeOK ==
    /\ parsedBlocks \in Seq(Block)
    /\ upcoming \in 1 .. Len(parsedBlocks) + 1
    /\ currentBlocks \in Seq(DOMAIN parsedBlocks)
    /\ currentHeading \in 0 .. Len(parsedBlocks)
    /\ builtChunks \in Seq(ChunkOf(parsedBlocks))
    /\ droppedBlocks \subseteq DOMAIN parsedBlocks

\* Every block read so far is a heading, waits in the current group, is part of
\* a chunk, or was flushed in a group with too little signal.
EveryBlockOffered ==
    \A p \in 1 .. upcoming - 1 :
        \/ parsedBlocks[p].type = "heading"
        \/ p \in ToSet(currentBlocks) \cup droppedBlocks
        \/ \E chunk \in ToSet(builtChunks) : p \in ToSet(chunk.blocks)

\* A group is one block, or within the target, or shorter than target and
\* overlap together; and it is in reading order.
WithinBudget(group) ==
    /\ \/ Len(group) = 1
       \/ Tokens(group) <= TargetTokens
       \/ Tokens(group) < TargetTokens + OverlapTokens
    /\ \A j, k \in DOMAIN group : j < k => group[j] < group[k]

\* No text of a document is lost on the way into the index (the flushes of
\* split_markdown_into_chunks, before the current group is replaced).  What the
\* embedding model is given stays bounded although the overlap of one chunk is
\* put in front of the next without asking _should_flush again; and the
\* overlap repeats blocks, it never reorders them.
ChunksHoldDocument ==
    /\ EveryBlockOffered
    /\ \A chunk \in ToSet(builtChunks) : WithinBudget(chunk.blocks)
=============================================================================
