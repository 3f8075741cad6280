------------------------------ MODULE Chunking ------------------------------
(***************************************************************************)
(* chunk_document (app/research/chunking.py): one pass over the paragraphs *)
(* of a text that packs them into chunks of about MaxChars characters,     *)
(* each of which begins with the end of the one before.                    *)
(*                                                                         *)
(* A text is a sequence of headings and of paragraphs of sentences.  Of a  *)
(* sentence only its length counts and whether it ends in a stop: one that *)
(* does not can only be the last of its paragraph, and is taken for one    *)
(* sentence with what follows when a chunk is split again.  What a chunk   *)
(* holds is kept as fragments: the characters from+1 .. to of a sentence.  *)
(***************************************************************************)
EXTENDS Integers, SequencesExt, FiniteSetsExt

CONSTANTS
    Texts,      \* the inputs
    MaxChars,   \* max_chars
    Overlap     \* overlap_chars

ASSUME ChunkAssumption == MaxChars \in Nat \ {0} /\ Overlap \in Nat

\* What _paragraphs and _split_sentences leave of a text; what a heading says
\* is not part of any chunk.
Paragraphs ==
    {q \in [heading : BOOLEAN, sentences : Seq([len : Nat \ {0}, stop : BOOLEAN])] :
        q.heading <=> q.sentences = <<>>}

ASSUME TextAssumption == Texts \subseteq Seq(Paragraphs)

VARIABLES
    doc,        \* the paragraphs: [heading, sentences]
    at,         \* the paragraph that comes next
    todo,       \* pieces of the paragraph before it that are still to be packed
    current,    \* pieces of the chunk being packed
    size,       \* current_size
    lead,       \* history: the fragments of current that were carried over
    path,       \* heading_path, as numbers of paragraphs
    buckets,    \* the chunks
    chunked     \* the pass has ended

chunkVars == <<doc, at, todo, current, size, lead, path, buckets, chunked>>

Length(f) == f.to - f.from

\* " ".join, and "\n\n".join
Joined(fs) == SumFunction([i \in DOMAIN fs |-> Length(fs[i])]) + Max({Len(fs) - 1, 0})
Stacked(pieces) ==
    SumFunction([i \in DOMAIN pieces |-> Joined(pieces[i])]) + 2 * Max({Len(pieces) - 1, 0})

Sentence(f) == doc[f.p].sentences[f.s]
Whole(p, s) == [p |-> p, s |-> s, from |-> 0, to |-> doc[p].sentences[s].len]

(* --------------------- _split_oversized_paragraph ---------------------- *)

\* compact[idx : idx + max_chars], as pieces of one fragment each.
Slices(f) ==
    [k \in 1 .. (Length(f) + MaxChars - 1) \div MaxChars |->
        <<[f EXCEPT !.from = (k - 1) * MaxChars, !.to = Min({k * MaxChars, f.to})]>>]

\* One sentence of a paragraph that is too long.  A long sentence is sliced
\* only where it begins a piece.
PackSentence(acc, f) ==
    IF acc.open # <<>> /\ Joined(Append(acc.open, f)) > MaxChars
    THEN [pieces |-> Append(acc.pieces, acc.open), open |-> <<f>>]
    ELSE IF acc.open = <<>> /\ Length(f) > MaxChars
    THEN [pieces |-> acc.pieces \o Slices(f), open |-> <<>>]
    ELSE [pieces |-> acc.pieces, open |-> Append(acc.open, f)]

Pieces(p) ==
    LET all    == [s \in DOMAIN doc[p].sentences |-> Whole(p, s)]
        packed == FoldLeft(PackSentence, [pieces |-> <<>>, open |-> <<>>], all)
    IN  IF Joined(all) <= MaxChars THEN <<all>>
        ELSE IF Len(all) = 1 THEN Slices(all[1])
        ELSE IF packed.open = <<>> THEN packed.pieces
        ELSE Append(packed.pieces, packed.open)

(* -------------------------- _carryover_overlap ------------------------- *)

EndsSentence(f) == f.to = Sentence(f).len /\ Sentence(f).stop

\* The last n characters of joined fragments; text[-0:] is all of it.
LastChars(fs, n) ==
    LET End(i)   == Joined(SubSeq(fs, 1, i))
        Start(i) == End(i) - Length(fs[i])
        cut      == IF n = 0 THEN 0 ELSE Max({Joined(fs) - n, 0})
        first    == Min({i \in DOMAIN fs : End(i) > cut})
    IN  [j \in 1 .. Len(fs) - first + 1 |->
           LET f == fs[first + j - 1]
           IN [f EXCEPT !.from = @ + Max({cut - Start(first + j - 1), 0})]]

\* Where the sentences of a joined text begin.
SentenceStarts(fs) == {1} \union {i \in 2 .. Len(fs) : EndsSentence(fs[i - 1])}

\* As many whole sentences from the end as fit, at least one; of a single
\* sentence its last characters.
Carryover(fs) ==
    LET starts == SentenceStarts(fs)
        fit    == {i \in starts : Joined(SubSeq(fs, i, Len(fs))) <= Overlap}
        carry  == Min(fit \union {Max(starts)})
    IN  IF Cardinality(starts) = 1 THEN LastChars(fs, Overlap)
        ELSE SubSeq(fs, carry, Len(fs))

(* --------------------------- chunk_document ---------------------------- *)

ChunkingInit ==
    /\ doc \in Texts
    /\ at = 1
    /\ todo = <<>>
    /\ current = <<>>
    /\ size = 0
    /\ lead = <<>>
    /\ path = <<>>
    /\ buckets = <<>>
    /\ chunked = FALSE

LastOf(s, n) == SubSeq(s, Max({1, Len(s) - n + 1}), Len(s))

\* flush_bucket, and what begins the next chunk.
Bucket == [text |-> FlattenSeq(current), lead |-> Len(lead), size |-> Stacked(current),
           new  |-> Len(current) - (IF lead = <<>> THEN 0 ELSE 1),
           path |-> LastOf(path, 3)]

FlushBucket == buckets' = IF current = <<>> THEN buckets ELSE Append(buckets, Bucket)
Carried == IF current = <<>> THEN <<>> ELSE Carryover(FlattenSeq(current))

\* A heading closes the chunk; what it carried over goes under the heading.
Heading ==
    /\ todo = <<>>
    /\ at <= Len(doc)
    /\ doc[at].heading
    /\ FlushBucket
    /\ lead' = Carried
    /\ current' = IF current = <<>> THEN <<>> ELSE <<lead'>>
    /\ size' = Joined(lead')
    /\ path' = LastOf(Append(path, at), 4)
    /\ at' = at + 1
    /\ UNCHANGED <<doc, todo, chunked>>

Paragraph ==
    /\ todo = <<>>
    /\ at <= Len(doc)
    /\ ~doc[at].heading
    /\ todo' = Pieces(at)
    /\ at' = at + 1
    /\ UNCHANGED <<doc, current, size, lead, path, buckets, chunked>>

\* Mutant: the blank line between two pieces is not counted.
BareSize == size + Joined(Head(todo))

NextSize == size + Joined(Head(todo)) + (IF current = <<>> THEN 0 ELSE 2)

PieceFits ==
    /\ todo # <<>>
    /\ current = <<>> \/ NextSize <= MaxChars
    /\ current' = Append(current, Head(todo))
    /\ size' = NextSize
    /\ todo' = Tail(todo)
    /\ UNCHANGED <<doc, at, lead, path, buckets, chunked>>

\* Mutant: after the flush the loop goes on to the next piece.
PieceDropped ==
    /\ todo # <<>>
    /\ current # <<>> /\ NextSize > MaxChars
    /\ FlushBucket
    /\ lead' = Carried
    /\ current' = <<lead'>>
    /\ size' = Joined(lead')
    /\ todo' = Tail(todo)
    /\ UNCHANGED <<doc, at, path, chunked>>

\* The chunk is closed, and the piece follows what it carried over, whatever
\* the sum of the two.
PieceOverflows ==
    /\ todo # <<>>
    /\ current # <<>> /\ NextSize > MaxChars
    /\ FlushBucket
    /\ lead' = Carried
    /\ current' = <<lead', Head(todo)>>
    /\ size' = Joined(lead') + Joined(Head(todo)) + 2
    /\ todo' = Tail(todo)
    /\ UNCHANGED <<doc, at, path, chunked>>

FinishChunks ==
    /\ todo = <<>>
    /\ at > Len(doc)
    /\ ~chunked
    /\ FlushBucket
    /\ lead' = Carried
    /\ current' = IF current = <<>> THEN <<>> ELSE <<lead'>>
    /\ size' = Joined(lead')
    /\ chunked' = TRUE
    /\ UNCHANGED <<doc, at, todo, path>>

ChunkingNext == Heading \/ Paragraph \/ PieceFits \/ PieceOverflows \/ FinishChunks

ChunkingSpec == ChunkingInit /\ [][ChunkingNext]_chunkVars

(* ----------------------------- Properties ------------------------------ *)

NewText(b) == SubSeq(b.text, b.lead + 1, Len(b.text))

\* The new text of the chunk being packed; the last one is closed.
OpenText ==
    IF chunked THEN <<>>
    ELSE SubSeq(FlattenSeq(current), Len(lead) + 1, Len(FlattenSeq(current)))

\* The text packed so far, or about to be, without what was carried over.
Packed ==
    FlattenSeq([k \in DOMAIN buckets |-> NewText(buckets[k])]) \o OpenText \o FlattenSeq(todo)

Before(f, g) == \/ f.p < g.p
                \/ f.p = g.p /\ f.s < g.s
                \/ f.p = g.p /\ f.s = g.s /\ f.to <= g.from

\* How many characters of a sentence the fragments q hold.
Held(q, p, s) ==
    SumFunction([i \in DOMAIN q |-> IF q[i].p = p /\ q[i].s = s THEN Length(q[i]) ELSE 0])

\* t is the last n headings before paragraph p, in order.
LatestHeadings(t, p, n) ==
    LET over == {h \in 1 .. p - 1 : doc[h].heading} IN
    /\ Len(t) <= n
    /\ \A i, j \in DOMAIN t : i < j => t[i] < t[j]
    /\ ToSet(t) \subseteq over
    /\ \A h \in over \ ToSet(t) : Len(t) = n /\ h < t[1]

\* The chunks hold the text: every sentence of every paragraph read so far is
\* there once, in order, the rest of a chunk is literally the end of the one
\* before, and no new text stands under another heading than its own.
ChunksTile ==
    /\ \A i, j \in DOMAIN Packed : i < j => Before(Packed[i], Packed[j])
    /\ \A p \in 1 .. at - 1 : \A s \in DOMAIN doc[p].sentences :
         Held(Packed, p, s) = doc[p].sentences[s].len
    /\ \A k \in DOMAIN buckets :
         LET over == SubSeq(buckets[k].text, 1, buckets[k].lead)
         IN over = IF k = 1 THEN <<>> ELSE LastChars(buckets[k - 1].text, Joined(over))
    /\ \A k \in DOMAIN buckets : \A i \in DOMAIN NewText(buckets[k]) :
         LatestHeadings(buckets[k].path, NewText(buckets[k])[i].p, 3)

\* The length the loop keeps is that of the open chunk, and it closes in time:
\* a chunk is larger than MaxChars only if a single new piece made it so, a
\* piece only if it is one sentence that followed another, and what is carried
\* over is larger than Overlap only if it is one sentence.  A chunk without
\* new text only repeats what stands before a heading.
ChunksBounded ==
    /\ size = Stacked(current)
    /\ \A k \in DOMAIN buckets : LET b == buckets[k] over == SubSeq(b.text, 1, b.lead) IN
        /\ b.size > MaxChars => b.new <= 1
        /\ b.new = 1 /\ Joined(NewText(b)) > MaxChars =>
             /\ Len(NewText(b)) = 1
             /\ NewText(b)[1].s > 1
        /\ Joined(over) <= Overlap \/ Cardinality(SentenceStarts(over)) = 1
        /\ b.new = 0 => doc[Last(over).p + 1].heading

(* ----------- The invariant that the proofs of these rest on ------------ *)

Fragments == {f \in [p : Nat, s : Nat, from : Nat, to : Nat] : f.from < f.to}

Chunks == [text : Seq(Fragments), lead : Nat, size : Nat, new : Nat, path : Seq(Nat)]

ChunkingTypeOK ==
    /\ doc \in Seq(Paragraphs)
    /\ at \in 1 .. Len(doc) + 1
    /\ todo \in Seq(Seq(Fragments) \ {<<>>})
    /\ current \in Seq(Seq(Fragments) \ {<<>>})
    /\ size \in Nat
    /\ lead \in Seq(Fragments)
    /\ path \in Seq(Nat)
    /\ buckets \in Seq(Chunks)
    /\ chunked \in BOOLEAN

\* How many pieces of the open chunk are new.
NewPieces == Len(current) - (IF lead = <<>> THEN 0 ELSE 1)
IsNew(i) == i \in DOMAIN current /\ (lead = <<>> \/ i > 1)

LastParagraph == Last(Last(current)).p

\* A piece is too large only if it is one sentence that follows another.
WellCut(piece) == Joined(piece) > MaxChars => Len(piece) = 1 /\ piece[1].s > 1

\* No more than Overlap is carried over, or one sentence.
WellCarried(over) == Joined(over) <= Overlap \/ Cardinality(SentenceStarts(over)) = 1

\* The open chunk begins with the end of the last one.
LeadKept ==
    /\ current = <<>> => buckets = <<>>
    /\ buckets = <<>> => lead = <<>>
    /\ buckets # <<>> => /\ lead # <<>>
                         /\ Head(current) = lead
                         /\ lead = LastChars(Last(buckets).text, Joined(lead))
    /\ WellCarried(lead)

SizeKept ==
    /\ size = Stacked(current)
    /\ size > MaxChars => NewPieces <= 1

PiecesWellCut ==
    /\ \A i \in DOMAIN todo : WellCut(todo[i])
    /\ \A i \in DOMAIN current : IsNew(i) => WellCut(current[i])

\* What is packed, or about to be, under the headings read last.
PlacesKept ==
    /\ LatestHeadings(path, at, 4)
    /\ \A i \in DOMAIN todo : \A j \in DOMAIN todo[i] : todo[i][j].p = at - 1
    /\ todo # <<>> => at > 1 /\ ~doc[at - 1].heading
    /\ chunked => todo = <<>> /\ at > Len(doc)
    /\ ~chunked => \A i \in DOMAIN OpenText :
         /\ OpenText[i].p \in 1 .. at - 1
         /\ \A h \in OpenText[i].p .. at - 1 : ~doc[h].heading
    /\ ~chunked /\ current # <<>> /\ NewPieces = 0 => doc[LastParagraph + 1].heading
    /\ ~chunked /\ todo = <<>> /\ NewPieces > 0 => LastParagraph = at - 1

TextKept ==
    /\ \A i \in DOMAIN Packed : Packed[i].p < at
    /\ \A i, j \in DOMAIN Packed : i < j => Before(Packed[i], Packed[j])
    /\ \A p \in 1 .. at - 1 : \A s \in DOMAIN doc[p].sentences :
         Held(Packed, p, s) = doc[p].sentences[s].len

\* What the properties say of the chunk b, the last of bs.
ChunkSound(b, bs) ==
    LET over == SubSeq(b.text, 1, b.lead) IN
    /\ over = IF Len(bs) = 1 THEN <<>> ELSE LastChars(bs[Len(bs) - 1].text, Joined(over))
    /\ \A i \in DOMAIN NewText(b) : LatestHeadings(b.path, NewText(b)[i].p, 3)
    /\ b.size > MaxChars => b.new <= 1
    /\ b.new = 1 => WellCut(NewText(b))
    /\ WellCarried(over)
    /\ b.new = 0 => doc[Last(over).p + 1].heading

ChunksSound == \A k \in DOMAIN buckets : ChunkSound(buckets[k], SubSeq(buckets, 1, k))

ChunkingInv ==
    /\ ChunkingTypeOK
    /\ LeadKept
    /\ SizeKept
    /\ PiecesWellCut
    /\ PlacesKept
    /\ TextKept
    /\ ChunksSound
=============================================================================
