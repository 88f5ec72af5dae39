---------------------------- MODULE ThreadSplit ----------------------------
(***************************************************************************)
(* How a thread's text becomes posts (thread.rs).  A text is a sequence of *)
(* graphemes, told apart only into white space and the rest, so a piece of *)
(* it is an interval of its positions.  Limit stands for                   *)
(* MAX_POST_GRAPHEMES and Base for the ten of decimal numbering: small     *)
(* values of both make a thread cross a digit boundary after few posts.    *)
(***************************************************************************)
EXTENDS SequencesExt, Integers

CONSTANTS Limit, Base

ASSUME SplitAssumption == /\ Limit \in Nat \ {0}
                          /\ Base \in Nat \ {0, 1}

Letter == "x"
Space  == " "

Letters(text, from) == {i \in from..Len(text) : text[i] # Space}

Highest(S) == CHOOSE i \in S : \A j \in S : j <= i
Lowest(S)  == CHOOSE i \in S : \A j \in S : i <= j

\* Mutant: the interval is taken to end before its last grapheme.
ShortChunk(text, from, to) ==
  [from |-> from, to |-> Highest(Letters(text, from) \cap from..(IF to > from THEN to - 1 ELSE to))]

\* push_chunk: the interval without the white space at its end.  It starts at a
\* letter, so nothing is trimmed there and it is never empty.
Chunk(text, from, to) ==
  [from |-> from, to |-> Highest(Letters(text, from) \cap from..to)]

\* Where a chunk of at most max graphemes may end before white space.
Breaks(text, first, max) ==
  {i \in first + 1..first + max : text[i] = Space}

\* split_into_chunks with at most max graphemes a chunk: from each letter on,
\* take the rest if it fits, else up to the last white space, else all that fits.
Chunks(text, max) ==
  LET from[start \in 1..Len(text) + 1] ==
        IF Letters(text, start) = {} THEN <<>>
        ELSE LET first  == Lowest(Letters(text, start))
                 fits   == Len(text) - first < max
                 breaks == Breaks(text, first, max)
                 next   == IF breaks = {} THEN first + max ELSE Highest(breaks)
             IN  IF fits THEN <<Chunk(text, first, Len(text))>>
                 ELSE <<Chunk(text, first, next - 1)>> \o from[next]
  IN  from[1]

Larger(m, n) == IF m < n THEN n ELSE m

\* split_all: the chunks of every piece, leaving `reserve` graphemes of each post
\* free.
SplitAll(pieces, reserve) ==
  LET max == Larger(Limit - reserve, 1)
      tagged(p) == LET chunks == Chunks(pieces[p], max)
                   IN  [i \in 1..Len(chunks) |->
                          [piece |-> p, from |-> chunks[i].from, to |-> chunks[i].to]]
  IN  FlattenSeq([p \in 1..Len(pieces) |-> tagged(p)])

\* Number of digits of n.
Digits(n) == LET of[m \in 0..n] == IF m < Base THEN 1 ELSE 1 + of[m \div Base]
             IN  of[n]

\* numbering_reserve
NumberingReserve(total) == 2 + 2 * Digits(Larger(total, 1))

\* Mutant: one round of the search.
SettledOnce(pieces) ==
  SplitAll(pieces, NumberingReserve(Len(SplitAll(pieces, 0))))

\* plan_segments' search for a reserve that fits the number of posts it leads to:
\* at most Rounds rounds.
Rounds == 8
Settled(pieces) ==
  LET after[r \in 0..Rounds] ==
        IF r = 0 THEN [segments |-> SplitAll(pieces, 0), stable |-> FALSE]
        ELSE LET before == after[r - 1]
                 count  == Len(before.segments)
                 next   == SplitAll(pieces, NumberingReserve(count))
             IN  IF before.stable THEN before
                 ELSE [segments |-> next, stable |-> Len(next) = count]
  IN  after[Rounds].segments

\* plan_segments: each segment with the number of its ` i/N` suffix, 0 for none.
\* One post is left without a number.
PlanSegments(pieces, numbered) ==
  LET segments == IF numbered /\ SplitAll(pieces, 0) # <<>>
                  THEN Settled(pieces) ELSE SplitAll(pieces, 0)
  IN  [i \in 1..Len(segments) |->
         [piece |-> segments[i].piece, from |-> segments[i].from, to |-> segments[i].to,
          number |-> IF numbered /\ Len(segments) > 1 THEN i ELSE 0]]

============================================================================
