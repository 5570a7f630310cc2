------------------------------ MODULE SpokenText ------------------------------
(***************************************************************************)
(* How a text is cut into the segments that are spoken one by one          *)
(* (tts/infra/pipeline.py, parser, segmenter).  A text is a sequence of    *)
(* words with what follows each: "stop" and "comma" (with a blank behind), *)
(* "space", "point" (a point with no blank, as in a number) or "joined".   *)
(* local: a digit or letter that has a recording.  The parser makes one    *)
(* part of a text, without pauses, so that the merger has nothing to       *)
(* merge; rewriting numbers and names as words is left out.  Lengths are   *)
(* counted in words.                                                       *)
(***************************************************************************)
EXTENDS Integers, SequencesExt, Stepwise

CONSTANT LongestPiece   \* 298

ASSUME LongestAssumption == LongestPiece \in Nat \ {0}

Marks == {"stop", "comma", "space", "point", "joined"}
Words == [local : BOOLEAN, end : Marks]

Highest(S) == CHOOSE i \in S : \A j \in S : i >= j

\* _find_split_position sees no more than the slice: a point at its end looks like
\* the end of a sentence.
Stops(text, slice) ==
    {i \in slice : text[i].end = "stop" \/ (text[i].end = "point" /\ i = Highest(slice))}
AllWith(text, slice, end) == {i \in slice : text[i].end = end}

\* text_token_splitter: after a sentence, a comma or a word, or else anywhere.
SplitAfter(text, from) ==
    LET slice == from .. from + LongestPiece - 1
        commas == AllWith(text, slice, "comma")
        spaces == AllWith(text, slice, "space")
        places == IF Stops(text, slice) # {} THEN Stops(text, slice)
                  ELSE IF commas # {} THEN commas
                  ELSE IF spaces # {} THEN spaces ELSE slice
    IN  Highest(places)

\* The pieces, each as its first and its last word: what is left is cut again.
Pieces(text) ==
    LET Cut(pieces, k) ==
          LET from == IF pieces = << >> THEN 1 ELSE pieces[Len(pieces)][2] + 1
          IN  IF from > Len(text) THEN pieces
              ELSE IF Len(text) - from < LongestPiece
              THEN Append(pieces, <<from, Len(text)>>)
              ELSE Append(pieces, <<from, SplitAfter(text, from)>>)
    IN  Stepwise(Cut, << >>, Len(text))

\* The words between commas.
Tokens(text, piece) ==
    LET Add(tokens, k) ==
          LET i == piece[1] + k - 1
          IN  IF k = 1 \/ text[i - 1].end = "comma" THEN Append(tokens, <<i>>)
              ELSE [tokens EXCEPT ![Len(tokens)] = @ \o <<i>>]
    IN  Stepwise(Add, << >>, piece[2] - piece[1] + 1)

\* get_wav_key: a token is local if it is one recorded sound.
IsLocal(text, token) == Len(token) = 1 /\ text[token[1]].local

\* split_and_classify: tokens of a kind that follow one another are one segment.
Groups(text, tokens) ==
    LET Add(groups, k) ==
          IF k > 1 /\ IsLocal(text, tokens[k]) = IsLocal(text, tokens[k - 1])
          THEN [groups EXCEPT ![Len(groups)] = @ \o tokens[k]]
          ELSE Append(groups, tokens[k])
    IN  Stepwise(Add, << >>, Len(tokens))

\* process: the segments of a text, each as its words; none is empty.
Segments(text) ==
    LET pieces == Pieces(text)
    IN  FlattenSeq([p \in DOMAIN pieces |-> Groups(text, Tokens(text, pieces[p]))])
=============================================================================
