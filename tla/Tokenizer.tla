----------------------------- MODULE Tokenizer ------------------------------
(***************************************************************************)
(* How a text becomes terms (crates/openvec-core/src/fulltext/             *)
(* tokenizer.rs).  A text is a sequence of characters; a token is one too. *)
(***************************************************************************)
EXTENDS Integers, Sequences, SequencesExt

CONSTANTS
    Cjk,        \* the characters of Chinese, Japanese and Korean
    Wide,       \* other letters and digits, of several bytes each
    Narrow,     \* letters and digits of one byte
    Lower       \* lower case, a function on the letters and digits

ASSUME TokenizerAssumption == Lower \in [Wide \cup Narrow -> Wide \cup Narrow]

\* All other characters separate.
IsCjk(text, i) == i \in DOMAIN text /\ text[i] \in Cjk
IsWord(text, i) == i \in DOMAIN text /\ text[i] \in Wide \cup Narrow

\* The last position of the word that begins at i.
EndOfWord(text, i) ==
    CHOOSE j \in i .. Len(text) : (\A l \in i .. j : IsWord(text, l)) /\ ~IsWord(text, j + 1)

\* A word is dropped when it is a single byte long.
WordFrom(text, i) ==
    LET word == SubSeq(text, i, EndOfWord(text, i))
    IN  IF Len(word) = 1 /\ word[1] \in Narrow THEN <<>>
        ELSE <<[j \in DOMAIN word |-> Lower[word[j]]]>>

\* The tokens that begin at i: a CJK character and the pair with its successor,
\* or the whole word.
TokensAt(text, i) ==
    IF IsCjk(text, i)
    THEN <<<<text[i]>>>> \o (IF IsCjk(text, i + 1) THEN <<<<text[i], text[i + 1]>>>> ELSE <<>>)
    ELSE IF IsWord(text, i) /\ ~IsWord(text, i - 1) THEN WordFrom(text, i)
    ELSE <<>>

Tokenize(text) == FlattenSeq([i \in DOMAIN text |-> TokensAt(text, i)])
=============================================================================
