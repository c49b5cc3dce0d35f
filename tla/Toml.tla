-------------------------------- MODULE Toml --------------------------------
(* _toml_escape of the two renderers, which write one and the same basic   *)
(* string, and how a TOML reader takes such a string.                      *)
EXTENDS Integers, Sequences, SequencesExt

CONSTANTS
    Quote, Backslash,  \* the two characters that have to be escaped
    Newline, LetterN,  \* a newline, and the letter that stands for it
    Tab, LetterT,      \* the same of a tab
    Control            \* the other control characters and DEL

ASSUME CharsAssumption ==
    /\ Quote \notin {Backslash, Newline, LetterN, Tab, LetterT, Control}
    /\ Backslash \notin {Newline, LetterN, Tab, LetterT, Control}
    /\ Newline \notin {LetterN, Tab, LetterT, Control}
    /\ LetterN \notin {Tab, LetterT, Control} /\ Tab \notin {LetterT, Control}

Refuses(v, newlines) ==
    \E i \in DOMAIN v : v[i] = Control \/ (v[i] = Newline /\ ~newlines)

\* Mutant: a backslash is left alone.
EscapedQuoteOnly(c) == IF c = Quote THEN <<Backslash, c>> ELSE <<c>>
EscapedChar(c) ==
    CASE c \in {Quote, Backslash} -> <<Backslash, c>>
      [] c = Newline -> <<Backslash, LetterN>>
      [] c = Tab -> <<Backslash, LetterT>>
      [] OTHER -> <<c>>

\* The string between its quotes; meant for values that are not refused.
Escape(v) ==
    <<Quote>> \o FlattenSeq([i \in DOMAIN v |-> EscapedChar(v[i])]) \o <<Quote>>

\* What a reader takes the character after a backslash for.
Unescaped(c) ==
    CASE c = LetterN -> Newline
      [] c = LetterT -> Tab
      [] OTHER -> c

\* A reader at position i of a string: <<value>>, or <<>> when what is there
\* is no basic string.  It must end with the text: a quote before that would
\* close the value early and leave the rest to be read as TOML.
Reads(t) ==
    LET From[i \in 1 .. Len(t) + 2] ==
          IF i > Len(t) \/ t[i] \in {Newline, Control} THEN <<>>
          ELSE IF t[i] = Quote THEN IF i = Len(t) THEN <<<<>>>> ELSE <<>>
          ELSE IF t[i] = Backslash /\ i = Len(t) THEN <<>>
          ELSE LET esc == t[i] = Backslash
                   char == IF esc THEN Unescaped(t[i + 1]) ELSE t[i]
                   rest == From[IF esc THEN i + 2 ELSE i + 1]
               IN IF rest = <<>> THEN <<>> ELSE <<<<char>> \o rest[1]>>
    IN IF t = <<>> \/ t[1] # Quote THEN <<>> ELSE From[2]
=============================================================================
