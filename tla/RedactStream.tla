----------------------------- MODULE RedactStream -----------------------------
(***************************************************************************)
(* The redactor and its chunk-boundary-safe stream, on texts that are      *)
(* sequences of characters; Mark stands for a [REDACTED:name] marker.      *)
(***************************************************************************)
EXTENDS Naturals, Sequences, FiniteSets, SequencesExt

CONSTANT Mark

\* The starts of the occurrences of needle in text.
Found(needle, text) ==
  {i \in 1..(Len(text) - Len(needle) + 1) : SubSeq(text, i, i + Len(needle) - 1) = needle}

\* str.replace: from the left, never overlapping.
Replace(text, needle) ==
  LET at == Found(needle, text)
      from[i \in 1..(Len(text) + 1)] ==
        IF i > Len(text) THEN <<>>
        ELSE IF i \in at THEN <<Mark>> \o from[i + Len(needle)]
        ELSE <<text[i]>> \o from[i + 1] IN
    from[1]

Shortest(needles) == CHOOSE n \in needles : \A m \in needles : Len(n) <= Len(m)

\* Redactor.literals are replaced longest first, so the shortest comes last.
Redact(needles, text) ==
  MapThenFoldSet(LAMBDA n, replaced : Replace(replaced, n), text, LAMBDA n : n, Shortest, needles)

Biggest(S) == CHOOSE n \in S : \A m \in S : m <= n

\* The longest tail of text that is a proper prefix of a needle.
Hold(needles, text) ==
  Biggest({0} \union {k \in 1..Len(text) : \E needle \in needles :
            k < Len(needle) /\ SubSeq(text, Len(text) - k + 1, Len(text)) = SubSeq(needle, 1, k)})

\* The starts of the complete matches that cut would break.
Straddling(needles, raw, cut) ==
  UNION {{i \in Found(needle, raw) : i <= cut /\ cut < i + Len(needle) - 1} : needle \in needles}

\* Mutant: the boundary is drawn behind the held tail, whatever it cuts in half.
KeepNothing(needles, raw, cut) == cut

\* cut moved back until it breaks no complete match.
KeepMatchesWhole(needles, raw, cut) ==
  LET keep[c \in 0..cut] ==
        LET broken == Straddling(needles, raw, c) IN
          IF broken = {} THEN c ELSE keep[(CHOOSE i \in broken : \A j \in broken : i <= j) - 1] IN
    keep[cut]

\* feed: what is released and what stays pending.
Feed(needles, pending, text) ==
  LET raw == pending \o text
      cut == KeepMatchesWhole(needles, raw, Len(raw) - Hold(needles, raw)) IN
    [out |-> Redact(needles, SubSeq(raw, 1, cut)), pending |-> SubSeq(raw, cut + 1, Len(raw))]
==============================================================================
