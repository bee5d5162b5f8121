---------------------------- MODULE ContentPages ----------------------------
(***************************************************************************)
(* content_page of src/fetch/mod.rs: one page of a text, with a hint where *)
(* the next one starts.  A text is the sequence of the sizes, in bytes, of *)
(* its characters; positions count characters from 0, as in the code.      *)
(***************************************************************************)
EXTENDS Integers, Sequences, FiniteSets

CONSTANTS
    HintText,       \* bytes of a hint without its number
    MaxDigits       \* bound: no position has more digits than this and one

ASSUME HintAssumption == HintText \in Nat /\ MaxDigits \in Nat

\* UTF-8
IsText(text) == text \in Seq(1..4)

\* One pair for every byte of the characters from position i up to j.
Bytes(text, i, j) == Cardinality({at \in (i + 1..j) \X (1..4) : at[2] <= text[at[1]]})

Digits(n) == 1 + Cardinality({d \in 1..MaxDigits : 10^d <= n})
HintSize(next) == HintText + Digits(next)
More(text, n) == n < Len(text)

\* The page may hold the n characters from start: they fit, and so does the
\* hint that is needed when they are not the last.
Fits(text, start, n, budget) ==
    Bytes(text, start, start + n) + (IF More(text, start + n) THEN HintSize(start + n) ELSE 0)
        <= budget

\* Characters are taken one by one up to the first that does not fit.
Wanted(text, start, max) == IF Len(text) - start < max THEN Len(text) - start ELSE max
Overflow(text, start, max, budget) ==
    {n \in 1..Wanted(text, start, max) : ~Fits(text, start, n, budget)}
Least(S) == CHOOSE n \in S : \A m \in S : n <= m
Returned(text, start, max, budget) ==
    IF start >= Len(text) THEN 0
    ELSE IF Overflow(text, start, max, budget) = {} THEN Wanted(text, start, max)
    ELSE Least(Overflow(text, start, max, budget)) - 1

NextOfMax(text, start, max, budget) == start + max     \* mutant: what was asked for
Next(text, start, max, budget) == start + Returned(text, start, max, budget)

\* The hint, if any: it is dropped when it does not fit behind the page.
HasHint(text, start, max, budget) ==
    /\ start < Len(text)
    /\ More(text, start + Returned(text, start, max, budget))
    /\ Bytes(text, start, start + Returned(text, start, max, budget))
         + HintSize(start + Returned(text, start, max, budget)) <= budget
=============================================================================
