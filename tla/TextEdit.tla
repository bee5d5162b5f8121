------------------------------ MODULE TextEdit ------------------------------
(***************************************************************************)
(* apply_edits of src/fs/edit.rs: an ordered list of exact replacements.   *)
(* A text is a sequence of characters.  match_indices looks from left to   *)
(* right and goes on after the end of a match, so the matches it finds do  *)
(* not overlap; only whether there is a second one matters here.           *)
(***************************************************************************)
EXTENDS Naturals, Sequences

Occurs(text, old, n) == n + Len(old) - 1 <= Len(text) /\ SubSeq(text, n, n + Len(old) - 1) = old
Occurrences(text, old) == {n \in 1..Len(text) : Occurs(text, old, n)}
Earliest(S) == CHOOSE n \in S : \A m \in S : n <= m

MatchesFrom(text, old, n) == {m \in Occurrences(text, old) : m >= n}
First(text, old) == Earliest(MatchesFrom(text, old, 1))
Accepted(text, old) ==
    /\ old # <<>>
    /\ MatchesFrom(text, old, 1) # {}
    /\ MatchesFrom(text, old, First(text, old) + Len(old)) = {}

Replaced(text, edit) ==
    LET n == First(text, edit.old) IN
    SubSeq(text, 1, n - 1) \o edit.new \o SubSeq(text, n + Len(edit.old), Len(text))

\* What the first n edits leave, and whether all of them were accepted.
Applied(text, edits) ==
    LET after[n \in 0..Len(edits)] ==
            IF n = 0 THEN [ok |-> TRUE, text |-> text]
            ELSE IF after[n - 1].ok /\ Accepted(after[n - 1].text, edits[n].old)
            THEN [ok |-> TRUE, text |-> Replaced(after[n - 1].text, edits[n])]
            ELSE [ok |-> FALSE, text |-> text]
    IN  after[Len(edits)]
=============================================================================
