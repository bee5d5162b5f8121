------------------------- MODULE ProviderTurnProofs -------------------------
(***************************************************************************)
(* Theorems about ProviderTurn for every number of turns, of provider      *)
(* requests in a turn and of tool calls in a response.  The first half is  *)
(* about conversations: what a commit or a message makes of one.  IInv adds *)
(* to the properties what they rest on: the session is closed while a turn *)
(* runs, its clone extends what was retained, and a call that was sent is  *)
(* recorded, answered, or the one being waited for.                        *)
(***************************************************************************)
EXTENDS ProviderTurn, SequenceTheorems, TLAPS

-----------------------------------------------------------------------------
(* Conversations *)

LEMMA ItemTypes ==
    /\ \A calls \in Seq(Ids) : Answers(calls) \in Item /\ Outcomes(calls) \in Item
    /\ \A t \in 1..MaxRuns : Says(t) \in Item
BY DEF Answers, Outcomes, Says, Item

\* What commit_responses and commit_anthropic append: the answer, and then the
\* results of all its calls.
Committed(old, new, calls) ==
    /\ \A i \in 1..Len(old) : new[i] = old[i]
    /\ new[Len(old) + 1] = Answers(calls)
    /\ calls = <<>> => Len(new) = Len(old) + 1
    /\ calls # <<>> => Len(new) = Len(old) + 2 /\ new[Len(old) + 2] = Outcomes(calls)

LEMMA CommitShape ==
    ASSUME NEW history \in Seq(Item), NEW calls \in Seq(Ids),
           NEW new, new = Commit(history, calls, calls)
    PROVE  new \in Seq(Item) /\ Committed(history, new, calls)
<1> DEFINE answered == Append(history, Answers(calls))
<1>1. Answers(calls) \in Item /\ Outcomes(calls) \in Item
  BY ItemTypes
<1>2. /\ answered \in Seq(Item) /\ Len(answered) = Len(history) + 1
      /\ \A i \in 1..Len(history) : answered[i] = history[i]
      /\ answered[Len(history) + 1] = Answers(calls)
  BY <1>1, AppendProperties
<1>3. Len(history) \in Nat
  OBVIOUS
<1>4. CASE calls = <<>>
  <2>1. new = answered \o <<>>
    BY <1>4 DEF Commit
  <2> HIDE DEF answered
  <2>2. new = answered
    BY <1>2, <2>1, ConcatEmptySeq
  <2>3. QED
    BY <1>2, <1>4, <2>2 DEF Committed
<1>5. CASE calls # <<>>
  <2>1. new = answered \o <<Outcomes(calls)>>
    BY <1>5 DEF Commit
  <2> HIDE DEF answered
  <2> DEFINE results == <<Outcomes(calls)>>
  <2>2. results \in Seq(Item) /\ Len(results) = 1 /\ results[1] = Outcomes(calls)
    BY <1>1
  <2>3. new = answered \o results
    BY <2>1
  <2> HIDE DEF results
  <2>a. answered \in Seq(Item) /\ results \in Seq(Item)
    BY <1>2, <2>2
  <2>4. /\ new \in Seq(Item) /\ Len(new) = Len(answered) + Len(results)
        /\ \A i \in 1..Len(answered) + Len(results) :
              new[i] = IF i <= Len(answered) THEN answered[i] ELSE results[i - Len(answered)]
    BY <2>a, <2>3, ConcatProperties
  <2>5. \A i \in 1..Len(history) + 1 : new[i] = answered[i]
    BY <1>2, <1>3, <2>2, <2>4
  <2>6. Len(new) = Len(history) + 2 /\ new[Len(history) + 2] = Outcomes(calls)
    <3>1. PICK n \in Nat : n = Len(answered) /\ n = Len(history) + 1
      BY <1>2, <1>3
    <3>a. \A i \in 1..n + 1 : new[i] = IF i <= n THEN answered[i] ELSE results[i - n]
      BY <2>2, <2>4, <3>1
    <3>b. n + 1 \in 1..n + 1 /\ ~(n + 1 <= n)
      BY <3>1
    <3>2. new[n + 1] = results[(n + 1) - n] /\ Len(new) = n + 1
      BY <2>2, <2>4, <3>1, <3>a, <3>b
    <3>3. (n + 1) - n = 1 /\ n + 1 = Len(history) + 2
      BY <1>3, <3>1
    <3>4. QED
      BY <2>2, <3>2, <3>3
  <2>7. QED
    BY <1>2, <1>3, <1>5, <2>4, <2>5, <2>6 DEF Committed
<1>6. QED
  BY <1>4, <1>5

\* What append_anthropic_user_message and the responses path make of a message: its
\* own item, or the end of a trailing user item.
Takes(item, t) == [item EXCEPT !.says = Append(@, t)]
TakesTurn(old, new, t) ==
    /\ Len(new) = Len(old) + 1
    /\ \A i \in 1..Len(old) : new[i] = old[i]
    /\ new[Len(old) + 1] = Says(t)
    /\ wire = "anthropic" /\ old # <<>> => old[Len(old)].role # "user"
JoinsTurn(old, new, t) ==
    /\ old # <<>> /\ Len(new) = Len(old)
    /\ old[Len(old)].role = "user"
    /\ \A i \in 1..Len(old) - 1 : new[i] = old[i]
    /\ new[Len(old)] = Takes(old[Len(old)], t)

LEMMA MessageShape ==
    ASSUME NEW history \in Seq(Item), NEW t \in 1..MaxRuns,
           NEW new, new = AppendMessage(history, t)
    PROVE  /\ new \in Seq(Item)
           /\ TakesTurn(history, new, t) \/ JoinsTurn(history, new, t)
<1>1. CASE wire = "anthropic" /\ history # <<>> /\ Last(history).role = "user"
  <2> DEFINE n == Len(history)
             last == history[n]
  <2>1. n \in Nat \ {0} /\ n \in 1..Len(history) /\ last \in Item
    BY <1>1
  <2>2. Takes(last, t) \in Item
    <3>1. last.says \in Seq(1..MaxRuns)
      BY <2>1 DEF Item
    <3>2. Append(last.says, t) \in Seq(1..MaxRuns)
      BY <3>1, AppendProperties
    <3>3. QED
      BY <2>1, <3>2 DEF Takes, Item
  <2>3. new = [history EXCEPT ![n] = Takes(last, t)]
    BY <1>1 DEF AppendMessage, Takes, Last
  <2>4. last.role = "user"
    BY <1>1 DEF Last
  <2> HIDE DEF last
  <2>5. /\ new \in Seq(Item) /\ Len(new) = n
        /\ \A i \in 1..n : new[i] = IF i = n THEN Takes(last, t) ELSE history[i]
    BY <2>1, <2>2, <2>3, ExceptSeq
  <2>6. QED
    BY <1>1, <2>1, <2>4, <2>5 DEF last, JoinsTurn
<1>2. CASE ~(wire = "anthropic" /\ history # <<>> /\ Last(history).role = "user")
  <2>1. new = Append(history, Says(t)) /\ Says(t) \in Item
    BY <1>2, ItemTypes DEF AppendMessage
  <2>2. /\ new \in Seq(Item) /\ Len(new) = Len(history) + 1
        /\ \A i \in 1..Len(history) : new[i] = history[i]
        /\ new[Len(history) + 1] = Says(t)
    BY <2>1, AppendProperties
  <2>3. QED
    BY <1>2, <2>2 DEF Last, TakesTurn
<1>3. QED
  BY <1>1, <1>2

\* All that the lemmas below need of a sequence.
Long(s) == Len(s) \in Nat /\ DOMAIN s = 1..Len(s)

\* A batch is committed whole: what replayed still does.
LEMMA BatchReplays ==
    ASSUME NEW old, NEW new, Long(old), Long(new), NEW calls,
           Committed(old, new, calls), Replays(old)
    PROVE  Replays(new)
<1>0. PICK n \in Nat, m \in Nat :
      /\ n = Len(old) /\ m = Len(new) /\ DOMAIN old = 1..n /\ DOMAIN new = 1..m
      /\ \A i \in 1..n : new[i] = old[i]
      /\ new[n + 1] = Answers(calls)
      /\ calls = <<>> => m = n + 1
      /\ calls # <<>> => m = n + 2 /\ new[n + 2] = Outcomes(calls)
  BY DEF Committed, Long
<1>1. /\ Answers(calls).role = "assistant" /\ Answers(calls).calls = calls
      /\ Outcomes(calls).role # "assistant" /\ Outcomes(calls).calls = calls
  BY DEF Answers, Outcomes
<1>2. ASSUME NEW i \in DOMAIN new, new[i].role = "assistant", new[i].calls # <<>>
      PROVE  /\ i < Len(new)
             /\ new[i + 1].role # "assistant"
             /\ new[i + 1].calls = new[i].calls
  <2>1. CASE i <= n
    <3>1. i < n /\ old[i + 1].role # "assistant" /\ old[i + 1].calls = old[i].calls
      BY <1>0, <1>2, <2>1 DEF Replays
    <3>2. QED
      BY <1>0, <2>1, <3>1
  <2>2. CASE i = n + 1
    BY <1>0, <1>1, <1>2, <2>2
  <2>3. CASE i = n + 2
    BY <1>0, <1>1, <1>2, <2>3
  <2>4. QED
    BY <1>0, <2>1, <2>2, <2>3
<1>3. ASSUME NEW i \in DOMAIN new, new[i].role # "assistant", new[i].calls # <<>>
      PROVE  i > 1 /\ new[i - 1] = Answers(new[i].calls)
  <2>1. CASE i <= n
    <3>1. i > 1 /\ old[i - 1] = Answers(old[i].calls)
      BY <1>0, <1>3, <2>1 DEF Replays
    <3>2. QED
      BY <1>0, <2>1, <3>1
  <2>2. CASE i = n + 1
    BY <1>0, <1>1, <1>3, <2>2
  <2>3. CASE i = n + 2
    BY <1>0, <1>1, <1>3, <2>3
  <2>4. QED
    BY <1>0, <2>1, <2>2, <2>3
<1>4. QED
  BY <1>2, <1>3 DEF Replays

LEMMA MessageReplays ==
    ASSUME NEW old, NEW new, Long(old), Long(new), NEW t,
           TakesTurn(old, new, t) \/ JoinsTurn(old, new, t), Replays(old),
           \A i \in DOMAIN old : old[i] \in Item
    PROVE  Replays(new)
<1> DEFINE n == Len(old)
<1>0. n \in Nat /\ DOMAIN old = 1..n /\ DOMAIN new = 1..Len(new)
  BY DEF Long
<1>1. CASE TakesTurn(old, new, t)
  <2>1. Says(t).role # "assistant" /\ Says(t).calls = <<>>
    BY DEF Says
  <2>2. /\ Len(new) = n + 1 /\ new[n + 1] = Says(t)
        /\ \A i \in 1..n : new[i] = old[i]
    BY <1>1 DEF TakesTurn
  <2> HIDE DEF n
  <2>3. ASSUME NEW i \in DOMAIN new, new[i].role = "assistant", new[i].calls # <<>>
        PROVE  i < Len(new) /\ new[i + 1].role # "assistant" /\ new[i + 1].calls = new[i].calls
    <3>1. i \in 1..n
      BY <1>0, <2>1, <2>2, <2>3
    <3>2. i < n /\ old[i + 1].role # "assistant" /\ old[i + 1].calls = old[i].calls
      BY <1>0, <2>2, <2>3, <3>1 DEF Replays, n
    <3>3. QED
      BY <1>0, <2>2, <3>1, <3>2
  <2>4. ASSUME NEW i \in DOMAIN new, new[i].role # "assistant", new[i].calls # <<>>
        PROVE  i > 1 /\ new[i - 1] = Answers(new[i].calls)
    <3>1. i \in 1..n
      BY <1>0, <2>1, <2>2, <2>4
    <3>2. i > 1 /\ old[i - 1] = Answers(old[i].calls)
      BY <1>0, <2>2, <2>4, <3>1 DEF Replays
    <3>3. QED
      BY <1>0, <2>2, <3>1, <3>2
  <2>5. QED
    BY <2>3, <2>4 DEF Replays
<1>2. CASE JoinsTurn(old, new, t)
  <2>1. n \in 1..n /\ old[n].role = "user" /\ old[n] \in Item
    BY <1>0, <1>2 DEF JoinsTurn, Long
  <2>2. /\ Len(new) = n /\ new[n].role = "user" /\ new[n].calls = old[n].calls
        /\ \A i \in 1..n - 1 : new[i] = old[i]
    BY <1>2, <2>1 DEF JoinsTurn, Takes, Item
  <2>3. \A i \in 1..n : new[i].role = old[i].role /\ new[i].calls = old[i].calls
    BY <1>0, <2>1, <2>2
  <2> HIDE DEF n
  <2>4. ASSUME NEW i \in DOMAIN new, new[i].role = "assistant", new[i].calls # <<>>
        PROVE  i < Len(new) /\ new[i + 1].role # "assistant" /\ new[i + 1].calls = new[i].calls
    <3>1. i < n /\ old[i + 1].role # "assistant" /\ old[i + 1].calls = old[i].calls
      BY <1>0, <2>2, <2>3, <2>4 DEF Replays, n
    <3>2. i + 1 \in 1..n
      BY <1>0, <2>2, <3>1
    <3>3. QED
      BY <1>0, <2>2, <2>3, <3>1, <3>2
  <2>5. ASSUME NEW i \in DOMAIN new, new[i].role # "assistant", new[i].calls # <<>>
        PROVE  i > 1 /\ new[i - 1] = Answers(new[i].calls)
    <3>1. i > 1 /\ old[i - 1] = Answers(old[i].calls)
      BY <1>0, <2>2, <2>3, <2>5 DEF Replays
    <3>2. i - 1 \in 1..n - 1
      BY <1>0, <2>2, <3>1
    <3>3. QED
      BY <1>0, <2>2, <2>3, <3>1, <3>2
  <2>6. QED
    BY <2>4, <2>5 DEF Replays
<1>3. QED
  BY <1>1, <1>2

\* No two user items stand side by side.
Alternates(history) ==
    \A i \in 1..Len(history) - 1 :
        ~(history[i].role = "user" /\ history[i + 1].role = "user")

LEMMA BatchAlternates ==
    ASSUME NEW old, NEW new, Long(old), Long(new), NEW calls,
           Committed(old, new, calls), Alternates(old)
    PROVE  Alternates(new)
<1>0. PICK n \in Nat, m \in Nat :
      /\ n = Len(old) /\ m = Len(new)
      /\ \A i \in 1..n : new[i] = old[i]
      /\ new[n + 1] = Answers(calls)
      /\ m = n + 1 \/ m = n + 2
  BY DEF Committed, Long
<1>1. Answers(calls).role # "user"
  BY DEF Answers
<1> SUFFICES ASSUME NEW i \in 1..m - 1, new[i].role = "user", new[i + 1].role = "user"
             PROVE  FALSE
  BY <1>0 DEF Alternates
<1>2. CASE i < n
  BY <1>0, <1>2 DEF Alternates
<1>3. CASE i = n \/ i = n + 1
  BY <1>0, <1>1, <1>3
<1>4. QED
  BY <1>0, <1>2, <1>3

LEMMA MessageAlternates ==
    ASSUME NEW old, NEW new, Long(old), Long(new), NEW t, wire = "anthropic",
           TakesTurn(old, new, t) \/ JoinsTurn(old, new, t), Alternates(old),
           \A i \in DOMAIN old : old[i] \in Item
    PROVE  Alternates(new)
<1>0. PICK n \in Nat : n = Len(old) /\ DOMAIN old = 1..n
  BY DEF Long
<1>1. CASE TakesTurn(old, new, t)
  <2>1. /\ Len(new) = n + 1
        /\ \A i \in 1..n : new[i] = old[i]
        /\ n > 0 => old[n].role # "user"
    BY <1>0, <1>1 DEF TakesTurn
  <2> SUFFICES ASSUME NEW i \in 1..n, new[i].role = "user", new[i + 1].role = "user"
               PROVE  FALSE
    BY <2>1 DEF Alternates
  <2>2. CASE i < n
    BY <1>0, <2>1, <2>2 DEF Alternates
  <2>3. CASE i = n
    BY <2>1, <2>3
  <2>4. QED
    BY <2>2, <2>3
<1>2. CASE JoinsTurn(old, new, t)
  <2>1. n \in 1..n /\ old[n] \in Item
    BY <1>0, <1>2 DEF JoinsTurn, Long
  <2>2. new[n].role = old[n].role /\ Len(new) = n /\ \A i \in 1..n - 1 : new[i] = old[i]
    BY <1>0, <1>2, <2>1 DEF JoinsTurn, Takes, Item
  <2>3. \A i \in 1..n : new[i].role = old[i].role
    BY <2>1, <2>2
  <2>4. QED
    BY <1>0, <2>2, <2>3 DEF Alternates
<1>3. QED
  BY <1>1, <1>2

-----------------------------------------------------------------------------
(* What a conversation records, and what it extends *)

Extends(old, new) ==
    /\ Len(new) >= Len(old)
    /\ \A i \in 1..Len(old) :
          /\ new[i].role = old[i].role
          /\ new[i].calls = old[i].calls
          /\ IsPrefix(old[i].says, new[i].says)

LEMMA PrefixOfSelf == \A says \in Seq(1..MaxRuns) : IsPrefix(says, says)
BY DEF IsPrefix

LEMMA PrefixOfLonger ==
    ASSUME NEW says \in Seq(1..MaxRuns), NEW t \in 1..MaxRuns
    PROVE  IsPrefix(says, Append(says, t))
<1> DEFINE longer == Append(says, t)
           n == Len(says)
<1>1. /\ n \in Nat /\ longer \in Seq(1..MaxRuns) /\ Len(longer) = n + 1
      /\ \A i \in 1..n : longer[i] = says[i]
  BY AppendProperties
<1> HIDE DEF longer
<1>2. \A i \in 1..n : longer[i] \in 1..MaxRuns /\ says[i] \in 1..MaxRuns
  BY <1>1, ElementOfSeq
<1>3. /\ SubSeq(says, 1, n) = [i \in 1..n |-> says[i]]
      /\ SubSeq(longer, 1, n) = [i \in 1..n |-> longer[i]]
  BY <1>1, <1>2
<1>4. SubSeq(says, 1, n) = SubSeq(longer, 1, n)
  BY <1>1, <1>3
<1>5. QED
  BY <1>1, <1>4 DEF IsPrefix, longer

LEMMA ExtendsItself ==
    ASSUME NEW history \in Seq(Item)
    PROVE  Extends(history, history)
<1>1. \A i \in 1..Len(history) : history[i] \in Item
  BY ElementOfSeq
<1>2. \A item \in Item : IsPrefix(item.says, item.says)
  BY PrefixOfSelf DEF Item
<1>3. Len(history) \in Nat
  OBVIOUS
<1>4. QED
  BY <1>1, <1>2, <1>3 DEF Extends

LEMMA MessageExtends ==
    ASSUME NEW old \in Seq(Item), NEW new, Long(old), NEW t \in 1..MaxRuns,
           TakesTurn(old, new, t) \/ JoinsTurn(old, new, t)
    PROVE  Extends(old, new)
<1>0. PICK n \in Nat : n = Len(old) /\ DOMAIN old = 1..n
  BY DEF Long
<1>a. \A i \in 1..n : old[i] \in Item
  BY <1>0, ElementOfSeq
<1>b. \A item \in Item : IsPrefix(item.says, item.says)
  BY PrefixOfSelf DEF Item
<1>1. \A i \in 1..n : old[i] \in Item /\ IsPrefix(old[i].says, old[i].says)
  BY <1>a, <1>b
<1>2. CASE TakesTurn(old, new, t)
  BY <1>0, <1>1, <1>2 DEF TakesTurn, Extends
<1>3. CASE JoinsTurn(old, new, t)
  <2>1. n \in 1..n
    BY <1>0, <1>3 DEF JoinsTurn
  <2>2. old[n].says \in Seq(1..MaxRuns)
    BY <1>1, <2>1 DEF Item
  <2>3. new[n] = Takes(old[n], t) /\ Len(new) = n /\ \A i \in 1..n - 1 : new[i] = old[i]
    BY <1>0, <1>3 DEF JoinsTurn
  <2>4. /\ new[n].role = old[n].role
        /\ new[n].calls = old[n].calls
        /\ new[n].says = Append(old[n].says, t)
    BY <1>1, <2>1, <2>3 DEF Takes, Item
  <2>5. IsPrefix(old[n].says, new[n].says)
    BY <2>2, <2>4, PrefixOfLonger
  <2>6. \A i \in 1..n : i = n \/ i \in 1..n - 1
    OBVIOUS
  <2>7. \A i \in 1..n : /\ new[i].role = old[i].role
                        /\ new[i].calls = old[i].calls
                        /\ IsPrefix(old[i].says, new[i].says)
    BY <1>1, <2>3, <2>4, <2>5, <2>6
  <2>8. QED
    BY <1>0, <2>3, <2>7 DEF Extends
<1>4. QED
  BY <1>2, <1>3

LEMMA BatchExtends ==
    ASSUME NEW kept, NEW old, NEW new, Long(kept), Long(old), NEW calls,
           Extends(kept, old), Committed(old, new, calls)
    PROVE  Extends(kept, new)
<1>a. PICK k \in Nat, n \in Nat : k = Len(kept) /\ n = Len(old)
  BY DEF Long
<1>b. k <= n /\ \A i \in 1..n : new[i] = old[i]
  BY <1>a DEF Committed, Extends
<1>c. Len(new) = n + 1 \/ Len(new) = n + 2
  BY <1>a DEF Committed
<1>0. PICK m \in Nat : m = Len(new) /\ n <= m
  BY <1>c
<1>1. \A i \in 1..k : new[i] = old[i]
  BY <1>b
<1>2. m >= k
  BY <1>b, <1>0
<1>3. QED
  BY <1>a, <1>0, <1>1, <1>2 DEF Extends

\* A longer conversation records no less, and a committed batch records its calls.
LEMMA RecordsMore ==
    ASSUME NEW old, NEW new, Long(old), Long(new), Extends(old, new)
    PROVE  Recorded(old) \subseteq Recorded(new)
<1>0. PICK n \in Nat, m \in Nat :
      /\ n = Len(old) /\ m = Len(new) /\ DOMAIN old = 1..n /\ DOMAIN new = 1..m /\ n <= m
      /\ \A i \in 1..n : new[i].role = old[i].role /\ new[i].calls = old[i].calls
  BY DEF Long, Extends
<1>1. \A i \in DOMAIN old : /\ i \in DOMAIN new
                            /\ new[i].role = old[i].role
                            /\ new[i].calls = old[i].calls
  BY <1>0
<1>2. QED
  BY <1>1 DEF Recorded

LEMMA BatchIsRecorded ==
    ASSUME NEW old, NEW new, Long(old), Long(new), NEW calls \in Seq(Ids),
           Committed(old, new, calls)
    PROVE  Range(calls) \subseteq Recorded(new)
<1>1. CASE calls = <<>>
  BY <1>1 DEF Range
<1>2. CASE calls # <<>>
  <2>1. PICK i \in Nat : i = Len(old) + 2 /\ i >= 1
    BY DEF Long
  <2>a. Len(new) = i /\ new[i] = Outcomes(calls) /\ DOMAIN new = 1..Len(new)
    BY <1>2, <2>1 DEF Committed, Long
  <2>2. i \in DOMAIN new /\ new[i] = Outcomes(calls)
    BY <2>1, <2>a
  <2>3. new[i].role # "assistant" /\ new[i].calls = calls
    BY <2>2 DEF Outcomes
  <2>4. QED
    BY <2>2, <2>3 DEF Recorded
<1>3. QED
  BY <1>1, <1>2

-----------------------------------------------------------------------------
(* Bounds: a turn asks MaxTurns times for at most MaxCalls calls *)

Spent(r, k) == IF r = 0 THEN 0 ELSE ((r - 1) * MaxTurns + k) * MaxCalls

LEMMA Scales ==
    ASSUME NEW a \in Nat, NEW b \in Nat, NEW c \in Nat, a <= b
    PROVE  a * c <= b * c /\ a * c \in Nat
OBVIOUS

LEMMA SpentInBounds ==
    ASSUME NEW r \in 0..MaxRuns, NEW k \in 0..MaxTurns
    PROVE  Spent(r, k) \in Nat /\ Spent(r, k) <= MaxIssued
<1> USE TurnAssumption
<1>1. MaxIssued \in Nat
  BY DEF MaxIssued
<1>2. CASE r = 0
  BY <1>1, <1>2 DEF Spent
<1>3. CASE r # 0
  <2>1. r - 1 \in Nat /\ r \in Nat
    BY <1>3
  <2>2. (r - 1) * MaxTurns + MaxTurns = r * MaxTurns /\ (r - 1) * MaxTurns \in Nat
    BY <2>1
  <2>3. (r - 1) * MaxTurns + k <= r * MaxTurns
    BY <2>2
  <2>4. r * MaxTurns <= MaxRuns * MaxTurns /\ r * MaxTurns \in Nat /\ MaxRuns * MaxTurns \in Nat
    BY <2>1, Scales
  <2> DEFINE asked == (r - 1) * MaxTurns + k
             most == MaxRuns * MaxTurns
  <2>5. asked \in Nat /\ most \in Nat /\ asked <= most
    BY <2>2, <2>3, <2>4
  <2> HIDE DEF asked, most
  <2>6. asked * MaxCalls <= most * MaxCalls /\ asked * MaxCalls \in Nat
    BY <2>5, Scales
  <2>7. QED
    BY <1>3, <2>6 DEF Spent, MaxIssued, asked, most
<1>4. QED
  BY <1>2, <1>3

LEMMA SpentByRun ==
    ASSUME NEW r \in Nat, NEW k \in 0..MaxTurns
    PROVE  Spent(r, k) <= Spent(r + 1, 0)
<1> USE TurnAssumption
<1>1. CASE r = 0
  BY <1>1 DEF Spent
<1>2. CASE r # 0
  <2>1. r - 1 \in Nat /\ (r + 1) - 1 = r
    BY <1>2
  <2>2. (r - 1) * MaxTurns + MaxTurns = r * MaxTurns /\ (r - 1) * MaxTurns \in Nat
    BY <2>1
  <2> DEFINE asked == (r - 1) * MaxTurns + k
             next == r * MaxTurns + 0
  <2>3. asked \in Nat /\ next \in Nat /\ asked <= next
    BY <2>2
  <2>4. Spent(r, k) = asked * MaxCalls /\ Spent(r + 1, 0) = next * MaxCalls
    BY <1>2, <2>1 DEF Spent
  <2> HIDE DEF asked, next
  <2>5. QED
    BY <2>3, <2>4, Scales
<1>3. QED
  BY <1>1, <1>2

LEMMA SpentByRound ==
    ASSUME NEW r \in Nat \ {0}, NEW k \in Nat
    PROVE  Spent(r, k + 1) = Spent(r, k) + MaxCalls
<1> USE TurnAssumption
<1>1. PICK a \in Nat : a = (r - 1) * MaxTurns
  <2>1. r - 1 \in Nat
    OBVIOUS
  <2>2. QED
    BY <2>1
<1>2. PICK b \in Nat : b = a + k
  OBVIOUS
<1>3. a + (k + 1) = b + 1
  BY <1>2
<1>4. Spent(r, k) = b * MaxCalls /\ Spent(r, k + 1) = (b + 1) * MaxCalls
  BY <1>1, <1>2, <1>3 DEF Spent
<1>5. QED
  BY <1>4

-----------------------------------------------------------------------------
(* Steps *)

\* A call that is being run is one of the batch, and it has no result yet.
Counted ==
    /\ issued <= Spent(runs, round)
    /\ pc # "idle" => runs > 0
    /\ runs = 0 => dispatched = {}
    /\ Len(outputs) <= Len(batch)
    /\ \A i \in 1..Len(outputs) : outputs[i] = batch[i]
    /\ pc \in {"rpc", "task", "stop"} => Len(outputs) < Len(batch)

\* The steps by what they do to the conversation and to its clone.
Leaves ==
    /\ conversation' = conversation /\ candidate' = candidate
    /\ pc \in {"idle", "connect"} => pc' \in {"idle", "connect"}
TakesMessage ==
    /\ pc = "connect"
    /\ conversation' = conversation /\ candidate' = AppendMessage(conversation, runs)
Commits ==
    /\ pc \in {"ask", "call"}
    /\ conversation' = conversation
    /\ \E calls \in Seq(Ids) : candidate' = Commit(candidate, calls, calls)
Retains ==
    /\ pc \notin {"idle", "connect"} /\ pc' = "idle"
    /\ candidate' = candidate
    /\ conversation' = candidate \/ conversation' = Commit(candidate, <<>>, <<>>)

LEMMA HistoryMove ==
    ASSUME TypeOK, Next
    PROVE  wire' = wire /\ (Leaves \/ TakesMessage \/ Commits \/ Retains)
<1> USE DEF session, callVars, childVars
<1>1. CASE BeginTurn \/ Cancel \/ Abort \/ ConnectFails \/ ChildProceeds
  BY <1>1 DEF BeginTurn, Cancel, Abort, ConnectFails, ChildProceeds, Leaves
<1>2. CASE ConnectChildren
  BY <1>2 DEF ConnectChildren, TakesMessage
<1>3. CASE RoundsExhausted \/ PostFails
  BY <1>3 DEF RoundsExhausted, PostFails, Stop, Finish, Retains
<1>4. CASE ProviderAnswers
  BY <1>4 DEF ProviderAnswers, Finish, Retains
<1>5. CASE ProviderPauses
  <2>1. <<>> \in Seq(Ids)
    OBVIOUS
  <2>2. QED
    BY <1>5, <2>1 DEF ProviderPauses, Commits
<1>6. CASE ProviderCalls \/ RejectCall \/ DispatchCall \/ CallCompletes \/ CallBecomesTask \/ AbandonTask
           \/ PollTimesOut
  BY <1>6 DEF ProviderCalls, RejectCall, DispatchCall, CallCompletes, CallBecomesTask,
              AbandonTask, PollTimesOut, Answer, Leaves
<1>7. CASE CommitBatch
  BY <1>7 DEF CommitBatch, Commits, TypeOK
<1>8. CASE CallsInterrupted \/ CallFails
  BY <1>8 DEF CallsInterrupted, CallFails, Stop, Finish, Retains
<1>9. CASE TaskCompletes
  BY <1>9 DEF TaskCompletes, Answer, Stop, Finish, Retains, Leaves
<1>10. CASE TaskFails \/ PollFails \/ CancelChildTask
  BY <1>10 DEF TaskFails, PollFails, CancelChildTask, Stop, Finish, Retains
<1>11. CASE Rest
  BY <1>11 DEF Rest, vars, Leaves
<1>12. QED
  BY <1>1, <1>2, <1>3, <1>4, <1>5, <1>6, <1>7, <1>8, <1>9, <1>10, <1>11
     DEF Next, Turn, Provide, ExecuteCalls, AwaitTask

LEMMA SeqIsLong == \A S : \A s \in Seq(S) : Long(s)
BY LenProperties DEF Long

LEMMA EveryItem == \A s \in Seq(Item) : \A i \in DOMAIN s : s[i] \in Item
<1> TAKE s \in Seq(Item)
<1> TAKE i \in DOMAIN s
<1>1. i \in 1..Len(s)
  BY LenProperties
<1>2. QED
  BY <1>1, ElementOfSeq

LEMMA HistoryTypes ==
    ASSUME TypeOK, Counted, Next
    PROVE  conversation' \in Seq(Item) /\ candidate' \in Seq(Item)
<1>0. conversation \in Seq(Item) /\ candidate \in Seq(Item) /\ runs \in 0..MaxRuns
  BY DEF TypeOK
<1>1. CASE Leaves
  BY <1>0, <1>1 DEF Leaves
<1>2. CASE TakesMessage
  <2>1. runs \in 1..MaxRuns
    BY <1>0, <1>2 DEF Counted, TakesMessage
  <2>2. QED
    BY <1>0, <1>2, <2>1, MessageShape DEF TakesMessage
<1>3. CASE Commits
  BY <1>0, <1>3, CommitShape DEF Commits
<1>4. CASE Retains
  <2>1. <<>> \in Seq(Ids)
    OBVIOUS
  <2>2. QED
    BY <1>0, <1>4, <2>1, CommitShape DEF Retains
<1>5. QED
  BY <1>1, <1>2, <1>3, <1>4, HistoryMove

\* The call that execute_calls has come to.
LEMMA NextCallIsOne ==
    ASSUME TypeOK, Counted,
           pc \in {"rpc", "task", "stop"} \/ (pc = "call" /\ outputs # batch)
    PROVE  /\ NextCall \in Ids
           /\ Len(outputs) < Len(batch)
<1>1. batch \in Seq(Ids) /\ outputs \in Seq(Ids) /\ Len(batch) \in Nat /\ Len(outputs) \in Nat
  BY DEF TypeOK
<1>2. Len(outputs) < Len(batch)
  <2>1. CASE Len(outputs) = Len(batch)
    <3>1. outputs = batch
      BY <1>1, <2>1, SeqEqual DEF Counted
    <3>2. QED
      BY <2>1, <3>1 DEF Counted
  <2>2. QED
    BY <1>1, <2>1 DEF Counted
<1>3. Len(outputs) + 1 \in 1..Len(batch)
  BY <1>1, <1>2
<1>4. QED
  BY <1>1, <1>2, <1>3, ElementOfSeq DEF NextCall

\* A result is appended: the outputs stay a prefix of the batch.
LEMMA AnswerNext ==
    ASSUME TypeOK, Counted, Answer(NextCall), batch' = batch,
           pc \in {"rpc", "task", "stop"} \/ (pc = "call" /\ outputs # batch)
    PROVE  /\ outputs' \in Seq(Ids)
           /\ Len(outputs') <= Len(batch')
           /\ \A i \in 1..Len(outputs') : outputs'[i] = batch'[i]
<1>1. NextCall \in Ids /\ Len(outputs) < Len(batch)
  BY NextCallIsOne
<1>2. outputs \in Seq(Ids) /\ batch \in Seq(Ids) /\ Len(batch) \in Nat /\ Len(outputs) \in Nat
  BY DEF TypeOK
<1>3. outputs' = Append(outputs, NextCall)
  BY DEF Answer
<1>4. /\ outputs' \in Seq(Ids) /\ Len(outputs') = Len(outputs) + 1
      /\ \A i \in 1..Len(outputs) : outputs'[i] = outputs[i]
      /\ outputs'[Len(outputs) + 1] = NextCall
  BY <1>1, <1>2, <1>3, AppendProperties
<1>5. PICK n \in Nat : n = Len(outputs)
  BY <1>2
<1>6. \A i \in 1..n : outputs'[i] = batch[i]
  BY <1>4, <1>5 DEF Counted
<1>7. outputs'[n + 1] = batch[n + 1]
  BY <1>4, <1>5 DEF NextCall
<1>8. \A i \in 1..n + 1 : outputs'[i] = batch[i]
  <2>1. \A i \in 1..n + 1 : i \in 1..n \/ i = n + 1
    OBVIOUS
  <2>2. QED
    BY <1>6, <1>7, <2>1
<1>9. Len(outputs') <= Len(batch')
  BY <1>1, <1>2, <1>4
<1>10. QED
  BY <1>4, <1>5, <1>8, <1>9

\* The variables other than the conversations.
FlatOK ==
    /\ wire \in {"responses", "anthropic"}
    /\ resumable \in BOOLEAN
    /\ pc \in PC
    /\ runs \in 0..MaxRuns
    /\ round \in 0..MaxTurns
    /\ batch \in Seq(Ids)
    /\ outputs \in Seq(Ids)
    /\ cancelled \in BOOLEAN
    /\ issued \in 0..MaxIssued
    /\ dispatched \in SUBSET Ids
    /\ child \in {"none", "completed", "failed", "cancelled"} \cup LiveTask
    /\ askedToStop \in BOOLEAN
    /\ result \in Results

BatchKept == UNCHANGED <<batch, outputs, issued, dispatched, runs, round>>

LEMMA KeptCounts ==
    ASSUME Counted, BatchKept,
           pc' \in {"rpc", "task", "stop"} => pc \in {"rpc", "task", "stop"},
           pc' # "idle" => pc # "idle"
    PROVE  Counted'
BY DEF Counted, BatchKept, Spent

LEMMA FlatStep ==
    ASSUME TypeOK, Counted, Next
    PROVE  FlatOK' /\ Counted'
<1>0. FlatOK
  BY DEF TypeOK, FlatOK
<1> USE TurnAssumption DEF session, callVars, childVars, PC, Results, LiveTask
<1>1. CASE BeginTurn
  <2>1. FlatOK'
    <3>1. <<>> \in Seq(Ids) /\ runs' \in 0..MaxRuns /\ round' \in 0..MaxTurns
      BY <1>0, <1>1 DEF BeginTurn, FlatOK
    <3>2. QED
      BY <1>0, <1>1, <3>1 DEF BeginTurn, FlatOK
  <2>2. issued' <= Spent(runs', round')
    <3>1. Spent(runs, round) <= Spent(runs + 1, 0) /\ runs \in Nat /\ round \in 0..MaxTurns
      BY <1>0, SpentByRun DEF FlatOK
    <3>2. /\ Spent(runs, round) \in Nat /\ issued \in Nat /\ issued <= Spent(runs, round)
          /\ issued' = issued /\ runs' = runs + 1 /\ round' = 0
      BY <1>0, <1>1, SpentInBounds DEF BeginTurn, FlatOK, Counted
    <3>3. runs + 1 \in 0..MaxRuns /\ 0 \in 0..MaxTurns
      BY <1>0, <1>1 DEF BeginTurn, FlatOK
    <3>4. Spent(runs + 1, 0) \in Nat
      BY <3>3, SpentInBounds
    <3>5. issued <= Spent(runs + 1, 0)
      BY <3>1, <3>2, <3>4
    <3>6. QED
      BY <3>2, <3>5
  <2>3. runs' > 0 /\ Len(outputs') = 0 /\ Len(batch') = 0 /\ pc' = "connect"
    BY <1>0, <1>1 DEF BeginTurn, FlatOK
  <2>4. QED
    BY <2>1, <2>2, <2>3 DEF Counted
<1>2. CASE Cancel \/ Abort \/ ConnectFails \/ ConnectChildren
  <2>1. FlatOK'
    <3>1. CASE Cancel
      BY <1>0, <3>1 DEF Cancel, FlatOK
    <3>2. CASE Abort
      BY <1>0, <3>2 DEF Abort, FlatOK
    <3>3. CASE ConnectFails
      BY <1>0, <3>3 DEF ConnectFails, FlatOK
    <3>4. CASE ConnectChildren
      BY <1>0, <3>4 DEF ConnectChildren, FlatOK
    <3>5. QED
      BY <1>2, <3>1, <3>2, <3>3, <3>4
  <2>2. QED
    BY <1>2, <2>1, KeptCounts DEF Cancel, Abort, ConnectFails, ConnectChildren, BatchKept
<1>3. CASE RoundsExhausted \/ PostFails
  <2>1. /\ UNCHANGED <<wire, runs, issued, dispatched, batch, cancelled, round, outputs>>
        /\ resumable' \in BOOLEAN /\ result' \in Results /\ pc' = "idle"
        /\ UNCHANGED <<child, askedToStop>>
    BY <1>3 DEF RoundsExhausted, PostFails, Stop, Finish
  <2>2. FlatOK'
    BY <1>0, <2>1 DEF FlatOK
  <2>3. QED
    BY <2>1, <2>2, KeptCounts DEF BatchKept
<1>4. CASE ProviderAnswers
  <2>1. /\ UNCHANGED <<wire, runs, issued, dispatched, batch, cancelled, round, outputs>>
        /\ resumable' \in BOOLEAN /\ result' \in Results /\ pc' = "idle"
        /\ UNCHANGED <<child, askedToStop>>
    BY <1>4 DEF ProviderAnswers, Finish
  <2>2. FlatOK'
    BY <1>0, <2>1 DEF FlatOK
  <2>3. QED
    BY <2>1, <2>2, KeptCounts DEF BatchKept
<1>5. CASE ProviderPauses
  <2>1. round' \in 0..MaxTurns /\ round' = round + 1 /\ runs > 0 /\ runs \in Nat
    BY <1>0, <1>5 DEF ProviderPauses, RoundsLeft, FlatOK, Counted
  <2>2. FlatOK'
    BY <1>0, <1>5, <2>1 DEF ProviderPauses, FlatOK
  <2>3. Spent(runs, round + 1) = Spent(runs, round) + MaxCalls
    BY <1>0, <2>1, SpentByRound DEF FlatOK
  <2>4. Spent(runs, round) \in Nat /\ issued \in Nat /\ issued <= Spent(runs, round)
    BY <1>0, SpentInBounds DEF FlatOK, Counted
  <2>5. issued <= Spent(runs, round + 1)
    BY <2>3, <2>4
  <2>6. /\ UNCHANGED <<runs, issued, batch, outputs, dispatched, pc>>
    BY <1>5 DEF ProviderPauses
  <2>7. issued' <= Spent(runs', round')
    BY <2>1, <2>5, <2>6
  <2>8. QED
    BY <2>2, <2>6, <2>7 DEF Counted
<1>6. CASE ProviderCalls
  <2>1. PICK n \in 1..MaxCalls : batch' = [i \in 1..n |-> issued + i] /\ issued' = issued + n
    BY <1>6 DEF ProviderCalls
  <2>2. round' \in 0..MaxTurns /\ round' = round + 1 /\ runs > 0 /\ runs \in Nat
    BY <1>0, <1>6 DEF ProviderCalls, RoundsLeft, FlatOK, Counted
  <2>3. Spent(runs, round + 1) = Spent(runs, round) + MaxCalls
    BY <1>0, <2>2, SpentByRound DEF FlatOK
  <2>4. Spent(runs, round) \in Nat /\ issued \in Nat /\ issued <= Spent(runs, round)
    BY <1>0, SpentInBounds DEF FlatOK, Counted
  <2>5. issued + n <= Spent(runs, round + 1) /\ Spent(runs, round + 1) \in Nat
    BY <2>3, <2>4
  <2>6. Spent(runs, round + 1) <= MaxIssued /\ MaxIssued \in Nat
    BY <1>0, <2>2, SpentInBounds DEF FlatOK, MaxIssued
  <2>7. issued + n \in 0..MaxIssued
    BY <2>4, <2>5, <2>6
  <2>8. \A i \in 1..n : issued + i \in Ids
    BY <2>4, <2>6, <2>7 DEF Ids
  <2>9. batch' \in Seq(Ids) /\ Len(batch') = n
    BY <2>1, <2>8, IsASeq
  <2>10. outputs' = <<>> /\ <<>> \in Seq(Ids) /\ Len(<<>>) = 0 /\ pc' = "call"
         /\ UNCHANGED <<wire, resumable, runs, cancelled, dispatched, child, askedToStop, result>>
    BY <1>6 DEF ProviderCalls
  <2>11. FlatOK'
    BY <1>0, <2>1, <2>2, <2>7, <2>9, <2>10 DEF FlatOK
  <2>12. issued' <= Spent(runs', round')
    BY <2>1, <2>2, <2>5, <2>10
  <2>13. QED
    BY <2>2, <2>9, <2>10, <2>11, <2>12 DEF Counted
<1>7. CASE CommitBatch
  <2>1. FlatOK'
    BY <1>0, <1>7 DEF CommitBatch, FlatOK
  <2>2. QED
    BY <1>7, <2>1, KeptCounts DEF CommitBatch, BatchKept
<1>8. CASE CallsInterrupted \/ CallFails
  <2>1. /\ UNCHANGED <<wire, runs, issued, dispatched, batch, cancelled, round, outputs>>
        /\ resumable' \in BOOLEAN /\ result' \in Results /\ pc' = "idle"
        /\ UNCHANGED <<child, askedToStop>>
    BY <1>8 DEF CallsInterrupted, CallFails, Stop, Finish
  <2>2. FlatOK'
    BY <1>0, <2>1 DEF FlatOK
  <2>3. QED
    BY <2>1, <2>2, KeptCounts DEF BatchKept
<1>9. ASSUME Answer(NextCall), pc \in {"rpc", "task", "stop"} \/ (pc = "call" /\ outputs # batch),
             UNCHANGED <<wire, session, round, batch, issued, dispatched, cancelled, childVars, result>>
      PROVE  FlatOK' /\ Counted'
  <2>1. /\ outputs' \in Seq(Ids)
        /\ Len(outputs') <= Len(batch')
        /\ \A i \in 1..Len(outputs') : outputs'[i] = batch'[i]
    BY <1>9, AnswerNext
  <2>2. pc' = "call"
    BY <1>9 DEF Answer
  <2>3. FlatOK'
    BY <1>0, <1>9, <2>1, <2>2 DEF FlatOK
  <2>4. QED
    BY <1>9, <2>1, <2>2, <2>3 DEF Counted
<1>10. CASE RejectCall \/ CallCompletes
  BY <1>9, <1>10 DEF RejectCall, CallCompletes
<1>11. CASE DispatchCall
  <2>1. NextCall \in Ids /\ Len(outputs) < Len(batch)
    BY <1>11, NextCallIsOne DEF DispatchCall
  <2>2. FlatOK'
    BY <1>0, <1>11, <2>1 DEF DispatchCall, FlatOK
  <2>3. /\ UNCHANGED <<runs, round, issued, batch, outputs>> /\ pc' = "rpc" /\ pc = "call"
    BY <1>11 DEF DispatchCall
  <2>4. runs > 0 /\ runs # 0
    BY <1>0, <2>3 DEF Counted, FlatOK
  <2>5. QED
    BY <2>1, <2>2, <2>3, <2>4 DEF Counted
<1>12. CASE CallBecomesTask \/ ChildProceeds \/ AbandonTask
           \/ PollTimesOut
  <2>1. FlatOK'
    BY <1>0, <1>12 DEF CallBecomesTask, ChildProceeds, AbandonTask, PollTimesOut, FlatOK
  <2>2. QED
    BY <1>12, <2>1, KeptCounts DEF CallBecomesTask, ChildProceeds, AbandonTask, PollTimesOut, BatchKept
<1>13. ASSUME Stop(FALSE, "ambiguous") \/ Stop(FALSE, "poll_error"), pc = "task" \/ pc = "stop",
              child' \in {"none", "completed", "failed", "cancelled"} \cup LiveTask,
              askedToStop' \in BOOLEAN
       PROVE  FlatOK' /\ Counted'
  <2>1. /\ UNCHANGED <<wire, runs, issued, dispatched, batch, cancelled, round, outputs>>
        /\ resumable' \in BOOLEAN /\ result' \in Results /\ pc' = "idle"
    BY <1>13 DEF Stop, Finish
  <2>2. FlatOK'
    BY <1>0, <1>13, <2>1 DEF FlatOK
  <2>3. QED
    BY <2>1, <2>2, KeptCounts DEF BatchKept
<1>14. CASE TaskCompletes
  <2>1. CASE Stop(FALSE, "ambiguous")
    BY <1>0, <1>13, <1>14, <2>1 DEF TaskCompletes, FlatOK
  <2>2. CASE Answer(NextCall) /\ UNCHANGED <<wire, session, candidate, round, batch, issued,
                                             dispatched, cancelled, result>>
    BY <1>9, <1>14, <2>2 DEF TaskCompletes
  <2>3. QED
    BY <1>14, <2>1, <2>2 DEF TaskCompletes
<1>15. CASE TaskFails \/ PollFails
  BY <1>0, <1>13, <1>15 DEF TaskFails, PollFails, FlatOK
<1>16. CASE CancelChildTask
  BY <1>0, <1>13, <1>16 DEF CancelChildTask, FlatOK
<1>17. CASE Rest
  <2>1. UNCHANGED vars
    BY <1>17 DEF Rest
  <2>2. FlatOK'
    BY <1>0, <2>1 DEF vars, FlatOK
  <2>3. QED
    BY <2>1, <2>2, KeptCounts DEF vars, BatchKept
<1>18. QED
  BY <1>1, <1>2, <1>3, <1>4, <1>5, <1>6, <1>7, <1>8, <1>10, <1>11, <1>12, <1>14, <1>15,
     <1>16, <1>17 DEF Next, Turn, Provide, ExecuteCalls, AwaitTask

-----------------------------------------------------------------------------
(* The invariant *)

\* A turn under way has the session closed, and every call it sent has its result in
\* the clone, among the outputs of the batch, or is the one being waited for.
Closed == pc # "idle" => ~resumable
KnowsAll ==
    /\ pc = "idle" /\ resumable => dispatched \subseteq Recorded(conversation)
    /\ pc = "connect" => dispatched \subseteq Recorded(conversation)
    /\ pc = "ask" => dispatched \subseteq Recorded(candidate)
    /\ pc = "call" => dispatched \subseteq Recorded(candidate) \cup Range(outputs)
    /\ pc \in {"rpc", "task", "stop"} =>
          dispatched \subseteq Recorded(candidate) \cup Range(outputs) \cup {NextCall}
Grown == pc \notin {"idle", "connect"} => Extends(conversation, candidate)
TaskOnlyWhenAwaited == pc \notin {"idle", "task", "stop"} => child \notin LiveTask

IInv ==
    /\ TypeOK
    /\ Counted
    /\ Grown
    /\ HistoryReplays
    /\ OneUserTurn
    /\ Closed
    /\ KnowsAll
    /\ TaskOnlyWhenAwaited
    /\ AbandonedTaskIsCancelled

LEMMA OneUserTurnIs ==
    OneUserTurn <=> (wire = "anthropic" => Alternates(conversation) /\ Alternates(candidate))
BY DEF OneUserTurn, Alternates

\* A history, and what a step may make of it.
Sound(history) == Replays(history) /\ (wire = "anthropic" => Alternates(history))
LEMMA SoundCommit ==
    ASSUME NEW old \in Seq(Item), NEW calls \in Seq(Ids), Sound(old),
           NEW new, new = Commit(old, calls, calls)
    PROVE  Sound(new)
<1>1. new \in Seq(Item) /\ Committed(old, new, calls)
  BY CommitShape
<1>2. Long(old) /\ Long(new)
  BY <1>1, SeqIsLong
<1>3. QED
  BY <1>1, <1>2, BatchReplays, BatchAlternates DEF Sound

LEMMA SoundMessage ==
    ASSUME NEW old \in Seq(Item), NEW t \in 1..MaxRuns, Sound(old),
           NEW new, new = AppendMessage(old, t)
    PROVE  Sound(new)
<1>1. new \in Seq(Item) /\ (TakesTurn(old, new, t) \/ JoinsTurn(old, new, t))
  BY MessageShape
<1>2. Long(old) /\ Long(new) /\ \A i \in DOMAIN old : old[i] \in Item
  BY <1>1, SeqIsLong, EveryItem
<1>3. QED
  BY <1>1, <1>2, MessageReplays, MessageAlternates DEF Sound

LEMMA SoundStep ==
    ASSUME TypeOK, Counted, HistoryReplays, OneUserTurn, Next
    PROVE  HistoryReplays' /\ OneUserTurn'
<1>0. conversation \in Seq(Item) /\ candidate \in Seq(Item) /\ runs \in 0..MaxRuns
  BY DEF TypeOK
<1>1. Sound(conversation) /\ Sound(candidate)
  BY OneUserTurnIs DEF Sound, HistoryReplays
<1>2. wire' = wire /\ (Leaves \/ TakesMessage \/ Commits \/ Retains)
  BY HistoryMove
<1>3. Sound(conversation') /\ Sound(candidate')
  <2>1. CASE Leaves
    BY <1>1, <2>1 DEF Leaves
  <2>2. CASE TakesMessage
    <3>1. runs \in 1..MaxRuns
      BY <1>0, <2>2 DEF Counted, TakesMessage
    <3>2. QED
      BY <1>0, <1>1, <2>2, <3>1, SoundMessage DEF TakesMessage
  <2>3. CASE Commits
    BY <1>0, <1>1, <2>3, SoundCommit DEF Commits
  <2>4. CASE Retains
    <3>1. <<>> \in Seq(Ids)
      OBVIOUS
    <3>2. QED
      BY <1>0, <1>1, <2>4, <3>1, SoundCommit DEF Retains
  <2>5. QED
    BY <1>2, <2>1, <2>2, <2>3, <2>4
<1>4. HistoryReplays'
  BY <1>3 DEF Sound, HistoryReplays
<1>5. wire' = "anthropic" => Alternates(conversation') /\ Alternates(candidate')
  BY <1>2, <1>3 DEF Sound
<1>6. OneUserTurn'
  BY <1>5 DEF OneUserTurn, Alternates
<1>7. QED
  BY <1>4, <1>6

LEMMA GrownStep ==
    ASSUME TypeOK, Counted, Grown, Next
    PROVE  Grown' /\ Extends(conversation, conversation')
<1>0. conversation \in Seq(Item) /\ candidate \in Seq(Item) /\ runs \in 0..MaxRuns
      /\ Long(conversation) /\ Long(candidate)
  BY SeqIsLong DEF TypeOK
<1>1. Extends(conversation, conversation)
  BY <1>0, ExtendsItself
<1>2. CASE Leaves
  BY <1>1, <1>2 DEF Leaves, Grown
<1>3. CASE TakesMessage
  <2>1. runs \in 1..MaxRuns
    BY <1>0, <1>3 DEF Counted, TakesMessage
  <2>2. PICK new : new = candidate'
    OBVIOUS
  <2>3. Extends(conversation, new)
    BY <1>0, <1>3, <2>1, <2>2, MessageShape, MessageExtends DEF TakesMessage
  <2>4. QED
    BY <1>1, <1>3, <2>2, <2>3 DEF TakesMessage, Grown
<1>4. ASSUME NEW calls \in Seq(Ids), Grown, pc \notin {"idle", "connect"},
             NEW new, new = Commit(candidate, calls, calls)
      PROVE  Extends(conversation, new)
  <2>1. Committed(candidate, new, calls)
    BY <1>0, <1>4, CommitShape
  <2>2. QED
    BY <1>0, <1>4, <2>1, BatchExtends DEF Grown
<1>5. CASE Commits
  <2>1. PICK calls \in Seq(Ids) : candidate' = Commit(candidate, calls, calls)
    BY <1>5 DEF Commits
  <2>2. Extends(conversation, candidate')
    BY <1>4, <1>5, <2>1 DEF Commits
  <2>3. QED
    BY <1>1, <1>5, <2>2 DEF Commits, Grown
<1>6. CASE Retains
  <2>1. <<>> \in Seq(Ids) /\ Extends(conversation, candidate)
    BY <1>6 DEF Retains, Grown
  <2>2. Extends(conversation, conversation')
    BY <1>4, <1>6, <2>1 DEF Retains
  <2>3. QED
    BY <1>6, <2>2 DEF Retains, Grown
<1>7. QED
  BY <1>2, <1>3, <1>5, <1>6, HistoryMove

-----------------------------------------------------------------------------
(* What the session knows of the calls that were sent *)

LEMMA AnswerRange ==
    ASSUME NEW old \in Seq(Ids), NEW id \in Ids
    PROVE  Range(old) \cup {id} \subseteq Range(Append(old, id))
<1>1. PICK new : new = Append(old, id)
  OBVIOUS
<1>2. /\ Long(old) /\ Long(new) /\ Len(new) = Len(old) + 1
      /\ \A i \in 1..Len(old) : new[i] = old[i]
      /\ new[Len(old) + 1] = id
  BY <1>1, AppendProperties, SeqIsLong
<1>3. PICK n \in Nat : n = Len(old) /\ DOMAIN old = 1..n /\ DOMAIN new = 1..n + 1
  BY <1>2 DEF Long
<1>4. \A i \in DOMAIN old : i \in DOMAIN new /\ new[i] = old[i]
  BY <1>2, <1>3
<1>5. n + 1 \in DOMAIN new /\ new[n + 1] = id
  BY <1>2, <1>3
<1>6. Range(old) \cup {id} \subseteq Range(new)
  BY <1>4, <1>5 DEF Range
<1>7. QED
  BY <1>1, <1>6

LEMMA CommitRecords ==
    ASSUME NEW old \in Seq(Item), NEW calls \in Seq(Ids),
           NEW new, new = Commit(old, calls, calls)
    PROVE  Recorded(old) \cup Range(calls) \subseteq Recorded(new)
<1>1. new \in Seq(Item) /\ Committed(old, new, calls) /\ Long(old) /\ Long(new)
  BY CommitShape, SeqIsLong
<1>2. Extends(old, new)
  BY <1>1, ExtendsItself, BatchExtends
<1>3. QED
  BY <1>1, <1>2, RecordsMore, BatchIsRecorded

LEMMA MessageRecords ==
    ASSUME NEW old \in Seq(Item), NEW t \in 1..MaxRuns,
           NEW new, new = AppendMessage(old, t)
    PROVE  Recorded(old) \subseteq Recorded(new)
<1>1. new \in Seq(Item) /\ (TakesTurn(old, new, t) \/ JoinsTurn(old, new, t))
      /\ Long(old) /\ Long(new)
  BY MessageShape, SeqIsLong
<1>2. Extends(old, new)
  BY <1>1, MessageExtends
<1>3. QED
  BY <1>1, <1>2, RecordsMore

\* The turn's way out: open only where the clone holds every result.
LEMMA StopKnows ==
    ASSUME NEW how, Stop(TRUE, how), dispatched \subseteq Recorded(candidate)
    PROVE  Closed' /\ KnowsAll'
BY DEF Stop, Finish, Closed, KnowsAll
LEMMA StopCloses ==
    ASSUME NEW how, Stop(FALSE, how)
    PROVE  Closed' /\ KnowsAll'
BY DEF Stop, Finish, Closed, KnowsAll

LEMMA AnswerKnows ==
    ASSUME TypeOK, Counted, Closed, Answer(NextCall),
           dispatched \subseteq Recorded(candidate) \cup Range(outputs) \cup {NextCall},
           UNCHANGED <<candidate, dispatched, resumable>>,
           pc \in {"rpc", "task", "stop"} \/ (pc = "call" /\ outputs # batch)
    PROVE  Closed' /\ KnowsAll'
<1>1. NextCall \in Ids /\ outputs \in Seq(Ids)
  BY NextCallIsOne DEF TypeOK
<1>2. outputs' = Append(outputs, NextCall) /\ pc' = "call"
  BY DEF Answer
<1>3. Range(outputs) \cup {NextCall} \subseteq Range(outputs')
  BY <1>1, <1>2, AnswerRange
<1>4. dispatched' \subseteq Recorded(candidate') \cup Range(outputs')
  BY <1>3
<1>5. ~resumable'
  BY DEF Closed
<1>6. QED
  BY <1>2, <1>4, <1>5 DEF Closed, KnowsAll

LEMMA KnowsStep ==
    ASSUME TypeOK, Counted, Closed, KnowsAll, Next
    PROVE  Closed' /\ KnowsAll'
<1> USE DEF session, callVars, childVars
<1>0. conversation \in Seq(Item) /\ candidate \in Seq(Item) /\ batch \in Seq(Ids)
      /\ runs \in 0..MaxRuns /\ <<>> \in Seq(Ids)
  BY DEF TypeOK
<1>1. CASE BeginTurn
  <2>1. dispatched \subseteq Recorded(conversation)
    BY <1>1 DEF BeginTurn, KnowsAll, Counted
  <2>2. QED
    BY <1>1, <2>1 DEF BeginTurn, Closed, KnowsAll
<1>2. CASE Cancel
  BY <1>2 DEF Cancel, Closed, KnowsAll, NextCall
<1>3. CASE Abort
  BY <1>3 DEF Abort, Closed, KnowsAll
<1>4. CASE ConnectFails
  BY <1>4 DEF ConnectFails, Closed, KnowsAll
<1>5. CASE ConnectChildren
  <2>1. runs \in 1..MaxRuns /\ candidate' = AppendMessage(conversation, runs)
    BY <1>0, <1>5 DEF ConnectChildren, Counted
  <2>2. Recorded(conversation) \subseteq Recorded(candidate')
    BY <1>0, <2>1, MessageRecords
  <2>3. QED
    BY <1>5, <2>2 DEF ConnectChildren, Closed, KnowsAll
<1>6. CASE RoundsExhausted \/ PostFails
  BY <1>6, StopKnows, StopCloses DEF RoundsExhausted, PostFails, KnowsAll
<1>7. CASE ProviderAnswers
  <2>1. PICK history : history = Commit(candidate, <<>>, <<>>)
    OBVIOUS
  <2>2. Recorded(candidate) \subseteq Recorded(history)
    BY <1>0, <2>1, CommitRecords
  <2>3. conversation' = history /\ pc' = "idle" /\ dispatched' = dispatched
    BY <1>7, <2>1 DEF ProviderAnswers, Finish
  <2>4. QED
    BY <1>7, <2>2, <2>3 DEF ProviderAnswers, Closed, KnowsAll
<1>8. CASE ProviderPauses
  <2>1. Recorded(candidate) \subseteq Recorded(candidate')
    BY <1>0, <1>8, CommitRecords DEF ProviderPauses
  <2>2. QED
    BY <1>8, <2>1 DEF ProviderPauses, Closed, KnowsAll
<1>9. CASE ProviderCalls
  BY <1>9 DEF ProviderCalls, Closed, KnowsAll
<1>10. CASE CommitBatch
  <2>1. Recorded(candidate) \cup Range(outputs) \subseteq Recorded(candidate')
    BY <1>0, <1>10, CommitRecords DEF CommitBatch
  <2>2. QED
    BY <1>10, <2>1 DEF CommitBatch, Closed, KnowsAll
<1>11. CASE CallsInterrupted
  <2>1. outputs = <<>> => Range(outputs) = {}
    BY DEF Range
  <2>2. QED
    BY <1>11, <2>1, StopKnows, StopCloses DEF CallsInterrupted, NothingRan, KnowsAll
<1>12. CASE RejectCall \/ CallCompletes
  BY <1>12, AnswerKnows DEF RejectCall, CallCompletes, KnowsAll
<1>13. CASE DispatchCall
  BY <1>13 DEF DispatchCall, Closed, KnowsAll, NextCall
<1>14. CASE CallBecomesTask \/ AbandonTask
           \/ PollTimesOut
  BY <1>14 DEF CallBecomesTask, AbandonTask, PollTimesOut, Closed, KnowsAll, NextCall
<1>15. CASE ChildProceeds
  BY <1>15 DEF ChildProceeds, Closed, KnowsAll, NextCall
<1>16. CASE CallFails \/ TaskFails \/ PollFails \/ CancelChildTask
  BY <1>16, StopCloses DEF CallFails, TaskFails, PollFails, CancelChildTask
<1>17. CASE TaskCompletes
  BY <1>17, AnswerKnows, StopCloses DEF TaskCompletes, KnowsAll
<1>18. CASE Rest
  BY <1>18 DEF Rest, vars, Closed, KnowsAll, NextCall
<1>19. QED
  BY <1>1, <1>2, <1>3, <1>4, <1>5, <1>6, <1>7, <1>8, <1>9, <1>10, <1>11, <1>12, <1>13,
     <1>14, <1>15, <1>16, <1>17, <1>18 DEF Next, Turn, Provide, ExecuteCalls, AwaitTask

-----------------------------------------------------------------------------
(* The task at the child *)

LEMMA TaskStep ==
    ASSUME TypeOK, TaskOnlyWhenAwaited, AbandonedTaskIsCancelled, Next
    PROVE  TaskOnlyWhenAwaited' /\ AbandonedTaskIsCancelled'
<1> USE DEF session, callVars, childVars, LiveTask, TaskOnlyWhenAwaited, AbandonedTaskIsCancelled
<1>1. CASE BeginTurn \/ Cancel \/ Abort \/ ConnectFails \/ ConnectChildren \/ ChildProceeds
  BY <1>1 DEF BeginTurn, Cancel, Abort, ConnectFails, ConnectChildren, ChildProceeds
<1>2. CASE RoundsExhausted \/ PostFails \/ ProviderAnswers
  BY <1>2 DEF RoundsExhausted, PostFails, ProviderAnswers, Stop, Finish
<1>3. CASE ProviderPauses \/ ProviderCalls \/ CommitBatch \/ RejectCall \/ DispatchCall
           \/ CallCompletes \/ CallBecomesTask \/ AbandonTask
           \/ PollTimesOut
  BY <1>3 DEF ProviderPauses, ProviderCalls, CommitBatch, RejectCall, DispatchCall,
              CallCompletes, CallBecomesTask, AbandonTask, PollTimesOut, Answer
<1>4. CASE CallsInterrupted \/ CallFails
  BY <1>4 DEF CallsInterrupted, CallFails, Stop, Finish
<1>5. CASE TaskCompletes \/ TaskFails \/ PollFails \/ CancelChildTask
  BY <1>5 DEF TaskCompletes, TaskFails, PollFails, CancelChildTask, Answer, Stop, Finish
<1>6. CASE Rest
  BY <1>6 DEF Rest, vars
<1>7. QED
  BY <1>1, <1>2, <1>3, <1>4, <1>5, <1>6 DEF Next, Turn, Provide, ExecuteCalls, AwaitTask

-----------------------------------------------------------------------------

LEMMA InitInvariant == Init => IInv
<1> SUFFICES ASSUME Init PROVE IInv
  OBVIOUS
<1> USE TurnAssumption DEF Init
<1>1. Spent(0, 0) = 0 /\ MaxIssued \in Nat
  BY DEF Spent, MaxIssued
<1>2. TypeOK
  <2>1. <<>> \in Seq(Item) /\ <<>> \in Seq(Ids)
    OBVIOUS
  <2>2. 0 \in 0..MaxRuns /\ 0 \in 0..MaxTurns /\ 0 \in 0..MaxIssued
    BY <1>1
  <2>3. QED
    BY <2>1, <2>2 DEF TypeOK, PC, Results
<1>3. Counted
  BY <1>1 DEF Counted
<1>4. HistoryReplays /\ OneUserTurn
  BY DEF HistoryReplays, Replays, OneUserTurn
<1>5. Grown /\ Closed /\ KnowsAll /\ TaskOnlyWhenAwaited /\ AbandonedTaskIsCancelled
  BY DEF Grown, Closed, KnowsAll, TaskOnlyWhenAwaited, AbandonedTaskIsCancelled, LiveTask
<1>6. QED
  BY <1>2, <1>3, <1>4, <1>5 DEF IInv

LEMMA NextInvariant == IInv /\ [Next]_vars => IInv'
<1> SUFFICES ASSUME IInv, [Next]_vars PROVE IInv'
  OBVIOUS
<1>0. TypeOK /\ Counted /\ Grown /\ HistoryReplays /\ OneUserTurn /\ Closed /\ KnowsAll
      /\ TaskOnlyWhenAwaited /\ AbandonedTaskIsCancelled
  BY DEF IInv
<1>1. CASE Next
  <2>1. TypeOK'
    BY <1>0, <1>1, HistoryTypes, FlatStep DEF TypeOK, FlatOK
  <2>2. Counted'
    BY <1>0, <1>1, FlatStep
  <2>3. HistoryReplays' /\ OneUserTurn' /\ Grown'
    BY <1>0, <1>1, SoundStep, GrownStep
  <2>4. Closed' /\ KnowsAll' /\ TaskOnlyWhenAwaited' /\ AbandonedTaskIsCancelled'
    BY <1>0, <1>1, KnowsStep, TaskStep
  <2>5. QED
    BY <2>1, <2>2, <2>3, <2>4 DEF IInv
<1>2. CASE UNCHANGED vars
  <2>1. TypeOK' /\ Counted'
    BY <1>0, <1>2 DEF vars, TypeOK, Counted
  <2>2. Grown' /\ HistoryReplays' /\ OneUserTurn'
    BY <1>0, <1>2 DEF vars, Grown, HistoryReplays, OneUserTurn
  <2>3. Closed' /\ KnowsAll' /\ TaskOnlyWhenAwaited' /\ AbandonedTaskIsCancelled'
    BY <1>0, <1>2 DEF vars, Closed, KnowsAll, NextCall, TaskOnlyWhenAwaited,
       AbandonedTaskIsCancelled
  <2>4. QED
    BY <2>1, <2>2, <2>3 DEF IInv
<1>3. QED
  BY <1>1, <1>2

\* IInv is an invariant of a session's turns; what follows rests on it.
THEOREM Invariant == Spec => []IInv
BY InitInvariant, NextInvariant, PTL DEF Spec

\* Every variable keeps its type; in particular the provider loop never exceeds
\* max_turns, whatever the provider, the children and the cancellations do.
THEOREM TypeCorrect == Spec => []TypeOK
<1>1. IInv => TypeOK
  BY DEF IInv
<1>2. QED
  BY <1>1, Invariant, PTL

\* What a turn sends, and what it leaves to the next one, can be replayed: every
\* batch of tool calls with its results right behind it.
THEOREM ReplaySafety == Spec => []HistoryReplays
<1>1. IInv => HistoryReplays
  BY DEF IInv
<1>2. QED
  BY <1>1, Invariant, PTL

\* No two user turns follow each other on the Messages wire format, also after a
\* turn that failed right behind its user message or a batch of results.
THEOREM UserTurnSafety == Spec => []OneUserTurn
<1>1. IInv => OneUserTurn
  BY DEF IInv
<1>2. QED
  BY <1>1, Invariant, PTL

\* A session that can be resumed has the result of every call that may have run.
THEOREM ResumableSafety == Spec => []ResumableKnowsAll
<1>1. IInv => ResumableKnowsAll
  BY DEF IInv, Closed, KnowsAll, ResumableKnowsAll
<1>2. QED
  BY <1>1, Invariant, PTL

\* A child's task that a turn walked away from was asked to stop, unless a poll was
\* answered by an error or the turn was dropped (wait_for_task_result, child_mcp.rs).
THEOREM AbandonmentSafety == Spec => []AbandonedTaskIsCancelled
<1>1. IInv => AbandonedTaskIsCancelled
  BY DEF IInv
<1>2. QED
  BY <1>1, Invariant, PTL

\* A turn only ever extends the retained conversation: no item is dropped, reordered
\* or given other calls, and a message that joins a user turn comes after its others.
THEOREM ConversationSafety == Spec => ConversationGrows
<1>1. IInv /\ [Next]_vars
        => [/\ Len(conversation') >= Len(conversation)
            /\ \A i \in 1..Len(conversation) :
                  /\ conversation'[i].role = conversation[i].role
                  /\ conversation'[i].calls = conversation[i].calls
                  /\ IsPrefix(conversation[i].says, conversation'[i].says)]_vars
  <2> SUFFICES ASSUME IInv, Next
               PROVE  Extends(conversation, conversation')
    BY DEF Extends
  <2>1. QED
    BY GrownStep DEF IInv
<1>2. QED
  BY <1>1, Invariant, PTL DEF Spec, ConversationGrows
=============================================================================
