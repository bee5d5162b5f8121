------------------------- MODULE FetchServerProofs --------------------------
(***************************************************************************)
(* What holds of the pages of every text, for every client and every site. *)
(***************************************************************************)
EXTENDS FetchServer, LeastElements, FiniteSetTheorems

USE HintAssumption

-----------------------------------------------------------------------------
(* The tool policy of the built-in servers *)

\* Whoever is shown the prompt or the resources of a server may use the tool
\* behind them: neither surface outlives the other's denial (src/policy.rs:134).
THEOREM AuxiliaryNeedsTool ==
    ASSUME NEW policy, NEW tool,
           AllowsAuxiliarySurface(policy, tool.capability, tool)
    PROVE  Allows(policy, tool)
BY DEF AllowsAuxiliarySurface, AllowsCapability, Allows

\* More denials and, of a policy that grants something by name, fewer grants
\* never allow a tool that was not allowed before (src/policy.rs:109).
THEOREM StricterAllowsLess ==
    ASSUME NEW allow, NEW deny, NEW fewer \in SUBSET allow, NEW more, deny \subseteq more,
           fewer # {} \/ allow = {}, NEW spec, Allows(FromSelectors(fewer, more), spec)
    PROVE  Allows(FromSelectors(allow, deny), spec)
<1>1. spec.capability \notin more /\ spec.id \notin more
  BY DEF Allows, FromSelectors
<1>2. fewer = {} \/ spec.capability \in fewer \/ spec.id \in fewer
  BY DEF Allows, FromSelectors
<1>3. allow = {} \/ spec.capability \in allow \/ spec.id \in allow
  BY <1>2
<1> QED
  BY <1>1, <1>3 DEF Allows, FromSelectors

-----------------------------------------------------------------------------
(* content_page *)

\* A character has at most four bytes.
LEMMA BytesOfOne ==
    ASSUME NEW text \in Seq(1..4), NEW i \in Nat, NEW j \in Nat
    PROVE  /\ Bytes(text, i, j) \in Nat
           /\ j = i + 1 => Bytes(text, i, j) <= 4
<1> DEFINE all == (i + 1..j) \X (1..4)
           bytes == {at \in all : at[2] <= text[at[1]]}
<1>1. /\ IsFiniteSet(i + 1..j) /\ IsFiniteSet(1..4)
      /\ Cardinality(1..4) = 4
      /\ j = i + 1 => Cardinality(i + 1..j) = 1
  <2>1. /\ IsFiniteSet(1..4)
        /\ Cardinality(1..4) = IF 1 > 4 THEN 0 ELSE 4 - 1 + 1
    BY FS_Interval, 1 \in Int, 4 \in Int, Zenon
  <2>2. i + 1 \in Int /\ j \in Int
    OBVIOUS
  <2>3. /\ IsFiniteSet(i + 1..j)
        /\ Cardinality(i + 1..j) = IF i + 1 > j THEN 0 ELSE j - (i + 1) + 1
    BY <2>2, FS_Interval, Zenon
  <2> QED
    BY <2>1, <2>3
<1>2. IsFiniteSet(all) /\ Cardinality(all) = Cardinality(i + 1..j) * Cardinality(1..4)
  BY <1>1, FS_Product
<1>3. bytes \subseteq all
  OBVIOUS
<1>4. IsFiniteSet(bytes) /\ Cardinality(bytes) <= Cardinality(all)
  BY <1>2, <1>3, FS_Subset
<1>5. Cardinality(bytes) \in Nat
  BY <1>4, FS_CardinalityType
<1>6. Bytes(text, i, j) = Cardinality(bytes)
  BY DEF Bytes
<1>7. j = i + 1 => Cardinality(all) = 4
  BY <1>1, <1>2
<1> QED
  BY <1>4, <1>5, <1>6, <1>7

\* The number in a hint has at least one digit and no more than allowed for.
LEMMA HintIsBounded ==
    ASSUME NEW n \in Nat
    PROVE  HintSize(n) \in Nat /\ HintSize(n) <= HintText + MaxDigits + 1
<1> DEFINE digits == {d \in 1..MaxDigits : 10^d <= n}
<1>1. IsFiniteSet(1..MaxDigits) /\ Cardinality(1..MaxDigits) = MaxDigits
  <2>1. 1 \in Int /\ MaxDigits \in Int
    OBVIOUS
  <2>2. /\ IsFiniteSet(1..MaxDigits)
        /\ Cardinality(1..MaxDigits) = IF 1 > MaxDigits THEN 0 ELSE MaxDigits - 1 + 1
    BY <2>1, FS_Interval, Zenon
  <2> QED
    BY <2>2
<1>2. digits \subseteq 1..MaxDigits
  OBVIOUS
<1>3. IsFiniteSet(digits) /\ Cardinality(digits) <= MaxDigits
  BY <1>1, <1>2, FS_Subset
<1>4. Cardinality(digits) \in Nat
  BY <1>3, FS_CardinalityType
<1>5. HintSize(n) = HintText + (1 + Cardinality(digits))
  BY DEF HintSize, Digits
<1> QED
  BY <1>3, <1>4, <1>5

\* A page stays within the text and within what was asked for; where there is
\* room for a character and a hint it is not empty, and unless it ends the text
\* its hint fits behind it (content_page, src/fetch/mod.rs:190-243).
THEOREM PageLeadsOn ==
    ASSUME NEW text \in Seq(1..4), NEW from \in Nat, NEW length \in Nat \ {0},
           NEW budget \in Nat, from < Len(text),
           4 + HintText + MaxDigits + 1 <= budget
    PROVE  LET returned == Returned(text, from, length, budget) IN
           /\ returned \in 1..length
           /\ from + returned <= Len(text)
           /\ from + returned < Len(text) => HasHint(text, from, length, budget)
<1> DEFINE wanted == Wanted(text, from, length)
           overflow == Overflow(text, from, length, budget)
           returned == Returned(text, from, length, budget)
<1>1. Len(text) \in Nat /\ wanted \in 1..length /\ from + wanted <= Len(text)
  BY DEF Wanted
<1>2. Fits(text, from, 1, budget)
  <2>1. Bytes(text, from, from + 1) \in Nat /\ Bytes(text, from, from + 1) <= 4
    <3>1. from + 1 \in Nat
      OBVIOUS
    <3> QED
      BY <3>1, BytesOfOne, Zenon
  <2>2. HintSize(from + 1) \in Nat /\ HintSize(from + 1) <= HintText + MaxDigits + 1
    <3>1. from + 1 \in Nat
      OBVIOUS
    <3> QED
      BY <3>1, HintIsBounded, Zenon
  <2> QED
    BY <2>1, <2>2 DEF Fits
<1>3. returned \in 1..wanted /\ Fits(text, from, returned, budget)
  <2>1. CASE overflow = {}
    <3>1. returned = wanted
      BY <2>1 DEF Returned
    <3>2. wanted \notin overflow
      BY <2>1
    <3> QED
      BY <1>1, <3>1, <3>2 DEF Overflow
  <2>2. CASE overflow # {}
    <3>1. overflow \in SUBSET Nat /\ overflow \subseteq 1..wanted
      BY <1>1 DEF Overflow
    <3>2. Least(overflow) \in overflow /\ \A m \in overflow : Least(overflow) <= m
      BY <2>2, <3>1, HasLeast DEF Least
    <3>3. Least(overflow) \in 1..wanted /\ Least(overflow) # 1
      BY <1>2, <3>1, <3>2 DEF Overflow
    <3>4. returned = Least(overflow) - 1
      BY <2>2, <1>1 DEF Returned
    <3>5. returned \in 1..wanted /\ returned < Least(overflow)
      BY <1>1, <3>3, <3>4
    <3>6. returned \notin overflow
      BY <3>1, <3>2, <3>3, <3>5
    <3> QED
      BY <3>5, <3>6 DEF Overflow
  <2> QED
    BY <2>1, <2>2
<1>4. from + returned < Len(text) => HasHint(text, from, length, budget)
  BY <1>1, <1>3 DEF HasHint, Fits, More
<1> QED
  BY <1>1, <1>3, <1>4

-----------------------------------------------------------------------------
(* The inductive invariant *)

InCall == pc \in {"resolve", "send", "receive"}

\* What Check made sure of.
Checked == InCall => Offered /\ (kind = "tool" => max \in LengthsAllowed)

\* Where the request of this moment may go, and that it is the last one logged.
Bound ==
    pc = "send" /\ settings.network = "public" =>
        \/ site.host \in Public
        \/ site.host = "name" /\ pinned # {} /\ pinned \subseteq Public
LastIsCurrent == pc = "receive" => Len(log) > 0 /\ log[Len(log)].goal = goal

\* The page is the goal of a tool call that respects robots.txt only once it allowed it.
RobotsFirst ==
    InCall /\ goal = "page" /\ kind = "tool" /\ settings.robots =>
        \E m \in 1..Len(log) : log[m].goal = "robots" /\ log[m].allowed

\* The next part starts where the text read so far ends.
InText == kind = "tool" /\ pc # "done" => start <= Len(site.content)

IInv ==
    /\ TypeOK /\ Checked /\ Bound /\ LastIsCurrent /\ RobotsFirst
    /\ AskedOnlyWhenAllowed /\ InText /\ PagesJoin
    /\ reply = "none" \/ pc = "done"

USE DEF IInv, fixed, End, InCall

LEMMA InitHolds == Init => IInv
<1> SUFFICES ASSUME Init PROVE IInv
  OBVIOUS
<1>1. TypeOK
  BY FetchAssumption DEF Init, TypeOK
<1>2. IsText(site.content)
  BY FetchAssumption DEF Init
<1>3. InText /\ PagesJoin
  BY <1>2 DEF Init, InText, PagesJoin, IsText
<1> QED
  BY <1>1, <1>3 DEF Init, Checked, Bound, LastIsCurrent, RobotsFirst, AskedOnlyWhenAllowed

\* The options of the server and the kind of client do not change.
LEMMA OfferStays ==
    ASSUME UNCHANGED fixed
    PROVE  Offered' <=> Offered
BY DEF Offered, Allows, AllowsAuxiliarySurface, AllowsCapability, FetchTool

\* A call that goes on to another label, without a request or an answer.
LEMMA AskKeeps == IInv /\ Ask => IInv'
<1> SUFFICES ASSUME IInv, Ask PROVE IInv'
  OBVIOUS
<1>1. TypeOK'
  BY FetchAssumption DEF TypeOK, Ask
<1>2. (PagesJoin /\ InText)'
  BY DEF PagesJoin, InText, Ask
<1> QED
  BY <1>1, <1>2 DEF Ask, Checked, Bound, LastIsCurrent, RobotsFirst, AskedOnlyWhenAllowed

LEMMA CheckKeeps == IInv /\ Check => IInv'
<1> SUFFICES ASSUME IInv, Check PROVE IInv'
  OBVIOUS
<1>1. TypeOK'
  BY DEF TypeOK, Check
<1>2. (PagesJoin /\ InText)'
  BY DEF PagesJoin, InText, Check
<1>3. UNCHANGED fixed /\ UNCHANGED <<log, max>>
  BY DEF Check
<1>4. Checked'
  <2>1. Offered' <=> Offered
    BY <1>3, OfferStays
  <2>2. pc' = "resolve" => Offered /\ (kind = "tool" => max \in LengthsAllowed)
    BY DEF Check
  <2>3. pc' \in {"resolve", "done"}
    BY DEF Check
  <2> QED
    BY <2>1, <2>2, <2>3, <1>3 DEF Checked
<1>5. AskedOnlyWhenAllowed'
  BY <1>3 DEF AskedOnlyWhenAllowed
<1>6. pc' \in {"resolve", "done"} /\ (pc' = "done" \/ reply' = reply)
  BY DEF Check
<1>7. RobotsFirst'
  BY <1>3, <1>6 DEF RobotsFirst, Check
<1> QED
  <2>1. Bound' /\ LastIsCurrent' /\ (reply' = "none" \/ pc' = "done")
    BY <1>6 DEF Bound, LastIsCurrent, Check
  <2> QED
    BY <1>1, <1>2, <1>4, <1>5, <1>7, <2>1

LEMMA ResolveKeeps == IInv /\ Resolve => IInv'
<1> SUFFICES ASSUME IInv, Resolve PROVE IInv'
  OBVIOUS
<1>1. TypeOK'
  BY FetchAssumption DEF TypeOK, Resolve
<1>2. (PagesJoin /\ InText)'
  BY DEF PagesJoin, InText, Resolve
<1>3. Checked'
  <2>1. UNCHANGED fixed /\ max' = max /\ pc = "resolve"
    BY DEF Resolve
  <2>2. Offered' <=> Offered
    BY <2>1, OfferStays
  <2>3. Offered /\ (kind = "tool" => max \in LengthsAllowed)
    BY <2>1 DEF Checked
  <2> QED
    BY <2>1, <2>2, <2>3 DEF Checked
<1>4. Bound'
  BY DEF Bound, Resolve
<1>5. AskedOnlyWhenAllowed' /\ RobotsFirst'
  BY DEF AskedOnlyWhenAllowed, RobotsFirst, Resolve
<1> QED
  BY <1>1, <1>2, <1>3, <1>4, <1>5 DEF Resolve, LastIsCurrent

LEMMA FailureKeeps == IInv /\ RequestFails => IInv'
<1> SUFFICES ASSUME IInv, RequestFails PROVE IInv'
  OBVIOUS
<1>1. TypeOK'
  BY DEF TypeOK, RequestFails
<1>2. (PagesJoin /\ InText)'
  BY DEF PagesJoin, InText, RequestFails
<1> QED
  BY <1>1, <1>2 DEF RequestFails, Checked, Bound, LastIsCurrent, RobotsFirst, AskedOnlyWhenAllowed

\* Both surfaces of the server need the tool.
LEMMA OfferedAllows == Offered => Allows(settings.policy, FetchTool)
BY AuxiliaryNeedsTool DEF Offered

LEMMA SendKeeps == IInv /\ Send => IInv'
<1> SUFFICES ASSUME IInv, Send PROVE IInv'
  OBVIOUS
<1>1. PICK to \in Reachable : log' = Append(log, [goal |-> goal, to |-> to, allowed |-> FALSE])
  BY DEF Send
<1> DEFINE entry == [goal |-> goal, to |-> to, allowed |-> FALSE]
<1>2. to \in Addresses /\ (settings.network = "public" => to \in Public)
  BY <1>1, FetchAssumption DEF Reachable, Bound, TypeOK, Send
<1>3. /\ log \in Seq([goal : {"robots", "page"}, to : Addresses, allowed : BOOLEAN])
      /\ entry \in [goal : {"robots", "page"}, to : Addresses, allowed : BOOLEAN]
  BY <1>2 DEF TypeOK
<1>4. /\ log' \in Seq([goal : {"robots", "page"}, to : Addresses, allowed : BOOLEAN])
      /\ Len(log') = Len(log) + 1 /\ Len(log) \in Nat
      /\ log'[Len(log) + 1] = entry
      /\ \A n \in 1..Len(log) : log'[n] = log[n]
  BY <1>1, <1>3
<1>5. TypeOK'
  BY <1>4 DEF TypeOK, Send
<1>6. (PagesJoin /\ InText)'
  BY DEF PagesJoin, InText, Send
<1>7. Checked' /\ Bound' /\ LastIsCurrent'
  <2>1. UNCHANGED fixed /\ max' = max /\ goal' = goal /\ pc = "send" /\ pc' = "receive"
    BY DEF Send
  <2>2. Offered' <=> Offered
    BY <2>1, OfferStays
  <2>3. Offered /\ (kind = "tool" => max \in LengthsAllowed)
    BY <2>1 DEF Checked
  <2>4. Checked'
    BY <2>1, <2>2, <2>3 DEF Checked
  <2> QED
    BY <2>1, <2>4, <1>4 DEF Bound, LastIsCurrent
<1>8. RobotsFirst'
  BY <1>4 DEF RobotsFirst, Send
<1>9. AskedOnlyWhenAllowed'
  <2> SUFFICES ASSUME NEW n \in 1..Len(log) + 1
               PROVE  /\ settings.network = "public" => log'[n].to \in Public
                      /\ log'[n].goal = "page" /\ kind = "tool" /\ settings.robots =>
                           \E m \in 1..n - 1 : log'[m].goal = "robots" /\ log'[m].allowed
                      /\ Allows(settings.policy, FetchTool)
    BY <1>4 DEF AskedOnlyWhenAllowed, Send
  <2>1. Allows(settings.policy, FetchTool)
    BY OfferedAllows DEF Checked, Send
  <2>2. CASE n \in 1..Len(log)
    <3>1. /\ settings.network = "public" => log[n].to \in Public
          /\ log[n].goal = "page" /\ kind = "tool" /\ settings.robots =>
               \E m \in 1..n - 1 : log[m].goal = "robots" /\ log[m].allowed
      BY <2>2, <1>3 DEF AskedOnlyWhenAllowed
    <3> QED
      BY <2>1, <2>2, <3>1, <1>4
  <2>3. CASE n = Len(log) + 1
    <3>1. /\ goal = "page" /\ kind = "tool" /\ settings.robots =>
               \E m \in 1..Len(log) : log[m].goal = "robots" /\ log[m].allowed
      BY DEF RobotsFirst, Send
    <3> QED
      BY <2>1, <2>3, <3>1, <1>2, <1>4
  <2> QED
    BY <2>2, <2>3, <1>4
<1> QED
  BY <1>5, <1>6, <1>7, <1>8, <1>9 DEF Send

LEMMA RobotsKeep == IInv /\ ReceiveRobots => IInv'
<1> SUFFICES ASSUME IInv, ReceiveRobots PROVE IInv'
  OBVIOUS
<1>1. UNCHANGED fixed /\ UNCHANGED <<max, start, pinned, got>> /\ pc = "receive" /\ goal = "robots"
  BY DEF ReceiveRobots
<1>2. (PagesJoin /\ InText)'
  BY <1>1 DEF PagesJoin, InText, ReceiveRobots
<1>3. CASE /\ log' = [log EXCEPT ![Len(log)].allowed = TRUE]
           /\ goal' = "page" /\ pc' = "resolve" /\ reply' = reply
  <2>1. /\ log \in Seq([goal : {"robots", "page"}, to : Addresses, allowed : BOOLEAN])
        /\ Len(log) \in 1..Len(log) /\ log[Len(log)].goal = "robots"
    BY <1>1 DEF LastIsCurrent, TypeOK
  <2>2. /\ log' \in Seq([goal : {"robots", "page"}, to : Addresses, allowed : BOOLEAN])
        /\ Len(log') = Len(log)
        /\ log'[Len(log)].goal = "robots" /\ log'[Len(log)].allowed
        /\ \A n \in 1..Len(log) :
              /\ log'[n].goal = log[n].goal /\ log'[n].to = log[n].to
              /\ log[n].allowed => log'[n].allowed
    <3> DEFINE Entry == [goal : {"robots", "page"}, to : Addresses, allowed : BOOLEAN]
               size == Len(log)
               last == [log[size] EXCEPT !.allowed = TRUE]
    <3>1. size \in Nat /\ log \in [1..size -> Entry] /\ size \in 1..size
      <4>1. log \in Seq(Entry) /\ size \in 1..size
        BY <2>1
      <4> HIDE DEF Entry
      <4> QED
        BY <4>1
    <3>2. /\ last \in Entry /\ last.allowed
          /\ last.goal = log[size].goal /\ last.to = log[size].to
      BY <3>1
    <3>3. log' = [log EXCEPT ![size] = last]
      BY <1>3
    <3> HIDE DEF last, size
    <3>4. /\ log' \in [1..size -> Entry] /\ log'[size] = last
          /\ \A n \in 1..size : n # size => log'[n] = log[n]
      BY <3>1, <3>2, <3>3
    <3>5. log' \in Seq(Entry) /\ Len(log') = size
      <4> HIDE DEF Entry
      <4> QED
        BY <3>1, <3>4
    <3>6. \A n \in 1..size : /\ log'[n].goal = log[n].goal /\ log'[n].to = log[n].to
                             /\ log[n].allowed => log'[n].allowed
      BY <3>2, <3>4
    <3> QED
      BY <2>1, <3>2, <3>4, <3>5, <3>6 DEF size
  <2>3. TypeOK'
    BY <1>1, <1>3, <2>2 DEF TypeOK
  <2>4. RobotsFirst'
    BY <2>1, <2>2 DEF RobotsFirst
  <2>5. AskedOnlyWhenAllowed'
    <3> SUFFICES ASSUME NEW n \in 1..Len(log)
                 PROVE  /\ settings.network = "public" => log'[n].to \in Public
                        /\ log'[n].goal = "page" /\ kind = "tool" /\ settings.robots =>
                             \E m \in 1..n - 1 : log'[m].goal = "robots" /\ log'[m].allowed
                        /\ Allows(settings.policy, FetchTool)
      BY <1>1, <2>2 DEF AskedOnlyWhenAllowed
    <3>1. /\ settings.network = "public" => log[n].to \in Public
          /\ log[n].goal = "page" /\ kind = "tool" /\ settings.robots =>
               \E m \in 1..n - 1 : log[m].goal = "robots" /\ log[m].allowed
          /\ Allows(settings.policy, FetchTool)
      BY <2>1 DEF AskedOnlyWhenAllowed
    <3> QED
      BY <2>1, <2>2, <3>1
  <2>6. Offered /\ (kind = "tool" => max \in LengthsAllowed) /\ (Offered' <=> Offered)
    BY <1>1, OfferStays DEF Checked
  <2> QED
    BY <1>1, <1>2, <1>3, <2>3, <2>4, <2>5, <2>6 DEF Checked, Bound, LastIsCurrent
<1>4. CASE End("error") /\ UNCHANGED <<goal, log>>
  <2>1. TypeOK'
    BY <1>1, <1>4 DEF TypeOK
  <2>2. AskedOnlyWhenAllowed'
    BY <1>1, <1>4 DEF AskedOnlyWhenAllowed
  <2> QED
    BY <1>2, <1>4, <2>1, <2>2 DEF Checked, Bound, LastIsCurrent, RobotsFirst
<1> QED
  BY <1>3, <1>4 DEF ReceiveRobots

LEMMA LengthsArePositive == LengthsAllowed \subseteq Nat \ {0}
<1>1. \A n \in Nat : 1..n \subseteq Nat \ {0}
  OBVIOUS
<1>2. MaxFetchLength \in Nat
  BY DEF MaxFetchLength
<1> QED
  BY <1>1, <1>2 DEF LengthsAllowed

\* The part that was returned goes on where the parts before it end; without a
\* hint it reaches the end.
LEMMA PartFollows ==
    ASSUME IInv, kind = "tool", pc = "receive", goal = "page"
    PROVE  LET returned == Returned(site.content, start, max, Budget) IN
           /\ returned \in Nat /\ start + returned <= Len(site.content)
           /\ got \o Part = [n \in 1..start + returned |-> n]
           /\ ~HasHint(site.content, start, max, Budget) => start + returned = Len(site.content)
<1> DEFINE returned == Returned(site.content, start, max, Budget)
<1>1. /\ site.content \in Seq(1..4) /\ start \in Nat /\ start <= Len(site.content)
      /\ Len(site.content) \in Nat
      /\ Budget \in Nat /\ 4 + HintText + MaxDigits + 1 <= Budget
  <2>1. site \in Sites /\ start \in Nat /\ start <= Len(site.content)
    BY DEF TypeOK, InText
  <2>2. /\ site.content \in Seq(1..4) /\ site.header \in Nat
        /\ site.header + 4 + HintText + MaxDigits + 1 <= MaxResult
    BY <2>1, FetchAssumption DEF IsText
  <2>3. Len(site.content) \in Nat
    BY <2>2
  <2>4. MaxResult \in Nat /\ HintText \in Nat /\ MaxDigits \in Nat
    BY FetchAssumption, HintAssumption
  <2>5. Budget \in Nat /\ 4 + HintText + MaxDigits + 1 <= Budget
    BY <2>2, <2>4 DEF Budget
  <2> QED
    BY <2>1, <2>2, <2>3, <2>5
<1>2. max \in Nat \ {0}
  BY LengthsArePositive DEF Checked
<1>3. /\ returned \in Nat /\ start + returned <= Len(site.content)
      /\ start + returned < Len(site.content) => HasHint(site.content, start, max, Budget)
  <2>1. CASE start < Len(site.content)
    <3>1. /\ returned \in 1..max
          /\ start + returned <= Len(site.content)
          /\ start + returned < Len(site.content) => HasHint(site.content, start, max, Budget)
      BY <1>1, <1>2, <2>1, PageLeadsOn
    <3> QED
      BY <3>1, <1>2
  <2>2. CASE start = Len(site.content)
    BY <1>1, <2>2 DEF Returned
  <2> QED
    BY <1>1, <2>1, <2>2
<1>4. got = [n \in 1..start |-> n] /\ Part = [n \in 1..returned |-> start + n]
  BY DEF PagesJoin, Part
<1>5. got \o Part = [n \in 1..start + returned |-> n]
  <2>1. got \in Seq(Nat) /\ Part \in Seq(Nat) /\ Len(got) = start /\ Len(Part) = returned
    BY <1>1, <1>3, <1>4
  <2> QED
    BY <1>1, <1>3, <1>4, <2>1
<1> QED
  BY <1>1, <1>3, <1>5

LEMMA PageKeeps == IInv /\ ReceivePage => IInv'
<1> SUFFICES ASSUME IInv, ReceivePage PROVE IInv'
  OBVIOUS
<1>1. /\ UNCHANGED fixed /\ UNCHANGED <<max, goal, pinned, log>> /\ pc = "receive" /\ goal = "page"
      /\ pc' \in {"idle", "done"}
  BY DEF ReceivePage
<1>2. AskedOnlyWhenAllowed'
  BY <1>1 DEF AskedOnlyWhenAllowed
<1>3. TypeOK' /\ PagesJoin' /\ InText' /\ (reply' = "none" \/ pc' = "done")
  <2>1. CASE /\ UNCHANGED <<start, got>> /\ pc' = "done" /\ reply' \in {"ok", "error"}
             /\ reply' = "ok" => kind = "prompt"
    BY <1>1, <2>1 DEF TypeOK, PagesJoin, InText
  <2>2. CASE kind = "tool" /\ got' = got \o Part
    <3> DEFINE returned == Returned(site.content, start, max, Budget)
    <3>1. /\ returned \in Nat /\ start + returned <= Len(site.content)
          /\ got' = [n \in 1..start + returned |-> n]
          /\ ~HasHint(site.content, start, max, Budget) => start + returned = Len(site.content)
      BY <1>1, <2>2, PartFollows
    <3>2. got' \in Seq(Nat) /\ start \in Nat
      BY <3>1 DEF TypeOK
    <3>3. CASE /\ start' = Next(site.content, start, max, Budget)
               /\ pc' = "idle" /\ reply' = reply
      <4>1. start' = start + returned
        BY <3>3 DEF Next
      <4>2. TypeOK'
        BY <1>1, <3>1, <3>2, <3>3, <4>1 DEF TypeOK
      <4>3. PagesJoin' /\ InText'
        BY <1>1, <3>1, <3>3, <4>1 DEF PagesJoin, InText
      <4> QED
        BY <1>1, <3>3, <4>2, <4>3
    <3>4. CASE /\ ~HasHint(site.content, start, max, Budget)
               /\ End("ok") /\ UNCHANGED start
      <4>1. TypeOK'
        BY <1>1, <3>2, <3>4 DEF TypeOK
      <4>2. PagesJoin' /\ InText'
        BY <1>1, <3>1, <3>4 DEF PagesJoin, InText
      <4> QED
        BY <3>4, <4>1, <4>2
    <3>5. CASE pc' = "done" /\ reply' = "error" /\ UNCHANGED start
      BY <1>1, <3>2, <3>5 DEF TypeOK, PagesJoin, InText
    <3> QED
      BY <2>2, <3>3, <3>4, <3>5, <2>1 DEF ReceivePage
  <2> QED
    BY <2>1, <2>2 DEF ReceivePage, TypeOK
<1> QED
  BY <1>1, <1>2, <1>3 DEF Checked, Bound, LastIsCurrent, RobotsFirst

\* Everything above, of every state.
THEOREM InvariantHolds == Spec => []IInv
<1>1. IInv /\ [NextStep]_vars => IInv'
  <2> SUFFICES ASSUME IInv, [NextStep]_vars PROVE IInv'
    OBVIOUS
  <2>1. CASE Step
    BY <2>1, AskKeeps, CheckKeeps, ResolveKeeps, SendKeeps, FailureKeeps, RobotsKeep, PageKeeps
       DEF Step
  <2>2. CASE UNCHANGED vars
    <3>1. Checked'
      <4>1. Offered' <=> Offered
        BY <2>2, OfferStays DEF vars
      <4> QED
        BY <2>2, <4>1 DEF vars, Checked
    <3>2. TypeOK'
      BY <2>2 DEF vars, TypeOK
    <3>3. AskedOnlyWhenAllowed'
      BY <2>2 DEF vars, AskedOnlyWhenAllowed
    <3> QED
      BY <2>2, <3>1, <3>2, <3>3 DEF vars, Bound, LastIsCurrent, RobotsFirst, InText, PagesJoin
  <2> QED
    BY <2>1, <2>2 DEF NextStep, Over
<1> QED
  BY <1>1, InitHolds, PTL DEF Spec

\* The parts join, for every text, size of the header and lengths asked for.
THEOREM PagesAlwaysJoin == Spec => []PagesJoin
<1>1. IInv => PagesJoin
  OBVIOUS
<1> QED
  BY <1>1, InvariantHolds, PTL

\* No request goes where it must not, whatever the name server and the site answer.
THEOREM RequestsAreAllowed == Spec => []AskedOnlyWhenAllowed
<1>1. IInv => AskedOnlyWhenAllowed
  OBVIOUS
<1> QED
  BY <1>1, InvariantHolds, PTL
=============================================================================
