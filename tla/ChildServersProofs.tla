------------------------- MODULE ChildServersProofs -------------------------
(***************************************************************************)
(* Proofs about ChildServers, for any number of servers, any tools and any *)
(* limits: a name leads to the right tool of the right server, each tool   *)
(* has a name of its own, and no child is forgotten.                       *)
(*                                                                         *)
(* The naming of a catalog and the filter of a tool list are functions     *)
(* defined by recursion over an interval: Iterates of LeastElements says   *)
(* that such a function exists, StaysWithin where its values are.          *)
(***************************************************************************)
EXTENDS ChildServers, LeastElements, FiniteSetTheorems, FunctionTheorems, SequenceTheorems, TLAPS

-----------------------------------------------------------------------------
(* The permitted tools *)

\* What a server at hand gives the catalog: the entries of the listed tools the policy allows.
LEMMA PermittedEntries ==
    ASSUME NEW listed \in Seq(Tools)
    PROVE  Permitted(listed) \in
              Seq({EntryOf(t) : t \in {t \in Range(listed) : Allows(policy, at, t)}})
<1> DEFINE n == Len(listed)
           Sound == Seq({EntryOf(t) : t \in {t \in Range(listed) : Allows(policy, at, t)}})
           S == [i \in 0..n |-> Sound]
           Body(h) == [i \in 0..n |->
                IF i = 0 THEN <<>>
                ELSE IF Allows(policy, at, listed[i]) THEN Append(h[i - 1], EntryOf(listed[i]))
                ELSE h[i - 1]]
           More(i, s) == IF Allows(policy, at, listed[i]) THEN Append(s, EntryOf(listed[i])) ELSE s
           F == CHOOSE h : h = Body(h)
<1>1. n \in Nat
  OBVIOUS
<1>2. ASSUME NEW i \in 1..n, NEW s \in Sound PROVE More(i, s) \in Sound
  <2>1. CASE Allows(policy, at, listed[i])
    <3>1. EntryOf(listed[i]) \in {EntryOf(t) : t \in {t \in Range(listed) : Allows(policy, at, t)}}
      BY <2>1 DEF Range
    <3> QED
      BY <2>1, <3>1, AppendProperties
  <2>2. CASE ~Allows(policy, at, listed[i])
    BY <2>2
  <2> QED
    BY <2>1, <2>2
<1> HIDE DEF More, Sound, n
<1> DEFINE step == [i \in 1..n |-> [s \in Sound |-> More(i, s)]]
<1>3. Leads(step, S, n)
  BY <1>1, <1>2 DEF Leads
<1>4. <<>> \in Sound
  BY DEF Sound
<1>5. PICK g : IsRun(g, step, <<>>, n)
  <2> HIDE DEF step
  <2> QED
    BY <1>1, Iterates
<1>6. \A i \in 0..n : g[i] \in S[i]
  <2>1. g[0] \in S[0]
    BY <1>1, <1>4, <1>5 DEF IsRun
  <2> HIDE DEF step, S
  <2>2. \A i \in 1..n : g[i] = step[i][g[i - 1]]
    BY <1>5 DEF IsRun
  <2> QED
    BY <1>1, <1>3, <2>1, <2>2, StaysWithin
<1>7. g = Body(g)
  <2>1. ASSUME NEW i \in 0..n PROVE g[i] = Body(g)[i]
    <3>1. CASE i = 0
      BY <1>5, <3>1 DEF IsRun
    <3>2. CASE i # 0
      <4>1. i \in 1..n /\ i - 1 \in 0..n
        BY <1>1, <3>2
      <4>2. g[i] = More(i, g[i - 1])
        BY <1>5, <1>6, <4>1 DEF IsRun
      <4> QED
        BY <3>2, <4>2 DEF More
    <3> QED
      BY <3>1, <3>2
  <2> HIDE DEF step
  <2> QED
    BY <1>5, <2>1 DEF IsRun
<1>8. F = Body(F)
  <2> HIDE DEF Body
  <2> QED
    BY <1>7
<1>9. Permitted(listed) = F[n]
  BY DEF Permitted, n
<1> HIDE DEF F
<1>10. \A i \in 0..n : F[i] \in S[i]
  <2>1. F[0] \in S[0]
    BY <1>1, <1>4, <1>8
  <2>2. ASSUME NEW i \in 1..n, F[i - 1] \in S[i - 1] PROVE F[i] = step[i][F[i - 1]]
    <3>1. i - 1 \in 0..n /\ i \in 0..n /\ i # 0
      BY <1>1
    <3>2. F[i] = More(i, F[i - 1]) /\ F[i - 1] \in Sound
      BY <1>8, <2>2, <3>1 DEF More
    <3> QED
      BY <3>2
  <2> HIDE DEF step, S
  <2> QED
    BY <1>1, <1>3, <2>1, <2>2, StaysWithin
<1> QED
  BY <1>1, <1>9, <1>10 DEF Sound

-----------------------------------------------------------------------------
(* Names *)

\* What qualified_name makes, and unique_name may return.
Names == {name \in Seq(Nat) : Len(name) <= MaxName}

\* A suffixed name has room for its suffix, which is told from its end.
LEMMA SuffixedName ==
    ASSUME ChildAssumption, NEW base \in Names, NEW n \in Nat
    PROVE  /\ Suffixed(base, n) \in Names
           /\ Suffixed(base, n)[Len(Suffixed(base, n))] = n
<1> DEFINE kept == IF Len(base) < MaxName THEN Len(base) ELSE MaxName - 1
<1>1. /\ base \in Seq(Nat) /\ Len(base) \in Nat /\ MaxName \in Nat \ {0}
      /\ Len(base) <= MaxName
  BY DEF Names, ChildAssumption
<1>2. kept \in 0..Len(base) /\ kept < MaxName
  BY <1>1
<1>3. SubSeq(base, 1, kept) \in Seq(Nat) /\ Len(SubSeq(base, 1, kept)) = kept
  <2>1. kept \in 1 - 1..Len(base)
    BY <1>1, <1>2
  <2> HIDE DEF kept
  <2> QED
    BY <1>1, <1>2, <2>1, SubSeqProperties
<1> DEFINE short == SubSeq(base, 1, kept)
<1>4. Suffixed(base, n) = Append(short, n)
  BY DEF Suffixed
<1> HIDE DEF short, kept
<1>5. /\ Append(short, n) \in Seq(Nat) /\ Len(Append(short, n)) = kept + 1
      /\ Append(short, n)[kept + 1] = n
  BY <1>3, AppendProperties DEF short
<1> QED
  BY <1>1, <1>2, <1>4, <1>5 DEF Names

\* Fewer names than MaxTools leave one of the MaxTools suffixes of a base free.
LEMMA SomeSuffixIsFree ==
    ASSUME ChildAssumption, NEW base \in Names, NEW used \in Seq(Names), Len(used) < MaxTools
    PROVE  FreeSuffixes(base, Range(used)) # {}
<1> DEFINE holder == [n \in 2..MaxTools + 1 |-> CHOOSE i \in 1..Len(used) : used[i] = Suffixed(base, n)]
<1>1. MaxTools \in Nat /\ Len(used) \in Nat /\ DOMAIN used = 1..Len(used)
  BY DEF ChildAssumption
<1>2. SUFFICES ASSUME FreeSuffixes(base, Range(used)) = {} PROVE FALSE
  OBVIOUS
<1>3. ASSUME NEW n \in 2..MaxTools + 1
      PROVE  holder[n] \in 1..Len(used) /\ used[holder[n]] = Suffixed(base, n)
  <2>1. \E i \in 1..Len(used) : used[i] = Suffixed(base, n)
    BY <1>1, <1>2 DEF FreeSuffixes, Range
  <2> QED
    BY <2>1
<1>4. /\ IsFiniteSet(1..Len(used)) /\ Cardinality(1..Len(used)) = Len(used)
      /\ IsFiniteSet(2..MaxTools + 1) /\ Cardinality(2..MaxTools + 1) = MaxTools
  <2>1. IsFiniteSet(1..Len(used)) /\ Cardinality(1..Len(used)) = Len(used)
    <3>1. PICK l \in Nat : l = Len(used)
      BY <1>1
    <3>2. l \in Int /\ 1 \in Int
      BY <3>1
    <3>3. IsFiniteSet(1..l) /\ Cardinality(1..l) = IF 1 > l THEN 0 ELSE l - 1 + 1
      BY <3>2, FS_Interval, Zenon
    <3> QED
      BY <3>1, <3>3
  <2>2. /\ IsFiniteSet(2..MaxTools + 1)
        /\ Cardinality(2..MaxTools + 1) = IF 2 > MaxTools + 1 THEN 0 ELSE (MaxTools + 1) - 2 + 1
    <3>1. 2 \in Int /\ MaxTools + 1 \in Int
      BY <1>1
    <3> QED
      BY <3>1, FS_Interval, Zenon
  <2> QED
    BY <1>1, <2>1, <2>2
<1>5. holder \in [2..MaxTools + 1 -> 1..Len(used)]
  BY <1>3
<1>6. PICK m, n \in 2..MaxTools + 1 : m # n /\ holder[m] = holder[n]
  <2> HIDE DEF holder
  <2>1. Cardinality(1..Len(used)) < Cardinality(2..MaxTools + 1)
    BY <1>4
  <2> QED
    BY <1>4, <1>5, <2>1, FS_PigeonHole
<1>7. Suffixed(base, m) = Suffixed(base, n)
  BY <1>3, <1>6
<1>8. m \in Nat /\ n \in Nat
  BY <1>1
<1> QED
  BY <1>6, <1>7, <1>8, SuffixedName

\* unique_name finds a name that nobody has, and it is short enough.
LEMMA UniqueNameIsNew ==
    ASSUME ChildAssumption, NEW base \in Names, NEW used \in Seq(Names), Len(used) < MaxTools
    PROVE  UniqueName(base, Range(used)) \in Names \ Range(used)
<1> DEFINE Free == FreeSuffixes(base, Range(used))
<1>1. CASE base \notin Range(used)
  BY <1>1 DEF UniqueName
<1>2. CASE base \in Range(used)
  <2>1. Free # {} /\ Free \in SUBSET Nat
    BY SomeSuffixIsFree DEF FreeSuffixes, ChildAssumption
  <2> DEFINE least == CHOOSE n \in Free : \A k \in Free : n <= k
  <2>2. least \in Free
    <3>1. \E n \in Free : \A k \in Free : n <= k
      <4> HIDE DEF Free
      <4> QED
        BY <2>1, HasLeast
    <3> QED
      BY <3>1
  <2>3. UniqueName(base, Range(used)) = Suffixed(base, least)
    BY <1>2 DEF UniqueName
  <2> HIDE DEF least
  <2>4. least \in Nat /\ Suffixed(base, least) \notin Range(used)
    BY <2>2 DEF FreeSuffixes, ChildAssumption
  <2> QED
    BY <2>3, <2>4, SuffixedName
<1> QED
  BY <1>1, <1>2

\* A name that nobody has keeps names distinct.
LEMMA AppendStaysInjective ==
    ASSUME NEW S, NEW s \in Seq(S), IsInjective(s), NEW x \in S \ Range(s)
    PROVE  IsInjective(Append(s, x))
<1>1. PICK n \in Nat : n = Len(s)
  OBVIOUS
<1>2. /\ DOMAIN Append(s, x) = 1..n + 1 /\ DOMAIN s = 1..n
      /\ Append(s, x)[n + 1] = x
      /\ \A i \in 1..n : Append(s, x)[i] = s[i] /\ s[i] # x
  BY <1>1, AppendProperties DEF Range
<1> QED
  BY <1>2 DEF IsInjective

\* The naming of a catalog: as many names as entries, each of them new.
LEMMA NamesAreDistinct ==
    ASSUME ChildAssumption, NEW entries, NEW sorted \in Seq(entries),
           \A e \in entries : e.base \in Names,
           Len(sorted) <= MaxTools
    PROVE  /\ NamesOf(sorted) \in Seq(Names)
           /\ Len(NamesOf(sorted)) = Len(sorted)
           /\ IsInjective(NamesOf(sorted))
<1> DEFINE n == Len(sorted)
           Given(i) == {s \in Seq(Names) : Len(s) = i /\ IsInjective(s)}
           S == [i \in 0..n |-> Given(i)]
           More(i, s) == Append(s, UniqueName(sorted[i].base, Range(s)))
           step == [i \in 1..n |-> [s \in Given(i - 1) |-> More(i, s)]]
           Body(h) == [i \in 0..n |->
                IF i = 0 THEN <<>>
                ELSE Append(h[i - 1], UniqueName(sorted[i].base, Range(h[i - 1])))]
           F == CHOOSE h : h = Body(h)
<1>1. n \in Nat /\ n <= MaxTools /\ MaxTools \in Nat
  BY DEF ChildAssumption
<1>2. ASSUME NEW i \in 1..n, NEW s \in Given(i - 1) PROVE More(i, s) \in Given(i)
  <2>1. sorted[i].base \in Names
    OBVIOUS
  <2>2. s \in Seq(Names) /\ Len(s) = i - 1 /\ IsInjective(s) /\ Len(s) < MaxTools
    BY <1>1
  <2>3. PICK name : name = UniqueName(sorted[i].base, Range(s)) /\ name \in Names \ Range(s)
    BY <2>1, <2>2, UniqueNameIsNew
  <2>4. IsInjective(Append(s, name))
    BY <2>2, <2>3, AppendStaysInjective
  <2>5. Append(s, name) \in Seq(Names) /\ Len(Append(s, name)) = i
    BY <2>2, <2>3, AppendProperties
  <2> QED
    BY <2>3, <2>4, <2>5
<1> HIDE DEF More, Given, n
<1>3. Leads(step, S, n)
  <2>1. \A i \in 1..n : i - 1 \in 0..n /\ i \in 0..n
    BY <1>1
  <2> QED
    BY <1>2, <2>1 DEF Leads
<1>4. <<>> \in Given(0)
  BY DEF Given, IsInjective
<1>5. PICK g : IsRun(g, step, <<>>, n)
  <2> HIDE DEF step
  <2> QED
    BY <1>1, Iterates
<1>6. \A i \in 0..n : g[i] \in S[i]
  <2>1. g[0] \in S[0]
    BY <1>1, <1>4, <1>5 DEF IsRun
  <2> HIDE DEF step, S
  <2>2. \A i \in 1..n : g[i] = step[i][g[i - 1]]
    BY <1>5 DEF IsRun
  <2> QED
    BY <1>1, <1>3, <2>1, <2>2, StaysWithin
<1>7. g = Body(g)
  <2>1. ASSUME NEW i \in 0..n PROVE g[i] = Body(g)[i]
    <3>1. CASE i = 0
      BY <1>5, <3>1 DEF IsRun
    <3>2. CASE i # 0
      <4>1. i \in 1..n /\ i - 1 \in 0..n
        BY <1>1, <3>2
      <4>2. g[i] = More(i, g[i - 1])
        BY <1>5, <1>6, <4>1 DEF IsRun
      <4> QED
        BY <3>2, <4>2 DEF More
    <3> QED
      BY <3>1, <3>2
  <2> HIDE DEF step
  <2> QED
    BY <1>5, <2>1 DEF IsRun
<1>8. F = Body(F)
  <2> HIDE DEF Body
  <2> QED
    BY <1>7
<1>9. NamesOf(sorted) = F[n]
  BY DEF NamesOf, n
<1> HIDE DEF F
<1>10. \A i \in 0..n : F[i] \in S[i]
  <2>1. F[0] \in S[0]
    BY <1>1, <1>4, <1>8
  <2>2. ASSUME NEW i \in 1..n, F[i - 1] \in S[i - 1] PROVE F[i] = step[i][F[i - 1]]
    <3>1. i - 1 \in 0..n /\ i \in 0..n /\ i # 0
      BY <1>1
    <3>2. F[i] = More(i, F[i - 1]) /\ F[i - 1] \in Given(i - 1)
      BY <1>8, <2>2, <3>1 DEF More
    <3> QED
      BY <3>2
  <2> HIDE DEF step, S
  <2> QED
    BY <1>1, <1>3, <2>1, <2>2, StaysWithin
<1>11. F[n] \in Given(n)
  BY <1>1, <1>10
<1> QED
  BY <1>9, <1>11 DEF Given, n

\* With a name of its own for each entry, every name leads to its entry.
LEMMA RoutesAreEntries ==
    ASSUME NEW sorted, NEW names, IsInjective(names), DOMAIN names \subseteq Nat
    PROVE  /\ DOMAIN RoutesOf(sorted, names) = Range(names)
           /\ \A i \in DOMAIN names : RoutesOf(sorted, names)[names[i]] = sorted[i]
<1>1. DOMAIN RoutesOf(sorted, names) = Range(names)
  BY DEF RoutesOf
<1>2. ASSUME NEW i \in DOMAIN names PROVE RoutesOf(sorted, names)[names[i]] = sorted[i]
  <2> DEFINE Latest(j) == names[j] = names[i] /\ \A k \in DOMAIN names : names[k] = names[i] => k <= j
  <2>1. names[i] \in Range(names)
    BY DEF Range
  <2>2. Latest(i) /\ \A j \in DOMAIN names : Latest(j) => j = i
    BY DEF IsInjective
  <2>3. (CHOOSE j \in DOMAIN names : Latest(j)) = i
    <3> HIDE DEF Latest
    <3> QED
      BY <2>2
  <2>4. RoutesOf(sorted, names)[names[i]] = sorted[CHOOSE j \in DOMAIN names : Latest(j)]
    BY <2>1 DEF RoutesOf
  <2> QED
    BY <2>3, <2>4
<1> QED
  BY <1>1, <1>2

\* Distinct names are as many as there are numbers for them.
LEMMA AsManyNames ==
    ASSUME NEW n \in Nat, NEW names, names = [i \in 1..n |-> names[i]], IsInjective(names)
    PROVE  Cardinality(Range(names)) = n
<1>1. names \in Bijection(1..n, Range(names))
  BY DEF Bijection, Injection, Surjection, IsInjective, Range
<1> QED
  BY <1>1, FS_CountingElements DEF ExistsBijection

InOrder(cat, order) == [i \in DOMAIN cat |-> cat[order[i]]]

\* Publishing, in whatever order: each entry of the catalog is reached by a short name of its own.
LEMMA PublishedRoutes ==
    ASSUME ChildAssumption, NEW entries, NEW cat \in Seq(entries), Len(cat) <= MaxTools,
           \A e \in entries : e.base \in Names,
           NEW order \in Bijection(DOMAIN cat, DOMAIN cat),
           NEW published,
           published = RoutesOf(InOrder(cat, order), NamesOf(InOrder(cat, order)))
    PROVE  /\ DOMAIN published \subseteq Names
           /\ Cardinality(DOMAIN published) = Len(cat)
           /\ {published[name] : name \in DOMAIN published} = Range(cat)
<1>1. PICK n \in Nat : n = Len(cat) /\ DOMAIN cat = 1..n
  OBVIOUS
<1>2. /\ order \in [1..n -> 1..n]
      /\ \A k \in 1..n : \E i \in 1..n : order[i] = k
  BY <1>1 DEF Bijection, Injection, Surjection
<1> DEFINE sorted == [i \in 1..n |-> cat[order[i]]]
           names == NamesOf(sorted)
<1>3. published = RoutesOf(sorted, names)
  BY <1>1 DEF InOrder
<1>4. sorted \in Seq(entries) /\ Len(sorted) = n /\ DOMAIN sorted = 1..n
  <2>1. \A i \in 1..n : sorted[i] \in entries
    BY <1>1, <1>2, ElementOfSeq
  <2>2. sorted \in [1..n -> entries]
    BY <2>1
  <2> HIDE DEF sorted
  <2> QED
    BY <2>2, IsASeq
<1>5. names \in Seq(Names) /\ Len(names) = n /\ IsInjective(names)
  <2> HIDE DEF sorted
  <2>1. Len(sorted) <= MaxTools
    BY <1>1, <1>4
  <2> QED
    BY <1>4, <2>1, NamesAreDistinct
<1> HIDE DEF names
<1>6. /\ DOMAIN names = 1..n /\ names = [i \in 1..n |-> names[i]]
      /\ \A i \in 1..n : names[i] \in Names
  BY <1>5
<1>7. /\ DOMAIN published = Range(names)
      /\ \A i \in 1..n : published[names[i]] = sorted[i]
  <2> HIDE DEF sorted
  <2>1. DOMAIN names \subseteq Nat
    BY <1>6
  <2>2. /\ DOMAIN RoutesOf(sorted, names) = Range(names)
        /\ \A i \in DOMAIN names : RoutesOf(sorted, names)[names[i]] = sorted[i]
    BY <1>5, <2>1, RoutesAreEntries, Zenon
  <2> QED
    BY <1>3, <1>6, <2>2
<1>8. DOMAIN published \subseteq Names
  BY <1>6, <1>7 DEF Range
<1>9. Cardinality(DOMAIN published) = Len(cat)
  BY <1>1, <1>5, <1>6, <1>7, AsManyNames
<1>10. {published[name] : name \in DOMAIN published} = Range(cat)
  <2>1. ASSUME NEW name \in DOMAIN published PROVE published[name] \in Range(cat)
    <3>1. PICK i \in 1..n : name = names[i]
      BY <1>6, <1>7 DEF Range
    <3>2. published[name] = cat[order[i]] /\ order[i] \in DOMAIN cat
      BY <1>1, <1>2, <1>7, <3>1
    <3> QED
      BY <3>2 DEF Range
  <2>2. ASSUME NEW e \in Range(cat) PROVE \E name \in DOMAIN published : e = published[name]
    <3>1. PICK k \in 1..n : e = cat[k]
      BY <1>1 DEF Range
    <3>2. PICK i \in 1..n : order[i] = k
      BY <1>2
    <3>3. names[i] \in DOMAIN published /\ published[names[i]] = e
      BY <1>6, <1>7, <3>1, <3>2 DEF Range
    <3> QED
      BY <3>3
  <2> QED
    BY <2>1, <2>2
<1> QED
  BY <1>8, <1>9, <1>10

-----------------------------------------------------------------------------
(* The invariant *)

\* The servers connected so far come before the one at hand.
ConnectedBefore ==
    /\ Len(connections) < at
    /\ \A i \in DOMAIN connections : connections[i] < at
    /\ pc = "list" => at \in Servers

\* An entry is about a tool that a connected server listed and the policy allows there.
Sound(e) ==
    /\ e.base \in Names
    /\ e.index <= Len(connections)
    /\ e.tool \in offered[connections[e.index]]
    /\ Allows(policy, connections[e.index], e.tool)
CatalogSound == \A i \in DOMAIN catalog : Sound(catalog[i])
RoutesKnown == \A name \in DOMAIN routes : routes[name] \in Range(catalog)

\* Where a live child is to be found, for whoever has to close it.
Found(set) == \A s \in Servers : child[s] = "live" => s \in set
ChildrenFound ==
    /\ pc \in {"next", "ready"} => Found(Range(connections))
    /\ pc = "list" => Found(Range(connections) \cup {at})
    /\ pc \in {"closing", "failing"} => Found(Range(toClose))
    /\ pc \in {"next", "list", "ready", "closing", "failing"} => \A s \in Servers : child[s] # "dropped"

IInv ==
    /\ TypeOK /\ ConnectedBefore /\ CatalogSound /\ RoutesKnown /\ EveryToolHasAName
    /\ ChildrenFound /\ EveryChildIsClosed

\* What the server at hand adds to the catalog is sound once it is connected.
Granted(listed) ==
    {e \in Entry : /\ e.base \in Names
                   /\ e.index = Len(connections) + 1
                   /\ e.tool \in Range(listed)
                   /\ Allows(policy, at, e.tool)}

\* The entries a permitted list makes are of that kind.
LEMMA PermittedIsGranted ==
    ASSUME ChildAssumption, TypeOK, ConnectedBefore, pc = "list", NEW listed \in Listings
    PROVE  /\ Permitted(listed) \in Seq(Granted(listed))
           /\ Permitted(listed) \in Seq(Entry)
<1> DEFINE Taken == {t \in Range(listed) : Allows(policy, at, t)}
<1>1. listed \in Seq(Tools) /\ Range(listed) \subseteq Tools
  <2>1. listed \in Seq(Tools)
    BY DEF ChildAssumption
  <2> QED
    BY <2>1, ElementOfSeq DEF Range
<1>2. /\ at \in Servers /\ NumServers \in Nat
      /\ Len(connections) + 1 \in 1..NumServers
  <2>1. connections \in Seq(Servers) /\ at \in 1..NumServers
    BY DEF TypeOK, ConnectedBefore, Servers
  <2>2. PICK l \in Nat : l = Len(connections)
    BY <2>1
  <2>3. l < at /\ NumServers \in Nat
    BY <2>2 DEF ConnectedBefore, ChildAssumption
  <2>4. l + 1 \in 1..NumServers
    BY <2>1, <2>3
  <2> QED
    BY <2>1, <2>2, <2>3, <2>4 DEF Servers
<1>3. ASSUME NEW t \in Taken PROVE EntryOf(t) \in Granted(listed)
  <2>1. t \in Tools /\ t \in Range(listed) /\ Allows(policy, at, t)
    BY <1>1, <1>3
  <2>2. BaseName[at][t] \in Names /\ BaseName[at][t] \in Seq(Nat)
    BY <1>2, <2>1 DEF ChildAssumption, Names
  <2> HIDE DEF Taken
  <2> QED
    BY <1>2, <2>1, <2>2 DEF EntryOf, NextIndex, Granted, Entry
<1>4. {EntryOf(t) : t \in Taken} \subseteq Granted(listed)
  BY <1>3
<1>5. Permitted(listed) \in Seq({EntryOf(t) : t \in Taken})
  BY <1>1, PermittedEntries
<1>6. Granted(listed) \subseteq Entry
  BY DEF Granted
<1> HIDE DEF Taken
<1> QED
  BY <1>4, <1>5, <1>6, SeqMonotonic

\* A turn starts with nothing connected, so nothing is wrong yet.
LEMMA InitHolds ==
    ASSUME ChildAssumption, Init
    PROVE  IInv
<1>1. TypeOK
  <2>1. at \in 1..NumServers + 1
    BY DEF Init, ChildAssumption
  <2>2. catalog \in Seq(Entry) /\ Len(catalog) <= MaxTools
    BY DEF Init, ChildAssumption
  <2>3. offered \in [Servers -> SUBSET Tools] /\ child \in [Servers -> {"none", "live", "closed", "late", "dropped"}]
    BY DEF Init
  <2>4. \A name \in DOMAIN routes : Len(name) <= MaxName /\ routes[name] \in Entry
    BY DEF Init
  <2>5. connections \in Seq(Servers) /\ toClose \in Seq(Servers)
    BY DEF Init
  <2>6. policy \in Policies /\ pc \in PC /\ cancelled \in BOOLEAN
    BY DEF Init, PC
  <2> QED
    BY <2>1, <2>2, <2>3, <2>4, <2>5, <2>6 DEF TypeOK
<1>2. ConnectedBefore
  BY DEF Init, ConnectedBefore
<1>3. CatalogSound /\ RoutesKnown /\ EveryToolHasAName
  BY DEF Init, CatalogSound, RoutesKnown, EveryToolHasAName
<1>4. ChildrenFound /\ EveryChildIsClosed
  BY DEF Init, ChildrenFound, Found, EveryChildIsClosed
<1> QED
  BY <1>1, <1>2, <1>3, <1>4 DEF IInv

\* The catalog that a server's tools leave is of entries, and within its limit.
LEMMA TakenCatalog ==
    ASSUME ChildAssumption, IInv, NEW listed \in Listings, TakeCatalog(listed)
    PROVE  /\ catalog' \in Seq(Entry)
           /\ Len(catalog') <= MaxTools
           /\ Len(catalog') = Len(catalog) + Len(Permitted(listed))
           /\ \A i \in 1..Len(catalog') :
                 catalog'[i] = IF i <= Len(catalog) THEN catalog[i]
                               ELSE Permitted(listed)[i - Len(catalog)]
<1>1. PICK more : more = Permitted(listed)
  OBVIOUS
<1>2. catalog \in Seq(Entry) /\ more \in Seq(Entry)
  BY <1>1, PermittedIsGranted DEF IInv, TypeOK, TakeCatalog
<1>3. catalog' = catalog \o more /\ Len(catalog) + Len(more) <= MaxTools
  BY <1>1 DEF TakeCatalog, WithinLimits
<1>4. /\ catalog \o more \in Seq(Entry)
      /\ Len(catalog \o more) = Len(catalog) + Len(more)
      /\ \A i \in 1..Len(catalog) + Len(more) :
            (catalog \o more)[i] = IF i <= Len(catalog) THEN catalog[i] ELSE more[i - Len(catalog)]
  BY <1>2, ConcatProperties
<1> QED
  BY <1>1, <1>3, <1>4

\* Giving up, with whatever is to be closed, keeps the types.
LEMMA GiveUpTyped ==
    ASSUME TypeOK, NEW closing \in Seq(Servers), GiveUp(closing), UNCHANGED <<policy, child, cancelled>>
    PROVE  TypeOK'
BY DEF TypeOK, GiveUp, PC, known

\* What a failure of the server at hand closes: that server and those before it.
LEMMA WithCurrentTyped ==
    ASSUME TypeOK, ConnectedBefore, pc = "list"
    PROVE  /\ WithCurrent \in Seq(Servers)
           /\ Range(WithCurrent) = Range(connections) \cup {at}
<1>1. connections \in Seq(Servers) /\ at \in Servers /\ <<at>> \in Seq(Servers) /\ Len(<<at>>) = 1
  BY DEF TypeOK, ConnectedBefore
<1>2. WithCurrent \in Seq(Servers)
  BY <1>1, ConcatProperties DEF WithCurrent
<1>3. Range(WithCurrent) = Range(<<at>>) \cup Range(connections)
  BY <1>1, RangeConcatenation DEF WithCurrent
<1>4. Range(<<at>>) = {at}
  BY DEF Range
<1> QED
  BY <1>2, <1>3, <1>4

\* What publishing makes of a sound catalog.
LEMMA PublishedOfCatalog ==
    ASSUME ChildAssumption, IInv, Publish
    PROVE  /\ DOMAIN routes' \subseteq Names
           /\ Cardinality(DOMAIN routes') = Len(catalog)
           /\ {routes'[name] : name \in DOMAIN routes'} = Range(catalog)
<1>1. PICK cat, published, entries :
          cat = catalog /\ published = routes' /\ entries = {e \in Entry : e.base \in Names}
  OBVIOUS
<1>2. cat \in Seq(entries) /\ Len(cat) <= MaxTools
  BY <1>1 DEF IInv, TypeOK, CatalogSound, Sound
<1>3. PICK order \in Bijection(DOMAIN cat, DOMAIN cat) :
          published = RoutesOf(InOrder(cat, order), NamesOf(InOrder(cat, order)))
  BY <1>1 DEF Publish, InOrder
<1>4. \A e \in entries : e.base \in Names
  BY <1>1
<1>5. /\ DOMAIN published \subseteq Names
      /\ Cardinality(DOMAIN published) = Len(cat)
      /\ {published[name] : name \in DOMAIN published} = Range(cat)
  BY <1>2, <1>3, <1>4, PublishedRoutes
<1> QED
  BY <1>1, <1>5

\* Each step of a turn keeps every variable in its type.
LEMMA StepTyped ==
    ASSUME ChildAssumption, IInv, [Next]_vars
    PROVE  TypeOK'
<1> USE DEF IInv
<1>1. ASSUME SkipServer PROVE TypeOK'
  BY <1>1 DEF SkipServer, GoOn, TypeOK, PC, known, ChildAssumption
<1>2. ASSUME ConnectOne PROVE TypeOK'
  BY <1>2 DEF ConnectOne, TypeOK, PC, known, Servers, ChildAssumption
<1>3. ASSUME ConnectFails PROVE TypeOK'
  <2>1. PICK closing : closing = connections
    OBVIOUS
  <2>2. closing \in Seq(Servers) /\ GiveUp(closing)
    BY <1>3, <2>1 DEF TypeOK, ConnectFails, GiveUp
  <2> QED
    BY <1>3, <2>2, GiveUpTyped DEF ConnectFails
<1>4. ASSUME pc = "list", GiveUp(WithCurrent), UNCHANGED <<policy, child, cancelled>> PROVE TypeOK'
  <2>1. PICK closing : closing = WithCurrent
    OBVIOUS
  <2>2. closing \in Seq(Servers) /\ GiveUp(closing)
    BY <1>4, <2>1, WithCurrentTyped DEF GiveUp
  <2> QED
    BY <1>4, <2>2, GiveUpTyped
<1>5. ASSUME NEW listed \in Listings, TakeCatalog(listed) PROVE TypeOK'
  <2>1. catalog' \in Seq(Entry) /\ Len(catalog') <= MaxTools
    BY <1>5, TakenCatalog
  <2>2. at \in Servers /\ at + 1 \in 1..NumServers + 1
    BY <1>5 DEF TakeCatalog, ConnectedBefore, Servers, ChildAssumption
  <2>3. Range(listed) \subseteq Tools
    <3>1. listed \in Seq(Tools)
      BY DEF ChildAssumption
    <3> QED
      BY <3>1, ElementOfSeq DEF Range
  <2>4. connections' \in Seq(Servers)
    BY <1>5, <2>2, AppendProperties DEF TakeCatalog, TypeOK
  <2>5. offered' \in [Servers -> SUBSET Tools]
    BY <1>5, <2>2, <2>3 DEF TakeCatalog, TypeOK
  <2> QED
    BY <1>5, <2>1, <2>2, <2>4, <2>5 DEF TakeCatalog, GoOn, TypeOK, PC
<1>6. ASSUME Publish PROVE TypeOK'
  <2>1. /\ DOMAIN routes' \subseteq Names
        /\ {routes'[name] : name \in DOMAIN routes'} = Range(catalog)
    BY <1>6, PublishedOfCatalog
  <2>2. Range(catalog) \subseteq Entry
    BY ElementOfSeq DEF TypeOK, Range
  <2>3. \A name \in DOMAIN routes' : Len(name) <= MaxName /\ routes'[name] \in Entry
    BY <2>1, <2>2 DEF Names
  <2> QED
    BY <1>6, <2>3 DEF Publish, TypeOK, PC
<1>7. ASSUME Shutdown PROVE TypeOK'
  BY <1>7 DEF Shutdown, TypeOK, PC, known
<1>8. ASSUME CloseOne PROVE TypeOK'
  <2>1. Head(toClose) \in Servers /\ Tail(toClose) \in Seq(Servers)
    BY <1>8, HeadTailProperties DEF CloseOne, TypeOK
  <2> QED
    BY <1>8, <2>1 DEF CloseOne, TypeOK, known
<1>9. ASSUME NEW due, Drop(due), pc' \in PC, UNCHANGED <<policy, at, connections, known, toClose, cancelled>> PROVE TypeOK'
  <2>1. child' \in [Servers -> {"none", "live", "closed", "late", "dropped"}]
    BY <1>9 DEF Drop, TypeOK
  <2> QED
    BY <1>9, <2>1 DEF TypeOK, known
<1>12. ASSUME CurrentTimesOut PROVE TypeOK'
  <2>1. Head(toClose) \in Servers /\ Tail(toClose) \in Seq(Servers)
    BY <1>12, HeadTailProperties DEF CurrentTimesOut, TypeOK
  <2> QED
    BY <1>12, <2>1 DEF CurrentTimesOut, TypeOK, known
<1>13. ASSUME RefuseStart PROVE TypeOK'
  BY <1>13 DEF RefuseStart, TypeOK, PC, known
<1>10. ASSUME Cancel PROVE TypeOK'
  BY <1>10 DEF Cancel, TypeOK, known
<1>11. ASSUME UNCHANGED vars PROVE TypeOK'
  BY <1>11 DEF vars, TypeOK
<1> HIDE DEF IInv
<1> QED
  BY <1>1, <1>2, <1>3, <1>4, <1>5, <1>6, <1>7, <1>8, <1>9, <1>10, <1>11, <1>12, <1>13
  DEF Next, Connect, Close, Over, ServerFails, RejectCatalog, EndClosing, CloseTimesOut, Abort, PC

\* Servers are connected in their order, so none is connected twice.
LEMMA StepConnectsBefore ==
    ASSUME ChildAssumption, IInv, [Next]_vars
    PROVE  ConnectedBefore'
<1> USE DEF IInv
<1>1. ASSUME SkipServer PROVE ConnectedBefore'
  BY <1>1 DEF SkipServer, GoOn, TypeOK, ConnectedBefore
<1>2. ASSUME ConnectOne PROVE ConnectedBefore'
  <2>1. at \in Servers
    BY <1>2 DEF ConnectOne, TypeOK, Servers, ChildAssumption
  <2> QED
    BY <1>2, <2>1 DEF ConnectOne, ConnectedBefore
<1>3. ASSUME NEW listed \in Listings, TakeCatalog(listed) PROVE ConnectedBefore'
  <2>1. PICK l \in Nat : l = Len(connections) /\ DOMAIN connections = 1..l
    BY DEF TypeOK
  <2>2. /\ Len(connections') = l + 1 /\ DOMAIN connections' = 1..l + 1
        /\ \A i \in 1..l : connections'[i] = connections[i]
        /\ connections'[l + 1] = at
    BY <1>3, <2>1, AppendProperties DEF TakeCatalog, ConnectedBefore, TypeOK
  <2>3. at' = at + 1 /\ at \in Nat /\ pc' = "next"
    BY <1>3 DEF TakeCatalog, GoOn, TypeOK
  <2>4. ASSUME NEW i \in 1..l + 1 PROVE connections'[i] < at'
    <3>1. CASE i = l + 1
      BY <2>2, <2>3, <3>1
    <3>2. CASE i # l + 1
      <4>1. i \in 1..l /\ connections[i] \in Nat
        <5>1. i \in 1..l
          BY <2>1, <3>2
        <5>2. connections[i] \in Servers
          BY <2>1, <5>1, ElementOfSeq DEF TypeOK
        <5> QED
          BY <5>1, <5>2 DEF Servers
      <4>2. connections[i] < at
        BY <2>1, <4>1 DEF ConnectedBefore
      <4> QED
        BY <2>2, <2>3, <4>1, <4>2
    <3> QED
      BY <3>1, <3>2
  <2>5. Len(connections') < at'
    BY <2>1, <2>2, <2>3 DEF ConnectedBefore
  <2> QED
    BY <2>2, <2>3, <2>4, <2>5 DEF ConnectedBefore
<1>4. ASSUME UNCHANGED <<at, connections>>, pc' = "list" => pc = "list" PROVE ConnectedBefore'
  BY <1>4 DEF ConnectedBefore
<1> HIDE DEF IInv
<1>5. ASSUME NEW closing, GiveUp(closing) PROVE ConnectedBefore'
  <2>1. UNCHANGED <<at, connections>> /\ pc' = "failing"
    BY <1>5 DEF GiveUp
  <2> QED
    BY <1>4, <2>1
<1>6. ASSUME ConnectFails \/ ServerFails \/ \E listed \in Listings : RejectCatalog(listed)
      PROVE  UNCHANGED <<at, connections>> /\ pc' = "failing"
  BY <1>6 DEF ConnectFails, ServerFails, RejectCatalog, GiveUp
<1>7. ASSUME RefuseStart \/ Publish \/ Close \/ Cancel \/ Abort \/ UNCHANGED vars
      PROVE  UNCHANGED <<at, connections>> /\ (pc' = "list" => pc = "list")
  BY <1>7 DEF RefuseStart, Publish, Close, Shutdown, CloseOne, CurrentTimesOut, EndClosing, CloseTimesOut, Cancel, Abort, vars
<1> QED
  BY <1>1, <1>2, <1>3, <1>4, <1>6, <1>7 DEF Next, Connect, Over

\* A server that is connected later disturbs no entry of an earlier one.
LEMMA StepCatalogSound ==
    ASSUME ChildAssumption, IInv, [Next]_vars
    PROVE  CatalogSound'
<1> USE DEF IInv
<1>1. ASSUME NEW listed \in Listings, TakeCatalog(listed) PROVE CatalogSound'
  <2>1. PICK more, l, m : /\ more = Permitted(listed) /\ l = Len(connections) /\ m = Len(catalog)
    OBVIOUS
  <2>2. more \in Seq(Granted(listed)) /\ l \in Nat /\ m \in Nat /\ DOMAIN connections = 1..l
    <3>1. more \in Seq(Granted(listed))
      BY <1>1, <2>1, PermittedIsGranted DEF TakeCatalog
    <3> QED
      BY <2>1, <3>1 DEF TypeOK
  <2>3. /\ Len(catalog') = m + Len(more) /\ DOMAIN catalog' = 1..m + Len(more)
        /\ \A i \in 1..m + Len(more) : catalog'[i] = IF i <= m THEN catalog[i] ELSE more[i - m]
    <3>1. catalog' \in Seq(Entry) /\ Len(catalog') = m + Len(more)
      BY <1>1, <2>1, TakenCatalog
    <3>2. DOMAIN catalog' = 1..m + Len(more)
      BY <3>1
    <3>3. \A i \in 1..m + Len(more) : catalog'[i] = IF i <= m THEN catalog[i] ELSE more[i - m]
      BY <1>1, <2>1, <3>1, TakenCatalog
    <3> QED
      BY <3>1, <3>2, <3>3
  <2>4. /\ Len(connections') = l + 1
        /\ \A i \in 1..l : connections'[i] = connections[i]
        /\ connections'[l + 1] = at
    BY <1>1, <2>1, <2>2, AppendProperties DEF TakeCatalog, ConnectedBefore, TypeOK
  <2>5. /\ policy' = policy /\ at \in Servers
        /\ offered' = [offered EXCEPT ![at] = Range(listed)]
        /\ offered \in [Servers -> SUBSET Tools]
    BY <1>1 DEF TakeCatalog, ConnectedBefore, TypeOK
  <2>6. ASSUME NEW i \in DOMAIN catalog' PROVE Sound(catalog[i])'
    <3>1. PICK e : e = catalog'[i]
      OBVIOUS
    <3>2. CASE i <= m
      <4>1. i \in DOMAIN catalog /\ e = catalog[i]
        BY <2>1, <2>2, <2>3, <3>1, <3>2 DEF TypeOK
      <4>2. Sound(e) /\ e \in Entry
        BY <4>1, ElementOfSeq DEF CatalogSound, TypeOK
      <4>3. e.index \in 1..l
        BY <2>1, <2>2, <4>2 DEF Sound, Entry
      <4>4. connections[e.index] \in Servers /\ connections[e.index] < at
        BY <2>1, <2>2, <4>3, ElementOfSeq DEF TypeOK, ConnectedBefore
      <4>5. /\ connections'[e.index] = connections[e.index]
            /\ offered'[connections[e.index]] = offered[connections[e.index]]
        BY <2>4, <2>5, <4>3, <4>4 DEF Servers
      <4>6. e.index <= Len(connections')
        BY <2>2, <2>4, <4>3
      <4>7. Sound(e)'
        BY <2>5, <4>2, <4>5, <4>6 DEF Sound
      <4> QED
        BY <3>1, <4>7 DEF Sound
    <3>3. CASE ~(i <= m)
      <4>1. e \in Granted(listed)
        <5>1. PICK k : k = i - m
          OBVIOUS
        <5>2. k \in 1..Len(more) /\ e = more[k]
          BY <2>2, <2>3, <3>1, <3>3, <5>1
        <5> QED
          BY <2>2, <5>2, ElementOfSeq
      <4>2. e.base \in Names /\ e.index = l + 1 /\ e.tool \in Range(listed) /\ Allows(policy, at, e.tool)
        BY <2>1, <4>1 DEF Granted
      <4>3. e.index <= Len(connections') /\ connections'[e.index] = at /\ offered'[at] = Range(listed)
        BY <2>2, <2>4, <2>5, <4>2
      <4>4. Sound(e)'
        BY <2>5, <4>2, <4>3 DEF Sound
      <4> QED
        BY <3>1, <4>4 DEF Sound
    <3> QED
      BY <3>2, <3>3
  <2> QED
    BY <2>6 DEF CatalogSound
<1>2. ASSUME UNCHANGED <<policy, connections, offered, catalog>> PROVE CatalogSound'
  BY <1>2 DEF CatalogSound, Sound
<1> HIDE DEF IInv
<1>3. ASSUME ~\E listed \in Listings : TakeCatalog(listed)
      PROVE  UNCHANGED <<policy, connections, offered, catalog>>
  BY <1>3 DEF Next, Connect, Close, Over, vars, known, RefuseStart, SkipServer, ConnectOne, ConnectFails, ServerFails,
     RejectCatalog, GiveUp, Publish, Shutdown, CloseOne, CurrentTimesOut, EndClosing, CloseTimesOut,
     Cancel, Abort
<1> QED
  BY <1>1, <1>2, <1>3

\* The routes of a turn are made once, of the catalog as it is then, and none is lost by
\* a catalog that grows.
LEMMA StepRoutesKnown ==
    ASSUME ChildAssumption, IInv, [Next]_vars
    PROVE  RoutesKnown' /\ EveryToolHasAName'
<1> USE DEF IInv
<1>1. ASSUME Publish PROVE RoutesKnown' /\ EveryToolHasAName'
  <2>1. /\ Cardinality(DOMAIN routes') = Len(catalog)
        /\ {routes'[name] : name \in DOMAIN routes'} = Range(catalog)
    BY <1>1, PublishedOfCatalog
  <2>2. catalog' = catalog
    BY <1>1 DEF Publish
  <2> QED
    BY <2>1, <2>2 DEF RoutesKnown, EveryToolHasAName
<1>2. ASSUME NEW listed \in Listings, TakeCatalog(listed) PROVE RoutesKnown' /\ EveryToolHasAName'
  <2>1. routes' = routes /\ pc' = "next"
    BY <1>2 DEF TakeCatalog, GoOn
  <2>2. Range(catalog) \subseteq Range(catalog')
    <3>1. PICK m, k \in Nat : m = Len(catalog) /\ k = Len(Permitted(listed))
      <4>1. Permitted(listed) \in Seq(Entry)
        BY <1>2, PermittedIsGranted DEF TakeCatalog
      <4> QED
        BY <4>1 DEF TypeOK
    <3>2. /\ DOMAIN catalog = 1..m /\ DOMAIN catalog' = 1..m + k
          /\ \A i \in 1..m + k : i <= m => catalog'[i] = catalog[i]
      <4>1. catalog' \in Seq(Entry) /\ Len(catalog') = m + k
        BY <1>2, <3>1, TakenCatalog
      <4>2. DOMAIN catalog' = 1..m + k /\ DOMAIN catalog = 1..m
        BY <3>1, <4>1 DEF TypeOK
      <4>3. \A i \in 1..m + k : i <= m => catalog'[i] = catalog[i]
        BY <1>2, <3>1, <4>1, TakenCatalog
      <4> QED
        BY <4>2, <4>3
    <3>3. \A i \in 1..m : i \in 1..m + k /\ i <= m
      OBVIOUS
    <3> QED
      BY <3>2, <3>3 DEF Range
  <2> QED
    BY <2>1, <2>2 DEF RoutesKnown, EveryToolHasAName
<1>3. ASSUME UNCHANGED <<catalog, routes>>, pc' = "ready" => pc = "ready"
      PROVE  RoutesKnown' /\ EveryToolHasAName'
  BY <1>3 DEF RoutesKnown, EveryToolHasAName
<1> HIDE DEF IInv
<1>4. ASSUME ~Publish, ~\E listed \in Listings : TakeCatalog(listed)
      PROVE  UNCHANGED <<catalog, routes>> /\ (pc' = "ready" => pc = "ready")
  BY <1>4 DEF Next, Connect, Close, Over, vars, known, RefuseStart, SkipServer, ConnectOne, ConnectFails, ServerFails,
     RejectCatalog, GiveUp, GoOn, Shutdown, CloseOne, CurrentTimesOut, EndClosing, CloseTimesOut, Cancel, Abort
<1> QED
  BY <1>1, <1>2, <1>3, <1>4

\* The servers to close are the next one and the rest.
LEMMA RestIsToClose ==
    ASSUME TypeOK, toClose # <<>>
    PROVE  Head(toClose) \in Servers /\ Range(toClose) = {Head(toClose)} \cup Range(Tail(toClose))
<1>1. PICK n \in Nat : n = Len(toClose) /\ n # 0 /\ DOMAIN toClose = 1..n
  BY DEF TypeOK
<1>2. /\ Head(toClose) = toClose[1] /\ DOMAIN Tail(toClose) = 1..n - 1
      /\ \A i \in 1..n - 1 : Tail(toClose)[i] = toClose[i + 1]
  BY <1>1, HeadTailProperties DEF TypeOK
<1>3. \A i \in 1..n : i = 1 \/ (i - 1 \in 1..n - 1 /\ (i - 1) + 1 = i)
  BY <1>1
<1>4. \A i \in 1..n - 1 : i + 1 \in 1..n
  BY <1>1
<1>5. Range(Tail(toClose)) \subseteq Range(toClose) /\ Head(toClose) \in Range(toClose)
  BY <1>1, <1>2, <1>4 DEF Range
<1>6. Range(toClose) \subseteq {Head(toClose)} \cup Range(Tail(toClose))
  <2>1. ASSUME NEW i \in 1..n PROVE toClose[i] \in {Head(toClose)} \cup Range(Tail(toClose))
    <3>1. CASE i = 1
      BY <1>2, <3>1
    <3>2. CASE i # 1
      <4>1. PICK k : k = i - 1
        OBVIOUS
      <4>2. k \in 1..n - 1 /\ k + 1 = i
        BY <1>3, <3>2, <4>1
      <4> QED
        BY <1>2, <4>2 DEF Range
    <3> QED
      BY <3>1, <3>2
  <2> QED
    BY <1>1, <2>1 DEF Range
<1>7. Head(toClose) \in Servers
  BY <1>1, <1>2, ElementOfSeq DEF TypeOK
<1> QED
  BY <1>5, <1>6, <1>7

\* Every step hands a live child on to whoever has to close it next.
LEMMA StepChildrenFound ==
    ASSUME ChildAssumption, IInv, [Next]_vars
    PROVE  ChildrenFound'
<1> USE DEF IInv
<1>1. ASSUME SkipServer PROVE ChildrenFound'
  BY <1>1 DEF SkipServer, GoOn, ChildrenFound, Found
<1>2. ASSUME ConnectOne PROVE ChildrenFound'
  <2>1. \A s \in Servers : s # at => child'[s] = child[s]
    BY <1>2 DEF ConnectOne, TypeOK
  <2>2. \A s \in Servers : child'[s] # "dropped"
    BY <1>2, <2>1 DEF ConnectOne, TypeOK, ChildrenFound
  <2> QED
    BY <1>2, <2>1, <2>2 DEF ConnectOne, ChildrenFound, Found
<1>3. ASSUME ConnectFails PROVE ChildrenFound'
  BY <1>3 DEF ConnectFails, GiveUp, ChildrenFound, Found
<1>4. ASSUME pc = "list", GiveUp(WithCurrent), UNCHANGED <<policy, child, cancelled>> PROVE ChildrenFound'
  <2>1. Range(toClose') = Range(connections) \cup {at}
    BY <1>4, WithCurrentTyped DEF GiveUp
  <2> QED
    BY <1>4, <2>1 DEF GiveUp, ChildrenFound, Found
<1>5. ASSUME NEW listed \in Listings, TakeCatalog(listed) PROVE ChildrenFound'
  <2>1. Range(connections') = Range(connections) \cup {at}
    <3>1. PICK l \in Nat : l = Len(connections) /\ DOMAIN connections = 1..l
      BY DEF TypeOK
    <3>2. /\ DOMAIN connections' = 1..l + 1
          /\ \A i \in 1..l : connections'[i] = connections[i]
          /\ connections'[l + 1] = at
      BY <1>5, <3>1, AppendProperties DEF TakeCatalog, ConnectedBefore, TypeOK
    <3>3. \A i \in 1..l + 1 : i = l + 1 \/ i \in 1..l
      OBVIOUS
    <3>4. l + 1 \in 1..l + 1 /\ \A i \in 1..l : i \in 1..l + 1
      OBVIOUS
    <3> QED
      BY <3>1, <3>2, <3>3, <3>4 DEF Range
  <2> QED
    BY <1>5, <2>1 DEF TakeCatalog, GoOn, ChildrenFound, Found
<1>6. ASSUME Publish PROVE ChildrenFound'
  BY <1>6 DEF Publish, ChildrenFound, Found
<1>7. ASSUME Shutdown PROVE ChildrenFound'
  BY <1>7 DEF Shutdown, ChildrenFound, Found
<1>8. ASSUME CloseOne \/ CurrentTimesOut PROVE ChildrenFound'
  <2>1. /\ child'[Head(toClose)] \in {"closed", "late"} /\ Head(toClose) \in Servers
        /\ \A s \in Servers : s # Head(toClose) => child'[s] = child[s]
        /\ Range(toClose) = {Head(toClose)} \cup Range(toClose')
        /\ pc' = pc /\ pc \in {"closing", "failing"}
    BY <1>8, RestIsToClose DEF CloseOne, CurrentTimesOut, TypeOK
  <2> QED
    BY <1>8, <2>1 DEF ChildrenFound, Found
<1>9. ASSUME pc' \in {"done", "failed", "lost"} PROVE ChildrenFound'
  BY <1>9 DEF ChildrenFound
<1>10. ASSUME UNCHANGED <<pc, at, child, connections, toClose>> PROVE ChildrenFound'
  BY <1>10 DEF ChildrenFound, Found
<1> HIDE DEF IInv
<1>11. ASSUME RefuseStart \/ EndClosing \/ CloseTimesOut \/ Abort PROVE pc' \in {"done", "failed", "lost"}
  BY <1>11 DEF RefuseStart, EndClosing, CloseTimesOut, Abort
<1>12. ASSUME Cancel \/ Over \/ UNCHANGED vars PROVE UNCHANGED <<pc, at, child, connections, toClose>>
  BY <1>12 DEF Cancel, Over, vars
<1> QED
  BY <1>1, <1>2, <1>3, <1>4, <1>5, <1>6, <1>7, <1>8, <1>9, <1>10, <1>11, <1>12
  DEF Next, Connect, Close, ServerFails, RejectCatalog

\* A turn ends with no child live, and with none that nobody was about to close.
LEMMA StepClosesEveryChild ==
    ASSUME ChildAssumption, IInv, [Next]_vars
    PROVE  EveryChildIsClosed'
<1> USE DEF IInv
<1>2. ASSUME EndClosing \/ CloseTimesOut PROVE EveryChildIsClosed'
  <2>1. PICK due : /\ due = Range(toClose) /\ Drop(due) /\ pc \in {"closing", "failing"}
                   /\ pc' \in {"done", "failed"}
    <3>1. CASE EndClosing
      BY <3>1 DEF EndClosing, Range
    <3>2. CASE CloseTimesOut
      BY <3>2 DEF CloseTimesOut
    <3> QED
      BY <1>2, <3>1, <3>2
  <2>2. \A s \in Servers : child[s] \in {"none", "closed", "late"} \/ (s \in due /\ child[s] = "live")
    BY <2>1 DEF ChildrenFound, Found, TypeOK
  <2>3. \A s \in Servers : child'[s] \in {"none", "closed", "late"}
    BY <2>1, <2>2 DEF Drop
  <2> QED
    BY <2>1, <2>3 DEF EveryChildIsClosed
<1>3. ASSUME Abort PROVE EveryChildIsClosed'
  <2>1. Drop({}) /\ pc' = "lost"
    BY <1>3 DEF Abort
  <2> QED
    BY <2>1 DEF Drop, EveryChildIsClosed
<1>7. ASSUME RefuseStart PROVE EveryChildIsClosed'
  <2>1. pc = "next" /\ child' = child /\ pc' = "failed" /\ at = 1
    BY <1>7 DEF RefuseStart
  <2>2. Len(connections) \in Nat /\ Len(connections) < 1 /\ DOMAIN connections = 1..Len(connections)
    BY <2>1 DEF ConnectedBefore, TypeOK
  <2>3. DOMAIN connections = {}
    BY <2>2
  <2>4. Range(connections) = {}
    BY <2>3 DEF Range
  <2>5. \A s \in Servers : child[s] \in {"none", "closed", "late"}
    BY <2>1, <2>4 DEF ChildrenFound, Found, TypeOK
  <2> QED
    BY <2>1, <2>5 DEF EveryChildIsClosed
<1>4. ASSUME UNCHANGED vars PROVE EveryChildIsClosed'
  BY <1>4 DEF EveryChildIsClosed, vars
<1>5. ASSUME pc' \notin {"done", "failed", "lost"} PROVE EveryChildIsClosed'
  BY <1>5 DEF EveryChildIsClosed
<1> HIDE DEF IInv
<1>6. ASSUME Connect \/ Shutdown \/ CloseOne \/ CurrentTimesOut \/ Cancel PROVE pc' \notin {"done", "failed", "lost"}
  BY <1>6 DEF Connect, SkipServer, ConnectOne, ConnectFails, ServerFails, Publish, TakeCatalog, RejectCatalog,
     GiveUp, GoOn, Shutdown, CloseOne, CurrentTimesOut, Cancel
<1> QED
  BY <1>2, <1>3, <1>4, <1>5, <1>6, <1>7 DEF Next, Close, Over

-----------------------------------------------------------------------------
(* What holds of every turn *)

\* The invariant, of which the theorems below are the parts that are worth knowing.
THEOREM Invariant == Spec => []IInv
<1>1. Init => IInv
  BY ChildAssumption, InitHolds
<1>2. IInv /\ [Next]_vars => IInv'
  <2> SUFFICES ASSUME IInv, [Next]_vars PROVE IInv'
    OBVIOUS
  <2> QED
    BY ChildAssumption, StepTyped, StepConnectsBefore, StepCatalogSound, StepRoutesKnown,
       StepChildrenFound, StepClosesEveryChild DEF IInv
<1> QED
  BY <1>1, <1>2, PTL DEF Spec

\* Every variable keeps its type: the catalog never outgrows MAX_CHILD_TOOLS, no name is
\* longer than a provider takes, and no tool is routed to a connection that cannot be.
THEOREM TypeCorrect == Spec => []TypeOK
<1>1. IInv => TypeOK
  BY DEF IInv
<1> QED
  BY <1>1, Invariant, PTL

\* However many servers were skipped on the way, a name leads to the connection of a server
\* that offers the tool, and to a tool that the policy allows there.
THEOREM RoutingSafety == Spec => []RoutesLeadHome
<1>1. IInv => RoutesLeadHome
  <2> SUFFICES ASSUME IInv, NEW name \in DOMAIN routes
               PROVE  LET e == routes[name]
                      IN  /\ e.index <= Len(connections)
                          /\ e.tool \in offered[connections[e.index]]
                          /\ Allows(policy, connections[e.index], e.tool)
    BY DEF RoutesLeadHome
  <2>1. PICK i \in DOMAIN catalog : routes[name] = catalog[i]
    BY DEF IInv, RoutesKnown, Range
  <2> QED
    BY <2>1 DEF IInv, CatalogSound, Sound
<1> QED
  BY <1>1, Invariant, PTL

\* Whatever names collide once they are made safe or shortened, and in whatever order: each
\* tool of the catalog is reached by a name of its own.
THEOREM NamingSafety == Spec => []EveryToolHasAName
<1>1. IInv => EveryToolHasAName
  BY DEF IInv
<1> QED
  BY <1>1, Invariant, PTL

\* No way out of connecting or closing forgets a child that was started.
THEOREM ClosingSafety == Spec => []EveryChildIsClosed
<1>1. IInv => EveryChildIsClosed
  BY DEF IInv
<1> QED
  BY <1>1, Invariant, PTL
=============================================================================
