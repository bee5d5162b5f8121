-------------------------- MODULE FileServerProofs --------------------------
(***************************************************************************)
(* Proofs about FileServer, for all calls, trees, directories and limits.  *)
(* First paths, trees and edits by themselves; then the inductive          *)
(* invariant, part by part; then the theorems, and that the server         *)
(* implements FileStore.                                                   *)
(***************************************************************************)
EXTENDS FileServer, LeastElements, SequenceTheorems, FiniteSetTheorems, FunctionTheorems, TLAPS

-----------------------------------------------------------------------------
(* Paths: prefixes, parents, and what a rename makes of a path *)

\* A prefix has the length it was asked for.
LEMMA PrefixOf ==
    ASSUME NEW S, NEW p \in Seq(S), NEW n \in 0..Len(p)
    PROVE  /\ Prefix(p, n) \in Seq(S)
           /\ Len(Prefix(p, n)) = n
           /\ \A i \in 1..n : Prefix(p, n)[i] = p[i]
BY DEF Prefix

\* A path is its own longest prefix.
LEMMA PrefixWhole ==
    ASSUME NEW S, NEW p \in Seq(S)
    PROVE  Prefix(p, Len(p)) = p
BY DEF Prefix

\* A prefix of a prefix is a prefix.
LEMMA PrefixOfPrefix ==
    ASSUME NEW S, NEW p \in Seq(S), NEW n \in 0..Len(p), NEW m \in 0..n
    PROVE  Prefix(Prefix(p, n), m) = Prefix(p, m)
BY DEF Prefix

\* A path is its parent and its last name.
LEMMA ParentOf ==
    ASSUME NEW S, NEW p \in Seq(S), p # <<>>
    PROVE  /\ Parent(p) \in Seq(S)
           /\ Len(Parent(p)) = Len(p) - 1
           /\ Len(p) \in Nat \ {0}
           /\ \A n \in 0..Len(p) - 1 : Prefix(Parent(p), n) = Prefix(p, n)
           /\ p = Append(Parent(p), Last(p))
           /\ Last(p) \in S
<1>1. /\ Parent(p) \in Seq(S)
      /\ Len(Parent(p)) = Len(p) - 1
      /\ Len(p) \in Nat \ {0}
      /\ \A n \in 0..Len(p) - 1 : Prefix(Parent(p), n) = Prefix(p, n)
  <2>1. Len(p) \in Nat \ {0} /\ Len(p) - 1 \in 0..Len(p)
    OBVIOUS
  <2> QED
    BY <2>1, PrefixOf, PrefixOfPrefix DEF Parent
<1>5. Last(p) \in S
  <2>1. Len(p) \in 1..Len(p)
    BY <1>1
  <2> QED
    BY <2>1 DEF Last
<1>2. \A i \in 1..Len(p) - 1 : Parent(p)[i] = p[i]
  BY DEF Prefix, Parent
<1>3. \A i \in 1..Len(p) : Append(Parent(p), Last(p))[i] = p[i]
  BY <1>1, <1>2, <1>5, AppendProperties DEF Last
<1>4. p = Append(Parent(p), Last(p))
  BY <1>1, <1>3, <1>5, AppendProperties, SeqEqual
<1> QED
  BY <1>1, <1>4, <1>5

\* What a longer path is made of.
LEMMA AppendOf ==
    ASSUME NEW S, NEW p \in Seq(S), NEW x \in S
    PROVE  /\ Append(p, x) \in Seq(S)
           /\ Append(p, x) # <<>>
           /\ Len(Append(p, x)) = Len(p) + 1
           /\ Parent(Append(p, x)) = p
           /\ Last(Append(p, x)) = x
           /\ \A n \in 0..Len(p) : Prefix(Append(p, x), n) = Prefix(p, n)
BY DEF Prefix, Parent, Last

\* To lie inside a path is to have it as a prefix.
LEMMA InsideIs ==
    ASSUME NEW S, NEW T, NEW p \in Seq(S), NEW q \in Seq(T)
    PROVE  Inside(p, q) <=> Len(q) \in 0..Len(p) /\ Prefix(p, Len(q)) = q
<1>1. Len(p) \in Nat /\ Len(q) \in Nat /\ SubSeq(q, 1, Len(q)) = q
  OBVIOUS
<1> QED
  BY <1>1 DEF Inside, IsPrefix, Prefix

\* Everything lies inside itself and the root.
LEMMA InsideItself ==
    ASSUME NEW S, NEW p \in Seq(S)
    PROVE  Inside(p, p) /\ Inside(p, <<>>)
<1>1. /\ Len(p) \in 0..Len(p) /\ Prefix(p, Len(p)) = p
      /\ Prefix(p, 0) = <<>> /\ <<>> \in Seq(S) /\ Len(<<>>) = 0 /\ 0 \in 0..Len(p)
  BY DEF Prefix
<1> QED
  BY <1>1, InsideIs

\* Inside is transitive ...
LEMMA InsideTransitive ==
    ASSUME NEW S, NEW p \in Seq(S), NEW q \in Seq(S), NEW r \in Seq(S), Inside(p, q), Inside(q, r)
    PROVE  Inside(p, r)
<1>1. Len(q) \in 0..Len(p) /\ Prefix(p, Len(q)) = q /\ Len(r) \in 0..Len(q) /\ Prefix(q, Len(r)) = r
  BY InsideIs
<1>2. Len(p) \in Nat /\ Len(q) \in Nat /\ Len(r) \in Nat
  OBVIOUS
<1>3. Prefix(p, Len(r)) = r /\ Len(r) \in 0..Len(p)
  BY <1>1, <1>2, PrefixOfPrefix
<1> QED
  BY <1>3, InsideIs

\* Of two paths that lead on to the same one, one leads to the other.
LEMMA InsideComparable ==
    ASSUME NEW S, NEW p \in Seq(S), NEW q \in Seq(S), NEW r \in Seq(S), Inside(p, q), Inside(p, r)
    PROVE  Inside(q, r) \/ Inside(r, q)
<1>1. Len(q) \in 0..Len(p) /\ Prefix(p, Len(q)) = q /\ Len(r) \in 0..Len(p) /\ Prefix(p, Len(r)) = r
  BY InsideIs
<1>2. Len(q) \in Nat /\ Len(r) \in Nat
  OBVIOUS
<1>3. CASE Len(r) <= Len(q)
  <2>1. Len(r) \in 0..Len(q)
    BY <1>2, <1>3
  <2>2. Prefix(q, Len(r)) = r
    BY <1>1, <2>1, PrefixOfPrefix
  <2> QED
    BY <2>1, <2>2, InsideIs
<1>4. CASE Len(q) <= Len(r)
  <2>1. Len(q) \in 0..Len(r)
    BY <1>2, <1>4
  <2>2. Prefix(r, Len(q)) = q
    BY <1>1, <2>1, PrefixOfPrefix
  <2> QED
    BY <2>1, <2>2, InsideIs
<1> QED
  BY <1>2, <1>3, <1>4

\* ... and antisymmetric.
LEMMA InsideAntisymmetric ==
    ASSUME NEW S, NEW p \in Seq(S), NEW q \in Seq(S), Inside(p, q), Inside(q, p)
    PROVE  p = q
<1>1. Len(q) \in 0..Len(p) /\ Prefix(p, Len(q)) = q /\ Len(p) \in 0..Len(q)
  BY InsideIs
<1>2. Len(p) = Len(q)
  BY <1>1
<1> QED
  BY <1>1, <1>2, PrefixWhole

\* What lies below a directory has its parent in it.
LEMMA BelowParent ==
    ASSUME NEW S, NEW p \in Seq(S), NEW q \in Seq(S)
    PROVE  Below(p, q) <=> p # <<>> /\ Inside(Parent(p), q)
<1>1. Len(p) \in Nat /\ Len(q) \in Nat /\ Len(<<>>) = 0 /\ Prefix(p, Len(p)) = p
  BY PrefixWhole
<1>2. ASSUME Below(p, q) PROVE p # <<>> /\ Inside(Parent(p), q)
  <2>1. p # q /\ Len(q) \in 0..Len(p) /\ Prefix(p, Len(q)) = q
    BY <1>2, InsideIs DEF Below
  <2>2. Len(q) # Len(p) /\ Len(q) \in 0..Len(p) - 1 /\ p # <<>>
    BY <1>1, <2>1
  <2>3. Parent(p) \in Seq(S) /\ Len(Parent(p)) = Len(p) - 1 /\ Prefix(Parent(p), Len(q)) = q
    BY <2>1, <2>2, ParentOf
  <2> QED
    BY <2>2, <2>3, InsideIs
<1>3. ASSUME p # <<>>, Inside(Parent(p), q) PROVE Below(p, q)
  <2>1. /\ Parent(p) \in Seq(S) /\ Len(Parent(p)) = Len(p) - 1
        /\ \A n \in 0..Len(p) - 1 : Prefix(Parent(p), n) = Prefix(p, n)
    BY <1>3, ParentOf
  <2>2. Len(q) \in 0..Len(p) - 1 /\ Prefix(Parent(p), Len(q)) = q
    BY <1>3, <2>1, InsideIs
  <2>3. Len(q) \in 0..Len(p) /\ Len(q) # Len(p) /\ Prefix(p, Len(q)) = q
    BY <1>1, <2>1, <2>2
  <2> QED
    BY <2>3, InsideIs DEF Below
<1> QED
  BY <1>2, <1>3

\* A rename takes what is at or below s to the same place at or below d, and back.
LEMMA MovedTo ==
    ASSUME NEW S, NEW p \in Seq(S), NEW s \in Seq(S), NEW d \in Seq(S), Inside(p, s)
    PROVE  /\ Moved(p, s, d) \in Seq(S)
           /\ Inside(Moved(p, s, d), d)
           /\ Moved(Moved(p, s, d), d, s) = p
           /\ Moved(s, s, d) = d
<1> DEFINE rest == SubSeq(p, Len(s) + 1, Len(p))
           q == Moved(p, s, d)
<1>1. /\ Len(p) \in Nat /\ Len(s) \in Nat /\ Len(d) \in Nat
      /\ Len(s) <= Len(p) /\ \A i \in 1..Len(s) : p[i] = s[i]
  <2>1. Len(s) \in 0..Len(p) /\ Prefix(p, Len(s)) = s
    BY InsideIs
  <2> QED
    BY <2>1, PrefixOf
<1>2. /\ rest \in Seq(S) /\ Len(rest) = Len(p) - Len(s)
      /\ \A i \in 1..Len(p) - Len(s) : rest[i] = p[Len(s) + i]
  BY <1>1
<1>3. /\ q \in Seq(S) /\ Len(q) = Len(d) + Len(p) - Len(s)
      /\ \A i \in 1..Len(q) : q[i] = IF i <= Len(d) THEN d[i] ELSE p[Len(s) + i - Len(d)]
  <2> HIDE DEF rest
  <2>1. d \o rest \in Seq(S) /\ Len(d \o rest) = Len(d) + Len(rest)
        /\ \A i \in 1..Len(d) + Len(rest) :
              (d \o rest)[i] = IF i <= Len(d) THEN d[i] ELSE rest[i - Len(d)]
    BY <1>2, ConcatProperties
  <2>2. q = d \o rest
    BY DEF Moved, rest
  <2>3. ASSUME NEW i \in 1..Len(d) + Len(rest), ~(i <= Len(d))
        PROVE  rest[i - Len(d)] = p[Len(s) + i - Len(d)]
    <3>1. i - Len(d) \in 1..Len(p) - Len(s) /\ Len(s) + (i - Len(d)) = Len(s) + i - Len(d)
      BY <1>1, <1>2, <2>3
    <3> QED
      BY <1>2, <3>1
  <2> HIDE DEF q
  <2> QED
    BY <1>1, <1>2, <2>1, <2>2, <2>3
<1>4. Inside(q, d)
  <2>1. Len(d) \in 0..Len(q)
    BY <1>1, <1>3
  <2>2. Prefix(q, Len(d)) \in Seq(S) /\ Len(Prefix(q, Len(d))) = Len(d)
        /\ \A i \in 1..Len(d) : Prefix(q, Len(d))[i] = d[i]
    <3> HIDE DEF q
    <3>1. Prefix(q, Len(d)) \in Seq(S) /\ Len(Prefix(q, Len(d))) = Len(d)
          /\ \A i \in 1..Len(d) : Prefix(q, Len(d))[i] = q[i]
      BY <1>3, <2>1, PrefixOf
    <3>2. \A i \in 1..Len(d) : i \in 1..Len(q) /\ i <= Len(d)
      BY <1>1, <1>3, <2>1
    <3> QED
      BY <1>3, <3>1, <3>2
  <2>3. Prefix(q, Len(d)) = d
    BY <2>2, SeqEqual
  <2> QED
    BY <1>3, <2>1, <2>3, InsideIs
<1>5. Moved(q, d, s) = p
  <2> DEFINE back == SubSeq(q, Len(d) + 1, Len(q))
  <2>1. /\ back \in Seq(S) /\ Len(back) = Len(p) - Len(s)
        /\ \A i \in 1..Len(p) - Len(s) : back[i] = q[Len(d) + i]
    BY <1>1, <1>3
  <2>2. /\ s \o back \in Seq(S) /\ Len(s \o back) = Len(p)
        /\ \A i \in 1..Len(p) : (s \o back)[i] = IF i <= Len(s) THEN s[i] ELSE back[i - Len(s)]
    BY <1>1, <2>1, ConcatProperties
  <2>3. ASSUME NEW i \in 1..Len(p) PROVE (s \o back)[i] = p[i]
    <3>1. CASE i <= Len(s)
      BY <1>1, <2>2, <3>1
    <3>2. CASE ~(i <= Len(s))
      <4>1. i - Len(s) \in 1..Len(p) - Len(s) /\ Len(d) + (i - Len(s)) \in 1..Len(q)
            /\ ~(Len(d) + (i - Len(s)) <= Len(d))
            /\ Len(s) + (Len(d) + (i - Len(s))) - Len(d) = i
        BY <1>1, <1>3, <3>2
      <4>2. back[i - Len(s)] = p[i]
        BY <1>3, <2>1, <4>1
      <4> QED
        BY <2>2, <3>2, <4>2
    <3> QED
      BY <3>1, <3>2
  <2>4. s \o back = p
    BY <2>2, <2>3, SeqEqual
  <2> QED
    BY <2>4 DEF Moved
<1>6. Moved(s, s, d) = d
  BY <1>1, ConcatEmptySeq DEF Moved
<1> QED
  BY <1>3, <1>4, <1>5, <1>6

\* A rename keeps names and parents below the entry that it moves.
LEMMA MovedBelow ==
    ASSUME NEW S, NEW p \in Seq(S), NEW s \in Seq(S), NEW d \in Seq(S), Inside(p, s), p # s
    PROVE  /\ p # <<>> /\ Inside(Parent(p), s)
           /\ Moved(p, s, d) # d /\ Moved(p, s, d) # <<>>
           /\ Last(Moved(p, s, d)) = Last(p)
           /\ Parent(Moved(p, s, d)) = Moved(Parent(p), s, d)
<1>1. p # <<>> /\ Inside(Parent(p), s) /\ Parent(p) \in Seq(S) /\ Last(p) \in S
  BY BelowParent, ParentOf DEF Below
<1>2. Moved(Parent(p), s, d) \in Seq(S) /\ Inside(Moved(Parent(p), s, d), d)
  BY <1>1, MovedTo
<1>3. Moved(p, s, d) = Append(Moved(Parent(p), s, d), Last(p))
  <2>1. Len(s) \in 0..Len(p) - 1 /\ Len(Parent(p)) = Len(p) - 1 /\ Len(p) \in Nat /\ Len(s) \in Nat
    BY <1>1, InsideIs, ParentOf
  <2> DEFINE front == SubSeq(Parent(p), Len(s) + 1, Len(p) - 1)
  <2>2. front \in Seq(S) /\ Len(front) = Len(p) - 1 - Len(s)
        /\ \A i \in 1..Len(p) - 1 - Len(s) : front[i] = Parent(p)[Len(s) + i]
    BY <1>1, <2>1
  <2>3. \A i \in 1..Len(p) - 1 : Parent(p)[i] = p[i]
    BY <2>1 DEF Parent, Prefix
  <2>4. SubSeq(p, Len(s) + 1, Len(p)) = Append(front, Last(p))
    <3>1. SubSeq(p, Len(s) + 1, Len(p)) \in Seq(S)
          /\ Len(SubSeq(p, Len(s) + 1, Len(p))) = Len(p) - Len(s)
          /\ \A i \in 1..Len(p) - Len(s) : SubSeq(p, Len(s) + 1, Len(p))[i] = p[Len(s) + i]
      BY <2>1
    <3>2. /\ Append(front, Last(p)) \in Seq(S)
          /\ Len(Append(front, Last(p))) = Len(p) - Len(s)
          /\ \A i \in 1..Len(p) - 1 - Len(s) : Append(front, Last(p))[i] = front[i]
          /\ Append(front, Last(p))[Len(p) - Len(s)] = Last(p)
      BY <1>1, <2>1, <2>2, AppendProperties
    <3>3. ASSUME NEW i \in 1..Len(p) - Len(s)
          PROVE SubSeq(p, Len(s) + 1, Len(p))[i] = Append(front, Last(p))[i]
      <4>1. CASE i = Len(p) - Len(s)
        BY <2>1, <3>1, <3>2, <4>1 DEF Last
      <4>2. CASE i # Len(p) - Len(s)
        <5>1. i \in 1..Len(p) - 1 - Len(s) /\ Len(s) + i \in 1..Len(p) - 1
          BY <2>1, <4>2
        <5> QED
          BY <2>2, <2>3, <3>1, <3>2, <5>1
      <4> QED
        BY <4>1, <4>2
    <3> QED
      BY <3>1, <3>2, <3>3, SeqEqual
  <2> HIDE DEF front
  <2>5. d \o Append(front, Last(p)) = Append(d \o front, Last(p))
    BY <1>1, <2>2
  <2> QED
    BY <2>1, <2>4, <2>5 DEF Moved, front
<1>4. /\ Append(Moved(Parent(p), s, d), Last(p)) # <<>>
      /\ Parent(Append(Moved(Parent(p), s, d), Last(p))) = Moved(Parent(p), s, d)
      /\ Last(Append(Moved(Parent(p), s, d), Last(p))) = Last(p)
      /\ Append(Moved(Parent(p), s, d), Last(p)) \in Seq(S)
  BY <1>1, <1>2, AppendOf
<1>5. Below(Moved(p, s, d), d)
  BY <1>2, <1>3, <1>4, BelowParent
<1> QED
  BY <1>1, <1>3, <1>4, <1>5 DEF Below

-----------------------------------------------------------------------------
(* Trees: what stands above a node, and where a path without links leads *)

\* A node is of one kind, and a path outside Paths has none.
LEMMA NodeKinds ==
    ASSUME NEW N, NEW t \in [Paths -> Nodes(N)], NEW p
    PROVE  /\ Node(t, p) \in Nodes(N)
           /\ Exists(t, p) <=> IsDir(t, p) \/ IsFile(t, p) \/ IsLink(t, p)
           /\ ~(IsDir(t, p) /\ IsFile(t, p)) /\ ~(IsDir(t, p) /\ IsLink(t, p))
           /\ ~(IsFile(t, p) /\ IsLink(t, p))
           /\ Exists(t, p) => p \in Paths
           /\ p \in Paths => Node(t, p) = t[p]
           /\ ~Exists(t, p) => Node(t, p) = None
           /\ IsDir(t, p) => Node(t, p) = Dir
           /\ IsFile(t, p) => Node(t, p) = File(Node(t, p).text) /\ Node(t, p).text \in Seq(Nat)
           /\ IsLink(t, p) => Node(t, p).to \in Seq(N)
<1>1. Node(t, p) \in Nodes(N) /\ (p \notin Paths => Node(t, p) = None) /\ (p \in Paths => Node(t, p) = t[p])
  BY DEF Node, Nodes
<1>2. ASSUME NEW n \in Nodes(N)
      PROVE  \/ n = None
             \/ n = Dir
             \/ n.kind = "file" /\ n = File(n.text) /\ n.text \in Seq(Nat)
             \/ n.kind = "link" /\ n.to \in Seq(N)
  BY DEF Nodes, File
<1>3. None.kind = "none" /\ Dir.kind = "dir"
  BY DEF None, Dir
<1> QED
  BY <1>1, <1>2, <1>3 DEF Exists, IsDir, IsFile, IsLink

\* Above what exists there are directories only.
LEMMA Ancestors ==
    ASSUME NEW N, NEW t \in [Paths -> Nodes(N)], IsTree(t), Paths \subseteq Seq(Int),
           NEW p, Exists(t, p)
    PROVE  /\ p \in Paths /\ p \in Seq(Int)
           /\ \A n \in 0..Len(p) - 1 : IsDir(t, Prefix(p, n))
<1>1. p \in Paths /\ p \in Seq(Int)
  BY NodeKinds
<1>2. Len(p) \in Nat
  BY <1>1
<1>3. ASSUME NEW n \in 1..Len(p), Exists(t, Prefix(p, n))
      PROVE  IsDir(t, Prefix(p, n - 1))
  <2>1. Prefix(p, n) \in Seq(Int) /\ Len(Prefix(p, n)) = n /\ n \in 0..Len(p) /\ n - 1 \in 0..n
    BY <1>1, <1>2, PrefixOf
  <2>2. Prefix(p, n) # <<>> /\ Parent(Prefix(p, n)) = Prefix(p, n - 1)
    BY <1>1, <2>1, PrefixOfPrefix DEF Parent
  <2>3. Prefix(p, n) \in Paths /\ t[Prefix(p, n)].kind # "none"
    BY <1>3, NodeKinds DEF Exists, Node
  <2> QED
    BY <2>2, <2>3 DEF IsTree
<1> DEFINE There == {k \in 0..Len(p) : Exists(t, Prefix(p, Len(p) - k))}
<1>4. 0 \in There
  <2>1. Len(p) - 0 = Len(p) /\ Prefix(p, Len(p)) = p
    BY <1>1, <1>2, PrefixWhole
  <2> QED
    BY <1>2, <2>1
<1>5. ASSUME NEW k \in 1..Len(p), k - 1 \in There PROVE k \in There
  <2>1. Len(p) - (k - 1) \in 1..Len(p) /\ Len(p) - (k - 1) - 1 = Len(p) - k /\ k \in 0..Len(p)
    BY <1>2
  <2>2. IsDir(t, Prefix(p, Len(p) - k))
    BY <1>3, <1>5, <2>1
  <2> QED
    BY <2>1, <2>2, NodeKinds
<1>6. There = 0..Len(p)
  <2>1. There \in SUBSET (0..Len(p))
    OBVIOUS
  <2> HIDE DEF There
  <2> QED
    BY <1>2, <1>4, <1>5, <2>1, CountUp
<1>7. ASSUME NEW n \in 0..Len(p) - 1 PROVE IsDir(t, Prefix(p, n))
  <2>1. Len(p) - (n + 1) \in 0..Len(p) /\ Len(p) - (Len(p) - (n + 1)) = n + 1 /\ n + 1 \in 1..Len(p)
        /\ n + 1 - 1 = n
    BY <1>2
  <2>2. Exists(t, Prefix(p, n + 1))
    BY <1>6, <2>1
  <2> QED
    BY <1>3, <2>1, <2>2
<1> QED
  BY <1>1, <1>7

\* What exists and is no link is reached without following any.
LEMMA LinkFree ==
    ASSUME NEW N, NEW t \in [Paths -> Nodes(N)], IsTree(t), Paths \subseteq Seq(Int),
           NEW p, Exists(t, p), ~IsLink(t, p)
    PROVE  LinksIn(t, p) = {} /\ RealPath(t, p) = p /\ RealStatus(t, p) = "ok"
<1>1. p \in Seq(Int) /\ Len(p) \in Nat /\ \A n \in 0..Len(p) - 1 : IsDir(t, Prefix(p, n))
  BY Ancestors
<1>2. ASSUME NEW n \in 1..Len(p) PROVE ~IsLink(t, Prefix(p, n))
  <2>1. CASE n = Len(p)
    BY <1>1, <2>1, PrefixWhole
  <2>2. CASE n # Len(p)
    <3>1. n \in 0..Len(p) - 1
      BY <1>1, <2>2
    <3> QED
      BY <1>1, <3>1, NodeKinds
  <2> QED
    BY <2>1, <2>2
<1>3. LinksIn(t, p) = {}
  BY <1>2 DEF LinksIn
<1>4. Chased(t, p) = p
  BY <1>3 DEF Chased
<1> QED
  BY <1>3, <1>4 DEF RealPath, RealStatus

\* What does not exist in a directory that does is missing there.
LEMMA LinkFreeBelow ==
    ASSUME NEW N, NEW t \in [Paths -> Nodes(N)], IsTree(t), Paths \subseteq Seq(Int),
           NEW d, IsDir(t, d), NEW x \in Int, ~IsLink(t, Append(d, x))
    PROVE  LinksIn(t, Append(d, x)) = {} /\ RealPath(t, Append(d, x)) = Append(d, x)
<1>1. d \in Seq(Int) /\ Len(d) \in Nat /\ LinksIn(t, d) = {}
  <2>1. Exists(t, d) /\ ~IsLink(t, d)
    BY NodeKinds
  <2>2. d \in Seq(Int)
    BY <2>1, Ancestors
  <2>3. LinksIn(t, d) = {}
    BY <2>1, LinkFree
  <2> QED
    BY <2>2, <2>3
<1>2. /\ Append(d, x) \in Seq(Int) /\ Len(Append(d, x)) = Len(d) + 1
      /\ \A n \in 0..Len(d) : Prefix(Append(d, x), n) = Prefix(d, n)
  BY <1>1, AppendOf
<1>3. ASSUME NEW n \in 1..Len(Append(d, x)) PROVE ~IsLink(t, Prefix(Append(d, x), n))
  <2>1. CASE n = Len(d) + 1
    <3>1. Prefix(Append(d, x), n) = Append(d, x)
      BY <1>2, <2>1, PrefixWhole
    <3> QED
      BY <3>1
  <2>2. CASE n # Len(d) + 1
    <3>1. n \in 1..Len(d) /\ n \in 0..Len(d)
      BY <1>1, <1>2, <2>2
    <3> QED
      BY <1>1, <1>2, <3>1 DEF LinksIn
  <2> QED
    BY <2>1, <2>2
<1>4. LinksIn(t, Append(d, x)) = {}
  BY <1>3 DEF LinksIn
<1> QED
  BY <1>4 DEF RealPath, Chased

-----------------------------------------------------------------------------
(* realpath *)

\* The link that is followed is the first one on the way.
LEMMA FirstLink ==
    ASSUME NEW t, NEW p \in Seq(Int), LinksIn(t, p) # {}
    PROVE  \E n \in 1..Len(p) :
              /\ n \in LinksIn(t, p) /\ \A m \in LinksIn(t, p) : n <= m
              /\ Follow(t, p) = t[Prefix(p, n)].to \o SubSeq(p, n + 1, Len(p))
<1>1. LinksIn(t, p) \in SUBSET Nat /\ LinksIn(t, p) \subseteq 1..Len(p)
  BY DEF LinksIn
<1>2. \E n \in LinksIn(t, p) : \A m \in LinksIn(t, p) : n <= m
  BY <1>1, HasLeast
<1> DEFINE n == CHOOSE n \in LinksIn(t, p) : \A m \in LinksIn(t, p) : n <= m
<1>3. n \in LinksIn(t, p) /\ \A m \in LinksIn(t, p) : n <= m
  BY <1>2
<1>4. Follow(t, p) = t[Prefix(p, n)].to \o SubSeq(p, n + 1, Len(p))
  BY DEF Follow
<1> HIDE DEF n
<1> QED
  BY <1>1, <1>3, <1>4

\* Following links does not leave the names that links are made of ...
LEMMA FollowType ==
    ASSUME NEW N \in SUBSET Int, NEW t \in [Paths -> Nodes(N)], NEW p \in Seq(N)
    PROVE  Follow(t, p) \in Seq(N)
<1>1. p \in Seq(Int)
  BY SeqMonotonic
<1>2. CASE LinksIn(t, p) = {}
  BY <1>2 DEF Follow
<1>3. CASE LinksIn(t, p) # {}
  <2>1. PICK n \in 1..Len(p) :
            /\ n \in LinksIn(t, p)
            /\ Follow(t, p) = t[Prefix(p, n)].to \o SubSeq(p, n + 1, Len(p))
    BY <1>1, <1>3, FirstLink
  <2>2. Prefix(p, n) \in Paths /\ t[Prefix(p, n)].to \in Seq(N)
    <3>1. IsLink(t, Prefix(p, n))
      BY <2>1 DEF LinksIn
    <3>2. Exists(t, Prefix(p, n)) /\ Node(t, Prefix(p, n)).to \in Seq(N)
      BY <3>1, NodeKinds
    <3> QED
      BY <3>2, NodeKinds
  <2>3. SubSeq(p, n + 1, Len(p)) \in Seq(N)
    OBVIOUS
  <2> QED
    BY <2>1, <2>2, <2>3, ConcatProperties
<1> QED
  BY <1>2, <1>3

\* ... and the recursive step of Chased is Follow.
LEMMA ChasedSteps ==
    ASSUME NEW N \in SUBSET Int, NEW t \in [Paths -> Nodes(N)], NEW p \in Seq(N)
    PROVE  /\ Chased(t, p) = Follow(t, Follow(t, Follow(t, Follow(t, p))))
           /\ Chased(t, p) \in Seq(N)
<1> DEFINE step == [q \in Seq(Int) |-> Follow(t, q)]
<1>1. \A q \in Seq(N) : Follow(t, q) \in Seq(N) /\ step[q] = Follow(t, q)
  BY FollowType, SeqMonotonic
<1>2. LinksIn(t, p) = {} => Follow(t, p) = p
  BY DEF Follow
<1>3. Chased(t, p) = IF LinksIn(t, p) = {} THEN p ELSE step[step[step[step[p]]]]
  BY DEF Chased
<1> HIDE DEF step
<1>4. step[step[step[step[p]]]] = Follow(t, Follow(t, Follow(t, Follow(t, p))))
      /\ Follow(t, Follow(t, Follow(t, Follow(t, p)))) \in Seq(N)
  BY <1>1
<1> QED
  BY <1>2, <1>3, <1>4

\* A link on the way is followed whatever comes after it.
LEMMA FollowAppend ==
    ASSUME NEW N \in SUBSET Int, NEW t \in [Paths -> Nodes(N)], NEW p \in Seq(N), NEW x \in Int,
           LinksIn(t, p) # {}
    PROVE  Follow(t, Append(p, x)) = Append(Follow(t, p), x)
<1>1. p \in Seq(Int)
  BY SeqMonotonic
<1>2. PICK n \in 1..Len(p) :
          /\ n \in LinksIn(t, p) /\ \A m \in LinksIn(t, p) : n <= m
          /\ Follow(t, p) = t[Prefix(p, n)].to \o SubSeq(p, n + 1, Len(p))
  BY <1>1, FirstLink
<1>3. /\ Append(p, x) \in Seq(Int) /\ Len(Append(p, x)) = Len(p) + 1 /\ Len(p) \in Nat
      /\ \A m \in 0..Len(p) : Prefix(Append(p, x), m) = Prefix(p, m)
  BY <1>1, AppendOf
<1>4. LinksIn(t, p) \subseteq LinksIn(t, Append(p, x))
      /\ LinksIn(t, Append(p, x)) \subseteq LinksIn(t, p) \cup {Len(p) + 1}
  <2>1. \A m \in 1..Len(p) : m \in 0..Len(p) /\ m \in 1..Len(p) + 1
    BY <1>3
  <2>2. \A m \in 1..Len(p) + 1 : m \in 1..Len(p) \/ m = Len(p) + 1
    BY <1>3
  <2> QED
    BY <1>3, <2>1, <2>2 DEF LinksIn
<1>5. n \in LinksIn(t, Append(p, x)) /\ \A m \in LinksIn(t, Append(p, x)) : n <= m
  BY <1>2, <1>3, <1>4
<1>6. PICK k \in 1..Len(Append(p, x)) :
          /\ k \in LinksIn(t, Append(p, x)) /\ \A m \in LinksIn(t, Append(p, x)) : k <= m
          /\ Follow(t, Append(p, x)) =
                t[Prefix(Append(p, x), k)].to \o SubSeq(Append(p, x), k + 1, Len(Append(p, x)))
  <2>1. LinksIn(t, Append(p, x)) # {}
    BY <1>5
  <2> QED
    BY <1>3, <2>1, FirstLink
<1>7. k = n
  BY <1>3, <1>5, <1>6
<1>8. t[Prefix(p, n)].to \in Seq(Int) /\ Prefix(Append(p, x), n) = Prefix(p, n)
  <2>1. IsLink(t, Prefix(p, n))
    BY <1>2 DEF LinksIn
  <2>2. Exists(t, Prefix(p, n)) /\ Node(t, Prefix(p, n)).to \in Seq(N)
    BY <2>1, NodeKinds
  <2>3. t[Prefix(p, n)].to \in Seq(N)
    BY <2>2, NodeKinds
  <2>4. n \in 0..Len(p)
    OBVIOUS
  <2> QED
    BY <1>3, <2>3, <2>4, SeqMonotonic
<1>9. SubSeq(Append(p, x), n + 1, Len(p) + 1) = Append(SubSeq(p, n + 1, Len(p)), x)
  <2>1. n + 1 \in 1..Len(p) + 1 /\ Len(p) + 1 \in n + 1..Len(p) + 1 /\ n + 1 \in 1..Len(Append(p, x))
    BY <1>3
  <2>2. PICK r : r = Append(p, x)
    OBVIOUS
  <2>3. PICK last : last = Len(p) + 1
    OBVIOUS
  <2>4. r \in Seq(Int) /\ n + 1 \in 1..Len(r) /\ last \in n + 1..Len(r) /\ last - 1 = Len(p)
    BY <1>3, <2>1, <2>2, <2>3
  <2>5. SubSeq(r, n + 1, last) = SubSeq(r, n + 1, last - 1) \o <<r[last]>>
    BY <2>4, SubSeqRecursiveSecond
  <2>6. r[last] = x
    BY <1>1, <2>2, <2>3, AppendProperties
  <2>7. SubSeq(r, n + 1, Len(p)) = SubSeq(p, n + 1, Len(p))
    BY <1>1, <1>3, <2>2
  <2>8. SubSeq(p, n + 1, Len(p)) \o <<x>> = Append(SubSeq(p, n + 1, Len(p)), x)
    <3>1. SubSeq(p, n + 1, Len(p)) \in Seq(Int)
      BY <1>1
    <3> QED
      BY <3>1, AppendIsConcat
  <2>9. SubSeq(r, n + 1, last) = Append(SubSeq(p, n + 1, Len(p)), x)
    BY <2>4, <2>5, <2>6, <2>7, <2>8
  <2> QED
    BY <2>2, <2>3, <2>9
<1>10. SubSeq(p, n + 1, Len(p)) \in Seq(Int)
  BY <1>1
<1>11. Follow(t, Append(p, x)) = t[Prefix(p, n)].to \o Append(SubSeq(p, n + 1, Len(p)), x)
  BY <1>3, <1>6, <1>7, <1>8, <1>9
<1>12. \A a, b \in Seq(Int) : a \o Append(b, x) = Append(a \o b, x)
  OBVIOUS
<1> QED
  BY <1>2, <1>8, <1>10, <1>11, <1>12

\* Where the directory of a path is found and no link is last, the path leads to its place.
LEMMA ChasedAppend ==
    ASSUME NEW N \in SUBSET Int, NEW t \in [Paths -> Nodes(N)], IsTree(t), Paths \subseteq Seq(Int),
           NEW p \in Seq(N), NEW x \in N,
           IsDir(t, Chased(t, p)), ~IsLink(t, Append(Chased(t, p), x))
    PROVE  Chased(t, Append(p, x)) = Append(Chased(t, p), x)
<1> DEFINE q == Append(Chased(t, p), x)
<1>1. LinksIn(t, q) = {} /\ Follow(t, q) = q
  <2>1. LinksIn(t, q) = {}
    BY LinkFreeBelow
  <2> QED
    BY <2>1 DEF Follow
<1> HIDE DEF q
<1>2. ASSUME NEW r \in Seq(N), LinksIn(t, r) = {} => r = Chased(t, p)
      PROVE  Follow(t, Append(r, x)) = Append(Follow(t, r), x)
  <2>1. CASE LinksIn(t, r) # {}
    BY <2>1, FollowAppend
  <2>2. CASE LinksIn(t, r) = {}
    <3>1. Follow(t, r) = r
      BY <2>2 DEF Follow
    <3> QED
      BY <1>1, <1>2, <2>2, <3>1 DEF q
  <2> QED
    BY <2>1, <2>2
<1> DEFINE p1 == Follow(t, p)
           p2 == Follow(t, p1)
           p3 == Follow(t, p2)
<1>3. p1 \in Seq(N) /\ p2 \in Seq(N) /\ p3 \in Seq(N) /\ Chased(t, p) = Follow(t, p3)
  BY FollowType, ChasedSteps
<1>4. \A r : LinksIn(t, r) = {} => Follow(t, r) = r
  BY DEF Follow
<1>5. p1 = Follow(t, p) /\ p2 = Follow(t, p1) /\ p3 = Follow(t, p2)
  OBVIOUS
<1> HIDE DEF p1, p2, p3
<1>6. /\ Follow(t, Append(p, x)) = Append(p1, x)
      /\ Follow(t, Append(p1, x)) = Append(p2, x)
      /\ Follow(t, Append(p2, x)) = Append(p3, x)
      /\ Follow(t, Append(p3, x)) = Append(Chased(t, p), x)
  BY <1>2, <1>3, <1>4, <1>5
<1>7. Append(p, x) \in Seq(N)
  BY AppendOf
<1>8. Chased(t, Append(p, x)) = Follow(t, Follow(t, Follow(t, Follow(t, Append(p, x)))))
  BY <1>7, ChasedSteps
<1> QED
  BY <1>6, <1>8

-----------------------------------------------------------------------------
(* Calls that change the tree leave a tree *)

\* IsTree, in terms of what exists.
LEMMA TreeIs ==
    ASSUME NEW N, NEW t \in [Paths -> Nodes(N)]
    PROVE  IsTree(t) <=> /\ IsDir(t, <<>>)
                         /\ \A p \in Paths : Exists(t, p) /\ p # <<>> => IsDir(t, Parent(p))
BY DEF IsTree, Exists, Node

\* A tree in which a leaf is set stays a tree.
LEMMA LeafSet ==
    ASSUME NEW N, NEW t \in [Paths -> Nodes(N)], IsTree(t),
           NEW q \in Paths, q # <<>>, ~IsDir(t, q), IsDir(t, Parent(q)), NEW node \in Nodes(N)
    PROVE  /\ [t EXCEPT ![q] = node] \in [Paths -> Nodes(N)]
           /\ IsTree([t EXCEPT ![q] = node])
<1> DEFINE u == [t EXCEPT ![q] = node]
<1>1. u \in [Paths -> Nodes(N)]
  OBVIOUS
<1>2. \A p : p # q => Node(u, p) = Node(t, p)
  BY DEF Node
<1> HIDE DEF u
<1>3. \A p : IsDir(t, p) => IsDir(u, p)
  BY <1>2 DEF IsDir
<1>4. IsDir(u, Parent(q))
  BY <1>3
<1>5. ASSUME NEW p \in Paths, Exists(u, p), p # <<>> PROVE IsDir(u, Parent(p))
  <2>1. CASE p = q
    BY <1>4, <2>1
  <2>2. CASE p # q
    <3>1. Exists(t, p)
      BY <1>2, <1>5, <2>2 DEF Exists
    <3> QED
      BY <1>3, <1>5, <3>1, TreeIs
  <2> QED
    BY <2>1, <2>2
<1>6. IsDir(u, <<>>)
  BY <1>3, TreeIs
<1>7. IsTree(u)
  BY <1>1, <1>5, <1>6, TreeIs
<1> QED
  BY <1>1, <1>7 DEF u

\* The place of a path is a name in the real directory of its parent.
LEMMA PlaceOf ==
    ASSUME NEW N \in SUBSET Int, NEW t \in [Paths -> Nodes(N)],
           NEW p \in Seq(Int), Parent(p) \in Seq(N), HasPlace(t, p)
    PROVE  /\ p # <<>>
           /\ RealPath(t, Parent(p)) \in Seq(N)
           /\ IsDir(t, RealPath(t, Parent(p)))
           /\ Place(t, p) \in Seq(Int)
           /\ Place(t, p) # <<>>
           /\ Place(t, p) = Append(RealPath(t, Parent(p)), Last(p))
           /\ Parent(Place(t, p)) = RealPath(t, Parent(p))
           /\ Last(Place(t, p)) = Last(p)
<1>1. p # <<>> /\ IsDir(t, RealPath(t, Parent(p)))
  BY DEF HasPlace
<1>2. RealPath(t, Parent(p)) \in Seq(N) /\ RealPath(t, Parent(p)) \in Seq(Int) /\ Last(p) \in Int
  BY <1>1, ChasedSteps, SeqMonotonic, ParentOf DEF RealPath
<1>3. Place(t, p) = Append(RealPath(t, Parent(p)), Last(p))
  BY <1>1 DEF Place
<1> QED
  BY <1>1, <1>2, <1>3, AppendOf

\* A rename of the node at s to d, another place.
IsRename(N, t, from, to, s, d) ==
    /\ N \in SUBSET Int /\ t \in [Paths -> Nodes(N)] /\ IsTree(t) /\ Paths \subseteq Seq(Int)
    /\ from \in Seq(Int) /\ to \in Seq(Int) /\ Parent(from) \in Seq(N) /\ Parent(to) \in Seq(N)
    /\ CanRename(t, from, to) /\ s = Place(t, from) /\ d = Place(t, to) /\ s # d

\* Neither of the two places of a rename lies in the other.
LEMMA RenameApart ==
    ASSUME NEW N, NEW t, NEW from, NEW to, NEW s, NEW d, IsRename(N, t, from, to, s, d)
    PROVE  /\ s \in Paths /\ s \in Seq(Int) /\ s # <<>> /\ Exists(t, s) /\ IsDir(t, Parent(s))
           /\ d \in Paths /\ d \in Seq(Int) /\ d # <<>> /\ IsDir(t, Parent(d))
           /\ ~Inside(d, s) /\ ~Inside(s, d)
           /\ \A p \in Paths : Inside(p, d) /\ Exists(t, p) => p = d
<1> USE DEF IsRename
<1>1. /\ HasPlace(t, from) /\ HasPlace(t, to) /\ Exists(t, s) /\ ~Below(d, s)
      /\ \A p \in Paths : Inside(p, s) /\ Exists(t, p) => Moved(p, s, d) \in Paths
      /\ IF IsDir(t, s)
         THEN ~Exists(t, d) \/ d = s \/ (IsDir(t, d) /\ Children(t, d) = {})
         ELSE ~IsDir(t, d)
  BY DEF CanRename
<1>2. /\ s \in Seq(Int) /\ s # <<>> /\ IsDir(t, Parent(s))
      /\ d \in Seq(Int) /\ d # <<>> /\ IsDir(t, Parent(d))
  <2>1. ASSUME NEW p \in Seq(Int), Parent(p) \in Seq(N), HasPlace(t, p)
        PROVE  Place(t, p) \in Seq(Int) /\ Place(t, p) # <<>> /\ IsDir(t, Parent(Place(t, p)))
    <3>1. /\ Place(t, p) \in Seq(Int) /\ Place(t, p) # <<>>
          /\ Parent(Place(t, p)) = RealPath(t, Parent(p)) /\ IsDir(t, RealPath(t, Parent(p)))
      BY <2>1, PlaceOf
    <3> QED
      BY <3>1
  <2> QED
    BY <1>1, <2>1
<1>3. s \in Paths
  BY <1>1, NodeKinds
<1>4. d \in Paths
  BY <1>1, <1>2, <1>3, InsideItself, MovedTo
<1>5. ~Inside(d, s)
  BY <1>1 DEF Below
<1>6. ASSUME NEW p \in Paths, Inside(p, d), Exists(t, p), p # d PROVE FALSE
  <2>1. p \in Seq(Int) /\ Len(p) \in Nat /\ \A n \in 0..Len(p) - 1 : IsDir(t, Prefix(p, n))
    <3>1. p \in Seq(Int) /\ \A n \in 0..Len(p) - 1 : IsDir(t, Prefix(p, n))
      BY <1>6, Ancestors
    <3> QED
      BY <3>1
  <2>2. Len(d) \in 0..Len(p) /\ Prefix(p, Len(d)) = d
    BY <1>2, <1>6, <2>1, InsideIs
  <2>3. Len(d) # Len(p)
    BY <1>6, <2>1, <2>2, PrefixWhole
  <2>4. Len(d) \in 0..Len(p) - 1 /\ Len(d) + 1 \in 0..Len(p)
    BY <2>1, <2>2, <2>3
  <2>5. IsDir(t, d)
    BY <2>1, <2>2, <2>4
  <2> DEFINE q == Prefix(p, Len(d) + 1)
  <2>6. Exists(t, q)
    <3>1. CASE Len(d) + 1 = Len(p)
      BY <1>6, <2>1, <3>1, PrefixWhole
    <3>2. CASE Len(d) + 1 # Len(p)
      <4>1. Len(d) + 1 \in 0..Len(p) - 1
        BY <2>1, <2>4, <3>2
      <4> QED
        BY <2>1, <4>1, NodeKinds
    <3> QED
      BY <3>1, <3>2
  <2>7. q \in Paths /\ q # <<>> /\ Parent(q) = d
    <3>1. q \in Seq(Int) /\ Len(q) = Len(d) + 1
      BY <2>1, <2>4, PrefixOf
    <3>2. Parent(q) = Prefix(p, Len(d))
      <4>1. Len(d) \in 0..Len(d) + 1 /\ Len(q) - 1 = Len(d)
        BY <2>4, <3>1
      <4>2. Prefix(q, Len(d)) = Prefix(p, Len(d))
        BY <2>1, <2>4, <4>1, PrefixOfPrefix
      <4> QED
        BY <4>1, <4>2 DEF Parent
    <3>3. q # <<>>
      BY <2>4, <3>1
    <3> QED
      BY <2>2, <2>6, <3>2, <3>3, NodeKinds
  <2>8. q \in Children(t, d)
    BY <2>6, <2>7 DEF Children
  <2> QED
    BY <1>1, <2>5, <2>8, NodeKinds
<1>7. ~Inside(s, d)
  BY <1>1, <1>3, <1>6
<1> QED
  BY <1>1, <1>2, <1>3, <1>4, <1>5, <1>6, <1>7

\* What stands where after a rename.
LEMMA RenamedNodes ==
    ASSUME NEW N, NEW t, NEW from, NEW to, NEW s, NEW d, IsRename(N, t, from, to, s, d),
           NEW u, u = Renamed(t, from, to)
    PROVE  /\ u \in [Paths -> Nodes(N)]
           /\ \A p \in Paths : Inside(p, d) => u[p] = Node(t, Moved(p, d, s))
           /\ \A p \in Paths : ~Inside(p, d) /\ Inside(p, s) => u[p] = None
           /\ \A p \in Paths : ~Inside(p, d) /\ ~Inside(p, s) => u[p] = t[p]
           /\ \A p \in Paths : Inside(p, s) /\ Exists(t, p) =>
                 /\ Moved(p, s, d) \in Paths /\ Inside(Moved(p, s, d), d)
                 /\ u[Moved(p, s, d)] = t[p]
<1>1. u = [p \in Paths |->
              IF Inside(p, d) THEN Node(t, Moved(p, d, s))
              ELSE IF Inside(p, s) THEN None ELSE t[p]]
  BY DEF Renamed, IsRename
<1>5. t \in [Paths -> Nodes(N)] /\ Paths \subseteq Seq(Int)
  BY DEF IsRename
<1>2. u \in [Paths -> Nodes(N)]
  <2>1. \A p : Node(t, p) \in Nodes(N)
    BY <1>5, NodeKinds
  <2>2. None \in Nodes(N)
    BY DEF Nodes
  <2> QED
    BY <1>1, <1>5, <2>1, <2>2
<1>3. s \in Seq(Int) /\ d \in Seq(Int)
  BY RenameApart
<1>4. ASSUME NEW p \in Paths, Inside(p, s), Exists(t, p)
      PROVE  /\ Moved(p, s, d) \in Paths /\ Inside(Moved(p, s, d), d)
             /\ u[Moved(p, s, d)] = t[p]
  <2>1. Moved(p, s, d) \in Paths
    BY <1>4 DEF CanRename, IsRename
  <2>2. p \in Seq(Int) /\ Inside(Moved(p, s, d), d) /\ Moved(Moved(p, s, d), d, s) = p
    BY <1>3, <1>4, <1>5, MovedTo
  <2>3. Node(t, p) = t[p]
    BY <1>5, NodeKinds
  <2> QED
    BY <1>1, <2>1, <2>2, <2>3
<1> QED
  BY <1>1, <1>2, <1>4

\* A rename makes a tree of a tree.
LEMMA RenamedTree ==
    ASSUME NEW N \in SUBSET Int, NEW t \in [Paths -> Nodes(N)], IsTree(t), Paths \subseteq Seq(Int),
           NEW from \in Seq(Int), NEW to \in Seq(Int),
           Parent(from) \in Seq(N), Parent(to) \in Seq(N), CanRename(t, from, to)
    PROVE  Renamed(t, from, to) \in [Paths -> Nodes(N)] /\ IsTree(Renamed(t, from, to))
<1>1. PICK s : s = Place(t, from)
  OBVIOUS
<1>2. PICK d : d = Place(t, to)
  OBVIOUS
<1>3. CASE s = d
  BY <1>1, <1>2, <1>3 DEF Renamed
<1>4. CASE s # d
  <2>0. IsRename(N, t, from, to, s, d)
    BY <1>1, <1>2, <1>4 DEF IsRename
  <2>1. PICK u : u = Renamed(t, from, to)
    OBVIOUS
  <2>2. /\ u \in [Paths -> Nodes(N)]
        /\ \A p \in Paths : Inside(p, d) => u[p] = Node(t, Moved(p, d, s))
        /\ \A p \in Paths : ~Inside(p, d) /\ Inside(p, s) => u[p] = None
        /\ \A p \in Paths : ~Inside(p, d) /\ ~Inside(p, s) => u[p] = t[p]
        /\ \A p \in Paths : Inside(p, s) /\ Exists(t, p) =>
              /\ Moved(p, s, d) \in Paths /\ Inside(Moved(p, s, d), d)
              /\ u[Moved(p, s, d)] = t[p]
    BY <2>0, <2>1, RenamedNodes
  <2>3. /\ s \in Paths /\ s \in Seq(Int) /\ s # <<>> /\ Exists(t, s) /\ IsDir(t, Parent(s))
        /\ d \in Paths /\ d \in Seq(Int) /\ d # <<>> /\ IsDir(t, Parent(d))
        /\ ~Inside(d, s) /\ ~Inside(s, d)
    BY <2>0, RenameApart
  <2>4. ASSUME NEW p \in Seq(Int), IsDir(t, p), ~Inside(p, d), ~Inside(p, s) PROVE IsDir(u, p)
    <3>1. p \in Paths
      BY <2>4, NodeKinds
    <3>2. u[p] = t[p]
      BY <2>2, <2>4, <3>1
    <3> QED
      BY <2>4, <3>1, <3>2 DEF IsDir, Node
  <2>5. ASSUME NEW p \in Paths, Exists(u, p), p # <<>> PROVE IsDir(u, Parent(p))
    <3>0. p \in Seq(Int) /\ Parent(p) \in Seq(Int) /\ Node(u, p) = u[p]
      BY <2>5, ParentOf DEF Node
    <3>1. CASE p = d
      <4>1. ~Inside(Parent(d), d) /\ ~Inside(Parent(d), s)
        <5>1. Inside(d, Parent(d)) /\ Parent(d) # d
          <6>1. Below(d, Parent(d))
            BY <2>3, BelowParent, ParentOf, InsideItself
          <6> QED
            BY <6>1 DEF Below
        <5>2. Parent(d) \in Seq(Int)
          BY <2>3, ParentOf
        <5>3. ~Inside(Parent(d), d)
          BY <2>3, <5>1, <5>2, InsideAntisymmetric
        <5> QED
          BY <2>3, <5>1, <5>2, <5>3, InsideTransitive
      <4> QED
        BY <2>3, <2>4, <3>0, <3>1, <4>1
    <3>2. CASE Inside(p, d) /\ p # d
      <4> DEFINE m == Moved(p, d, s)
      <4>1. /\ Inside(Parent(p), d) /\ m # <<>>
            /\ Parent(m) = Moved(Parent(p), d, s) /\ m \in Seq(Int)
        BY <2>3, <3>0, <3>2, MovedBelow, MovedTo
      <4>2. Exists(t, m) /\ m \in Paths
        <5>1. u[p] = Node(t, m)
          BY <2>2, <3>2
        <5>2. Exists(t, m)
          BY <2>5, <3>0, <5>1 DEF Exists
        <5> QED
          BY <5>2, NodeKinds
      <4>3. IsDir(t, Parent(m))
        BY <4>1, <4>2, TreeIs
      <4>4. Inside(Parent(m), s) /\ Moved(Parent(m), s, d) = Parent(p)
        BY <2>3, <3>0, <4>1, MovedTo
      <4>5. Exists(t, Parent(m)) /\ Parent(m) \in Paths
        BY <4>3, NodeKinds
      <4>6. Parent(p) \in Paths /\ u[Parent(p)] = t[Parent(m)]
        BY <2>2, <4>4, <4>5
      <4> QED
        BY <4>3, <4>5, <4>6 DEF IsDir, Node
    <3>3. CASE ~Inside(p, d)
      <4>1. ~Inside(p, s) /\ u[p] = t[p]
        <5>1. u[p] # None
          BY <2>5, <3>0 DEF Exists, None
        <5> QED
          BY <2>2, <3>3, <5>1
      <4>2. Exists(t, p)
        BY <2>5, <3>0, <4>1 DEF Exists, Node
      <4>3. IsDir(t, Parent(p))
        BY <2>5, <4>2, TreeIs
      <4>4. \A q \in Seq(Int) : Inside(Parent(p), q) => Inside(p, q)
        BY <2>5, <3>0, BelowParent DEF Below
      <4> QED
        BY <2>3, <2>4, <3>0, <3>3, <4>1, <4>3, <4>4
    <3> QED
      BY <3>1, <3>2, <3>3
  <2>6. IsDir(u, <<>>)
    <3>1. <<>> \in Seq(Int) /\ IsDir(t, <<>>)
      BY TreeIs
    <3>2. \A q \in Seq(Int) : q # <<>> => ~Inside(<<>>, q)
      BY <3>1, InsideItself, InsideAntisymmetric
    <3> QED
      BY <2>3, <2>4, <3>1, <3>2
  <2>7. IsTree(u)
    BY <2>2, <2>5, <2>6, TreeIs
  <2> QED
    BY <2>1, <2>2, <2>7
<1> QED
  BY <1>3, <1>4

-----------------------------------------------------------------------------
(* mkdir *)

\* A directory is made where there was nothing, in a directory that was there.
LEMMA MadeDir ==
    ASSUME NEW N \in SUBSET Int, NEW t \in [Paths -> Nodes(N)], IsTree(t),
           NEW p \in Seq(N), CanMkdir(t, p)
    PROVE  /\ Mkdir(t, p) \in [Paths -> Nodes(N)] /\ IsTree(Mkdir(t, p))
           /\ Place(t, p) \in Seq(N) /\ Place(t, p) \in Paths /\ ~Exists(t, Place(t, p))
           /\ \A q \in Paths : Mkdir(t, p)[q] = IF q = Place(t, p) THEN Dir ELSE t[q]
<1>1. p \in Seq(Int) /\ p # <<>> /\ HasPlace(t, p) /\ Place(t, p) \in Paths /\ ~Exists(t, Place(t, p))
  BY SeqMonotonic DEF CanMkdir, HasPlace
<1>2. Parent(p) \in Seq(N) /\ Last(p) \in N
  BY <1>1, ParentOf
<1>3. PICK q : q = Place(t, p)
  OBVIOUS
<1>4. /\ RealPath(t, Parent(p)) \in Seq(N) /\ IsDir(t, RealPath(t, Parent(p)))
      /\ q = Append(RealPath(t, Parent(p)), Last(p)) /\ q # <<>>
      /\ Parent(q) = RealPath(t, Parent(p))
  BY <1>1, <1>2, <1>3, PlaceOf
<1>5. q \in Seq(N)
  BY <1>2, <1>4, AppendProperties
<1>6. ~IsDir(t, q) /\ IsDir(t, Parent(q)) /\ Dir \in Nodes(N) /\ q \in Paths
  BY <1>1, <1>3, <1>4 DEF IsDir, Exists, Dir, Nodes
<1>7. [t EXCEPT ![q] = Dir] \in [Paths -> Nodes(N)] /\ IsTree([t EXCEPT ![q] = Dir])
  BY <1>4, <1>6, LeafSet
<1> QED
  BY <1>1, <1>3, <1>5, <1>6, <1>7 DEF Mkdir

-----------------------------------------------------------------------------
(* Listings and access *)

\* A listing holds each entry of the directory.
LEMMA ListingHolds ==
    ASSUME NEW N, NEW t \in [Paths -> Nodes(N)], Paths \subseteq Seq(Int), IsFiniteSet(Paths), NEW d
    PROVE  /\ Listing(t, d) \in Seq(Children(t, d))
           /\ \A p \in Children(t, d) : \E n \in DOMAIN Listing(t, d) : Listing(t, d)[n] = p
<1> DEFINE S == Children(t, d)
           K == Cardinality(S)
           rank == [p \in S |-> Cardinality(Before(S, p))]
<1>1. IsFiniteSet(S) /\ K \in Nat
  <2>1. S \in SUBSET Paths
    BY DEF Children
  <2>2. IsFiniteSet(S)
    BY <2>1, FS_Subset
  <2> QED
    BY <2>2, FS_CardinalityType
<1>2. \A p \in S : p \in Seq(Int) /\ Last(p) \in Int /\ p = Append(d, Last(p))
  BY ParentOf DEF Children
<1> HIDE DEF S
<1>3. ASSUME NEW p \in S PROVE rank[p] \in 0..K - 1 /\ IsFiniteSet(Before(S, p))
  <2>1. Before(S, p) \in SUBSET (S \ {p})
    BY <1>2 DEF Before
  <2>2. IsFiniteSet(S \ {p}) /\ Cardinality(S \ {p}) = K - 1
    BY <1>1, FS_RemoveElement
  <2>3. /\ IsFiniteSet(Before(S, p)) /\ Cardinality(Before(S, p)) <= K - 1
        /\ Cardinality(Before(S, p)) \in Nat
    BY <2>1, <2>2, FS_Subset, FS_CardinalityType
  <2> QED
    BY <1>1, <2>3
<1>4. ASSUME NEW p \in S, NEW q \in S, Last(p) < Last(q) PROVE rank[p] # rank[q]
  <2>1. Before(S, p) \in SUBSET Before(S, q) /\ p \in Before(S, q) /\ p \notin Before(S, p)
    BY <1>2, <1>4 DEF Before
  <2>2. IsFiniteSet(Before(S, q))
    BY <1>3
  <2>3. Cardinality(Before(S, q)) # Cardinality(Before(S, p))
    BY <2>1, <2>2, FS_Subset
  <2> QED
    BY <2>3
<1>5. ASSUME NEW p \in S, NEW q \in S, rank[p] = rank[q] PROVE p = q
  <2>1. ~(Last(p) < Last(q)) /\ ~(Last(q) < Last(p))
    BY <1>4, <1>5
  <2>2. Last(p) = Last(q)
    BY <1>2, <2>1
  <2> QED
    BY <1>2, <2>2
<1> HIDE DEF K
<1>6. \A n \in 0..K - 1 : \E p \in S : rank[p] = n
  <2>1. IsFiniteSet(0..K - 1) /\ Cardinality(0..K - 1) = K
    <3>1. K - 1 \in Int /\ 0 \in Int
      BY <1>1
    <3>2. IsFiniteSet(0..(K - 1)) /\ Cardinality(0..(K - 1)) = IF 0 > K - 1 THEN 0 ELSE (K - 1) - 0 + 1
      BY <3>1, FS_Interval, Zenon
    <3> QED
      BY <1>1, <3>2
  <2>2. rank \in Injection(S, 0..K - 1)
    <3>1. rank \in [S -> 0..K - 1]
      BY <1>3
    <3> HIDE DEF rank
    <3> QED
      BY <1>5, <3>1 DEF Injection, IsInjective
  <2>3. rank \in Surjection(S, 0..K - 1)
    <3> HIDE DEF rank
    <3> QED
      BY <1>1, <2>1, <2>2, FS_Injection DEF K
  <2> QED
    BY <2>3 DEF Surjection
<1>7. \A n \in 1..K : n - 1 \in 0..K - 1 /\ n - 1 + 1 = n
  BY <1>1
<1>8. ASSUME NEW n \in 1..K
      PROVE  Listing(t, d)[n] \in S /\ rank[Listing(t, d)[n]] = n - 1
  <2> DEFINE x == CHOOSE p \in S : Cardinality(Before(S, p)) = n - 1
  <2>1. Listing(t, d)[n] = x
    BY DEF Listing, S, K
  <2>2. \E p \in S : Cardinality(Before(S, p)) = n - 1
    BY <1>6, <1>7
  <2>3. x \in S /\ Cardinality(Before(S, x)) = n - 1
    BY <2>2
  <2> QED
    BY <2>1, <2>3
<1>9. Listing(t, d) = [n \in 1..K |-> Listing(t, d)[n]] /\ DOMAIN Listing(t, d) = 1..K
  BY DEF Listing, S, K
<1>10. Listing(t, d) \in Seq(S)
  <2>1. Listing(t, d) \in [1..K -> S]
    BY <1>8, <1>9
  <2> QED
    BY <1>1, <2>1, IsASeq
<1>11. ASSUME NEW p \in S PROVE \E n \in 1..K : Listing(t, d)[n] = p
  <2>1. rank[p] \in 0..K - 1
    BY <1>3 DEF K
  <2> HIDE DEF rank
  <2>2. rank[p] + 1 \in 1..K /\ rank[p] + 1 - 1 = rank[p]
    BY <1>1, <2>1
  <2>3. PICK n : n = rank[p] + 1
    OBVIOUS
  <2>6. n \in 1..K /\ n - 1 = rank[p]
    BY <1>1, <2>1, <2>3
  <2>4. Listing(t, d)[n] \in S /\ rank[Listing(t, d)[n]] = rank[p]
    BY <1>8, <2>6
  <2>5. Listing(t, d)[n] = p
    BY <1>5, <2>4
  <2> QED
    BY <2>5, <2>6
<1> QED
  BY <1>9, <1>10, <1>11 DEF S

\* What lies inside an allowed path is allowed.
LEMMA WithinBelow ==
    ASSUME NEW R \in SUBSET Seq(Int), NEW p \in Seq(Int), NEW q \in Seq(Int),
           Inside(p, q), IsWithin(q, R)
    PROVE  IsWithin(p, R)
<1>1. PICK root \in R : Inside(q, root)
  BY DEF IsWithin
<1>2. Inside(p, root)
  BY <1>1, InsideTransitive
<1> QED
  BY <1>2 DEF IsWithin

\* A directory that no link leads to is valid if it is below a root.
LEMMA DirIsValid ==
    ASSUME NEW N, NEW t \in [Paths -> Nodes(N)], IsTree(t), Paths \subseteq Seq(Int),
           NEW p, IsDir(t, p), NEW R, IsWithin(p, R)
    PROVE  Valid(t, p, R)
<1>1. Exists(t, p) /\ ~IsLink(t, p)
  BY NodeKinds
<1>2. p \in Seq(Int) /\ RealStatus(t, p) = "ok" /\ RealPath(t, p) = p
  BY <1>1, Ancestors, LinkFree
<1>3. Len(p) \in Nat /\ Prefix(p, Len(p)) = p
  BY <1>2, PrefixWhole
<1>4. ~LookAgain(t, p)
  BY <1>2 DEF LookAgain
<1> DEFINE Fits(n) == /\ ~LookAgain(t, Prefix(p, n))
                      /\ \A m \in n + 1..Len(p) : LookAgain(t, Prefix(p, m))
<1>5. Len(p) \in 0..Len(p) /\ Fits(Len(p))
  BY <1>3, <1>4
<1>6. ASSUME NEW n \in 0..Len(p), Fits(n) PROVE n = Len(p)
  <2>1. CASE n < Len(p)
    <3>1. Len(p) \in n + 1..Len(p)
      BY <1>3, <2>1
    <3> QED
      BY <1>3, <1>4, <1>6, <3>1
  <2> QED
    BY <1>3, <2>1
<1>7. (CHOOSE n \in 0..Len(p) : Fits(n)) = Len(p)
  <2> HIDE DEF Fits
  <2> QED
    BY <1>5, <1>6
<1>8. Nearest(t, p) = p
  BY <1>3, <1>7 DEF Nearest
<1> QED
  BY <1>2, <1>8 DEF Valid, Allows

\* The match that is replaced is an occurrence, and the leftmost one.
LEMMA FirstIsLeast ==
    ASSUME NEW content, NEW old, Len(content) \in Nat, Occurrences(content, old) # {}
    PROVE  /\ First(content, old) \in Occurrences(content, old)
           /\ \A m \in Occurrences(content, old) : First(content, old) <= m
<1> DEFINE found == MatchesFrom(content, old, 1)
<1>1. found = Occurrences(content, old) /\ found \in SUBSET Nat
  BY DEF MatchesFrom, Occurrences
<1>2. \E n \in found : \A m \in found : n <= m
  BY <1>1, HasLeast
<1>3. /\ Earliest(found) \in found
      /\ \A m \in found : Earliest(found) <= m
  BY <1>2 DEF Earliest
<1> QED
  BY <1>1, <1>3 DEF First
-----------------------------------------------------------------------------
(* What the operators on paths and texts return *)

\* Normalization makes no names.
LEMMA NormalizedNames ==
    ASSUME NEW N, NEW parts \in Seq(N)
    PROVE  Normalized(parts) \in Seq(N \ {Here})
<1> DEFINE n == Len(parts)
           S == [i \in 0..n |-> Seq(N \ {Here})]
           More(i, s) == IF parts[i] = Here THEN s
                         ELSE IF parts[i] # Up THEN Append(s, parts[i])
                         ELSE IF s = <<>> THEN <<>> ELSE Front(s)
           Body(h) == [i \in 0..n |->
                IF i = 0 THEN <<>>
                ELSE IF parts[i] = Here THEN h[i - 1]
                ELSE IF parts[i] # Up THEN Append(h[i - 1], parts[i])
                ELSE IF h[i - 1] = <<>> THEN <<>> ELSE Front(h[i - 1])]
           F == CHOOSE h : h = Body(h)
           step == [i \in 1..n |-> [s \in Seq(N \ {Here}) |-> More(i, s)]]
<1>1. n \in Nat
  OBVIOUS
<1>2. ASSUME NEW i \in 1..n, NEW s \in Seq(N \ {Here}) PROVE More(i, s) \in Seq(N \ {Here})
  <2>1. parts[i] \in N
    OBVIOUS
  <2>2. parts[i] # Here => Append(s, parts[i]) \in Seq(N \ {Here})
    BY <2>1, AppendProperties
  <2>3. s # <<>> => Front(s) \in Seq(N \ {Here})
    BY DEF Front
  <2> QED
    BY <2>2, <2>3
<1> HIDE DEF More, n
<1>3. Leads(step, S, n)
  BY <1>1, <1>2 DEF Leads
<1>4. PICK g : IsRun(g, step, <<>>, n)
  <2> HIDE DEF step
  <2> QED
    BY <1>1, Iterates
<1>5. \A i \in 0..n : g[i] \in S[i]
  <2>1. g[0] \in S[0]
    BY <1>1, <1>4 DEF IsRun
  <2> HIDE DEF step, S
  <2>2. \A i \in 1..n : g[i] = step[i][g[i - 1]]
    BY <1>4 DEF IsRun
  <2> QED
    BY <1>1, <1>3, <2>1, <2>2, StaysWithin
<1>6. g = Body(g)
  <2>1. ASSUME NEW i \in 0..n PROVE g[i] = Body(g)[i]
    <3>1. CASE i = 0
      BY <1>4, <3>1 DEF IsRun
    <3>2. CASE i # 0
      <4>1. i \in 1..n /\ i - 1 \in 0..n
        BY <1>1, <3>2
      <4>2. g[i] = More(i, g[i - 1])
        BY <1>4, <1>5, <4>1 DEF IsRun
      <4> QED
        BY <3>2, <4>2 DEF More
    <3> QED
      BY <3>1, <3>2
  <2> HIDE DEF step
  <2> QED
    BY <1>4, <2>1 DEF IsRun
<1>7. F = Body(F)
  <2> HIDE DEF Body
  <2> QED
    BY <1>6
<1>8. \A i \in 0..n : F[i] \in S[i]
  <2>1. F[0] \in S[0]
    <3> HIDE DEF F
    <3> QED
      BY <1>1, <1>7
  <2>2. ASSUME NEW i \in 1..n, F[i - 1] \in S[i - 1] PROVE F[i] = step[i][F[i - 1]]
    <3> HIDE DEF F
    <3>1. i \in 0..n /\ i # 0 /\ i - 1 \in 0..n /\ F[i - 1] \in Seq(N \ {Here})
      BY <1>1, <2>2
    <3>2. F[i] = More(i, F[i - 1])
      BY <1>7, <3>1 DEF More
    <3> QED
      BY <3>1, <3>2
  <2> HIDE DEF step, S, F
  <2> QED
    BY <1>1, <1>3, <2>1, <2>2, StaysWithin
<1>9. Normalized(parts) = F[n]
  BY DEF Normalized, n
<1> HIDE DEF F
<1> QED
  BY <1>1, <1>8, <1>9

\* A normalized path is a path.
LEMMA NormalizedType ==
    ASSUME NEW N, NEW parts \in Seq(N)
    PROVE  Normalized(parts) \in Seq(N)
<1>1. Normalized(parts) \in Seq(N \ {Here})
  BY NormalizedNames
<1> QED
  BY <1>1, SeqMonotonic

\* An edit that is accepted makes a text of a text ...
LEMMA ReplacedType ==
    ASSUME NEW t \in Seq(Nat), NEW e \in [old : Seq(Nat), new : Seq(Nat)], Accepted(t, e.old)
    PROVE  Replaced(t, e) \in Seq(Nat)
<1>1. First(t, e.old) \in 1..Len(t)
  <2>1. MatchesFrom(t, e.old, 1) = Occurrences(t, e.old)
    BY DEF MatchesFrom, Occurrences
  <2>2. First(t, e.old) \in Occurrences(t, e.old)
    BY <2>1, FirstIsLeast DEF Accepted
  <2> QED
    BY <2>2 DEF Occurrences
<1>2. PICK n \in 1..Len(t) : n = First(t, e.old)
  BY <1>1
<1>3. Len(e.old) \in Nat /\ Len(t) \in Nat
  OBVIOUS
<1>4. SubSeq(t, 1, n - 1) \in Seq(Nat) /\ SubSeq(t, n + Len(e.old), Len(t)) \in Seq(Nat)
  BY <1>3
<1>5. Replaced(t, e) = SubSeq(t, 1, n - 1) \o e.new \o SubSeq(t, n + Len(e.old), Len(t))
  BY <1>2 DEF Replaced
<1>6. SubSeq(t, 1, n - 1) \o e.new \in Seq(Nat)
  BY <1>4, ConcatProperties
<1> QED
  BY <1>4, <1>5, <1>6, ConcatProperties

\* ... and so does a list of edits.
LEMMA AppliedType ==
    ASSUME NEW t \in Seq(Nat), NEW edits \in Seq([old : Seq(Nat), new : Seq(Nat)])
    PROVE  Applied(t, edits).text \in Seq(Nat) /\ Applied(t, edits).ok \in BOOLEAN
<1> DEFINE n == Len(edits)
           R == [ok : BOOLEAN, text : Seq(Nat)]
           S == [i \in 0..n |-> R]
           More(i, s) == IF s.ok /\ Accepted(s.text, edits[i].old)
                         THEN [ok |-> TRUE, text |-> Replaced(s.text, edits[i])]
                         ELSE [ok |-> FALSE, text |-> t]
           Body(h) == [i \in 0..n |->
                IF i = 0 THEN [ok |-> TRUE, text |-> t]
                ELSE IF h[i - 1].ok /\ Accepted(h[i - 1].text, edits[i].old)
                THEN [ok |-> TRUE, text |-> Replaced(h[i - 1].text, edits[i])]
                ELSE [ok |-> FALSE, text |-> t]]
           F == CHOOSE h : h = Body(h)
           step == [i \in 1..n |-> [s \in R |-> More(i, s)]]
           start == [ok |-> TRUE, text |-> t]
<1>1. n \in Nat
  OBVIOUS
<1>11. ASSUME NEW E, edits \in Seq(E), NEW i \in 1..n PROVE edits[i] \in E
  BY <1>11
<1>12. start \in R
  OBVIOUS
<1>2. ASSUME NEW i \in 1..n, NEW s \in R PROVE More(i, s) \in R
  <2>1. edits[i] \in [old : Seq(Nat), new : Seq(Nat)]
    <3> HIDE DEF n
    <3> QED
      BY <1>11
  <2>2. Accepted(s.text, edits[i].old) => Replaced(s.text, edits[i]) \in Seq(Nat)
    BY <2>1, ReplacedType
  <2> QED
    BY <2>2
<1>13. \A s \in R : s.text \in Seq(Nat) /\ s.ok \in BOOLEAN
  OBVIOUS
<1> HIDE DEF More, n, R
<1>3. Leads(step, S, n)
  BY <1>1, <1>2 DEF Leads
<1>4. PICK g : IsRun(g, step, start, n)
  <2> HIDE DEF step
  <2> QED
    BY <1>1, Iterates
<1>5. \A i \in 0..n : g[i] \in S[i]
  <2>1. g[0] \in S[0]
    <3>1. S[0] = R
      BY <1>1
    <3> HIDE DEF S, step, start
    <3>2. g[0] = start
      BY <1>4 DEF IsRun
    <3> QED
      BY <1>12, <3>1, <3>2
  <2> HIDE DEF step, S
  <2>2. \A i \in 1..n : g[i] = step[i][g[i - 1]]
    BY <1>4 DEF IsRun
  <2> QED
    BY <1>1, <1>3, <2>1, <2>2, StaysWithin
<1>6. g = Body(g)
  <2>1. ASSUME NEW i \in 0..n PROVE g[i] = Body(g)[i]
    <3>1. CASE i = 0
      BY <1>4, <3>1 DEF IsRun
    <3>2. CASE i # 0
      <4>1. i \in 1..n /\ i - 1 \in 0..n
        BY <1>1, <3>2
      <4>2. g[i - 1] \in R
        BY <1>5, <4>1
      <4>3. g[i] = More(i, g[i - 1])
        BY <1>4, <4>1, <4>2 DEF IsRun
      <4> QED
        BY <3>2, <4>3 DEF More
    <3> QED
      BY <3>1, <3>2
  <2> HIDE DEF step
  <2> QED
    BY <1>4, <2>1 DEF IsRun
<1>7. F = Body(F)
  <2> HIDE DEF Body
  <2> QED
    BY <1>6
<1>8. \A i \in 0..n : F[i] \in S[i]
  <2>1. F[0] \in S[0]
    <3> HIDE DEF F
    <3> QED
      BY <1>1, <1>7, <1>12
  <2>2. ASSUME NEW i \in 1..n, F[i - 1] \in S[i - 1] PROVE F[i] = step[i][F[i - 1]]
    <3> HIDE DEF F
    <3>1. i \in 0..n /\ i # 0 /\ i - 1 \in 0..n /\ F[i - 1] \in R
      BY <1>1, <2>2
    <3>2. F[i] = More(i, F[i - 1])
      BY <1>7, <3>1 DEF More
    <3> QED
      BY <3>1, <3>2
  <2> HIDE DEF step, S, F
  <2> QED
    BY <1>1, <1>3, <2>1, <2>2, StaysWithin
<1>9. Applied(t, edits) = F[n]
  BY DEF Applied, n
<1> HIDE DEF F
<1>10. Applied(t, edits) \in R
  BY <1>1, <1>8, <1>9
<1> QED
  BY <1>10, <1>13

\* An edit is accepted exactly when the text to replace occurs, and no occurrence
\* lies clear of the leftmost one (README.md:501 asks that it occurs exactly once:
\* occurrences that overlap pass for one).
THEOREM AcceptedMeansNoneApart ==
    ASSUME NEW content \in Seq(Nat), NEW old \in Seq(Nat), old # <<>>
    PROVE  Accepted(content, old) <=>
              /\ Occurrences(content, old) # {}
              /\ \A m, n \in Occurrences(content, old) :
                    n = First(content, old) => m < n + Len(old)
<1>1. Len(content) \in Nat /\ Len(old) \in Nat
  OBVIOUS
<1>2. MatchesFrom(content, old, 1) = Occurrences(content, old)
  BY DEF MatchesFrom, Occurrences
<1>3. CASE Occurrences(content, old) # {}
  <2>1. First(content, old) \in Occurrences(content, old) /\ First(content, old) \in Nat
    BY <1>1, <1>3, FirstIsLeast DEF Occurrences
  <2>2. MatchesFrom(content, old, First(content, old) + Len(old)) = {} <=>
          \A m \in Occurrences(content, old) : m < First(content, old) + Len(old)
    <3> DEFINE end == First(content, old) + Len(old)
    <3>1. end \in Nat /\ \A m \in Occurrences(content, old) : m \in Nat
      BY <1>1, <2>1 DEF Occurrences
    <3>2. MatchesFrom(content, old, end) = {m \in Occurrences(content, old) : m >= end}
      BY DEF MatchesFrom
    <3> HIDE DEF end
    <3>3. MatchesFrom(content, old, end) = {} <=> \A m \in Occurrences(content, old) : m < end
      BY <3>1, <3>2
    <3> QED
      BY <3>3 DEF end
  <2> QED
    BY <1>2, <1>3, <2>1, <2>2 DEF Accepted
<1>4. CASE Occurrences(content, old) = {}
  BY <1>2, <1>4 DEF Accepted
<1> QED
  BY <1>3, <1>4

\* Where the occurrences do not overlap, an edit is accepted exactly when the text
\* to replace occurs once.
THEOREM ApartMeansUnique ==
    ASSUME NEW content \in Seq(Nat), NEW old \in Seq(Nat), old # <<>>,
           \A m, n \in Occurrences(content, old) : m < n => m + Len(old) <= n
    PROVE  Accepted(content, old) <=> \E n \in Occurrences(content, old) : Occurrences(content, old) = {n}
<1> DEFINE found == Occurrences(content, old)
           n == First(content, old)
<1>1. Len(content) \in Nat /\ Len(old) \in Nat \ {0} /\ \A m \in found : m \in Nat
  BY DEF Occurrences
<1>2. Accepted(content, old) <=> found # {} /\ \A m \in found : m < n + Len(old)
  <2>1. found # {} => n \in found
    BY <1>1, FirstIsLeast
  <2> QED
    BY <2>1, AcceptedMeansNoneApart
<1>3. CASE found # {}
  <2>1. n \in found /\ \A m \in found : n <= m
    BY <1>1, <1>3, FirstIsLeast
  <2>2. \A m \in found : m # n => n + Len(old) <= m
    <3> HIDE DEF n, found
    <3> SUFFICES ASSUME NEW m \in found, m # n PROVE n + Len(old) <= m
      OBVIOUS
    <3>1. n < m
      BY <1>1, <2>1
    <3> QED
      BY <2>1, <3>1 DEF found
  <2> HIDE DEF n, found
  <2>3. (\A m \in found : m < n + Len(old)) <=> found = {n}
    BY <1>1, <2>1, <2>2
  <2>4. (\E k \in found : found = {k}) <=> found = {n}
    BY <2>1
  <2> QED
    BY <1>2, <1>3, <2>3, <2>4 DEF found
<1>4. CASE found = {}
  BY <1>2, <1>4
<1> QED
  BY <1>3, <1>4

-----------------------------------------------------------------------------
(* The inductive invariant *)

\* The labels a tool's call goes through once its paths are granted.
Writing == {"create", "fill", "rename", "sync", "remove"}
Making == {"mkdir", "isdir", "descend"}
Stages(tool) ==
    CASE tool = "write_file" -> Writing
      [] tool = "edit_file" -> {"read"} \cup Writing
      [] tool \in Readers -> {"read"}
      [] tool = "create_directory" -> Making
      [] tool = "move_file" -> {"exists", "move"}
      [] tool \in Walkers -> {"open", "visit"}
OnTrack == \A c \in Calls : pc[c] \in {"resolve", "ancestor", "done"} \cup Stages(request[c].tool)

\* What is looked up lies on the way to the path that was asked for, and what is
\* made on the way to the one that was granted.
Above(q, p) == \E n \in 0..Len(p) : q = Prefix(p, n)
Sought ==
    \A c \in Calls :
        /\ pc[c] \in {"resolve", "ancestor"} => target[c] = NoPath
        /\ pc[c] = "resolve" => candidate[c] = Looking(c)
        /\ pc[c] = "ancestor" => Above(candidate[c], Looking(c))
        /\ pc[c] \in Making => Above(candidate[c], target[c])

\* Temporary files: what they are, when there is one, what is in it, and where.
TempsAreFiles == \A p \in Paths : IsTemp(p) /\ Exists(tree, p) => IsFile(tree, p)
OneTemp == \A c \in Calls : \A p, q \in TempAt(c) : p = q
TempsOfWriters == \A c \in Calls : TempAt(c) # {} => pc[c] \in {"fill", "rename", "remove", "done"}
Filled == \A c \in Calls : pc[c] = "rename" => \A p \in TempAt(c) : tree[p] = File(NewText(c))
PathsLead == \A c \in Calls : \A p \in TempAt(c) : c \in strayed \/ LeadsTo(TempOf(c), p)

\* A move whose destination was not filled meanwhile still finds it missing.
FreeToMove == \A c \in Calls : pc[c] = "move" /\ c \notin taken => RealStatus(tree, target[c]) = "missing"

\* What a walk has still to come to.
Granted ==
    \A c \in Calls :
        /\ pc[c] = "ancestor" => IsWithin(Looking(c), roots)
        /\ pc[c] \in {"open", "visit"} => IsWithin(target[c], roots)
LeadsOn(entry, root, p) ==
    p = entry.path \/ (entry.dir /\ Below(p, entry.path) /\ Inside(entry.path, root))
InFrame(frame, root, p) == \E n \in DOMAIN frame : LeadsOn(frame[n], root, p)
InFrames(frames, root, p) == \E m \in DOMAIN frames : InFrame(frames[m], root, p)
WaitedFor(waiting, root, p) ==
    \E n \in DOMAIN waiting : Below(p, waiting[n]) /\ Inside(waiting[n], root)
Ahead(c, p) ==
    \/ p \in walk[c].found
    \/ WaitedFor(walk[c].waiting, target[c], p)
    \/ InFrames(walk[c].frames, target[c], p)
WalkShape ==
    \A c \in Calls :
        /\ pc[c] \in {"resolve", "ancestor"} => walk[c].frames = <<>>
        /\ pc[c] = "open" =>
              IF request[c].tool = "search_files" THEN walk[c].frames = <<>>
              ELSE Len(walk[c].waiting) <= 1 /\ (walk[c].waiting = <<>> => walk[c].frames = <<>>)
        /\ pc[c] = "visit" =>
              /\ walk[c].frames # <<>>
              /\ IF request[c].tool = "search_files" THEN Len(walk[c].frames) = 1
                 ELSE walk[c].waiting = <<>>
Covered ==
    \A c \in Calls : pc[c] \in {"open", "visit"} =>
        \A p \in stays[c] : p \in Paths /\ Shown(c, p) /\ (Wanted(c, p) => Ahead(c, p))

\* What has happened to the files is what the label says; a listing leaves no text.
Steadied ==
    /\ changed \in [Calls -> BOOLEAN]
    /\ \A c \in Calls :
        /\ changed[c] => pc[c] \in {"sync", "remove", "done"}
        /\ pc[c] = "sync" => changed[c]
        /\ request[c].tool = "list_directory" => text[c] = <<>>

Temps == TempsAreFiles /\ OneTemp /\ TempsOfWriters /\ Filled /\ PathsLead
Walked == Granted /\ WalkShape /\ Covered
IInv ==
    /\ TypeOK /\ Dirs # <<>> /\ OnTrack /\ Sought /\ Temps /\ FreeToMove /\ Walked /\ Steadied
    /\ NoLitter /\ WalksMissNothing

-----------------------------------------------------------------------------
(* Types *)

\* Temporary files have names of their own, one for each call.
LEMMA ConstantsAre ==
    /\ Names \in SUBSET Int /\ Here \in Names /\ NoPath \in Seq(Names)
    /\ Paths \subseteq Seq(Int) /\ IsFiniteSet(Paths) /\ NoPath \notin Paths
    /\ \A c \in Calls : Temp(c) \in Int /\ Temp(c) \notin Names
    /\ \A b, c \in Calls : Temp(b) = Temp(c) => b = c
    /\ \A x \in Int : x \notin Names <=> \E c \in Calls : x = Temp(c)
<1>1. Calls \subseteq Nat \ {0} /\ Paths \subseteq Seq(Int) /\ IsFiniteSet(Paths)
  BY FileAssumption, SeqMonotonic
<1>7. NoPath \notin Paths
  <2>1. NoPath \notin Seq(Int \ {Here})
    BY DEF NoPath
  <2> QED
    BY <2>1, FileAssumption
<1>2. \A c \in Calls : Temp(c) \in Int /\ Temp(c) < -2
  BY <1>1 DEF Temp, Up
<1>3. Here = -1
  BY DEF Here
<1>4. Here \in Names
  BY <1>2, <1>3 DEF Names
<1>5. NoPath \in Seq(Names)
  BY <1>4 DEF NoPath
<1>6. \A b, c \in Calls : Temp(b) = Temp(c) => b = c
  BY <1>1 DEF Temp, Up
<1> QED
  BY <1>1, <1>2, <1>4, <1>5, <1>6, <1>7 DEF Names

\* The tree, apart from the rest of TypeOK.
LEMMA TreeIsTyped ==
    ASSUME TypeOK
    PROVE  tree \in [Paths -> Nodes(Names)] /\ IsTree(tree)
BY DEF TypeOK

\* Also the root has a parent: itself.
LEMMA ParentType ==
    ASSUME NEW S, NEW p \in Seq(S)
    PROVE  Parent(p) \in Seq(S)
<1>1. CASE p = <<>>
  BY <1>1, SubSeqEmpty DEF Parent, Prefix
<1>2. CASE p # <<>>
  BY <1>2, ParentOf
<1> QED
  BY <1>1, <1>2

\* A temporary file is next to the target.
LEMMA TempPath ==
    ASSUME TypeOK, NEW c \in Calls
    PROVE  /\ TempOf(c) \in Seq(Int)
           /\ Parent(TempOf(c)) \in Seq(Names)
           /\ Last(TempOf(c)) = Temp(c)
           /\ Parent(TempOf(c)) = Parent(target[c])
<1>1. Parent(target[c]) \in Seq(Names)
  BY ParentType DEF TypeOK
<1>2. Parent(target[c]) \in Seq(Int) /\ Temp(c) \in Int
  BY <1>1, ConstantsAre, SeqMonotonic
<1> QED
  BY <1>1, <1>2, AppendOf DEF TempOf

\* What a call asks for, and the paths it asks for.
LEMMA AskedType ==
    ASSUME TypeOK, Dirs # <<>>, NEW c \in Calls
    PROVE  /\ request[c] \in Menu /\ request[c].tool \in Tools
           /\ Asked(c) \in Seq(Names) /\ Asked(c) # NoPath
           /\ TwoPaths(c) => AskedTarget(c) \in Seq(Names)
           /\ Looking(c) \in Seq(Names)
           /\ request[c].tool = "write_file" => request[c].text \in Seq(Nat)
           /\ request[c].tool = "edit_file" =>
                 request[c].edits \in Seq([old : Seq(Nat), new : Seq(Nat)])
<1>1. request[c] \in Menu
  BY DEF TypeOK
<1>2. /\ request[c].tool \in Tools /\ request[c].path \in Asks
      /\ request[c].tool = "move_file" => request[c].to \in Asks
      /\ request[c].tool = "write_file" => request[c].text \in Seq(Nat)
      /\ request[c].tool = "edit_file" =>
            request[c].edits \in Seq([old : Seq(Nat), new : Seq(Nat)])
  BY <1>1, FileAssumption
<1>6. ASSUME NEW r \in Asks
      PROVE  r.parts \in Seq(Names) /\ Normalized(Dirs[1]) \o r.parts \in Seq(Names)
  <2>1. r.parts \in Seq(Names)
    BY DEF Asks
  <2>2. Dirs[1] \in Seq(Names)
    <3>1. Dirs \in Seq(Seq(Names))
      BY FileAssumption
    <3> QED
      BY <3>1
  <2> QED
    BY <2>1, <2>2, NormalizedType, ConcatProperties
<1>3. ASSUME NEW r \in Asks PROVE Absolute(r, Dirs) \in Seq(Names)
  BY <1>6, NormalizedType DEF Absolute
<1>4. Asked(c) \in Seq(Names) /\ (TwoPaths(c) => AskedTarget(c) \in Seq(Names))
  BY <1>2, <1>3 DEF Asked, AskedTarget, TwoPaths
<1>5. ASSUME NEW r \in Asks PROVE Absolute(r, Dirs) # NoPath
  <2>1. PICK parts \in Seq(Names) : Absolute(r, Dirs) = Normalized(parts)
    BY <1>6 DEF Absolute
  <2>2. NoPath \notin Seq(Names \ {Here})
    BY DEF NoPath
  <2> QED
    BY <2>1, <2>2, NormalizedNames
<1> QED
  BY <1>1, <1>2, <1>4, <1>5 DEF Looking, Asked

TypedCalls ==
    /\ roots \subseteq Seq(Int)
    /\ request \in [Calls -> Menu]
    /\ pc \in [Calls -> PC]
    /\ candidate \in [Calls -> Seq(Names)]
    /\ source \in [Calls -> Seq(Names)]
    /\ target \in [Calls -> Seq(Names)]
    /\ text \in [Calls -> Seq(Nat)]
    /\ reply \in [Calls -> {"none", "ok", "error"}]
    /\ stuck \subseteq Calls
    /\ \A c \in Calls : (pc[c] = "done") = (reply[c] # "none")

\* Types, after a lookup ...
LEMMA LookedTypes ==
    ASSUME TypeOK, Dirs # <<>>, NEW c \in Calls, NEW path \in Seq(Names), Looked(c, path),
           pc[c] # "done", UNCHANGED <<callVars, text>>
    PROVE  TypedCalls'
<1>1. TypedCalls
  BY DEF TypeOK, TypedCalls
<1>2. AfterResolve(c) \in PC \ {"done"} /\ "resolve" \in PC /\ "done" \in PC
  <2>1. request[c].tool \in Tools
    BY AskedType
  <2> QED
    BY <2>1 DEF AfterResolve, Tools, Readers, Writers, Walkers, PC
<1>3. CASE Finish(c, "error") /\ UNCHANGED <<candidate, source, target>>
  BY <1>1, <1>2, <1>3 DEF TypedCalls, Finish, Goto, callVars
<1>4. CASE Grant(c, path) /\ UNCHANGED reply
  <2>1. CASE TwoPaths(c) /\ source[c] = NoPath
    <3>1. AskedTarget(c) \in Seq(Names)
      BY <2>1, AskedType
    <3> QED
      BY <1>1, <1>2, <1>4, <2>1, <3>1 DEF TypedCalls, Grant, Goto, callVars
  <2>2. CASE ~(TwoPaths(c) /\ source[c] = NoPath)
    BY <1>1, <1>2, <1>4, <2>2 DEF TypedCalls, Grant, Goto, callVars
  <2> QED
    BY <2>1, <2>2
<1> QED
  BY <1>3, <1>4 DEF Looked

\* ... after a directory was made or found ...
LEMMA DownTypes ==
    ASSUME TypeOK, Sought, NEW c \in Calls, pc[c] \in Making, NextDown(c)
    PROVE  /\ candidate' \in [Calls -> Seq(Names)]
           /\ Above(candidate'[c], target[c])
           /\ \A b \in Calls \ {c} : candidate'[b] = candidate[b]
           /\ \/ candidate[c] = target[c] /\ Finish(c, "ok")
              \/ candidate[c] # target[c] /\ Goto(c, "descend") /\ UNCHANGED reply
<1>1. candidate \in [Calls -> Seq(Names)] /\ target[c] \in Seq(Names)
  BY DEF TypeOK
<1>2. PICK n \in 0..Len(target[c]) : candidate[c] = Prefix(target[c], n)
  BY DEF Sought, Above
<1>3. CASE candidate[c] = target[c]
  BY <1>1, <1>2, <1>3 DEF NextDown, Above
<1>4. CASE candidate[c] # target[c]
  <2>1. Len(candidate[c]) = n /\ n # Len(target[c])
    BY <1>1, <1>2, <1>4, PrefixOf, PrefixWhole
  <2>2. n + 1 \in 0..Len(target[c])
    BY <1>1, <2>1
  <2>3. PICK q \in Seq(Names) : q = Prefix(target[c], n + 1)
    BY <1>1, <2>2, PrefixOf
  <2>4. /\ candidate' = [candidate EXCEPT ![c] = q]
        /\ Goto(c, "descend") /\ UNCHANGED reply
    BY <1>4, <2>1, <2>3 DEF NextDown
  <2> QED
    BY <1>1, <1>4, <2>2, <2>3, <2>4 DEF Above
<1> QED
  BY <1>3, <1>4

\* ... and after every step, but for the tree and the walks.
LEMMA CallsStep ==
    ASSUME TypeOK, Sought, Dirs # <<>>, NEW c \in Calls, Handle(c)
    PROVE  TypedCalls'
<1>1. TypedCalls
  BY DEF TypeOK, TypedCalls
<1>2. /\ candidate[c] \in Seq(Names) /\ Looking(c) \in Seq(Names)
      /\ target[c] \in Seq(Names) /\ target[c] \in Seq(Int)
  BY AskedType, SeqMonotonic, ConstantsAre DEF TypeOK
<1>3. PC = {"resolve", "ancestor", "read", "create", "fill", "rename", "sync", "remove",
            "mkdir", "isdir", "descend", "exists", "move", "open", "visit", "done"}
  BY DEF PC
<1>4. ASSUME NEW p \in Seq(Names) PROVE RealPath(tree, p) \in Seq(Names)
  BY TreeIsTyped, ConstantsAre, ChasedSteps DEF RealPath
<1>5. ASSUME NEW p, IsFile(tree, p) PROVE tree[p].text \in Seq(Nat)
  <2>1. p \in Paths /\ Node(tree, p).text \in Seq(Nat) /\ Node(tree, p) = tree[p]
    BY <1>5, TreeIsTyped, NodeKinds
  <2> QED
    BY <2>1
<1>6. CASE Refuse(c)
  BY <1>1, <1>3, <1>6 DEF TypedCalls, Refuse, Finish, Goto, callVars
<1>7. CASE LookUp(c)
  <2>1. CASE LookAgain(tree, candidate[c])
    BY <1>1, <1>3, <1>7, <2>1 DEF TypedCalls, LookUp, Goto, callVars
  <2>2. CASE ~LookAgain(tree, candidate[c])
    <3>1. Looked(c, RealPath(tree, candidate[c])) /\ pc[c] # "done" /\ UNCHANGED <<callVars, text>>
      BY <1>7, <2>2 DEF LookUp
    <3> QED
      BY <1>2, <1>4, <3>1, LookedTypes
  <2> QED
    BY <2>1, <2>2
<1>8. CASE LookAbove(c)
  <2>1. CASE LookAgain(tree, candidate[c])
    <3>1. Parent(candidate[c]) \in Seq(Names)
      BY <1>2, ParentType
    <3> QED
      BY <1>1, <1>3, <1>8, <2>1, <3>1 DEF TypedCalls, LookAbove, callVars
  <2>2. CASE ~LookAgain(tree, candidate[c])
    <3>1. Looked(c, Looking(c)) /\ pc[c] # "done" /\ UNCHANGED <<callVars, text>>
      BY <1>8, <2>2 DEF LookAbove
    <3> QED
      BY <1>2, <3>1, LookedTypes
  <2> QED
    BY <2>1, <2>2
<1>9. CASE Fails(c)
  BY <1>1, <1>3, <1>9 DEF TypedCalls, Fails, Finish, Goto, callVars
<1>10. CASE Read(c)
  <2> DEFINE o == Opened(target[c])
             t == IF request[c].tool = "list_directory" THEN <<>> ELSE tree[o].text
  <2>1. CASE ~CanOpen(target[c]) \/ IsDir(tree, o) # (request[c].tool = "list_directory")
    BY <1>1, <1>3, <1>10, <2>1 DEF TypedCalls, Read, Finish, Goto, callVars
  <2>2. CASE ~(~CanOpen(target[c]) \/ IsDir(tree, o) # (request[c].tool = "list_directory"))
    <3>1. request[c].tool # "list_directory" => IsFile(tree, o)
      <4>1. Exists(tree, o) /\ ~IsLink(tree, o)
        BY <2>2 DEF CanOpen, Opened, RealStatus, RealPath
      <4> QED
        BY <2>2, <4>1, TreeIsTyped, NodeKinds
    <3>2. t \in Seq(Nat)
      BY <1>5, <3>1
    <3>3. pc[c] = "read" /\ Finish(c, "ok") /\ text' = [text EXCEPT ![c] = t]
          /\ UNCHANGED <<callVars, candidate, source, target>>
      BY <1>10, <2>2 DEF Read
    <3> HIDE DEF t, o
    <3> QED
      BY <1>1, <1>3, <3>2, <3>3 DEF TypedCalls, Finish, Goto, callVars
  <2> QED
    BY <2>1, <2>2
<1>11. CASE ReadToEdit(c)
  <2> DEFINE t == Edited(c).text
             old == tree[Opened(target[c])].text
  <2>1. CASE ~CanOpen(target[c]) \/ ~IsFile(tree, Opened(target[c]))
    <3>1. pc[c] = "read" /\ Finish(c, "error") /\ UNCHANGED <<callVars, candidate, source, target, text>>
      BY <1>11, <2>1 DEF ReadToEdit
    <3> QED
      BY <1>1, <1>3, <3>1 DEF TypedCalls, Finish, Goto, callVars
  <2>2. CASE ~(~CanOpen(target[c]) \/ ~IsFile(tree, Opened(target[c])))
    <3>1. t \in Seq(Nat)
      <4>1. tree[Opened(target[c])].text \in Seq(Nat)
        BY <1>5, <2>2
      <4>2. request[c].edits \in Seq([old : Seq(Nat), new : Seq(Nat)])
        BY <1>11, AskedType DEF ReadToEdit
      <4> QED
        BY <4>1, <4>2, AppliedType DEF Edited
    <3>2. /\ pc[c] = "read" /\ text' = [text EXCEPT ![c] = t]
          /\ \/ Finish(c, "error") \/ Finish(c, "ok")
             \/ Goto(c, "create") /\ UNCHANGED reply
          /\ UNCHANGED <<callVars, candidate, source, target>>
      BY <1>11, <2>2 DEF ReadToEdit
    <3> HIDE DEF t
    <3> QED
      BY <1>1, <1>3, <3>1, <3>2 DEF TypedCalls, Finish, Goto, callVars
  <2> QED
    BY <2>1, <2>2
<1>12. CASE CreateTemp(c)
  BY <1>1, <1>3, <1>12 DEF TypedCalls, CreateTemp, Finish, Goto, Unchanged, callVars
<1>13. CASE Fill(c)
  BY <1>1, <1>3, <1>13 DEF TypedCalls, Fill, Goto, Unchanged, callVars
<1>14. CASE FillFails(c)
  BY <1>1, <1>3, <1>14 DEF TypedCalls, FillFails, Goto, Unchanged, callVars
<1>15. CASE Rename(c)
  BY <1>1, <1>3, <1>15 DEF TypedCalls, Rename, Goto, Unchanged, callVars
<1>16. CASE SyncParent(c)
  BY <1>1, <1>3, <1>16 DEF TypedCalls, SyncParent, Finish, Goto, Unchanged, callVars
<1>17. CASE RemoveTemp(c)
  BY <1>1, <1>3, <1>17 DEF TypedCalls, RemoveTemp, Finish, Goto
<1>26. ASSUME NextDown(c), pc[c] \in Making, UNCHANGED <<callVars, source, target, text>>
       PROVE  TypedCalls'
  <2>1. /\ candidate' \in [Calls -> Seq(Names)] /\ pc[c] # "done"
        /\ \/ Finish(c, "ok")
           \/ Goto(c, "descend") /\ UNCHANGED reply
    BY <1>26, DownTypes DEF Making
  <2> QED
    BY <1>1, <1>3, <1>26, <2>1 DEF TypedCalls, Finish, Goto, callVars
<1>18. CASE MakeDirectory(c)
  <2>1. pc[c] \in Making /\ pc[c] # "done" /\ UNCHANGED <<callVars, source, target, text>>
    BY <1>18 DEF MakeDirectory, Making
  <2>2. CASE CanMkdir(tree, candidate[c])
    <3>1. NextDown(c)
      BY <1>18, <2>2 DEF MakeDirectory
    <3> QED
      BY <1>26, <2>1, <3>1
  <2>3. CASE ~CanMkdir(tree, candidate[c])
    <3>1. Parent(candidate[c]) \in Seq(Names)
      BY <1>2, ParentType
    <3>2. /\ UNCHANGED reply
          /\ \/ candidate' = [candidate EXCEPT ![c] = Parent(candidate[c])] /\ UNCHANGED pc
             \/ Goto(c, "isdir") /\ UNCHANGED candidate
      BY <1>18, <2>3 DEF MakeDirectory
    <3> QED
      BY <1>1, <1>3, <2>1, <3>1, <3>2 DEF TypedCalls, Goto, callVars
  <2> QED
    BY <2>2, <2>3
<1>25. CASE CheckDirectory(c)
  <2>1. pc[c] \in Making /\ pc[c] # "done" /\ UNCHANGED <<callVars, source, target, text>>
    BY <1>25 DEF CheckDirectory, Making
  <2>2. CASE NextDown(c)
    BY <1>26, <2>1, <2>2
  <2>3. CASE Finish(c, "error") /\ UNCHANGED candidate
    BY <1>1, <1>3, <2>1, <2>3 DEF TypedCalls, Finish, Goto, callVars
  <2> QED
    BY <1>25, <2>2, <2>3 DEF CheckDirectory
<1>19. CASE DestinationExists(c)
  BY <1>1, <1>3, <1>19 DEF TypedCalls, DestinationExists, Finish, Goto, Unchanged, callVars
<1>20. CASE MoveFile(c)
  BY <1>1, <1>3, <1>20 DEF TypedCalls, MoveFile, Finish, Goto, Unchanged, callVars
<1>21. CASE Open(c)
  BY <1>1, <1>3, <1>21 DEF TypedCalls, Open, Finish, Goto, callVars
<1>22. CASE CloseDirectory(c)
  BY <1>1, <1>3, <1>22 DEF TypedCalls, CloseDirectory, Goto, callVars
<1>23. CASE SearchVisit(c)
  <2>1. /\ pc[c] = "visit" /\ (Finish(c, "ok") \/ UNCHANGED <<pc, reply>>)
        /\ UNCHANGED <<callVars, candidate, source, target, text>>
    BY <1>23 DEF SearchVisit, Truncate
  <2> QED
    BY <1>1, <1>3, <2>1 DEF TypedCalls, Finish, Goto, callVars
<1>24. CASE TreeVisit(c)
  <2>1. /\ pc[c] = "visit"
        /\ Finish(c, "ok") \/ (UNCHANGED reply /\ (Goto(c, "open") \/ Goto(c, "visit")))
        /\ UNCHANGED <<callVars, candidate, source, target, text>>
    BY <1>24 DEF TreeVisit, Truncate
  <2> QED
    BY <1>1, <1>3, <2>1 DEF TypedCalls, Finish, Goto, callVars
<1> QED
  BY <1>6, <1>7, <1>8, <1>9, <1>10, <1>11, <1>12, <1>13, <1>14, <1>15, <1>16, <1>17, <1>18,
     <1>19, <1>20, <1>21, <1>22, <1>23, <1>24, <1>25 DEF Handle

-----------------------------------------------------------------------------
(* Whose step it is *)

\* A step of one call leaves the others where they are.
Others(c) ==
    \A b \in Calls \ {c} :
        /\ pc'[b] = pc[b] /\ reply'[b] = reply[b] /\ candidate'[b] = candidate[b]
        /\ source'[b] = source[b] /\ target'[b] = target[b] /\ text'[b] = text[b]
        /\ walk'[b] = walk[b]

CallsAreFunctions ==
    /\ pc = [b \in Calls |-> pc[b]] /\ reply = [b \in Calls |-> reply[b]]
    /\ candidate = [b \in Calls |-> candidate[b]]
    /\ source = [b \in Calls |-> source[b]] /\ target = [b \in Calls |-> target[b]]
    /\ text = [b \in Calls |-> text[b]] /\ walk = [b \in Calls |-> walk[b]]

\* A step is one of a call that has not ended, and leaves the other calls alone.
LEMMA StepIsLocal ==
    ASSUME TypeOK, NEW c \in Calls, Handle(c)
    PROVE  /\ Others(c) /\ UNCHANGED <<roots, request>> /\ pc[c] # "done"
           /\ stuck \subseteq stuck' /\ stuck' \subseteq stuck \cup {c}
<1>1. CallsAreFunctions
  BY DEF TypeOK, CallsAreFunctions
<1> USE DEF Others, Finish, Goto
<1>2. ASSUME NEW path, Looked(c, path), UNCHANGED text PROVE Others(c)
  <2>1. CASE Finish(c, "error") /\ UNCHANGED <<candidate, source, target, walk>>
    BY <1>1, <1>2, <2>1 DEF CallsAreFunctions
  <2>2. CASE Grant(c, path) /\ UNCHANGED reply
    <3>1. CASE TwoPaths(c) /\ source[c] = NoPath
      BY <1>1, <1>2, <2>2, <3>1 DEF CallsAreFunctions, Grant
    <3>2. CASE ~(TwoPaths(c) /\ source[c] = NoPath)
      <4>1. walk' = [walk EXCEPT ![c].waiting =
                        IF request[c].tool \in Walkers THEN <<path>> ELSE <<>>]
        BY <2>2, <3>2 DEF Grant
      <4>2. \A b \in Calls \ {c} : walk'[b] = walk[b]
        BY <1>1, <4>1 DEF CallsAreFunctions
      <4> QED
        BY <1>1, <1>2, <2>2, <3>2, <4>2 DEF CallsAreFunctions, Grant
    <3> QED
      BY <3>1, <3>2
  <2> QED
    BY <1>2, <2>1, <2>2 DEF Looked
<1>3. CASE Refuse(c)
  BY <1>1, <1>3 DEF CallsAreFunctions, Refuse, callVars
<1>4. CASE LookUp(c)
  <2>1. CASE LookAgain(tree, candidate[c])
    BY <1>1, <1>4, <2>1 DEF CallsAreFunctions, LookUp, callVars
  <2>2. CASE ~LookAgain(tree, candidate[c])
    BY <1>2, <1>4, <2>2 DEF LookUp, callVars
  <2> QED
    BY <2>1, <2>2
<1>5. CASE LookAbove(c)
  <2>1. CASE LookAgain(tree, candidate[c])
    BY <1>1, <1>5, <2>1 DEF CallsAreFunctions, LookAbove, callVars
  <2>2. CASE ~LookAgain(tree, candidate[c])
    BY <1>2, <1>5, <2>2 DEF LookAbove, callVars
  <2> QED
    BY <2>1, <2>2
<1>6. CASE Fails(c)
  BY <1>1, <1>6 DEF CallsAreFunctions, Fails, callVars
<1>7. CASE Read(c)
  <2>1. pc[c] = "read" /\ UNCHANGED <<callVars, candidate, source, target, walk>>
        /\ (Finish(c, "error") \/ Finish(c, "ok"))
    BY <1>7 DEF Read
  <2>2. \E t : text' = text \/ text' = [text EXCEPT ![c] = t]
    BY <1>7 DEF Read
  <2> QED
    BY <1>1, <2>1, <2>2 DEF CallsAreFunctions, callVars
<1>8. CASE ReadToEdit(c)
  <2>1. pc[c] = "read" /\ UNCHANGED <<callVars, candidate, source, target, walk>>
        /\ (Finish(c, "error") \/ Finish(c, "ok") \/ (Goto(c, "create") /\ UNCHANGED reply))
    BY <1>8 DEF ReadToEdit
  <2>2. \E t : text' = text \/ text' = [text EXCEPT ![c] = t]
    BY <1>8 DEF ReadToEdit
  <2> QED
    BY <1>1, <2>1, <2>2 DEF CallsAreFunctions, callVars
<1>9. CASE CreateTemp(c)
  BY <1>1, <1>9 DEF CallsAreFunctions, CreateTemp, Unchanged, callVars
<1>10. CASE Fill(c)
  BY <1>1, <1>10 DEF CallsAreFunctions, Fill, Unchanged, callVars
<1>11. CASE FillFails(c)
  BY <1>1, <1>11 DEF CallsAreFunctions, FillFails, Unchanged, callVars
<1>12. CASE Rename(c)
  BY <1>1, <1>12 DEF CallsAreFunctions, Rename, Unchanged, callVars
<1>13. CASE SyncParent(c)
  BY <1>1, <1>13 DEF CallsAreFunctions, SyncParent, Unchanged, callVars
<1>14. CASE RemoveTemp(c)
  BY <1>1, <1>14 DEF CallsAreFunctions, RemoveTemp
<1>22. ASSUME NextDown(c), UNCHANGED <<source, target, text, walk>> PROVE Others(c)
  BY <1>1, <1>22 DEF CallsAreFunctions, NextDown
<1>15. CASE MakeDirectory(c)
  <2>1. CASE NextDown(c)
    BY <1>15, <1>22, <2>1 DEF MakeDirectory, callVars
  <2>2. CASE ~NextDown(c)
    <3>1. UNCHANGED <<reply, source, target, text, walk>>
      BY <1>15, <2>2 DEF MakeDirectory
    <3>2. \/ candidate' = [candidate EXCEPT ![c] = Parent(candidate[c])] /\ UNCHANGED pc
          \/ Goto(c, "isdir") /\ UNCHANGED candidate
      BY <1>15, <2>2 DEF MakeDirectory
    <3>3. Others(c)
      BY <1>1, <3>1, <3>2 DEF CallsAreFunctions
    <3> QED
      BY <1>15, <3>3 DEF MakeDirectory, callVars
  <2> QED
    BY <2>1, <2>2
<1>23. CASE CheckDirectory(c)
  <2>1. CASE NextDown(c)
    BY <1>22, <1>23, <2>1 DEF CheckDirectory, callVars
  <2>2. CASE Finish(c, "error") /\ UNCHANGED candidate
    BY <1>1, <1>23, <2>2 DEF CallsAreFunctions, CheckDirectory, callVars
  <2> QED
    BY <1>23, <2>1, <2>2 DEF CheckDirectory
<1>16. CASE DestinationExists(c)
  BY <1>1, <1>16 DEF CallsAreFunctions, DestinationExists, Unchanged, callVars
<1>17. CASE MoveFile(c)
  BY <1>1, <1>17 DEF CallsAreFunctions, MoveFile, Unchanged, callVars
<1>18. CASE Open(c)
  <2>1. pc[c] = "open" /\ UNCHANGED <<callVars, candidate, source, target, text>>
        /\ (Finish(c, "error") \/ Finish(c, "ok") \/ (Goto(c, "visit") /\ UNCHANGED reply))
    BY <1>18 DEF Open
  <2>2. \A b \in Calls \ {c} : walk'[b] = walk[b]
    BY <1>1, <1>18 DEF CallsAreFunctions, Open
  <2> QED
    BY <1>1, <2>1, <2>2 DEF CallsAreFunctions, callVars
<1>19. CASE CloseDirectory(c)
  BY <1>1, <1>19 DEF CallsAreFunctions, CloseDirectory, callVars
<1>20. CASE SearchVisit(c)
  <2>1. /\ pc[c] = "visit" /\ (Finish(c, "ok") \/ UNCHANGED <<pc, reply>>)
        /\ UNCHANGED <<callVars, candidate, source, target, text>>
    BY <1>20 DEF SearchVisit, Truncate
  <2>2. \A b \in Calls \ {c} : walk'[b] = walk[b]
    BY <1>1, <1>20 DEF CallsAreFunctions, SearchVisit, Truncate
  <2> QED
    BY <1>1, <2>1, <2>2 DEF CallsAreFunctions, callVars
<1>21. CASE TreeVisit(c)
  <2>1. /\ pc[c] = "visit"
        /\ Finish(c, "ok") \/ (UNCHANGED reply /\ (Goto(c, "open") \/ Goto(c, "visit")))
        /\ UNCHANGED <<callVars, candidate, source, target, text>>
    BY <1>21 DEF TreeVisit, Truncate
  <2>2. \A b \in Calls \ {c} : walk'[b] = walk[b]
    BY <1>1, <1>21 DEF CallsAreFunctions, TreeVisit, Truncate
  <2> QED
    BY <1>1, <2>1, <2>2 DEF CallsAreFunctions, callVars
<1> QED
  BY <1>3, <1>4, <1>5, <1>6, <1>7, <1>8, <1>9, <1>10, <1>11, <1>12, <1>13, <1>14, <1>15,
     <1>16, <1>17, <1>18, <1>19, <1>20, <1>21, <1>23 DEF Handle

\* The steps that make directories change little else.
LEMMA MakingIs ==
    ASSUME TypeOK, NEW c \in Calls, MakeDirectory(c) \/ CheckDirectory(c)
    PROVE  /\ pc[c] \in Making /\ pc'[c] \in {"done"} \cup Making
           /\ \E l \in {"done"} \cup Making : pc' = [pc EXCEPT ![c] = l]
           /\ UNCHANGED <<roots, request, stuck, source, target, text, walk>>
<1>1. pc = [b \in Calls |-> pc[b]]
  BY DEF TypeOK
<1>2. pc[c] \in Making /\ UNCHANGED <<roots, request, stuck, source, target, text, walk>>
  BY DEF MakeDirectory, CheckDirectory, Making, callVars
<1>3. \/ pc' = pc
      \/ \E l \in {"done", "isdir", "descend"} : pc' = [pc EXCEPT ![c] = l]
  BY DEF MakeDirectory, CheckDirectory, NextDown, Finish, Goto
<1>4. pc = [pc EXCEPT ![c] = pc[c]]
  BY <1>1
<1>5. PICK l \in {"done"} \cup Making : pc' = [pc EXCEPT ![c] = l]
  BY <1>2, <1>3, <1>4 DEF Making
<1>6. pc'[c] = l
  BY <1>1, <1>5
<1> QED
  BY <1>2, <1>5, <1>6

\* A call keeps to the labels of its tool.
LEMMA OnTrackStep ==
    ASSUME TypeOK, OnTrack, Dirs # <<>>, NEW c \in Calls, Handle(c)
    PROVE  OnTrack'
<1> DEFINE tool == request[c].tool
<1>1. /\ tool \in Tools /\ pc = [b \in Calls |-> pc[b]] /\ pc[c] # "done"
      /\ pc[c] \in {"resolve", "ancestor"} \cup Stages(tool)
      /\ \A b \in Calls \ {c} : pc'[b] = pc[b]
      /\ request' = request
  BY AskedType, StepIsLocal DEF TypeOK, OnTrack, Others, callVars
<1>2. pc'[c] \in {"resolve", "ancestor", "done"} \cup Stages(tool)
  <2>1. ASSUME NEW path, Looked(c, path)
        PROVE  pc'[c] \in {"resolve", "done"} \cup Stages(tool)
    <3>1. \/ pc' = [pc EXCEPT ![c] = "done"] \/ pc' = [pc EXCEPT ![c] = "resolve"]
          \/ pc' = [pc EXCEPT ![c] = AfterResolve(c)]
      BY <2>1 DEF Looked, Grant, Finish, Goto
    <3>2. AfterResolve(c) \in Stages(tool)
      BY <1>1 DEF AfterResolve, Stages, Writing, Making, Tools, Readers, Writers, Walkers
    <3> QED
      BY <1>1, <3>1, <3>2
  <2> HIDE DEF tool
  <2>2. CASE Refuse(c) \/ Fails(c)
    BY <1>1, <2>2 DEF Refuse, Fails, Finish, Goto
  <2>3. CASE LookUp(c)
    BY <1>1, <2>1, <2>3 DEF LookUp, Goto
  <2>4. CASE LookAbove(c)
    BY <1>1, <2>1, <2>4 DEF LookAbove
  <2>5. CASE Read(c)
    BY <1>1, <2>5 DEF Read, Finish, Goto
  <2>6. CASE ReadToEdit(c)
    <3>1. pc'[c] \in {"done", "create"} /\ tool = "edit_file"
      BY <1>1, <2>6 DEF ReadToEdit, Finish, Goto, tool
    <3> QED
      BY <3>1 DEF Stages, Writing, Making, Readers, Walkers
  <2>7. CASE CreateTemp(c) \/ Fill(c) \/ FillFails(c) \/ Rename(c) \/ SyncParent(c) \/ RemoveTemp(c)
    <3>1. pc[c] \in Writing /\ pc'[c] \in {"done"} \cup Writing
      BY <1>1, <2>7 DEF CreateTemp, Fill, FillFails, Rename, SyncParent, RemoveTemp, Finish, Goto, Writing
    <3> QED
      BY <1>1, <3>1 DEF Stages, Writing, Making, Tools, Readers, Writers, Walkers
  <2>8. CASE MoveFile(c)
    BY <1>1, <2>8 DEF MoveFile, Finish, Goto
  <2>11. CASE MakeDirectory(c) \/ CheckDirectory(c)
    <3>1. pc[c] \in Making /\ pc'[c] \in {"done"} \cup Making
      BY <2>11, MakingIs
    <3> QED
      BY <1>1, <3>1 DEF Stages, Writing, Making, Tools, Readers, Writers, Walkers
  <2>9. CASE DestinationExists(c)
    <3>1. pc[c] = "exists" /\ pc'[c] \in {"done", "move"}
      BY <1>1, <2>9 DEF DestinationExists, Finish, Goto
    <3> QED
      BY <1>1, <3>1 DEF Stages, Writing, Making, Tools, Readers, Writers, Walkers
  <2>10. CASE Open(c) \/ CloseDirectory(c) \/ SearchVisit(c) \/ TreeVisit(c)
    <3>1. pc[c] \in {"open", "visit"} /\ pc'[c] \in {"done", "open", "visit"}
      BY <1>1, <2>10 DEF Open, CloseDirectory, SearchVisit, TreeVisit, Truncate, Finish, Goto
    <3> QED
      BY <1>1, <3>1 DEF Stages, Writing, Making, Tools, Readers, Writers, Walkers
  <2> QED
    BY <2>2, <2>3, <2>4, <2>5, <2>6, <2>7, <2>8, <2>9, <2>10, <2>11 DEF Handle
<1> HIDE DEF tool
<1>3. ASSUME NEW b \in Calls
      PROVE  pc'[b] \in {"resolve", "ancestor", "done"} \cup Stages(request'[b].tool)
  <2>1. CASE b = c
    BY <1>1, <1>2, <2>1 DEF tool
  <2>2. CASE b # c
    BY <1>1, <2>2 DEF OnTrack
  <2> QED
    BY <2>1, <2>2
<1> QED
  BY <1>3 DEF OnTrack

\* What is looked up or made stays on the way.
LEMMA SoughtStep ==
    ASSUME TypeOK, Sought, Dirs # <<>>, NEW c \in Calls, Handle(c)
    PROVE  Sought'
<1>1. /\ Others(c) /\ UNCHANGED <<roots, request>> /\ pc[c] # "done"
      /\ pc = [b \in Calls |-> pc[b]] /\ candidate = [b \in Calls |-> candidate[b]]
      /\ source = [b \in Calls |-> source[b]] /\ target = [b \in Calls |-> target[b]]
      /\ candidate[c] \in Seq(Names) /\ Looking(c) \in Seq(Names) /\ target[c] \in Seq(Names)
  BY StepIsLocal, AskedType DEF TypeOK
<1>2. \A b \in Calls : source'[b] = source[b] => Looking(b)' = Looking(b)
  BY <1>1 DEF Looking, TwoPaths, Asked, AskedTarget
<1> DEFINE Fits(q, label, t, looking) ==
        /\ label \in {"resolve", "ancestor"} => t = NoPath
        /\ label = "resolve" => q = looking
        /\ label = "ancestor" => Above(q, looking)
        /\ label \in Making => Above(q, t)
<1>3. \A p \in Seq(Names) : Above(p, p)
  BY PrefixWhole DEF Above
<1>4. \A p \in Seq(Names) : \A q : Above(q, p) => Above(Parent(q), p) \/ q = <<>>
  <2> SUFFICES ASSUME NEW p \in Seq(Names), NEW n \in 0..Len(p), Prefix(p, n) # <<>>
               PROVE  Above(Parent(Prefix(p, n)), p)
    BY DEF Above
  <2>1. Len(Prefix(p, n)) = n /\ n # 0 /\ n - 1 \in 0..n /\ n - 1 \in 0..Len(p)
    BY PrefixOf
  <2>2. Parent(Prefix(p, n)) = Prefix(p, n - 1)
    BY <2>1, PrefixOfPrefix DEF Parent
  <2> QED
    BY <2>1, <2>2 DEF Above
<1>5. Fits(candidate'[c], pc'[c], target'[c], Looking(c)')
  <2>1. ASSUME pc'[c] \notin {"resolve", "ancestor"} \cup Making
        PROVE  Fits(candidate'[c], pc'[c], target'[c], Looking(c)')
    BY <2>1
  <2>2. ASSUME NEW path \in Seq(Names), Looked(c, path), pc[c] \in {"resolve", "ancestor"},
               path # NoPath \/ ~(TwoPaths(c) /\ source[c] = NoPath) \/ Finish(c, "error")
        PROVE  Fits(candidate'[c], pc'[c], target'[c], Looking(c)')
    <3>1. CASE Finish(c, "error")
      <4>1. pc'[c] = "done"
        BY <1>1, <3>1 DEF Finish, Goto
      <4> QED
        BY <2>1, <4>1 DEF Making
    <3>2. CASE Grant(c, path) /\ TwoPaths(c) /\ source[c] = NoPath
      <4>1. /\ source' = [source EXCEPT ![c] = path]
            /\ candidate' = [candidate EXCEPT ![c] = AskedTarget(c)]
            /\ Goto(c, "resolve") /\ UNCHANGED target
        BY <3>2 DEF Grant
      <4>2. pc'[c] = "resolve" /\ candidate'[c] = AskedTarget(c) /\ target'[c] = NoPath
        BY <1>1, <2>2, <4>1 DEF Goto, Sought
      <4>3. source'[c] = path
        BY <1>1, <4>1
      <4>4. path # NoPath => Looking(c)' = AskedTarget(c)
        BY <1>1, <3>2, <4>3 DEF Looking, TwoPaths, AskedTarget
      <4>5. path # NoPath
        <5>1. ~Finish(c, "error")
          BY <1>1, <4>2 DEF Finish, Goto
        <5> QED
          BY <2>2, <3>2, <5>1
      <4> QED
        BY <4>2, <4>4, <4>5 DEF Making
    <3>3. CASE Grant(c, path) /\ ~(TwoPaths(c) /\ source[c] = NoPath)
      <4>1. /\ target' = [target EXCEPT ![c] = path]
            /\ candidate' = [candidate EXCEPT ![c] = path]
            /\ Goto(c, AfterResolve(c))
        BY <3>3 DEF Grant
      <4>2. pc'[c] = AfterResolve(c) /\ candidate'[c] = path /\ target'[c] = path
        BY <1>1, <4>1 DEF Goto
      <4>3. AfterResolve(c) \notin {"resolve", "ancestor"}
        BY AskedType DEF AfterResolve, Tools, Readers, Writers, Walkers
      <4> QED
        BY <1>3, <4>2, <4>3
    <3> QED
      BY <2>2, <3>1, <3>2, <3>3 DEF Looked
  <2>3. CASE LookUp(c)
    <3>1. CASE LookAgain(tree, candidate[c])
      <4>1. pc[c] = "resolve" /\ pc'[c] = "ancestor" /\ UNCHANGED <<candidate, source, target>>
        BY <1>1, <2>3, <3>1 DEF LookUp, Goto
      <4> QED
        BY <1>1, <1>2, <1>3, <4>1 DEF Sought, Making
    <3>2. CASE ~LookAgain(tree, candidate[c])
      <4>1. Looked(c, RealPath(tree, candidate[c])) /\ pc[c] = "resolve"
        BY <2>3, <3>2 DEF LookUp
      <4>2. RealPath(tree, candidate[c]) \in Seq(Names)
        BY <1>1, TreeIsTyped, ConstantsAre, ChasedSteps DEF RealPath
      <4>3. RealPath(tree, candidate[c]) = NoPath => Finish(c, "error")
        <5>1. ASSUME Allows(tree, candidate[c], roots) PROVE RealPath(tree, candidate[c]) \in Paths
          BY <5>1 DEF Allows, RealStatus, RealPath, Exists, Node, None
        <5> QED
          BY <4>1, <5>1, ConstantsAre DEF Looked
      <4> QED
        BY <2>2, <4>1, <4>2, <4>3
    <3> QED
      BY <3>1, <3>2
  <2>4. CASE LookAbove(c)
    <3>1. CASE LookAgain(tree, candidate[c])
      <4>1. /\ pc[c] = "ancestor" /\ UNCHANGED <<pc, source, target>> /\ candidate[c] # <<>>
            /\ candidate'[c] = Parent(candidate[c])
        BY <1>1, <2>4, <3>1 DEF LookAbove, LookAgain
      <4> QED
        BY <1>1, <1>2, <1>4, <4>1 DEF Sought, Making
    <3>2. CASE ~LookAgain(tree, candidate[c])
      <4>1. Looked(c, Looking(c)) /\ pc[c] = "ancestor"
        BY <2>4, <3>2 DEF LookAbove
      <4>2. TwoPaths(c) /\ source[c] = NoPath => Looking(c) # NoPath
        BY AskedType DEF Looking
      <4> QED
        BY <1>1, <2>2, <4>1, <4>2
    <3> QED
      BY <3>1, <3>2
  <2>5. ASSUME NextDown(c), pc[c] \in Making, UNCHANGED target
        PROVE  Fits(candidate'[c], pc'[c], target'[c], Looking(c)')
    <3>1. Above(candidate'[c], target[c]) /\ pc'[c] \in {"done", "descend"}
      BY <1>1, <2>5, DownTypes DEF Finish, Goto
    <3> QED
      BY <2>5, <3>1 DEF Making
  <2>6. CASE MakeDirectory(c)
    <3>1. pc[c] \in Making /\ UNCHANGED target
      BY <2>6 DEF MakeDirectory, Making
    <3>2. CASE CanMkdir(tree, candidate[c])
      BY <2>5, <2>6, <3>1, <3>2 DEF MakeDirectory
    <3>3. CASE ~CanMkdir(tree, candidate[c])
      <4>1. \/ /\ candidate' = [candidate EXCEPT ![c] = Parent(candidate[c])] /\ pc' = pc
               /\ RealStatus(tree, Parent(candidate[c])) = "missing"
            \/ pc'[c] = "isdir" /\ candidate' = candidate
        BY <1>1, <2>6, <3>3 DEF MakeDirectory, Goto
      <4>2. Above(candidate[c], target[c])
        BY <3>1 DEF Sought
      <4>3. CASE pc'[c] = "isdir" /\ candidate' = candidate
        BY <3>1, <4>2, <4>3 DEF Making
      <4>4. CASE candidate'[c] = Parent(candidate[c]) /\ pc' = pc
        <5>1. Above(Parent(candidate[c]), target[c])
          <6>1. candidate[c] = <<>> => Parent(candidate[c]) = candidate[c]
            BY DEF Parent, Prefix
          <6> QED
            BY <1>1, <1>4, <4>2, <6>1
        <5> QED
          BY <3>1, <4>4, <5>1 DEF Making
      <4> QED
        BY <1>1, <4>1, <4>3, <4>4
    <3> QED
      BY <3>2, <3>3
  <2>7. CASE CheckDirectory(c)
    <3>1. pc[c] \in Making /\ UNCHANGED target
      BY <2>7 DEF CheckDirectory, Making
    <3>2. CASE NextDown(c)
      BY <2>5, <3>1, <3>2
    <3>3. CASE Finish(c, "error")
      BY <1>1, <2>1, <3>3 DEF Finish, Goto, Making
    <3> QED
      BY <2>7, <3>2, <3>3 DEF CheckDirectory
  <2>8. CASE Refuse(c) \/ Fails(c) \/ Read(c) \/ ReadToEdit(c)
    BY <1>1, <2>1, <2>8 DEF Refuse, Fails, Read, ReadToEdit, Finish, Goto, Making
  <2>9. CASE CreateTemp(c) \/ Fill(c) \/ FillFails(c) \/ Rename(c) \/ SyncParent(c) \/ RemoveTemp(c)
    BY <1>1, <2>1, <2>9
    DEF CreateTemp, Fill, FillFails, Rename, SyncParent, RemoveTemp, Finish, Goto, Making
  <2>10. CASE DestinationExists(c) \/ MoveFile(c)
    BY <1>1, <2>1, <2>10 DEF DestinationExists, MoveFile, Finish, Goto, Making
  <2>11. CASE Open(c) \/ CloseDirectory(c) \/ SearchVisit(c) \/ TreeVisit(c)
    BY <1>1, <2>1, <2>11
    DEF Open, CloseDirectory, SearchVisit, TreeVisit, Truncate, Finish, Goto, Making
  <2> QED
    BY <2>3, <2>4, <2>6, <2>7, <2>8, <2>9, <2>10, <2>11 DEF Handle
<1>6. ASSUME NEW b \in Calls
      PROVE  Fits(candidate'[b], pc'[b], target'[b], Looking(b)')
  <2>1. CASE b = c
    BY <1>5, <2>1
  <2>2. CASE b # c
    BY <1>1, <1>2, <2>2 DEF Others, Sought
  <2> QED
    BY <2>1, <2>2
<1> QED
  BY <1>1, <1>6 DEF Sought

Listed(t, d, p) == \E n \in DOMAIN Listing(t, d) : Listing(t, d)[n] = p

\* A listing shows the children of its directory.
LEMMA ListingHas ==
    ASSUME NEW N, NEW t \in [Paths -> Nodes(N)], Paths \subseteq Seq(Int), IsFiniteSet(Paths), NEW d,
           NEW p \in Children(t, d)
    PROVE  Listed(t, d, p)
BY ListingHolds DEF Listed

-----------------------------------------------------------------------------
(* What the steps of a walk do *)

\* All but the last.
LEMMA FrontOf ==
    ASSUME NEW S, NEW s \in Seq(S), s # <<>>
    PROVE  /\ Front(s) \in Seq(S)
           /\ Len(s) \in Nat \ {0} /\ Len(Front(s)) = Len(s) - 1
           /\ \A n \in 1..Len(s) - 1 : Front(s)[n] = s[n]
           /\ Last(s) \in S /\ Last(s) = s[Len(s)]
<1>1. Len(s) \in Nat \ {0}
  OBVIOUS
<1>2. Front(s) = SubSeq(s, 1, Len(s) - 1) /\ Last(s) = s[Len(s)]
  BY DEF Front, Last
<1>3. Last(s) \in S
  BY <1>1, <1>2
<1>4. PICK m \in Nat : m = Len(s) - 1
  BY <1>1
<1>5. SubSeq(s, 1, m) \in Seq(S) /\ Len(SubSeq(s, 1, m)) = m
      /\ \A n \in 1..m : SubSeq(s, 1, m)[n] = s[n]
  BY <1>1, <1>4
<1> QED
  BY <1>1, <1>2, <1>3, <1>4, <1>5

\* The entries of a directory are typed.
LEMMA EntriesAre ==
    ASSUME TypeOK, NEW d \in Seq(Int), RealPath(tree, d) \in Seq(Int)
    PROVE  /\ Entries(d) \in Seq(Entry)
           /\ \A p \in Children(tree, RealPath(tree, d)) : \E n \in DOMAIN Entries(d) :
                 Entries(d)[n] = [path |-> Append(d, Last(p)), dir |-> IsDir(tree, p)]
<1> DEFINE real == RealPath(tree, d)
           list == Listing(tree, real)
           made(p) == [path |-> Append(d, Last(p)), dir |-> IsDir(tree, p)]
<1>1. /\ list \in Seq(Children(tree, real))
      /\ \A p \in Children(tree, real) : \E n \in DOMAIN list : list[n] = p
  <2>1. tree \in [Paths -> Nodes(Names)] /\ Paths \subseteq Seq(Int) /\ IsFiniteSet(Paths)
    BY TreeIsTyped, ConstantsAre
  <2>2. PICK t, r : t = tree /\ r = real
    OBVIOUS
  <2>3. t \in [Paths -> Nodes(Names)] /\ Paths \subseteq Seq(Int) /\ IsFiniteSet(Paths)
    BY <2>1, <2>2
  <2>4. Listing(t, r) \in Seq(Children(t, r))
    BY <2>3, ListingHolds
  <2>5. ASSUME NEW p \in Children(t, r) PROVE Listed(t, r, p)
    BY <2>3, ListingHas
  <2> QED
    BY <2>2, <2>4, <2>5 DEF Listed
<1>2. Entries(d) = [n \in DOMAIN list |-> made(list[n])]
  BY DEF Entries
<1>3. \A p \in Children(tree, real) : made(p) \in Entry
  <2>1. ASSUME NEW p \in Children(tree, real) PROVE p \in Seq(Int) /\ p # <<>>
    BY <2>1, ConstantsAre DEF Children
  <2>2. ASSUME NEW p \in Children(tree, real) PROVE Append(d, Last(p)) \in Seq(Int)
    BY <2>1, ParentOf
  <2>3. \A p : IsDir(tree, p) \in BOOLEAN
    BY DEF IsDir
  <2> QED
    BY <2>2, <2>3 DEF Entry
<1> HIDE DEF made, list, real
<1>4. Len(list) \in Nat /\ DOMAIN list = 1..Len(list) /\ \A n \in DOMAIN list : list[n] \in Children(tree, real)
  BY <1>1
<1>5. Entries(d) \in Seq(Entry)
  <2>1. \A n \in 1..Len(list) : made(list[n]) \in Entry
    BY <1>3, <1>4
  <2> QED
    BY <1>2, <1>4, <2>1
<1>6. ASSUME NEW p \in Children(tree, real)
      PROVE  \E n \in DOMAIN Entries(d) : Entries(d)[n] = made(p)
  BY <1>1, <1>2
<1> QED
  BY <1>5, <1>6 DEF made, real

\* The step of a walk, written out field by field.
Steps(c, frames, waiting, found, visited, cut) ==
    walk' = [walk EXCEPT ![c] = [frames |-> frames, waiting |-> waiting, found |-> found,
                                 visited |-> visited, cut |-> cut]]
WalkTyped ==
    /\ walk \in [Calls -> Walks]
    /\ \A c \in Calls :
        /\ IsFiniteSet(walk[c].found)
        /\ Cardinality(walk[c].found) <=
              (IF request[c].tool = "search_files" THEN MaxResults ELSE TreeBudget)

\* A walk, by its fields.
LEMMA WalkOf ==
    ASSUME TypeOK, NEW c \in Calls
    PROVE  /\ walk[c] \in Walks
           /\ walk[c].frames \in Seq(Seq(Entry)) /\ walk[c].waiting \in Seq(Seq(Int))
           /\ walk[c].found \in SUBSET Seq(Int) /\ walk[c].visited \in 0..MaxEntries
           /\ walk[c].cut \in BOOLEAN /\ IsFiniteSet(walk[c].found) /\ Cardinality(walk[c].found) \in Nat
           /\ WalkTyped
<1>1. walk[c] \in Walks /\ IsFiniteSet(walk[c].found) /\ WalkTyped
  BY DEF TypeOK, WalkTyped
<1>2. Cardinality(walk[c].found) \in Nat
  BY <1>1, FS_CardinalityType
<1> QED
  BY <1>1, <1>2 DEF Walks

\* What a step of a walk is made of is typed.
LEMMA StepsAre ==
    ASSUME TypeOK, NEW c \in Calls, UNCHANGED <<roots, request>>,
           NEW frames \in Seq(Seq(Entry)), NEW waiting \in Seq(Seq(Int)),
           NEW found \in SUBSET Seq(Int), NEW visited \in 0..MaxEntries, NEW cut \in BOOLEAN,
           Steps(c, frames, waiting, found, visited, cut),
           IsFiniteSet(found),
           Cardinality(found) <= (IF request[c].tool = "search_files" THEN MaxResults ELSE TreeBudget)
    PROVE  /\ walk'[c].frames = frames /\ walk'[c].waiting = waiting
           /\ walk'[c].found = found /\ walk'[c].visited = visited /\ walk'[c].cut = cut
           /\ WalkTyped'
<1>1. walk[c] \in Walks /\ WalkTyped /\ walk \in [Calls -> Walks]
  BY WalkOf DEF WalkTyped
<1>2. PICK w : w = [frames |-> frames, waiting |-> waiting, found |-> found,
                    visited |-> visited, cut |-> cut]
  OBVIOUS
<1>3. w \in Walks /\ walk' = [walk EXCEPT ![c] = w] /\ w.found = found
  BY <1>2 DEF Steps, Walks
<1>4. walk' \in [Calls -> Walks] /\ walk'[c] = w /\ \A b \in Calls \ {c} : walk'[b] = walk[b]
  BY <1>1, <1>3
<1>5. ASSUME NEW b \in Calls
      PROVE  /\ IsFiniteSet(walk'[b].found)
             /\ Cardinality(walk'[b].found) <=
                   (IF request'[b].tool = "search_files" THEN MaxResults ELSE TreeBudget)
  <2>1. CASE b = c
    BY <1>3, <1>4, <2>1 DEF callVars
  <2>2. CASE b # c
    BY <1>1, <1>4, <2>2 DEF WalkTyped, callVars
  <2> QED
    BY <2>1, <2>2
<1>6. WalkTyped'
  BY <1>4, <1>5 DEF WalkTyped
<1> QED
  BY <1>2, <1>4, <1>6

Fields(r, f, w, s, n, x) == r = [frames |-> f, waiting |-> w, found |-> s, visited |-> n, cut |-> x]

\* An update of one field of one walk ...
LEMMA FieldChange ==
    ASSUME NEW r, NEW f, NEW w, NEW s, NEW n, NEW x, Fields(r, f, w, s, n, x), NEW v
    PROVE  /\ Fields([r EXCEPT !.frames = v], v, w, s, n, x)
           /\ Fields([r EXCEPT !.waiting = v], f, v, s, n, x)
           /\ Fields([r EXCEPT !.found = v], f, w, v, n, x)
           /\ Fields([r EXCEPT !.visited = v], f, w, s, v, x)
           /\ Fields([r EXCEPT !.cut = v], f, w, s, n, v)
BY DEF Fields

\* ... and of several ...
LEMMA FieldsAre ==
    ASSUME NEW r \in Walks
    PROVE  Fields(r, r.frames, r.waiting, r.found, r.visited, r.cut)
BY DEF Walks, Fields

\* ... leaves the walk that the updates describe.
LEMMA WalkRecord ==
    ASSUME NEW r \in Walks, NEW f, NEW w, NEW s, NEW n, NEW x
    PROVE  /\ Fields([[r EXCEPT !.waiting = w] EXCEPT !.frames = f], f, w, r.found, r.visited, r.cut)
           /\ Fields([r EXCEPT !.waiting = w], r.frames, w, r.found, r.visited, r.cut)
           /\ Fields([r EXCEPT !.frames = f], f, r.waiting, r.found, r.visited, r.cut)
           /\ Fields([r EXCEPT !.cut = x], r.frames, r.waiting, r.found, r.visited, x)
           /\ Fields([[[r EXCEPT !.frames = f] EXCEPT !.found = s] EXCEPT !.waiting = w],
                     f, w, s, r.visited, r.cut)
           /\ Fields([[[[r EXCEPT !.visited = n] EXCEPT !.frames = f] EXCEPT !.found = s] EXCEPT !.waiting = w],
                     f, w, s, n, r.cut)
BY FieldsAre, FieldChange, Zenon

\* The walk after each of its steps: a directory was opened, ...
LEMMA OpenStep ==
    ASSUME TypeOK, NEW c \in Calls, Open(c), walk[c].waiting # <<>>, LeadsToDir(tree, Last(walk[c].waiting))
    PROVE  /\ Steps(c, Append(walk[c].frames, Entries(Last(walk[c].waiting))),
                    Front(walk[c].waiting), walk[c].found, walk[c].visited, walk[c].cut)
           /\ pc' = [pc EXCEPT ![c] = "visit"] /\ reply' = reply
<1>1. PICK waiting, frames, w : /\ waiting = Front(walk[c].waiting)
                                /\ frames = Append(walk[c].frames, Entries(Last(walk[c].waiting)))
                                /\ w = walk
  OBVIOUS
<1>2. walk' = [w EXCEPT ![c].waiting = waiting, ![c].frames = frames]
      /\ pc' = [pc EXCEPT ![c] = "visit"] /\ reply' = reply
  BY <1>1 DEF Open, Goto
<1>3. w[c] \in Walks /\ w \in [Calls -> Walks]
  BY <1>1, WalkOf DEF WalkTyped
<1>4. [w EXCEPT ![c].waiting = waiting, ![c].frames = frames] =
        [w EXCEPT ![c] = [[w[c] EXCEPT !.waiting = waiting] EXCEPT !.frames = frames]]
  BY <1>3
<1>5. PICK r \in Walks : r = w[c]
  BY <1>3
<1>6. Fields([[r EXCEPT !.waiting = waiting] EXCEPT !.frames = frames],
             frames, waiting, r.found, r.visited, r.cut)
  BY WalkRecord, Zenon
<1>7. [[r EXCEPT !.waiting = waiting] EXCEPT !.frames = frames] =
        [frames |-> frames, waiting |-> waiting, found |-> r.found, visited |-> r.visited, cut |-> r.cut]
  BY <1>6 DEF Fields
<1> QED
  BY <1>1, <1>2, <1>4, <1>5, <1>7 DEF Steps

\* ... read to its end, ...
LEMMA CloseStep ==
    ASSUME TypeOK, NEW c \in Calls, CloseDirectory(c)
    PROVE  Steps(c, Front(walk[c].frames), walk[c].waiting, walk[c].found, walk[c].visited, walk[c].cut)
<1>1. PICK frames, w : frames = Front(walk[c].frames) /\ w = walk
  OBVIOUS
<1>2. walk' = [w EXCEPT ![c].frames = frames]
  BY <1>1 DEF CloseDirectory
<1>3. w[c] \in Walks /\ w \in [Calls -> Walks]
  BY <1>1, WalkOf DEF WalkTyped
<1>4. [w EXCEPT ![c].frames = frames] = [w EXCEPT ![c] = [w[c] EXCEPT !.frames = frames]]
  BY <1>3
<1>5. [w[c] EXCEPT !.frames = frames] =
        [frames |-> frames, waiting |-> w[c].waiting, found |-> w[c].found,
         visited |-> w[c].visited, cut |-> w[c].cut]
  BY <1>3, WalkRecord DEF Fields
<1> QED
  BY <1>1, <1>2, <1>4, <1>5 DEF Steps

\* ... the walk was cut short, ...
LEMMA TruncateStep ==
    ASSUME TypeOK, NEW c \in Calls, Truncate(c)
    PROVE  Steps(c, walk[c].frames, walk[c].waiting, walk[c].found, walk[c].visited, TRUE)
<1>1. PICK w : w = walk
  OBVIOUS
<1>2. walk' = [w EXCEPT ![c].cut = TRUE]
  BY <1>1 DEF Truncate
<1>3. w[c] \in Walks /\ w \in [Calls -> Walks]
  BY <1>1, WalkOf DEF WalkTyped
<1>4. [w EXCEPT ![c].cut = TRUE] = [w EXCEPT ![c] = [w[c] EXCEPT !.cut = TRUE]]
  BY <1>3
<1>5. [w[c] EXCEPT !.cut = TRUE] =
        [frames |-> w[c].frames, waiting |-> w[c].waiting, found |-> w[c].found,
         visited |-> w[c].visited, cut |-> TRUE]
  BY <1>3, WalkRecord DEF Fields
<1> QED
  BY <1>1, <1>2, <1>4, <1>5 DEF Steps

Hit(c) == ~Skipped(c) /\ Matches(c, NextEntry(c).path)

\* ... an entry of a search was visited, ...
LEMMA SearchStep ==
    ASSUME TypeOK, NEW c \in Calls, SearchVisit(c), ~LimitReached(c, Hit(c))
    PROVE  /\ Steps(c, EntryTaken(c), Push(c),
                    IF Hit(c) THEN walk[c].found \cup {NextEntry(c).path} ELSE walk[c].found,
                    walk[c].visited + 1, walk[c].cut)
           /\ pc' = pc /\ reply' = reply
<1>1. PICK w, frames, waiting, found, visited :
         /\ w = walk /\ frames = EntryTaken(c) /\ waiting = Push(c) /\ visited = walk[c].visited + 1
         /\ found = IF Hit(c) THEN walk[c].found \cup {NextEntry(c).path} ELSE walk[c].found
  OBVIOUS
<1>2. walk' = [w EXCEPT ![c].visited = visited, ![c].frames = frames, ![c].found = found, ![c].waiting = waiting]
      /\ pc' = pc /\ reply' = reply
  BY <1>1 DEF SearchVisit, Hit
<1>3. w[c] \in Walks /\ w \in [Calls -> Walks]
  BY <1>1, WalkOf DEF WalkTyped
<1>4. [w EXCEPT ![c].visited = visited, ![c].frames = frames, ![c].found = found, ![c].waiting = waiting] =
        [w EXCEPT ![c] = [[[[w[c] EXCEPT !.visited = visited] EXCEPT !.frames = frames]
                              EXCEPT !.found = found] EXCEPT !.waiting = waiting]]
  BY <1>3
<1>5. PICK r \in Walks : r = w[c]
  BY <1>3
<1>6. Fields([[[[r EXCEPT !.visited = visited] EXCEPT !.frames = frames] EXCEPT !.found = found]
                EXCEPT !.waiting = waiting],
             frames, waiting, found, visited, r.cut)
  BY WalkRecord, Zenon
<1>7. [[[[r EXCEPT !.visited = visited] EXCEPT !.frames = frames] EXCEPT !.found = found]
                EXCEPT !.waiting = waiting] =
        [frames |-> frames, waiting |-> waiting, found |-> found, visited |-> visited, cut |-> r.cut]
  BY <1>6 DEF Fields
<1> QED
  BY <1>1, <1>2, <1>4, <1>5, <1>7 DEF Steps

\* ... or one of a tree.
LEMMA TreeStep ==
    ASSUME TypeOK, NEW c \in Calls, TreeVisit(c), Cardinality(walk[c].found) # TreeBudget
    PROVE  /\ Steps(c, EntryTaken(c), Push(c),
                    IF Skipped(c) THEN walk[c].found ELSE walk[c].found \cup {NextEntry(c).path},
                    walk[c].visited, walk[c].cut)
           /\ Goto(c, IF NextEntry(c).dir /\ ~Skipped(c) THEN "open" ELSE "visit") /\ reply' = reply
<1>1. PICK w, frames, waiting, found :
         /\ w = walk /\ frames = EntryTaken(c) /\ waiting = Push(c)
         /\ found = IF Skipped(c) THEN walk[c].found ELSE walk[c].found \cup {NextEntry(c).path}
  OBVIOUS
<1>2. walk' = [w EXCEPT ![c].frames = frames, ![c].found = found, ![c].waiting = waiting]
      /\ Goto(c, IF NextEntry(c).dir /\ ~Skipped(c) THEN "open" ELSE "visit") /\ reply' = reply
  BY <1>1 DEF TreeVisit
<1>3. w[c] \in Walks /\ w \in [Calls -> Walks]
  BY <1>1, WalkOf DEF WalkTyped
<1>4. [w EXCEPT ![c].frames = frames, ![c].found = found, ![c].waiting = waiting] =
        [w EXCEPT ![c] = [[[w[c] EXCEPT !.frames = frames] EXCEPT !.found = found] EXCEPT !.waiting = waiting]]
  BY <1>3
<1>5. PICK r \in Walks : r = w[c]
  BY <1>3
<1>6. Fields([[[r EXCEPT !.frames = frames] EXCEPT !.found = found] EXCEPT !.waiting = waiting],
             frames, waiting, found, r.visited, r.cut)
  BY WalkRecord, Zenon
<1>7. [[[r EXCEPT !.frames = frames] EXCEPT !.found = found] EXCEPT !.waiting = waiting] =
        [frames |-> frames, waiting |-> waiting, found |-> found, visited |-> r.visited, cut |-> r.cut]
  BY <1>6 DEF Fields
<1> QED
  BY <1>1, <1>2, <1>4, <1>5, <1>7 DEF Steps

\* The fields of a walk after its step.
Walk(c, frames, waiting, found, cut) ==
    /\ walk'[c].frames = frames /\ walk'[c].waiting = waiting
    /\ walk'[c].found = found /\ walk'[c].cut = cut

\* A walk that found nothing new keeps to its limit ...
LEMMA SameFound ==
    ASSUME TypeOK, NEW c \in Calls, UNCHANGED <<roots, request>>,
           NEW frames \in Seq(Seq(Entry)), NEW waiting \in Seq(Seq(Int)), NEW cut \in BOOLEAN,
           Steps(c, frames, waiting, walk[c].found, walk[c].visited, cut)
    PROVE  Walk(c, frames, waiting, walk[c].found, cut) /\ WalkTyped'
<1>1. /\ walk[c].found \in SUBSET Seq(Int) /\ walk[c].visited \in 0..MaxEntries
      /\ IsFiniteSet(walk[c].found)
      /\ Cardinality(walk[c].found) <=
            (IF request[c].tool = "search_files" THEN MaxResults ELSE TreeBudget)
  BY WalkOf DEF WalkTyped
<1>2. PICK found, visited : found = walk[c].found /\ visited = walk[c].visited
  OBVIOUS
<1> QED
  BY <1>1, <1>2, StepsAre DEF Walk

\* ... and so does one that found an entry below it.
LEMMA OneFound ==
    ASSUME TypeOK, NEW c \in Calls, UNCHANGED <<roots, request>>,
           NEW frames \in Seq(Seq(Entry)), NEW waiting \in Seq(Seq(Int)),
           NEW visited \in 0..MaxEntries, NEW p \in Seq(Int),
           Cardinality(walk[c].found) # (IF request[c].tool = "search_files" THEN MaxResults ELSE TreeBudget),
           Steps(c, frames, waiting, walk[c].found \cup {p}, visited, walk[c].cut)
    PROVE  Walk(c, frames, waiting, walk[c].found \cup {p}, walk[c].cut) /\ WalkTyped'
<1>1. /\ walk[c].found \in SUBSET Seq(Int) /\ walk[c].cut \in BOOLEAN
      /\ IsFiniteSet(walk[c].found) /\ Cardinality(walk[c].found) \in Nat
      /\ Cardinality(walk[c].found) <=
            (IF request[c].tool = "search_files" THEN MaxResults ELSE TreeBudget)
  BY WalkOf DEF WalkTyped
<1>2. MaxResults \in Nat /\ TreeBudget \in Nat
  BY FileAssumption
<1>3. PICK old, found, cut, limit :
         /\ old = walk[c].found /\ found = old \cup {p} /\ cut = walk[c].cut
         /\ limit = IF request[c].tool = "search_files" THEN MaxResults ELSE TreeBudget
  OBVIOUS
<1>4. limit \in Nat /\ Cardinality(old) < limit /\ found \in SUBSET Seq(Int) /\ cut \in BOOLEAN
  BY <1>1, <1>2, <1>3
<1>5. IsFiniteSet(found) /\ Cardinality(found) <= limit
  <2>1. IsFiniteSet(old) /\ Cardinality(old) \in Nat /\ Cardinality(old) < limit
    BY <1>1, <1>3, <1>4
  <2>2. IsFiniteSet(old \cup {p})
        /\ Cardinality(old \cup {p}) = IF p \in old THEN Cardinality(old) ELSE Cardinality(old) + 1
    BY <2>1, FS_AddElement
  <2> QED
    BY <1>3, <1>4, <2>1, <2>2
<1>6. Steps(c, frames, waiting, found, visited, cut)
  BY <1>3
<1>7. Cardinality(found) <= (IF request[c].tool = "search_files" THEN MaxResults ELSE TreeBudget)
  BY <1>3, <1>5
<1>8. Walk(c, frames, waiting, found, cut) /\ WalkTyped'
  BY <1>4, <1>5, <1>6, <1>7, StepsAre DEF Walk
<1> QED
  BY <1>3, <1>8

\* A granted path is where a walk starts.
LEMMA GrantWalk ==
    ASSUME TypeOK, NEW c \in Calls, UNCHANGED <<roots, request>>, NEW path \in Seq(Names),
           Grant(c, path), ~(TwoPaths(c) /\ source[c] = NoPath)
    PROVE  /\ Walk(c, walk[c].frames, IF request[c].tool \in Walkers THEN <<path>> ELSE <<>>,
                   walk[c].found, walk[c].cut)
           /\ WalkTyped'
<1>1. PICK w, waiting : w = walk /\ waiting = IF request[c].tool \in Walkers THEN <<path>> ELSE <<>>
  OBVIOUS
<1>2. walk' = [w EXCEPT ![c].waiting = waiting]
  BY <1>1 DEF Grant
<1>3. w[c] \in Walks /\ w \in [Calls -> Walks]
  BY <1>1, WalkOf DEF WalkTyped
<1>4. [w EXCEPT ![c].waiting = waiting] = [w EXCEPT ![c] = [w[c] EXCEPT !.waiting = waiting]]
  BY <1>3
<1>5. [w[c] EXCEPT !.waiting = waiting] =
        [frames |-> w[c].frames, waiting |-> waiting, found |-> w[c].found,
         visited |-> w[c].visited, cut |-> w[c].cut]
  BY <1>3, WalkRecord DEF Fields
<1>6. Steps(c, walk[c].frames, waiting, walk[c].found, walk[c].visited, walk[c].cut)
  BY <1>1, <1>2, <1>4, <1>5 DEF Steps
<1>7. waiting \in Seq(Seq(Int))
  <2>1. path \in Seq(Int)
    BY SeqMonotonic, ConstantsAre
  <2> QED
    BY <1>1, <2>1
<1>8. walk[c].frames \in Seq(Seq(Entry)) /\ walk[c].cut \in BOOLEAN
  BY WalkOf
<1>9. PICK frames, cut : frames = walk[c].frames /\ cut = walk[c].cut
  OBVIOUS
<1>10. Walk(c, frames, waiting, walk[c].found, cut) /\ WalkTyped'
  BY <1>6, <1>7, <1>8, <1>9, SameFound
<1> QED
  BY <1>1, <1>9, <1>10

\* The directory that a walk opens.
LEMMA OpenWalk ==
    ASSUME TypeOK, NEW c \in Calls, Open(c), walk[c].waiting # <<>>, LeadsToDir(tree, Last(walk[c].waiting))
    PROVE  /\ Walk(c, Append(walk[c].frames, Entries(Last(walk[c].waiting))),
                   Front(walk[c].waiting), walk[c].found, walk[c].cut)
           /\ Entries(Last(walk[c].waiting)) \in Seq(Entry)
           /\ Last(walk[c].waiting) \in Seq(Int)
           /\ WalkTyped'
<1>1. PICK d, waiting, frames, cut :
         /\ d = Last(walk[c].waiting) /\ waiting = Front(walk[c].waiting)
         /\ frames = Append(walk[c].frames, Entries(d)) /\ cut = walk[c].cut
  OBVIOUS
<1>2. /\ walk[c].frames \in Seq(Seq(Entry)) /\ walk[c].waiting \in Seq(Seq(Int))
      /\ walk[c].cut \in BOOLEAN
  BY WalkOf
<1>3. d \in Seq(Int) /\ waiting \in Seq(Seq(Int))
  BY <1>1, <1>2, FrontOf
<1>4. RealPath(tree, d) \in Seq(Int)
  <2>1. IsDir(tree, RealPath(tree, d))
    BY <1>1 DEF LeadsToDir
  <2>2. RealPath(tree, d) \in Paths
    BY <2>1 DEF IsDir, Node, None
  <2> QED
    BY <2>2, ConstantsAre
<1>5. Entries(d) \in Seq(Entry)
  <2>1. PICK e : e = d
    OBVIOUS
  <2>2. Entries(e) \in Seq(Entry)
    BY <1>3, <1>4, <2>1, EntriesAre
  <2> QED
    BY <2>1, <2>2
<1>6. frames \in Seq(Seq(Entry))
  BY <1>1, <1>2, <1>5
<1>7. Steps(c, frames, waiting, walk[c].found, walk[c].visited, cut)
  BY <1>1, OpenStep
<1>8. UNCHANGED <<roots, request>> /\ cut \in BOOLEAN
  BY <1>1, <1>2 DEF Open, callVars
<1>9. Walk(c, frames, waiting, walk[c].found, cut) /\ WalkTyped'
  BY <1>3, <1>6, <1>7, <1>8, SameFound
<1> QED
  BY <1>1, <1>3, <1>5, <1>9

\* The typed walk after each step that takes an entry or ends a directory.
LEMMA CloseWalk ==
    ASSUME TypeOK, NEW c \in Calls, CloseDirectory(c), walk[c].frames # <<>>
    PROVE  /\ Walk(c, Front(walk[c].frames), walk[c].waiting, walk[c].found, walk[c].cut)
           /\ WalkTyped'
<1>1. PICK waiting, frames, cut :
         waiting = walk[c].waiting /\ frames = Front(walk[c].frames) /\ cut = walk[c].cut
  OBVIOUS
<1>2. waiting \in Seq(Seq(Int)) /\ frames \in Seq(Seq(Entry)) /\ cut \in BOOLEAN
  BY <1>1, WalkOf, FrontOf
<1>3. Steps(c, frames, waiting, walk[c].found, walk[c].visited, cut) /\ UNCHANGED <<roots, request>>
  BY <1>1, CloseStep DEF CloseDirectory, callVars
<1>4. Walk(c, frames, waiting, walk[c].found, cut) /\ WalkTyped'
  BY <1>2, <1>3, SameFound
<1> QED
  BY <1>1, <1>4

\* A walk that is cut short keeps what it found.
LEMMA TruncateWalk ==
    ASSUME TypeOK, NEW c \in Calls, Truncate(c), UNCHANGED <<roots, request>>
    PROVE  Walk(c, walk[c].frames, walk[c].waiting, walk[c].found, TRUE) /\ WalkTyped'
<1>1. PICK waiting, frames, cut : waiting = walk[c].waiting /\ frames = walk[c].frames /\ cut = TRUE
  OBVIOUS
<1>2. waiting \in Seq(Seq(Int)) /\ frames \in Seq(Seq(Entry)) /\ cut \in BOOLEAN
  BY <1>1, WalkOf
<1>3. Steps(c, frames, waiting, walk[c].found, walk[c].visited, cut)
  BY <1>1, TruncateStep
<1>4. Walk(c, frames, waiting, walk[c].found, cut) /\ WalkTyped'
  BY <1>2, <1>3, SameFound
<1> QED
  BY <1>1, <1>4

\* The entry that is visited leaves its frame, and a directory waits to be opened.
LEMMA VisitTypes ==
    ASSUME TypeOK, NEW c \in Calls, walk[c].frames # <<>>, Frame(c) # <<>>
    PROVE  /\ NextEntry(c) \in Entry /\ NextEntry(c).path \in Seq(Int)
           /\ Frame(c) \in Seq(Entry)
           /\ EntryTaken(c) \in Seq(Seq(Entry)) /\ Push(c) \in Seq(Seq(Int))
<1>1. walk[c].frames \in Seq(Seq(Entry)) /\ walk[c].waiting \in Seq(Seq(Int))
  BY WalkOf
<1>2. Front(walk[c].frames) \in Seq(Seq(Entry)) /\ Frame(c) \in Seq(Entry)
  BY <1>1, FrontOf DEF Frame
<1>3. NextEntry(c) \in Entry /\ Tail(Frame(c)) \in Seq(Entry)
  BY <1>2, HeadTailProperties DEF NextEntry
<1>4. NextEntry(c).path \in Seq(Int)
  BY <1>3 DEF Entry
<1>5. Push(c) \in Seq(Seq(Int))
  BY <1>1, <1>4 DEF Push
<1>6. EntryTaken(c) \in Seq(Seq(Entry))
  BY <1>2, <1>3 DEF EntryTaken
<1> QED
  BY <1>2, <1>3, <1>4, <1>5, <1>6

\* A search stays within MaxEntries and MaxResults.
LEMMA SearchWalk ==
    ASSUME TypeOK, NEW c \in Calls, SearchVisit(c), ~LimitReached(c, Hit(c)), walk[c].frames # <<>>
    PROVE  /\ Walk(c, EntryTaken(c), Push(c),
                   IF Hit(c) THEN walk[c].found \cup {NextEntry(c).path} ELSE walk[c].found,
                   walk[c].cut)
           /\ WalkTyped' /\ pc' = pc /\ reply' = reply
<1>1. Frame(c) # <<>> /\ UNCHANGED <<roots, request>> /\ request[c].tool = "search_files"
  BY DEF SearchVisit, callVars
<1>2. PICK waiting, frames, cut, visited, p :
         /\ waiting = Push(c) /\ frames = EntryTaken(c) /\ cut = walk[c].cut
         /\ visited = walk[c].visited + 1 /\ p = NextEntry(c).path
  OBVIOUS
<1>3. waiting \in Seq(Seq(Int)) /\ frames \in Seq(Seq(Entry)) /\ p \in Seq(Int)
  BY <1>1, <1>2, VisitTypes
<1>4. cut \in BOOLEAN /\ visited \in 0..MaxEntries
  <2>1. walk[c].visited # MaxEntries
    BY DEF LimitReached
  <2>2. MaxEntries \in Nat /\ walk[c].visited \in 0..MaxEntries /\ walk[c].cut \in BOOLEAN
    BY FileAssumption, WalkOf
  <2> QED
    BY <1>2, <2>1, <2>2
<1>5. /\ Steps(c, frames, waiting, IF Hit(c) THEN walk[c].found \cup {p} ELSE walk[c].found,
               visited, cut)
      /\ pc' = pc /\ reply' = reply
  BY <1>2, SearchStep
<1>6. CASE Hit(c)
  <2>1. Cardinality(walk[c].found) # MaxResults
    BY <1>6 DEF LimitReached
  <2>2. Steps(c, frames, waiting, walk[c].found \cup {p}, visited, walk[c].cut)
    BY <1>2, <1>5, <1>6
  <2>3. Walk(c, frames, waiting, walk[c].found \cup {p}, walk[c].cut) /\ WalkTyped'
    BY <1>1, <1>3, <1>4, <2>1, <2>2, OneFound
  <2> QED
    BY <1>2, <1>5, <1>6, <2>3
<1>7. CASE ~Hit(c)
  <2>1. PICK found : found = walk[c].found
    OBVIOUS
  <2>2. Steps(c, frames, waiting, found, visited, cut)
    BY <1>5, <1>7, <2>1
  <2>3. found \in SUBSET Seq(Int) /\ IsFiniteSet(found) /\ Cardinality(found) <= 
           (IF request[c].tool = "search_files" THEN MaxResults ELSE TreeBudget)
    BY <2>1, WalkOf DEF WalkTyped
  <2>4. Walk(c, frames, waiting, found, cut) /\ WalkTyped'
    BY <1>1, <1>3, <1>4, <2>2, <2>3, StepsAre DEF Walk
  <2> QED
    BY <1>2, <1>5, <1>7, <2>1, <2>4
<1> QED
  BY <1>6, <1>7

\* A tree stays within its budget.
LEMMA TreeWalk ==
    ASSUME TypeOK, NEW c \in Calls, TreeVisit(c), Cardinality(walk[c].found) # TreeBudget,
           walk[c].frames # <<>>
    PROVE  /\ Walk(c, EntryTaken(c), Push(c),
                   IF Skipped(c) THEN walk[c].found ELSE walk[c].found \cup {NextEntry(c).path},
                   walk[c].cut)
           /\ WalkTyped' /\ reply' = reply
           /\ Goto(c, IF NextEntry(c).dir /\ ~Skipped(c) THEN "open" ELSE "visit")
<1>1. Frame(c) # <<>> /\ UNCHANGED <<roots, request>> /\ request[c].tool = "directory_tree"
  BY DEF TreeVisit, callVars
<1>2. PICK waiting, frames, cut, visited, p :
         /\ waiting = Push(c) /\ frames = EntryTaken(c) /\ cut = walk[c].cut
         /\ visited = walk[c].visited /\ p = NextEntry(c).path
  OBVIOUS
<1>3. waiting \in Seq(Seq(Int)) /\ frames \in Seq(Seq(Entry)) /\ p \in Seq(Int)
  BY <1>1, <1>2, VisitTypes
<1>4. cut \in BOOLEAN /\ visited \in 0..MaxEntries
  BY <1>2, WalkOf
<1>5. /\ Steps(c, frames, waiting, IF Skipped(c) THEN walk[c].found ELSE walk[c].found \cup {p},
               visited, cut)
      /\ reply' = reply
      /\ Goto(c, IF NextEntry(c).dir /\ ~Skipped(c) THEN "open" ELSE "visit")
  BY <1>2, TreeStep
<1>6. CASE ~Skipped(c)
  <2>1. Steps(c, frames, waiting, walk[c].found \cup {p}, visited, walk[c].cut)
    BY <1>2, <1>5, <1>6
  <2>2. Walk(c, frames, waiting, walk[c].found \cup {p}, walk[c].cut) /\ WalkTyped'
    BY <1>1, <1>3, <1>4, <2>1, OneFound
  <2> QED
    BY <1>2, <1>5, <1>6, <2>2
<1>7. CASE Skipped(c)
  <2>1. Steps(c, frames, waiting, walk[c].found, walk[c].visited, cut)
    BY <1>2, <1>5, <1>7
  <2>2. Walk(c, frames, waiting, walk[c].found, cut) /\ WalkTyped'
    BY <1>1, <1>3, <1>4, <2>1, SameFound
  <2> QED
    BY <1>2, <1>5, <1>7, <2>2
<1> QED
  BY <1>6, <1>7

\* Walks stay typed and within their limits.
LEMMA WalksStep ==
    ASSUME TypeOK, Dirs # <<>>, WalkShape, NEW c \in Calls, Handle(c)
    PROVE  WalkTyped'
<1>1. WalkTyped /\ UNCHANGED <<roots, request>>
  BY WalkOf, StepIsLocal
<1>2. CASE walk' = walk
  BY <1>1, <1>2 DEF WalkTyped, callVars
<1>3. ASSUME NEW path \in Seq(Names), Looked(c, path) PROVE WalkTyped'
  <2>1. CASE Grant(c, path) /\ ~(TwoPaths(c) /\ source[c] = NoPath)
    BY <1>1, <2>1, GrantWalk
  <2>2. CASE ~(Grant(c, path) /\ ~(TwoPaths(c) /\ source[c] = NoPath))
    <3>1. walk' = walk
      BY <1>3, <2>2 DEF Looked, Grant
    <3> QED
      BY <1>2, <3>1
  <2> QED
    BY <2>1, <2>2
<1>4. CASE LookUp(c)
  <2>1. CASE LookAgain(tree, candidate[c])
    BY <1>2, <1>4, <2>1 DEF LookUp
  <2>2. CASE ~LookAgain(tree, candidate[c])
    <3>1. candidate[c] \in Seq(Names)
      BY DEF TypeOK
    <3>2. RealPath(tree, candidate[c]) \in Seq(Names)
      BY <3>1, TreeIsTyped, ConstantsAre, ChasedSteps DEF RealPath
    <3> QED
      BY <1>3, <1>4, <2>2, <3>2 DEF LookUp
  <2> QED
    BY <2>1, <2>2
<1>5. CASE LookAbove(c)
  <2>1. CASE LookAgain(tree, candidate[c])
    BY <1>2, <1>5, <2>1 DEF LookAbove
  <2>2. CASE ~LookAgain(tree, candidate[c])
    BY <1>3, <1>5, <2>2, AskedType DEF LookAbove
  <2> QED
    BY <2>1, <2>2
<1>6. CASE Refuse(c) \/ Fails(c) \/ Read(c) \/ ReadToEdit(c)
  BY <1>2, <1>6 DEF Refuse, Fails, Read, ReadToEdit
<1>7. CASE CreateTemp(c) \/ Fill(c) \/ FillFails(c) \/ Rename(c) \/ SyncParent(c) \/ RemoveTemp(c)
           \/ MakeDirectory(c) \/ CheckDirectory(c) \/ DestinationExists(c) \/ MoveFile(c)
  <2>1. walk' = walk
    BY <1>7 DEF CreateTemp, Fill, FillFails, Rename, SyncParent, RemoveTemp, MakeDirectory,
                CheckDirectory, DestinationExists, MoveFile, Unchanged
  <2> QED
    BY <1>2, <2>1
<1>8. CASE Open(c)
  <2>1. CASE walk[c].waiting # <<>> /\ LeadsToDir(tree, Last(walk[c].waiting))
    BY <1>8, <2>1, OpenWalk
  <2>2. CASE ~(walk[c].waiting # <<>> /\ LeadsToDir(tree, Last(walk[c].waiting)))
    <3>1. walk' = walk
      BY <1>8, <2>2 DEF Open
    <3> QED
      BY <1>2, <3>1
  <2> QED
    BY <2>1, <2>2
<1>9. CASE CloseDirectory(c)
  BY <1>9, CloseWalk DEF CloseDirectory, WalkShape
<1>10. CASE SearchVisit(c)
  <2>1. walk[c].frames # <<>>
    BY <1>10 DEF SearchVisit, WalkShape
  <2>2. CASE LimitReached(c, Hit(c))
    BY <1>1, <1>10, <2>2, TruncateWalk DEF SearchVisit, Hit
  <2>3. CASE ~LimitReached(c, Hit(c))
    BY <1>10, <2>1, <2>3, SearchWalk
  <2> QED
    BY <2>2, <2>3
<1>11. CASE TreeVisit(c)
  <2>1. walk[c].frames # <<>>
    BY <1>11 DEF TreeVisit, WalkShape
  <2>2. CASE Cardinality(walk[c].found) = TreeBudget
    BY <1>1, <1>11, <2>2, TruncateWalk DEF TreeVisit
  <2>3. CASE Cardinality(walk[c].found) # TreeBudget
    BY <1>11, <2>1, <2>3, TreeWalk
  <2> QED
    BY <2>2, <2>3
<1> QED
  BY <1>4, <1>5, <1>6, <1>7, <1>8, <1>9, <1>10, <1>11 DEF Handle

-----------------------------------------------------------------------------
(* The tree stays a tree *)

\* A temporary file stands in a directory, and no directory stands there.
LEMMA TempPlace ==
    ASSUME TypeOK, TempsAreFiles, NEW c \in Calls, HasPlace(tree, TempOf(c)),
           NEW p, p = Place(tree, TempOf(c))
    PROVE  /\ p \in Seq(Int) /\ p # <<>> /\ Last(p) = Temp(c)
           /\ IsDir(tree, Parent(p)) /\ ~IsDir(tree, p)
<1>1. /\ tree \in [Paths -> Nodes(Names)] /\ TempOf(c) \in Seq(Int)
      /\ Parent(TempOf(c)) \in Seq(Names) /\ Last(TempOf(c)) = Temp(c) /\ Names \in SUBSET Int
  BY TreeIsTyped, TempPath, ConstantsAre
<1>2. PICK t, from : t = tree /\ from = TempOf(c)
  OBVIOUS
<1>3. /\ Place(t, from) # <<>> /\ Place(t, from) \in Seq(Int)
      /\ Last(Place(t, from)) = Last(from) /\ Parent(Place(t, from)) = RealPath(t, Parent(from))
      /\ IsDir(t, RealPath(t, Parent(from)))
  BY <1>1, <1>2, PlaceOf
<1>4. p \in Seq(Int) /\ p # <<>> /\ Last(p) = Temp(c) /\ IsDir(tree, Parent(p))
  BY <1>1, <1>2, <1>3
<1>5. ~IsDir(tree, p)
  <2>1. ASSUME IsDir(tree, p) PROVE FALSE
    <3>1. p \in Paths /\ Exists(tree, p) /\ ~IsFile(tree, p)
      BY <1>1, <2>1, NodeKinds
    <3> QED
      BY <1>4, <3>1 DEF TempsAreFiles, IsTemp
  <2> QED
    BY <2>1
<1> QED
  BY <1>4, <1>5

\* What is written are nodes.
LEMMA NewTextType ==
    ASSUME TypeOK, Dirs # <<>>, NEW c \in Calls
    PROVE  File(NewText(c)) \in Nodes(Names) /\ File(Partial) \in Nodes(Names) /\ None \in Nodes(Names)
<1>1. NewText(c) \in Seq(Nat)
  BY AskedType DEF NewText, TypeOK
<1>2. Partial \in Seq(Nat)
  BY DEF Partial
<1> QED
  BY <1>1, <1>2 DEF File, Nodes, None

\* A temporary file that exists can be filled or removed.
LEMMA SetTemp ==
    ASSUME TypeOK, NEW p \in Paths, p # <<>>, ~IsDir(tree, p), IsDir(tree, Parent(p)),
           NEW node \in Nodes(Names), tree' = [tree EXCEPT ![p] = node]
    PROVE  tree' \in [Paths -> Nodes(Names)] /\ IsTree(tree')
<1>1. PICK t : t = tree
  OBVIOUS
<1>2. t \in [Paths -> Nodes(Names)] /\ IsTree(t)
  BY <1>1, TreeIsTyped
<1>3. [t EXCEPT ![p] = node] \in [Paths -> Nodes(Names)] /\ IsTree([t EXCEPT ![p] = node])
  BY <1>1, <1>2, LeafSet
<1> QED
  BY <1>1, <1>3

\* A temporary file of a call bears its name.
LEMMA TempIs ==
    ASSUME TypeOK, TempsAreFiles, NEW c \in Calls, NEW p \in TempAt(c)
    PROVE  /\ p \in Paths /\ p # <<>> /\ Last(p) = Temp(c) /\ p \in Seq(Int)
           /\ IsFile(tree, p) /\ ~IsDir(tree, p) /\ IsDir(tree, Parent(p))
<1>1. p \in Paths /\ p # <<>> /\ Last(p) = Temp(c) /\ Exists(tree, p) /\ p \in Seq(Int)
  BY ConstantsAre DEF TempAt
<1>2. IsFile(tree, p)
  BY <1>1 DEF TempsAreFiles, IsTemp
<1>3. tree \in [Paths -> Nodes(Names)] /\ IsTree(tree)
  BY TreeIsTyped
<1> QED
  BY <1>1, <1>2, <1>3, NodeKinds, TreeIs

\* A rename by a call keeps the tree a tree.
LEMMA RenameKeepsTree ==
    ASSUME TypeOK, NEW from \in Seq(Int), NEW to \in Seq(Int), Parent(from) \in Seq(Names),
           Parent(to) \in Seq(Names), CanRename(tree, from, to), tree' = Renamed(tree, from, to)
    PROVE  tree' \in [Paths -> Nodes(Names)] /\ IsTree(tree')
<1>1. PICK t : t = tree
  OBVIOUS
<1>2. t \in [Paths -> Nodes(Names)] /\ IsTree(t) /\ Paths \subseteq Seq(Int) /\ Names \in SUBSET Int
  BY <1>1, TreeIsTyped, ConstantsAre
<1>3. Renamed(t, from, to) \in [Paths -> Nodes(Names)] /\ IsTree(Renamed(t, from, to))
  BY <1>1, <1>2, RenamedTree
<1> QED
  BY <1>1, <1>3

\* Every step keeps the tree a tree.
LEMMA TreeStays ==
    ASSUME TypeOK, Dirs # <<>>, TempsAreFiles, NEW c \in Calls, Handle(c)
    PROVE  tree' \in [Paths -> Nodes(Names)] /\ IsTree(tree')
<1>1. tree \in [Paths -> Nodes(Names)] /\ IsTree(tree)
  BY TreeIsTyped
<1>2. CASE tree' = tree
  BY <1>1, <1>2
<1>3. /\ TempOf(c) \in Seq(Int) /\ Parent(TempOf(c)) \in Seq(Names)
      /\ target[c] \in Seq(Int) /\ Parent(target[c]) \in Seq(Names)
      /\ source[c] \in Seq(Int) /\ Parent(source[c]) \in Seq(Names)
      /\ target[c] \in Seq(Names)
  <2>1. target[c] \in Seq(Names) /\ source[c] \in Seq(Names)
    BY DEF TypeOK
  <2> QED
    BY <2>1, TempPath, ParentType, ConstantsAre, SeqMonotonic
<1>4. CASE CreateTemp(c) /\ tree' # tree
  <2>1. PICK p : p = Place(tree, TempOf(c))
    OBVIOUS
  <2>2. HasPlace(tree, TempOf(c)) /\ p \in Paths /\ tree' = [tree EXCEPT ![p] = File(Partial)]
    BY <1>4, <2>1 DEF CreateTemp
  <2>3. p # <<>> /\ ~IsDir(tree, p) /\ IsDir(tree, Parent(p)) /\ File(Partial) \in Nodes(Names)
    BY <2>1, <2>2, TempPlace, NewTextType
  <2> QED
    BY <2>2, <2>3, SetTemp
<1>5. CASE Fill(c)
  <2>1. PICK p \in TempAt(c) : tree' = [tree EXCEPT ![p] = File(NewText(c))]
    BY <1>5 DEF Fill
  <2>2. PICK n : n = File(NewText(c))
    OBVIOUS
  <2> QED
    BY <2>1, <2>2, TempIs, NewTextType, SetTemp
<1>6. CASE RemoveTemp(c) /\ tree' # tree
  <2>1. PICK p : p = Place(tree, TempOf(c))
    OBVIOUS
  <2>2. HasPlace(tree, TempOf(c)) /\ Exists(tree, p) /\ tree' = [tree EXCEPT ![p] = None]
    BY <1>6, <2>1 DEF RemoveTemp
  <2>3. p # <<>> /\ ~IsDir(tree, p) /\ IsDir(tree, Parent(p)) /\ None \in Nodes(Names) /\ p \in Paths
    BY <1>1, <2>1, <2>2, TempPlace, NewTextType, NodeKinds
  <2> QED
    BY <2>2, <2>3, SetTemp
<1>7. CASE Rename(c) /\ tree' # tree
  <2>1. CanRename(tree, TempOf(c), target[c]) /\ tree' = Renamed(tree, TempOf(c), target[c])
    BY <1>7 DEF Rename
  <2>2. PICK from, to : from = TempOf(c) /\ to = target[c]
    OBVIOUS
  <2> QED
    BY <1>3, <2>1, <2>2, RenameKeepsTree
<1>8. CASE MoveFile(c) /\ tree' # tree
  <2>1. CanRename(tree, source[c], target[c]) /\ tree' = Renamed(tree, source[c], target[c])
    BY <1>8 DEF MoveFile
  <2>2. PICK from, to : from = source[c] /\ to = target[c]
    OBVIOUS
  <2> QED
    BY <1>3, <2>1, <2>2, RenameKeepsTree
<1>9. CASE MakeDirectory(c) /\ tree' # tree
  <2>1. CanMkdir(tree, candidate[c]) /\ tree' = Mkdir(tree, candidate[c]) /\ candidate[c] \in Seq(Names)
    BY <1>9 DEF MakeDirectory, TypeOK
  <2>2. PICK t, p : t = tree /\ p = candidate[c]
    OBVIOUS
  <2>3. Mkdir(t, p) \in [Paths -> Nodes(Names)] /\ IsTree(Mkdir(t, p))
    BY <1>1, <2>1, <2>2, ConstantsAre, MadeDir
  <2> QED
    BY <2>1, <2>2, <2>3
<1>10. CASE Refuse(c) \/ LookUp(c) \/ LookAbove(c) \/ Fails(c) \/ Read(c) \/ ReadToEdit(c)
            \/ FillFails(c) \/ SyncParent(c) \/ CheckDirectory(c) \/ DestinationExists(c)
            \/ Open(c) \/ CloseDirectory(c) \/ SearchVisit(c) \/ TreeVisit(c)
  <2>1. tree' = tree
    BY <1>10 DEF Refuse, LookUp, LookAbove, Fails, Read, ReadToEdit, FillFails, SyncParent,
                 CheckDirectory, DestinationExists, Open, CloseDirectory, SearchVisit, TreeVisit
  <2> QED
    BY <1>2, <2>1
<1> QED
  BY <1>2, <1>4, <1>5, <1>6, <1>7, <1>8, <1>9, <1>10 DEF Handle

\* Every step keeps the types.
LEMMA TypesStep ==
    ASSUME TypeOK, Sought, Dirs # <<>>, WalkShape, TempsAreFiles, NEW c \in Calls, Handle(c)
    PROVE  TypeOK'
<1>1. TypedCalls'
  BY CallsStep
<1>2. WalkTyped'
  BY WalksStep
<1>3. tree' \in [Paths -> Nodes(Names)] /\ IsTree(tree')
  BY TreeStays
<1> QED
  BY <1>1, <1>2, <1>3 DEF TypeOK, TypedCalls, WalkTyped

-----------------------------------------------------------------------------
(* Temporary files *)

TempIn(t, c) == {p \in Paths : p # <<>> /\ Last(p) = Temp(c) /\ Exists(t, p)}

\* Each temporary file of a call is one it had, perhaps elsewhere.
Kept(t, u, c) == \A p \in TempIn(u, c) : \E q \in TempIn(t, c) : u[p] = t[q]
Single(t, c) == \A p, q \in TempIn(t, c) : p = q

\* TempAt, as a function of the tree.
LEMMA TempAtIn ==
    ASSUME NEW c \in Calls
    PROVE  TempAt(c) = TempIn(tree, c) /\ TempAt(c)' = TempIn(tree', c)
BY DEF TempAt, TempIn

\* A temporary file that a rename leaves was there before: below the directory
\* that was renamed, or apart from it.  It is never what was renamed.
LEMMA RenamedTemp ==
    ASSUME NEW t, NEW from, NEW to, NEW s, NEW d, IsRename(Names, t, from, to, s, d),
           NEW u, u = Renamed(t, from, to), Last(to) \in Names,
           NEW c \in Calls, NEW p \in TempIn(u, c)
    PROVE  \E q \in TempIn(t, c) :
              /\ u[p] = t[q] /\ q # s
              /\ \/ Inside(p, d) /\ Inside(q, s) /\ p = Moved(q, s, d)
                 \/ p = q /\ ~Inside(q, s)
<1>1. /\ s \in Paths /\ s \in Seq(Int) /\ d \in Seq(Int) /\ d # <<>>
      /\ t \in [Paths -> Nodes(Names)] /\ Paths \subseteq Seq(Int)
  <2>1. t \in [Paths -> Nodes(Names)] /\ Paths \subseteq Seq(Int)
    BY DEF IsRename
  <2>2. s \in Paths /\ s \in Seq(Int) /\ d \in Seq(Int) /\ d # <<>>
    BY RenameApart
  <2> QED
    BY <2>1, <2>2
<1>2. Last(d) \in Names
  <2>1. HasPlace(t, to) /\ d = Place(t, to) /\ Parent(to) \in Seq(Names) /\ to \in Seq(Int)
        /\ Names \in SUBSET Int
    BY DEF IsRename, CanRename
  <2> QED
    BY <1>1, <2>1, PlaceOf
<1>3. /\ p \in Paths /\ p \in Seq(Int) /\ p # <<>> /\ Last(p) = Temp(c) /\ Exists(u, p)
      /\ p # d /\ u[p].kind # "none"
  BY <1>1, <1>2, ConstantsAre DEF TempIn, Exists, Node
<1>4. /\ Inside(p, d) => u[p] = Node(t, Moved(p, d, s))
      /\ ~Inside(p, d) /\ Inside(p, s) => u[p] = None
      /\ ~Inside(p, d) /\ ~Inside(p, s) => u[p] = t[p]
  BY <1>3, RenamedNodes
<1>5. CASE Inside(p, d)
  <2>1. PICK q : q = Moved(p, d, s)
    OBVIOUS
  <2>2. Inside(q, s) /\ Moved(q, s, d) = p /\ q # <<>> /\ q # s /\ Last(q) = Temp(c)
    BY <1>1, <1>3, <1>5, <2>1, MovedTo, MovedBelow
  <2>3. u[p] = Node(t, q) /\ Exists(t, q)
    BY <1>3, <1>4, <1>5, <2>1 DEF Exists
  <2>4. q \in Paths /\ u[p] = t[q]
    BY <1>1, <2>3, NodeKinds
  <2> QED
    BY <1>5, <2>2, <2>3, <2>4 DEF TempIn
<1>6. CASE ~Inside(p, d)
  <2>1. ~Inside(p, s) /\ u[p] = t[p]
    BY <1>3, <1>4, <1>6 DEF None
  <2>2. p # s
    BY <1>1, <2>1, InsideItself
  <2>3. p \in TempIn(t, c)
    BY <1>3, <2>1 DEF TempIn, Exists, Node
  <2> QED
    BY <2>1, <2>2, <2>3
<1> QED
  BY <1>5, <1>6

\* A rename makes no temporary file and none of two, and takes away the one it moves.
LEMMA RenamedKeeps ==
    ASSUME NEW t, NEW from, NEW to, NEW s, NEW d, IsRename(Names, t, from, to, s, d),
           NEW u, u = Renamed(t, from, to), Last(to) \in Names,
           NEW c \in Calls, Single(t, c)
    PROVE  Kept(t, u, c) /\ Single(u, c) /\ (Last(s) = Temp(c) => TempIn(u, c) = {})
<1>1. \A p \in TempIn(u, c) : \E q \in TempIn(t, c) :
              /\ u[p] = t[q] /\ q # s
              /\ \/ Inside(p, d) /\ Inside(q, s) /\ p = Moved(q, s, d)
                 \/ p = q /\ ~Inside(q, s)
  BY RenamedTemp
<1>2. Kept(t, u, c)
  BY <1>1 DEF Kept
<1>3. Single(u, c)
  BY <1>1 DEF Single
<1>4. ASSUME Last(s) = Temp(c) PROVE TempIn(u, c) = {}
  <2>1. s \in TempIn(t, c)
    BY <1>4, RenameApart DEF TempIn
  <2> QED
    BY <1>1, <2>1 DEF Single
<1> QED
  BY <1>2, <1>3, <1>4

\* Making a directory does nothing to temporary files.
LEMMA MadeKeeps ==
    ASSUME NEW t \in [Paths -> Nodes(Names)], IsTree(t), NEW p \in Seq(Names), CanMkdir(t, p),
           NEW u, u = Mkdir(t, p), NEW c \in Calls, Single(t, c)
    PROVE  Kept(t, u, c) /\ Single(u, c)
<1>1. PICK q : q = Place(t, p)
  OBVIOUS
<1>2. q \in Seq(Names) /\ q \in Paths /\ \A x \in Paths : u[x] = IF x = q THEN Dir ELSE t[x]
  <2>1. /\ Place(t, p) \in Seq(Names) /\ Place(t, p) \in Paths
        /\ \A x \in Paths : Mkdir(t, p)[x] = IF x = Place(t, p) THEN Dir ELSE t[x]
    <3>1. Names \in SUBSET Int
      BY ConstantsAre
    <3> QED
      BY <3>1, MadeDir, Zenon
  <2> QED
    BY <1>1, <2>1
<1>3. ASSUME NEW x \in TempIn(u, c) PROVE x \in TempIn(t, c) /\ u[x] = t[x]
  <2>1. x # q
    <3>1. q # <<>> => Last(q) \in Names
      BY <1>2, ParentOf
    <3> QED
      BY <3>1, ConstantsAre DEF TempIn
  <2>2. x \in Paths /\ u[x] = t[x]
    BY <1>2, <2>1 DEF TempIn
  <2> QED
    BY <2>2 DEF TempIn, Exists, Node
<1> QED
  BY <1>3 DEF Kept, Single

\* A temporary file is made, filled or removed by its own call.
LEMMA SetKeeps ==
    ASSUME NEW t \in [Paths -> Nodes(Names)], NEW b \in Calls, NEW p \in Paths, Last(p) = Temp(b),
           NEW node, NEW u, u = [t EXCEPT ![p] = node], NEW c \in Calls, c # b, Single(t, c)
    PROVE  Kept(t, u, c) /\ Single(u, c)
<1>1. ASSUME NEW q \in TempIn(u, c) PROVE q \in TempIn(t, c) /\ u[q] = t[q]
  <2>1. q \in Paths /\ q # p /\ u[q] = t[q]
    BY ConstantsAre DEF TempIn
  <2> QED
    BY <2>1 DEF TempIn, Exists, Node
<1> QED
  BY <1>1 DEF Kept, Single

\* The paths a call was granted.
LEMMA PathsOf ==
    ASSUME TypeOK, NEW c \in Calls
    PROVE  /\ TempOf(c) \in Seq(Int) /\ Parent(TempOf(c)) \in Seq(Names) /\ Last(TempOf(c)) = Temp(c)
           /\ target[c] \in Seq(Int) /\ target[c] \in Seq(Names) /\ Parent(target[c]) \in Seq(Names)
           /\ source[c] \in Seq(Int) /\ source[c] \in Seq(Names) /\ Parent(source[c]) \in Seq(Names)
           /\ target[c] # <<>> => Last(target[c]) \in Names
<1>1. target[c] \in Seq(Names) /\ source[c] \in Seq(Names)
  BY DEF TypeOK
<1>2. target[c] # <<>> => Last(target[c]) \in Names
  BY <1>1, ParentOf
<1> QED
  BY <1>1, <1>2, TempPath, ParentType, ConstantsAre, SeqMonotonic

\* A rename to a granted path, by a write or a move.
LEMMA RenameIs ==
    ASSUME TypeOK, NEW c \in Calls, NEW from, from \in {TempOf(c), source[c]}, NEW to, to = target[c],
           CanRename(tree, from, to), NEW t, t = tree, NEW u, u = Renamed(tree, from, to),
           NEW s, s = Place(t, from), NEW d, d = Place(t, to)
    PROVE  /\ s # d => IsRename(Names, t, from, to, s, d) /\ Last(to) \in Names
           /\ s = d => u = t
           /\ u = Renamed(t, from, to)
           /\ Exists(t, s) /\ Last(s) = Last(from) /\ Last(d) = Last(to)
           /\ Last(to) \in Names
<1>1. /\ from \in Seq(Int) /\ to \in Seq(Int) /\ Parent(from) \in Seq(Names) /\ Parent(to) \in Seq(Names)
      /\ to # <<>> => Last(to) \in Names
  BY PathsOf
<1>2. /\ t \in [Paths -> Nodes(Names)] /\ IsTree(t) /\ Paths \subseteq Seq(Int) /\ Names \in SUBSET Int
      /\ CanRename(t, from, to)
  BY TreeIsTyped, ConstantsAre
<1>3. HasPlace(t, from) /\ HasPlace(t, to) /\ Exists(t, s)
  BY <1>2 DEF CanRename
<1>4. Last(s) = Last(from) /\ Last(d) = Last(to) /\ to # <<>>
  <2>1. Last(Place(t, from)) = Last(from)
    <3>1. from \in Seq(Int) /\ Parent(from) \in Seq(Names) /\ HasPlace(t, from)
      BY <1>1, <1>3
    <3> QED
      BY <1>2, <3>1, PlaceOf
  <2>2. Last(Place(t, to)) = Last(to) /\ to # <<>>
    <3>1. to \in Seq(Int) /\ Parent(to) \in Seq(Names) /\ HasPlace(t, to)
      BY <1>1, <1>3
    <3> QED
      BY <1>2, <3>1, PlaceOf
  <2> QED
    BY <2>1, <2>2
<1>5. s = d => u = t
  BY DEF Renamed
<1>6. s # d => IsRename(Names, t, from, to, s, d)
  BY <1>1, <1>2 DEF IsRename
<1> QED
  BY <1>1, <1>3, <1>4, <1>5, <1>6

\* No step but those of its own call makes, doubles or rewrites a temporary file.
LEMMA Keeping ==
    ASSUME TypeOK, Dirs # <<>>, OneTemp, NEW c \in Calls, Handle(c), TempsAreFiles,
           NEW b \in Calls, b # c \/ (~CreateTemp(c) /\ ~Fill(c))
    PROVE  Kept(tree, tree', b) /\ Single(tree', b)
<1>1. PICK t, u : t = tree /\ u = tree'
  OBVIOUS
<1>2. /\ t \in [Paths -> Nodes(Names)] /\ IsTree(t) /\ Single(t, b)
  BY <1>1, TreeIsTyped, TempAtIn DEF OneTemp, Single
<1> SUFFICES Kept(t, u, b) /\ Single(u, b)
  BY <1>1
<1>3. CASE u = t
  BY <1>2, <1>3 DEF Kept
<1>4. ASSUME NEW from, from \in {TempOf(c), source[c]}, CanRename(tree, from, target[c]),
             tree' = Renamed(tree, from, target[c])
      PROVE  Kept(t, u, b) /\ Single(u, b)
  <2>1. PICK to, s, d : to = target[c] /\ s = Place(t, from) /\ d = Place(t, to)
    OBVIOUS
  <2>2. CanRename(tree, from, to) /\ u = Renamed(tree, from, to)
    BY <1>1, <1>4, <2>1
  <2>3. /\ s # d => IsRename(Names, t, from, to, s, d) /\ Last(to) \in Names
        /\ s = d => u = t
        /\ u = Renamed(t, from, to)
    BY <1>1, <1>4, <2>1, <2>2, RenameIs
  <2>4. CASE s = d
    BY <1>3, <2>3, <2>4
  <2>5. CASE s # d
    BY <1>2, <2>3, <2>5, RenamedKeeps
  <2> QED
    BY <2>4, <2>5
<1>5. CASE CreateTemp(c) /\ u # t
  <2>1. PICK p : p = Place(tree, TempOf(c))
    OBVIOUS
  <2>2. HasPlace(tree, TempOf(c)) /\ p \in Paths /\ u = [t EXCEPT ![p] = File(Partial)] /\ b # c
    BY <1>1, <1>5, <2>1 DEF CreateTemp
  <2>3. Last(p) = Temp(c)
    BY <2>1, <2>2, TempPlace
  <2>4. PICK node : node = File(Partial)
    OBVIOUS
  <2> QED
    BY <1>2, <2>2, <2>3, <2>4, SetKeeps
<1>6. CASE Fill(c)
  <2>1. PICK p, node : p \in TempAt(c) /\ node = File(NewText(c)) /\ u = [t EXCEPT ![p] = node] /\ b # c
    BY <1>1, <1>6 DEF Fill
  <2>2. p \in Paths /\ Last(p) = Temp(c)
    BY <2>1, TempIs
  <2> QED
    BY <1>2, <2>1, <2>2, SetKeeps
<1>7. CASE RemoveTemp(c) /\ u # t
  <2>1. PICK p : p = Place(tree, TempOf(c))
    OBVIOUS
  <2>2. HasPlace(tree, TempOf(c)) /\ Exists(tree, p) /\ u = [t EXCEPT ![p] = None]
    BY <1>1, <1>7, <2>1 DEF RemoveTemp
  <2>3. Last(p) = Temp(c) /\ p \in Paths
    BY <1>1, <1>2, <2>1, <2>2, TempPlace, NodeKinds
  <2>4. CASE b # c
    <3>1. PICK node : node = None
      OBVIOUS
    <3> QED
      BY <1>2, <2>2, <2>3, <2>4, <3>1, SetKeeps
  <2>5. CASE b = c
    <3>1. ASSUME NEW q \in TempIn(u, b) PROVE q \in TempIn(t, b) /\ u[q] = t[q]
      <4>1. q # p
        BY <1>2, <2>2, <2>3 DEF TempIn, Exists, Node, None
      <4> QED
        BY <1>2, <2>2, <4>1 DEF TempIn, Exists, Node
    <3> QED
      BY <1>2, <3>1 DEF Kept, Single
  <2> QED
    BY <2>4, <2>5
<1>8. CASE Rename(c) /\ u # t
  BY <1>1, <1>4, <1>8 DEF Rename
<1>9. CASE MoveFile(c) /\ u # t
  BY <1>1, <1>4, <1>9 DEF MoveFile
<1>10. CASE MakeDirectory(c) /\ u # t
  <2>1. PICK p : p = candidate[c]
    OBVIOUS
  <2>2. CanMkdir(t, p) /\ u = Mkdir(t, p) /\ p \in Seq(Names)
    BY <1>1, <1>10, <2>1 DEF MakeDirectory, TypeOK
  <2> QED
    BY <1>2, <2>2, MadeKeeps
<1>11. CASE Refuse(c) \/ LookUp(c) \/ LookAbove(c) \/ Fails(c) \/ Read(c) \/ ReadToEdit(c)
            \/ FillFails(c) \/ SyncParent(c) \/ CheckDirectory(c) \/ DestinationExists(c)
            \/ Open(c) \/ CloseDirectory(c) \/ SearchVisit(c) \/ TreeVisit(c)
  <2>1. tree' = tree
    BY <1>11 DEF Refuse, LookUp, LookAbove, Fails, Read, ReadToEdit, FillFails, SyncParent,
                 CheckDirectory, DestinationExists, Open, CloseDirectory, SearchVisit, TreeVisit
  <2> QED
    BY <1>1, <1>3, <2>1
<1> QED
  BY <1>3, <1>5, <1>6, <1>7, <1>8, <1>9, <1>10, <1>11 DEF Handle

\* What the steps of a write make of its own temporary file.
LEMMA TempCreated ==
    ASSUME TypeOK, TempsAreFiles, TempsOfWriters, NEW c \in Calls, CreateTemp(c)
    PROVE  /\ \A p, q \in TempIn(tree', c) : p = q
           /\ \A p \in TempIn(tree', c) : tree'[p] = File(Partial)
           /\ pc[c] = "create"
           /\ TempIn(tree', c) # {} => pc' = [pc EXCEPT ![c] = "fill"]
           /\ pc' = [pc EXCEPT ![c] = "fill"] \/ pc' = [pc EXCEPT ![c] = "done"]
<1>1. pc[c] = "create" /\ (pc' = [pc EXCEPT ![c] = "fill"] \/ pc' = [pc EXCEPT ![c] = "done"])
  BY DEF CreateTemp, Goto, Finish
<1>2. TempIn(tree, c) = {}
  BY <1>1, TempAtIn DEF TempsOfWriters
<1>3. CASE tree' = tree
  BY <1>1, <1>2, <1>3
<1>4. CASE tree' # tree
  <2>1. PICK p : p = Place(tree, TempOf(c))
    OBVIOUS
  <2>2. p \in Paths /\ tree' = [tree EXCEPT ![p] = File(Partial)] /\ pc' = [pc EXCEPT ![c] = "fill"]
    BY <1>4, <2>1 DEF CreateTemp, Goto
  <2>3. ASSUME NEW q \in TempIn(tree', c) PROVE q = p
    <3>1. ASSUME q # p PROVE FALSE
      <4>1. q \in Paths /\ tree'[q] = tree[q]
        BY <2>2, <3>1, TreeIsTyped DEF TempIn
      <4>2. q \in TempIn(tree, c)
        BY <4>1 DEF TempIn, Exists, Node
      <4> QED
        BY <1>2, <4>2
    <3> QED
      BY <3>1
  <2>4. tree'[p] = File(Partial)
    BY <2>2, TreeIsTyped
  <2> QED
    BY <1>1, <2>2, <2>3, <2>4
<1> QED
  BY <1>3, <1>4

\* Fill leaves one temporary file, which holds the whole text.
LEMMA TempFilled ==
    ASSUME TypeOK, OneTemp, NEW c \in Calls, Fill(c)
    PROVE  /\ \A p, q \in TempIn(tree', c) : p = q
           /\ \A p \in TempIn(tree', c) : tree'[p] = File(NewText(c))
<1>1. PICK p \in TempIn(tree, c) : tree' = [tree EXCEPT ![p] = File(NewText(c))]
  BY TempAtIn DEF Fill
<1>2. ASSUME NEW q \in TempIn(tree', c) PROVE q = p
  <2>1. ASSUME q # p PROVE FALSE
    <3>1. q \in Paths /\ tree'[q] = tree[q]
      BY <1>1, <2>1, TreeIsTyped DEF TempIn
    <3>2. q \in TempIn(tree, c)
      BY <3>1 DEF TempIn, Exists, Node
    <3> QED
      BY <2>1, <3>2, TempAtIn DEF OneTemp
  <2> QED
    BY <2>1
<1>3. tree'[p] = File(NewText(c))
  BY <1>1, TreeIsTyped DEF TempIn
<1> QED
  BY <1>2, <1>3

\* A rename over the target leaves no temporary file.
LEMMA TempRenamed ==
    ASSUME TypeOK, OneTemp, NEW c \in Calls, Rename(c), CanRename(tree, TempOf(c), target[c])
    PROVE  TempIn(tree', c) = {}
<1>1. PICK t, u, from, to, s, d :
        /\ t = tree /\ u = tree' /\ from = TempOf(c) /\ to = target[c]
        /\ s = Place(t, from) /\ d = Place(t, to)
  OBVIOUS
<1>2. CanRename(tree, from, to) /\ u = Renamed(tree, from, to)
  BY <1>1 DEF Rename
<1>3. /\ s # d => IsRename(Names, t, from, to, s, d) /\ Last(to) \in Names
      /\ u = Renamed(t, from, to)
      /\ Last(s) = Last(from) /\ Last(d) = Last(to) /\ Last(to) \in Names
  BY <1>1, <1>2, RenameIs
<1>4. Last(from) = Temp(c)
  BY <1>1, PathsOf
<1>5. s # d
  BY <1>3, <1>4, ConstantsAre
<1>6. Single(t, c)
  BY <1>1, TempAtIn DEF OneTemp, Single
<1>7. Last(s) = Temp(c) => TempIn(u, c) = {}
  BY <1>3, <1>5, <1>6, RenamedKeeps
<1> QED
  BY <1>1, <1>3, <1>4, <1>7

\* A temporary file that outlives its removal had strayed, or could not be removed.
LEMMA TempRemoved ==
    ASSUME TypeOK, NEW c \in Calls, RemoveTemp(c), PathsLead, TempIn(tree', c) # {}
    PROVE  c \in strayed \cup stuck'
<1> SUFFICES ASSUME c \notin stuck' PROVE c \in strayed
  OBVIOUS
<1>1. PICK p \in TempIn(tree', c) : TRUE
  OBVIOUS
<1>2. p \in TempIn(tree, c)
  <2>1. CASE tree' = tree
    BY <1>1, <2>1
  <2>2. CASE tree' # tree
    <3>1. PICK q : tree' = [tree EXCEPT ![q] = None]
      BY <2>2 DEF RemoveTemp
    <3>2. p \in Paths /\ Exists(tree', p) /\ (p = q => tree'[p] = None) /\ (p # q => tree'[p] = tree[p])
      BY <1>1, <3>1, TreeIsTyped DEF TempIn
    <3> QED
      BY <1>1, <3>2 DEF TempIn, Exists, Node, None
  <2> QED
    BY <2>1, <2>2
<1>3. ASSUME LeadsTo(TempOf(c), p) PROVE FALSE
  <2>1. HasPlace(tree, TempOf(c)) /\ Exists(tree, p) /\ Place(tree, TempOf(c)) = p
    BY <1>2, <1>3 DEF LeadsTo, TempIn
  <2>2. tree' = [tree EXCEPT ![p] = None]
    BY <2>1 DEF RemoveTemp
  <2>3. p \in Paths /\ tree'[p] = None
    BY <1>1, <2>2, TreeIsTyped DEF TempIn
  <2> QED
    BY <1>1, <2>3 DEF TempIn, Exists, Node, None
<1> QED
  BY <1>2, <1>3, TempAtIn DEF PathsLead

\* Other labels have nothing to do with temporary files.
LEMMA OwnLabel ==
    ASSUME TypeOK, NEW c \in Calls, Handle(c), pc[c] \notin {"create", "fill", "rename", "remove"}
    PROVE  /\ pc'[c] # "rename"
           /\ ~CreateTemp(c) /\ ~Fill(c) /\ ~FillFails(c) /\ ~Rename(c) /\ ~RemoveTemp(c)
<1>1. ~CreateTemp(c) /\ ~Fill(c) /\ ~FillFails(c) /\ ~Rename(c) /\ ~RemoveTemp(c)
  BY DEF CreateTemp, Fill, FillFails, Rename, RemoveTemp
<1>2. pc = [b \in Calls |-> pc[b]] /\ pc[c] # "rename"
  BY DEF TypeOK
<1>3. ASSUME NEW path, Looked(c, path) PROVE pc'[c] # "rename"
  <2>1. \/ pc' = [pc EXCEPT ![c] = "done"] \/ pc' = [pc EXCEPT ![c] = "resolve"]
        \/ pc' = [pc EXCEPT ![c] = AfterResolve(c)] /\ AfterResolve(c) # "rename"
    <3>1. AfterResolve(c) # "rename"
      <4>1. request[c].tool \in Tools
        BY FileAssumption DEF TypeOK
      <4> QED
        BY <4>1 DEF AfterResolve, Tools, Readers, Writers, Walkers
    <3> QED
      BY <1>3, <3>1 DEF Looked, Grant, Finish, Goto
  <2> QED
    BY <1>2, <2>1
<1>4. CASE Refuse(c) \/ Fails(c) \/ Read(c) \/ MoveFile(c)
  <2>1. pc' = [pc EXCEPT ![c] = "done"]
    BY <1>4 DEF Refuse, Fails, Read, MoveFile, Finish, Goto
  <2> QED
    BY <1>1, <1>2, <2>1
<1>9. CASE MakeDirectory(c) \/ CheckDirectory(c)
  BY <1>1, <1>9, MakingIs DEF Making
<1>5. CASE ReadToEdit(c) \/ SyncParent(c) \/ DestinationExists(c)
  <2>1. \E l \in {"done", "create", "remove", "move"} : pc' = [pc EXCEPT ![c] = l]
    BY <1>5 DEF ReadToEdit, SyncParent, DestinationExists, Finish, Goto
  <2> QED
    BY <1>1, <1>2, <2>1
<1>6. CASE LookUp(c)
  <2>1. pc' = [pc EXCEPT ![c] = "ancestor"] \/ \E path : Looked(c, path)
    BY <1>6 DEF LookUp, Goto
  <2> QED
    BY <1>1, <1>2, <1>3, <2>1
<1>7. CASE LookAbove(c)
  <2>1. pc' = pc \/ \E path : Looked(c, path)
    BY <1>7 DEF LookAbove
  <2> QED
    BY <1>1, <1>2, <1>3, <2>1
<1>8. CASE Open(c) \/ CloseDirectory(c) \/ SearchVisit(c) \/ TreeVisit(c)
  <2>1. pc' = pc \/ \E l \in {"done", "open", "visit"} : pc' = [pc EXCEPT ![c] = l]
    BY <1>8 DEF Open, CloseDirectory, SearchVisit, TreeVisit, Truncate, Finish, Goto
  <2> QED
    BY <1>1, <1>2, <2>1
<1> QED
  BY <1>1, <1>4, <1>5, <1>6, <1>7, <1>8, <1>9 DEF Handle

\* What the others do to the temporary file of a call.
LEMMA TempsOthers ==
    ASSUME TypeOK, Dirs # <<>>, Temps, NoLitter, NEW c \in Calls, Handle(c), NEW b \in Calls,
           b # c, NEW p \in TempIn(tree', b)
    PROVE  /\ tree'[p].kind = "file"
           /\ pc'[b] \in {"fill", "rename", "remove", "done"}
           /\ pc'[b] = "rename" => tree'[p] = File(NewText(b)')
           /\ pc'[b] = "done" => b \in strayed \cup stuck'
<1>1. Kept(tree, tree', b) /\ pc'[b] = pc[b] /\ text'[b] = text[b] /\ request' = request
      /\ stuck \subseteq stuck'
  BY Keeping, StepIsLocal DEF Temps, Others, callVars
<1>2. PICK q \in TempIn(tree, b) : tree'[p] = tree[q]
  BY <1>1 DEF Kept
<1>3. q \in TempAt(b) /\ q \in Paths /\ IsFile(tree, q)
  BY <1>2, TempAtIn, TempIs DEF Temps
<1>4. /\ pc[b] \in {"fill", "rename", "remove", "done"}
      /\ pc[b] = "rename" => tree[q] = File(NewText(b))
      /\ pc[b] = "done" => b \in strayed \cup stuck
  BY <1>3 DEF Temps, TempsOfWriters, Filled, NoLitter
<1>5. NewText(b)' = NewText(b)
  BY <1>1 DEF NewText
<1> QED
  BY <1>1, <1>2, <1>3, <1>4, <1>5 DEF IsFile, Node

\* What a call does to its own.
LEMMA TempsOwn ==
    ASSUME TypeOK, Dirs # <<>>, Temps, NoLitter, NEW c \in Calls, Handle(c), NEW p \in TempIn(tree', c)
    PROVE  /\ tree'[p].kind = "file"
           /\ pc'[c] \in {"fill", "rename", "remove", "done"}
           /\ pc'[c] = "rename" => tree'[p] = File(NewText(c)')
           /\ pc'[c] = "done" => c \in strayed \cup stuck'
<1>1. pc = [b \in Calls |-> pc[b]] /\ UNCHANGED <<roots, request>> /\ pc[c] # "done"
  BY StepIsLocal DEF TypeOK
<1>2. \A x : File(x).kind = "file"
  BY DEF File
<1>3. CASE CreateTemp(c)
  <2>1. tree'[p] = File(Partial) /\ pc' = [pc EXCEPT ![c] = "fill"]
    BY <1>3, TempCreated DEF Temps
  <2> QED
    BY <1>1, <1>2, <2>1
<1>4. CASE Fill(c)
  <2>1. tree'[p] = File(NewText(c)) /\ pc' = [pc EXCEPT ![c] = "rename"]
    BY <1>4, TempFilled DEF Temps, Fill, Goto
  <2>2. NewText(c)' = NewText(c)
    BY <1>4 DEF Fill, Unchanged, callVars, NewText
  <2> QED
    BY <1>1, <1>2, <2>1, <2>2
<1>5. CASE ~CreateTemp(c) /\ ~Fill(c)
  <2>1. Kept(tree, tree', c)
    BY <1>5, Keeping DEF Temps
  <2>2. PICK q \in TempIn(tree, c) : tree'[p] = tree[q]
    BY <2>1 DEF Kept
  <2>3. q \in TempAt(c) /\ q \in Paths /\ IsFile(tree, q)
    BY <2>2, TempAtIn, TempIs DEF Temps
  <2>4. tree'[p].kind = "file" /\ pc[c] \in {"fill", "rename", "remove"}
    BY <1>1, <2>2, <2>3 DEF Temps, TempsOfWriters, IsFile, Node
  <2>5. CASE pc[c] = "fill"
    <3>1. FillFails(c)
      BY <1>5, <2>5 DEF Handle, Refuse, LookUp, LookAbove, Fails, Read, ReadToEdit, CreateTemp, Rename,
            SyncParent, RemoveTemp, MakeDirectory, CheckDirectory, DestinationExists, MoveFile, Open, CloseDirectory,
            SearchVisit, TreeVisit
    <3>2. pc' = [pc EXCEPT ![c] = "remove"]
      BY <3>1 DEF FillFails, Goto
    <3> QED
      BY <1>1, <2>4, <3>2
  <2>6. CASE pc[c] = "rename"
    <3>1. Rename(c)
      BY <2>6 DEF Handle, Refuse, LookUp, LookAbove, Fails, Read, ReadToEdit, CreateTemp, Fill, FillFails,
            SyncParent, RemoveTemp, MakeDirectory, CheckDirectory, DestinationExists, MoveFile, Open, CloseDirectory,
            SearchVisit, TreeVisit
    <3>2. ~CanRename(tree, TempOf(c), target[c])
      BY <3>1, TempRenamed DEF Temps
    <3>3. pc' = [pc EXCEPT ![c] = "remove"]
      BY <3>1, <3>2 DEF Rename, Goto
    <3> QED
      BY <1>1, <2>4, <3>3
  <2>7. CASE pc[c] = "remove"
    <3>1. RemoveTemp(c)
      BY <2>7 DEF Handle, Refuse, LookUp, LookAbove, Fails, Read, ReadToEdit, CreateTemp, Fill, FillFails,
            Rename, SyncParent, MakeDirectory, CheckDirectory, DestinationExists, MoveFile, Open, CloseDirectory,
            SearchVisit, TreeVisit
    <3>2. c \in strayed \cup stuck' /\ pc' = [pc EXCEPT ![c] = "done"]
      BY <3>1, TempRemoved DEF Temps, RemoveTemp, Finish, Goto
    <3> QED
      BY <1>1, <2>4, <3>2
  <2> QED
    BY <2>4, <2>5, <2>6, <2>7
<1> QED
  BY <1>3, <1>4, <1>5

\* The whole life of temporary files.
LEMMA TempsStep ==
    ASSUME TypeOK, Dirs # <<>>, Temps, NoLitter, NEW c \in Calls, Handle(c), Watch
    PROVE  Temps' /\ NoLitter'
<1>1. ASSUME NEW b \in Calls PROVE Single(tree', b)
  <2>1. CASE b # c \/ (~CreateTemp(c) /\ ~Fill(c))
    BY <2>1, Keeping DEF Temps
  <2>2. CASE b = c /\ CreateTemp(c)
    BY <2>2, TempCreated DEF Temps, Single
  <2>3. CASE b = c /\ Fill(c)
    BY <2>3, TempFilled DEF Temps, Single
  <2> QED
    BY <2>1, <2>2, <2>3
<1>2. ASSUME NEW b \in Calls, NEW p \in TempIn(tree', b)
      PROVE  /\ tree'[p].kind = "file"
             /\ pc'[b] \in {"fill", "rename", "remove", "done"}
             /\ pc'[b] = "rename" => tree'[p] = File(NewText(b)')
             /\ pc'[b] = "done" => b \in strayed \cup stuck'
  BY TempsOthers, TempsOwn
<1>3. strayed' = strayed \cup {b \in Calls : \E p \in TempAt(b)' : ~LeadsTo(TempOf(b), p)'}
  BY DEF Watch
<1>4. TempsAreFiles'
  <2>1. ASSUME NEW p \in Paths, IsTemp(p), Exists(tree', p) PROVE IsFile(tree', p)
    <3>1. PICK b \in Calls : p # <<>> /\ Last(p) = Temp(b)
      BY <2>1 DEF IsTemp
    <3>2. p \in TempIn(tree', b)
      BY <2>1, <3>1 DEF TempIn
    <3> QED
      BY <1>2, <3>2 DEF IsFile, Node
  <2> QED
    BY <2>1 DEF TempsAreFiles
<1>5. OneTemp'
  BY <1>1, TempAtIn DEF OneTemp, Single
<1>6. TempsOfWriters'
  BY <1>2, TempAtIn DEF TempsOfWriters
<1>7. Filled'
  BY <1>2, TempAtIn DEF Filled
<1>8. PathsLead'
  BY <1>3 DEF PathsLead
<1>9. NoLitter'
  BY <1>2, <1>3, TempAtIn DEF NoLitter
<1> QED
  BY <1>4, <1>5, <1>6, <1>7, <1>8, <1>9 DEF Temps

-----------------------------------------------------------------------------
(* Moves *)

\* A move that is about to take place found its destination missing.
LEMMA EntersMove ==
    ASSUME TypeOK, NEW c \in Calls, Handle(c), pc'[c] = "move", pc[c] # "move"
    PROVE  DestinationExists(c) /\ RealStatus(tree, target[c]) = "missing"
<1>1. pc = [b \in Calls |-> pc[b]]
  BY DEF TypeOK
<1>2. ASSUME NEW path, Looked(c, path) PROVE FALSE
  <2>1. \/ pc' = [pc EXCEPT ![c] = "done"] \/ pc' = [pc EXCEPT ![c] = "resolve"]
        \/ pc' = [pc EXCEPT ![c] = AfterResolve(c)] /\ AfterResolve(c) # "move"
    <3>1. AfterResolve(c) # "move"
      <4>1. request[c].tool \in Tools
        BY FileAssumption DEF TypeOK
      <4> QED
        BY <4>1 DEF AfterResolve, Tools, Readers, Writers, Walkers
    <3> QED
      BY <1>2, <3>1 DEF Looked, Grant, Finish, Goto
  <2> QED
    BY <1>1, <2>1
<1>3. CASE DestinationExists(c)
  <2>1. RealStatus(tree, target[c]) # "missing" => pc' = [pc EXCEPT ![c] = "done"]
    BY <1>3 DEF DestinationExists, Finish, Goto
  <2> QED
    BY <1>1, <1>3, <2>1
<1>4. CASE ~DestinationExists(c)
  <2>1. \/ pc' = pc \/ \E path : Looked(c, path)
        \/ \E l \in PC \ {"move"} : pc' = [pc EXCEPT ![c] = l]
    <3>1. PC = {"resolve", "ancestor", "read", "create", "fill", "rename", "sync", "remove",
                "mkdir", "isdir", "descend", "exists", "move", "open", "visit", "done"}
      BY DEF PC
    <3>2. CASE Refuse(c) \/ Fails(c) \/ Read(c) \/ ReadToEdit(c)
      BY <3>1, <3>2 DEF Refuse, Fails, Read, ReadToEdit, Finish, Goto
    <3>3. CASE LookUp(c) \/ LookAbove(c)
      BY <3>1, <3>3 DEF LookUp, LookAbove, Goto
    <3>4. CASE CreateTemp(c) \/ Fill(c) \/ FillFails(c) \/ Rename(c) \/ SyncParent(c) \/ RemoveTemp(c)
      BY <3>1, <3>4 DEF CreateTemp, Fill, FillFails, Rename, SyncParent, RemoveTemp, Finish, Goto
    <3>5. CASE MakeDirectory(c) \/ CheckDirectory(c) \/ MoveFile(c)
      BY <3>1, <3>5 DEF MakeDirectory, CheckDirectory, NextDown, MoveFile, Finish, Goto
    <3>6. CASE Open(c) \/ CloseDirectory(c) \/ SearchVisit(c) \/ TreeVisit(c)
      BY <3>1, <3>6 DEF Open, CloseDirectory, SearchVisit, TreeVisit, Truncate, Finish, Goto
    <3> QED
      BY <1>4, <3>2, <3>3, <3>4, <3>5, <3>6 DEF Handle
  <2> QED
    BY <1>1, <1>2, <2>1
<1> QED
  BY <1>3, <1>4

\* That stays so, unless the history has noted that it does not.
LEMMA FreeToMoveStep ==
    ASSUME TypeOK, FreeToMove, NEW c \in Calls, Handle(c), Watch
    PROVE  FreeToMove'
<1>1. taken' = {b \in Calls : pc'[b] = "move" /\
           (b \in taken \/ (pc[b] = "move" /\ RealStatus(tree, target[b])' # "missing"))}
  BY DEF Watch
<1>2. ASSUME NEW b \in Calls, pc'[b] = "move", b \notin taken'
      PROVE  RealStatus(tree, target[b])' = "missing"
  <2>1. CASE pc[b] = "move"
    BY <1>1, <1>2, <2>1
  <2>2. CASE pc[b] # "move"
    <3>1. b = c
      BY <1>2, <2>2, StepIsLocal DEF Others
    <3>2. DestinationExists(c) /\ RealStatus(tree, target[c]) = "missing"
      BY <1>2, <2>2, <3>1, EntersMove
    <3>3. tree' = tree /\ target' = target
      BY <3>2 DEF DestinationExists, Unchanged
    <3> QED
      BY <3>1, <3>2, <3>3
  <2> QED
    BY <2>1, <2>2
<1> QED
  BY <1>2 DEF FreeToMove

\* The entry at a place that is no link is what its path leads to.
LEMMA PlaceIsReal ==
    ASSUME NEW t \in [Paths -> Nodes(Names)], IsTree(t), NEW p \in Seq(Names), HasPlace(t, p),
           ~IsLink(t, Place(t, p))
    PROVE  RealPath(t, p) = Place(t, p)
<1>1. p # <<>> /\ IsDir(t, RealPath(t, Parent(p)))
  BY DEF HasPlace
<1>2. PICK q, x : q = Parent(p) /\ x = Last(p)
  OBVIOUS
<1>3. q \in Seq(Names) /\ x \in Names /\ p = Append(q, x)
  BY <1>1, <1>2, ParentOf
<1>4. Place(t, p) = Append(Chased(t, q), x) /\ IsDir(t, Chased(t, q))
  BY <1>1, <1>2 DEF Place, RealPath
<1>5. Chased(t, Append(q, x)) = Append(Chased(t, q), x)
  <2>1. ~IsLink(t, Append(Chased(t, q), x)) /\ Names \in SUBSET Int /\ Paths \subseteq Seq(Int)
    BY <1>4, ConstantsAre
  <2> QED
    BY <1>3, <1>4, <2>1, ChasedAppend
<1> QED
  BY <1>3, <1>4, <1>5 DEF RealPath

LatecomersOnly(c) ==
    \/ c \in taken
    \/ ~Exists(tree, Place(tree, target[c]))
    \/ IsLink(tree, Place(tree, target[c]))

\* A move that succeeds replaced a latecomer, a dead link, or nothing.
LEMMA MoveStep ==
    ASSUME TypeOK, FreeToMove, NEW c \in Calls, Handle(c), NEW b \in Calls,
           pc[b] = "move", reply'[b] = "ok"
    PROVE  LatecomersOnly(b)
<1>1. b = c
  <2>1. reply[b] = "none"
    BY DEF TypeOK
  <2> QED
    BY <2>1, StepIsLocal DEF Others
<1>2. MoveFile(c) \/ Fails(c)
  BY <1>1 DEF Handle, Refuse, LookUp, LookAbove, Read, ReadToEdit, CreateTemp, Fill, FillFails,
        Rename, SyncParent, RemoveTemp, MakeDirectory, CheckDirectory, DestinationExists, Open, CloseDirectory,
        SearchVisit, TreeVisit
<1>3. CanRename(tree, source[c], target[c])
  <2>1. reply = [a \in Calls |-> reply[a]]
    BY DEF TypeOK
  <2> QED
    BY <1>1, <1>2, <2>1 DEF MoveFile, Fails, Finish
<1>4. PICK t, p : t = tree /\ p = target[c]
  OBVIOUS
<1>5. HasPlace(t, p) /\ p \in Seq(Names) /\ t \in [Paths -> Nodes(Names)] /\ IsTree(t)
  BY <1>3, <1>4, PathsOf, TreeIsTyped DEF CanRename
<1>6. CASE ~IsLink(t, Place(t, p)) /\ c \notin taken
  <2>1. RealPath(t, p) = Place(t, p)
    BY <1>5, <1>6, PlaceIsReal
  <2>2. RealStatus(t, p) = "missing"
    BY <1>1, <1>4, <1>6 DEF FreeToMove
  <2>3. ~Exists(t, RealPath(t, p))
    BY <2>2 DEF RealStatus, RealPath
  <2> QED
    BY <1>1, <1>4, <2>1, <2>3 DEF LatecomersOnly
<1> QED
  BY <1>1, <1>4, <1>6 DEF LatecomersOnly

-----------------------------------------------------------------------------
(* Walks *)

\* The next directory on the way from d to what lies below it.
LEMMA OnTheWay ==
    ASSUME NEW t \in [Paths -> Nodes(Names)], IsTree(t), NEW p, Exists(t, p), NEW d \in Seq(Int),
           Below(p, d)
    PROVE  /\ IsDir(t, d) /\ RealPath(t, d) = d
           /\ \E q \in Children(t, d) :
                 /\ q \in Seq(Int) /\ Append(d, Last(q)) = q /\ Inside(q, d)
                 /\ p = q \/ (IsDir(t, q) /\ Below(p, q))
<1>1. /\ p \in Paths /\ p \in Seq(Int) /\ Paths \subseteq Seq(Int)
      /\ \A n \in 0..Len(p) - 1 : IsDir(t, Prefix(p, n))
  BY ConstantsAre, Ancestors
<1>2. Len(d) \in 0..Len(p) /\ Prefix(p, Len(d)) = d /\ p # d
  BY <1>1, InsideIs DEF Below
<1>3. Len(d) # Len(p)
  BY <1>1, <1>2, PrefixWhole
<1>4. PICK k \in Nat : k = Len(d)
  OBVIOUS
<1>5. k \in 0..Len(p) - 1 /\ k + 1 \in 0..Len(p) /\ k + 1 \in 1..Len(p) /\ Len(p) \in Nat
      /\ k \in 0..k + 1
  BY <1>1, <1>2, <1>3, <1>4
<1>6. IsDir(t, d)
  BY <1>1, <1>2, <1>4, <1>5
<1>7. RealPath(t, d) = d
  <2>1. Exists(t, d) /\ ~IsLink(t, d)
    BY <1>6, NodeKinds
  <2> QED
    BY <1>1, <2>1, LinkFree
<1>8. PICK q : q = Prefix(p, k + 1)
  OBVIOUS
<1>9. q \in Seq(Int) /\ Len(q) = k + 1 /\ Prefix(q, k) = d /\ q # <<>>
  <2>1. q \in Seq(Int) /\ Len(q) = k + 1
    BY <1>1, <1>5, <1>8, PrefixOf
  <2>2. Prefix(q, k) = Prefix(p, k)
    BY <1>1, <1>5, <1>8, PrefixOfPrefix
  <2> QED
    BY <1>2, <1>4, <2>1, <2>2
<1>10. Parent(q) = d /\ Append(d, Last(q)) = q
  <2>1. Parent(q) = d
    BY <1>9, <1>4 DEF Parent
  <2> QED
    BY <1>9, <2>1, ParentOf
<1>11. Inside(q, d)
  BY <1>4, <1>5, <1>9, InsideIs
<1>12. Inside(p, q)
  BY <1>1, <1>5, <1>8, <1>9, InsideIs
<1>13. p = q \/ (IsDir(t, q) /\ Below(p, q))
  <2>1. CASE k + 1 = Len(p)
    BY <1>1, <1>8, <2>1, PrefixWhole
  <2>2. CASE k + 1 # Len(p)
    <3>1. k + 1 \in 0..Len(p) - 1
      BY <1>5, <2>2
    <3> QED
      BY <1>1, <1>8, <1>9, <1>12, <2>2, <3>1 DEF Below
  <2> QED
    BY <2>1, <2>2
<1>14. q \in Children(t, d)
  <2>1. Exists(t, q) /\ q \in Paths
    BY <1>1, <1>13, NodeKinds
  <2> QED
    BY <1>9, <1>10, <2>1 DEF Children
<1> QED
  BY <1>6, <1>7, <1>9, <1>10, <1>11, <1>13, <1>14

\* What is left of a path below another one.
LEMMA RestOf ==
    ASSUME NEW p \in Seq(Int), NEW m \in 0..Len(p)
    PROVE  /\ DOMAIN SubSeq(p, m + 1, Len(p)) = 1..Len(p) - m
           /\ \A i \in 1..Len(p) - m : SubSeq(p, m + 1, Len(p))[i] = p[m + i]
<1>1. PICK k \in Nat : k = Len(p) /\ m \in 0..k
  OBVIOUS
<1>2. /\ SubSeq(p, m + 1, k) \in Seq(Int) /\ Len(SubSeq(p, m + 1, k)) = k - m
      /\ \A i \in 1..k - m : SubSeq(p, m + 1, k)[i] = p[m + i]
  <2>1. /\ SubSeq(p, m + 1, k) = [i \in 1..k - m |-> p[m + i]] /\ k - m \in Nat
    BY <1>1
  <2>2. \A i \in 1..k - m : p[m + i] \in Int
    BY <1>1
  <2>3. PICK n \in Nat : n = k - m
    BY <2>1
  <2>4. PICK f : f = SubSeq(p, m + 1, k)
    OBVIOUS
  <2>5. f = [i \in 1..n |-> p[m + i]] /\ \A i \in 1..n : p[m + i] \in Int
    BY <2>1, <2>2, <2>3, <2>4
  <2>6. f \in Seq(Int) /\ Len(f) = n
    BY <2>5
  <2> QED
    BY <2>3, <2>4, <2>5, <2>6
<1> QED
  BY <1>1, <1>2

\* What is below an excluded directory is excluded.
LEMMA ExcludedBelow ==
    ASSUME TypeOK, NEW c \in Calls, NEW p \in Seq(Int), NEW q \in Seq(Int), Inside(p, q),
           Inside(q, target[c]), Excluded(c, q)
    PROVE  Excluded(c, p)
<1>1. PICK r : r = target[c]
  OBVIOUS
<1>2. r \in Seq(Int) /\ Len(r) \in Nat /\ Len(p) \in Nat /\ Len(q) \in Nat
  BY <1>1, PathsOf
<1>3. Len(q) \in 0..Len(p) /\ Prefix(p, Len(q)) = q /\ Len(r) \in 0..Len(q)
  BY <1>1, <1>2, InsideIs
<1>4. Relative(c, p) = SubSeq(p, Len(r) + 1, Len(p)) /\ Relative(c, q) = SubSeq(q, Len(r) + 1, Len(q))
  BY <1>1 DEF Relative
<1>5. PICK n \in DOMAIN Relative(c, q) : Relative(c, q)[n] \in request[c].skip
  BY DEF Excluded
<1>6. n \in 1..Len(q) - Len(r) /\ Relative(c, q)[n] = q[Len(r) + n]
  <2>1. Len(r) \in 0..Len(q)
    BY <1>3
  <2>2. /\ DOMAIN SubSeq(q, Len(r) + 1, Len(q)) = 1..Len(q) - Len(r)
        /\ \A i \in 1..Len(q) - Len(r) : SubSeq(q, Len(r) + 1, Len(q))[i] = q[Len(r) + i]
    BY <2>1, RestOf
  <2> QED
    BY <1>4, <1>5, <2>2
<1>7. n \in DOMAIN Relative(c, p) /\ Relative(c, p)[n] = p[Len(r) + n]
  <2>1. Len(r) \in 0..Len(p) /\ n \in 1..Len(p) - Len(r)
    BY <1>2, <1>3, <1>6
  <2>2. /\ DOMAIN SubSeq(p, Len(r) + 1, Len(p)) = 1..Len(p) - Len(r)
        /\ \A i \in 1..Len(p) - Len(r) : SubSeq(p, Len(r) + 1, Len(p))[i] = p[Len(r) + i]
    BY <2>1, RestOf
  <2> QED
    BY <1>4, <2>1, <2>2
<1>8. p[Len(r) + n] = q[Len(r) + n]
  <2>1. \A i \in 1..Len(q) : Prefix(p, Len(q))[i] = p[i]
    BY <1>3, PrefixOf
  <2>2. PICK i \in 1..Len(q) : i = Len(r) + n
    BY <1>2, <1>3, <1>6
  <2> QED
    BY <1>3, <2>1, <2>2
<1> QED
  BY <1>5, <1>6, <1>7, <1>8 DEF Excluded

\* Where a granted call goes on, and with which path.
Granting(c, path) ==
    /\ pc[c] \in {"resolve", "ancestor"}
    /\ Grant(c, path) /\ IsWithin(path, roots) /\ UNCHANGED <<tree, callVars, text, reply>>

\* What a call does while its paths are looked up.
LEMMA ResolvingStep ==
    ASSUME TypeOK, Dirs # <<>>, Granted, NEW c \in Calls, Handle(c), pc[c] \in {"resolve", "ancestor"}
    PROVE  \/ pc' = [pc EXCEPT ![c] = "done"] /\ UNCHANGED <<candidate, source, target, walk>>
           \/ /\ pc' = [pc EXCEPT ![c] = "ancestor"] /\ IsWithin(Looking(c), roots)
              /\ UNCHANGED <<source, target, walk>>
           \/ \E path \in Seq(Names) : Granting(c, path)
<1>1. pc = [b \in Calls |-> pc[b]]
  BY DEF TypeOK
<1>2. CASE Refuse(c) \/ Fails(c)
  BY <1>2 DEF Refuse, Fails, Finish, Goto
<1>3. CASE LookUp(c)
  <2>1. CASE LookAgain(tree, candidate[c])
    BY <1>3, <2>1 DEF LookUp, Goto
  <2>2. CASE ~LookAgain(tree, candidate[c])
    <3>1. PICK path : path = RealPath(tree, candidate[c])
      OBVIOUS
    <3>2. path \in Seq(Names)
      <4>1. candidate[c] \in Seq(Names)
        BY DEF TypeOK
      <4> QED
        BY <3>1, <4>1, TreeIsTyped, ConstantsAre, ChasedSteps DEF RealPath
    <3>3. Looked(c, path) /\ UNCHANGED <<tree, callVars, text>>
      BY <1>3, <2>2, <3>1 DEF LookUp
    <3>4. CASE Allows(tree, candidate[c], roots)
      <4>1. IsWithin(path, roots)
        BY <3>1, <3>4 DEF Allows
      <4> QED
        BY <3>2, <3>3, <3>4, <4>1 DEF Looked, Granting
    <3>5. CASE ~Allows(tree, candidate[c], roots)
      BY <3>3, <3>5 DEF Looked, Finish, Goto
    <3> QED
      BY <3>4, <3>5
  <2> QED
    BY <2>1, <2>2
<1>4. CASE LookAbove(c)
  <2>1. pc[c] = "ancestor" /\ IsWithin(Looking(c), roots)
    BY <1>4 DEF LookAbove, Granted
  <2>2. CASE LookAgain(tree, candidate[c])
    <3>1. pc' = pc /\ UNCHANGED <<source, target, walk>>
      BY <1>4, <2>2 DEF LookAbove
    <3>2. pc' = [pc EXCEPT ![c] = "ancestor"]
      BY <1>1, <2>1, <3>1
    <3> QED
      BY <2>1, <3>1, <3>2
  <2>3. CASE ~LookAgain(tree, candidate[c])
    <3>1. PICK path : path = Looking(c)
      OBVIOUS
    <3>2. path \in Seq(Names) /\ IsWithin(path, roots)
      BY <2>1, <3>1, AskedType
    <3>3. Looked(c, path) /\ UNCHANGED <<tree, callVars, text>>
      BY <1>4, <2>3, <3>1 DEF LookAbove
    <3> QED
      BY <3>2, <3>3 DEF Looked, Granting, Finish, Goto
  <2> QED
    BY <2>2, <2>3
<1> QED
  BY <1>2, <1>3, <1>4 DEF Handle, Read, ReadToEdit, CreateTemp, Fill, FillFails, Rename, SyncParent,
        RemoveTemp, MakeDirectory, CheckDirectory, DestinationExists, MoveFile, Open, CloseDirectory, SearchVisit,
        TreeVisit

\* Elsewhere the granted paths stay, and nothing but a walk goes on with a walk.
LEMMA AfterGranted ==
    ASSUME TypeOK, OnTrack, NEW c \in Calls, Handle(c), pc[c] \notin {"resolve", "ancestor"}
    PROVE  /\ UNCHANGED <<source, target>>
           /\ pc'[c] \notin {"resolve", "ancestor"}
           /\ pc[c] \notin {"open", "visit"} => pc'[c] \notin {"open", "visit"} /\ walk' = walk
           /\ pc[c] \in {"open", "visit"} =>
                 /\ tree' = tree /\ request[c].tool \in Walkers
                 /\ \/ Open(c) \/ CloseDirectory(c) \/ SearchVisit(c) \/ TreeVisit(c)
                    \/ walk' = walk /\ Finish(c, "error")
<1>1. pc = [b \in Calls |-> pc[b]] /\ request[c].tool \in Tools
  BY FileAssumption DEF TypeOK
<1>2. pc[c] \in {"open", "visit"} => request[c].tool \in Walkers
  BY <1>1 DEF OnTrack, Stages, Tools, Readers, Writers, Walkers, Writing, Making
<1>3. CASE Fails(c)
  BY <1>1, <1>2, <1>3 DEF Fails, Finish, Goto
<1>4. CASE Read(c)
  BY <1>1, <1>4 DEF Read, Finish, Goto
<1>5. CASE ReadToEdit(c)
  BY <1>1, <1>5 DEF ReadToEdit, Finish, Goto
<1>6. CASE CreateTemp(c) \/ Fill(c) \/ FillFails(c) \/ Rename(c) \/ SyncParent(c) \/ RemoveTemp(c)
  BY <1>1, <1>6 DEF CreateTemp, Fill, FillFails, Rename, SyncParent, RemoveTemp, Unchanged, Finish, Goto
<1>7. CASE DestinationExists(c) \/ MoveFile(c)
  BY <1>1, <1>7 DEF DestinationExists, MoveFile, Unchanged, Finish, Goto
<1>9. CASE MakeDirectory(c) \/ CheckDirectory(c)
  BY <1>9, MakingIs DEF Making
<1>8. CASE Open(c) \/ CloseDirectory(c) \/ SearchVisit(c) \/ TreeVisit(c)
  <2>1. UNCHANGED <<tree, source, target>> /\ pc[c] \in {"open", "visit"}
    BY <1>8 DEF Open, CloseDirectory, SearchVisit, TreeVisit
  <2>2. pc' = pc \/ \E l \in {"open", "visit", "done"} : pc' = [pc EXCEPT ![c] = l]
    BY <1>8 DEF Open, CloseDirectory, SearchVisit, TreeVisit, Truncate, Finish, Goto
  <2> QED
    BY <1>1, <1>2, <1>8, <2>1, <2>2
<1> QED
  BY <1>3, <1>4, <1>5, <1>6, <1>7, <1>8, <1>9 DEF Handle, Refuse, LookUp, LookAbove

\* A walk starts inside the roots.
LEMMA GrantedStep ==
    ASSUME TypeOK, Dirs # <<>>, OnTrack, Granted, NEW c \in Calls, Handle(c)
    PROVE  Granted'
<1>1. /\ pc = [b \in Calls |-> pc[b]] /\ target = [b \in Calls |-> target[b]]
      /\ Others(c) /\ UNCHANGED <<roots, request>>
  BY StepIsLocal DEF TypeOK
<1>2. ASSUME NEW b \in Calls, b # c
      PROVE  /\ pc'[b] = "ancestor" => IsWithin(Looking(b)', roots')
             /\ pc'[b] \in {"open", "visit"} => IsWithin(target'[b], roots')
  BY <1>1, <1>2 DEF Granted, Others, callVars, Looking, Asked, AskedTarget, TwoPaths
<1>3. /\ pc'[c] = "ancestor" => IsWithin(Looking(c)', roots')
      /\ pc'[c] \in {"open", "visit"} => IsWithin(target'[c], roots')
  <2>1. CASE pc[c] \notin {"resolve", "ancestor"}
    <3>1. target' = target /\ pc'[c] # "ancestor"
          /\ (pc'[c] \in {"open", "visit"} => pc[c] \in {"open", "visit"})
      BY <2>1, AfterGranted
    <3> QED
      BY <1>1, <3>1 DEF Granted, callVars
  <2>2. CASE pc' = [pc EXCEPT ![c] = "done"]
    BY <1>1, <2>2
  <2>3. CASE pc' = [pc EXCEPT ![c] = "ancestor"] /\ IsWithin(Looking(c), roots) /\ source' = source
    BY <1>1, <2>3 DEF callVars, Looking, Asked, AskedTarget, TwoPaths
  <2>4. ASSUME NEW path \in Seq(Names), Granting(c, path)
        PROVE  pc'[c] # "ancestor" /\ (pc'[c] \in {"open", "visit"} => IsWithin(target'[c], roots'))
    <3>1. AfterResolve(c) # "ancestor"
      <4>1. request[c].tool \in Tools
        BY FileAssumption DEF TypeOK
      <4> QED
        BY <4>1 DEF AfterResolve, Tools, Readers, Writers, Walkers
    <3> QED
      BY <1>1, <2>4, <3>1 DEF Granting, Grant, Goto, callVars
  <2> QED
    BY <2>1, <2>2, <2>3, <2>4, ResolvingStep
<1> QED
  BY <1>2, <1>3 DEF Granted

\* Lengths of short sequences.
LEMMA EmptyIs ==
    ASSUME NEW S, NEW s \in Seq(S)
    PROVE  /\ s = <<>> <=> Len(s) = 0
           /\ Len(s) \in Nat
           /\ \A x \in S : Append(s, x) # <<>> /\ Len(Append(s, x)) = Len(s) + 1
OBVIOUS

ShapeOf(tool, label, w) ==
    /\ label \in {"resolve", "ancestor"} => w.frames = <<>>
    /\ label = "open" =>
          IF tool = "search_files" THEN w.frames = <<>>
          ELSE Len(w.waiting) <= 1 /\ (w.waiting = <<>> => w.frames = <<>>)
    /\ label = "visit" =>
          /\ w.frames # <<>>
          /\ IF tool = "search_files" THEN Len(w.frames) = 1 ELSE w.waiting = <<>>

\* WalkShape, by label.
LEMMA ShapeIs == WalkShape <=> \A c \in Calls : ShapeOf(request[c].tool, pc[c], walk[c])
BY DEF WalkShape, ShapeOf

\* A walk that starts has one directory before it.
LEMMA GrantShape ==
    ASSUME TypeOK, WalkShape, NEW c \in Calls, NEW path \in Seq(Names), Granting(c, path)
    PROVE  ShapeOf(request[c].tool, pc'[c], walk'[c])
<1>1. walk[c].frames = <<>> /\ pc = [b \in Calls |-> pc[b]]
  BY DEF WalkShape, Granting, TypeOK
<1>2. CASE TwoPaths(c) /\ source[c] = NoPath
  <2>1. pc' = [pc EXCEPT ![c] = "resolve"] /\ walk' = walk
    BY <1>2 DEF Granting, Grant, Goto
  <2> QED
    BY <1>1, <2>1 DEF ShapeOf
<1>3. CASE ~(TwoPaths(c) /\ source[c] = NoPath)
  <2>1. walk'[c].frames = <<>>
        /\ walk'[c].waiting = IF request[c].tool \in Walkers THEN <<path>> ELSE <<>>
    BY <1>1, <1>3, GrantWalk DEF Granting, Walk, callVars
  <2>2. Len(walk'[c].waiting) <= 1
    BY <2>1
  <2>3. pc'[c] # "visit"
    <3>1. AfterResolve(c) # "visit"
      <4>1. request[c].tool \in Tools
        BY FileAssumption DEF TypeOK
      <4> QED
        BY <4>1 DEF AfterResolve, Tools, Readers, Writers, Walkers
    <3>2. pc' = [pc EXCEPT ![c] = AfterResolve(c)]
      BY <1>3 DEF Granting, Grant, Goto
    <3> QED
      BY <1>1, <3>1, <3>2
  <2> QED
    BY <2>1, <2>2, <2>3 DEF ShapeOf
<1> QED
  BY <1>2, <1>3

\* Visiting an entry keeps the shape of a walk.
LEMMA VisitShape ==
    ASSUME TypeOK, WalkShape, NEW c \in Calls, pc[c] = "visit", SearchVisit(c) \/ TreeVisit(c)
    PROVE  ShapeOf(request[c].tool, pc'[c], walk'[c])
<1>1. /\ walk[c].frames # <<>> /\ pc = [b \in Calls |-> pc[b]]
      /\ walk[c].frames \in Seq(Seq(Entry)) /\ walk[c].waiting \in Seq(Seq(Int))
      /\ IF request[c].tool = "search_files" THEN Len(walk[c].frames) = 1 ELSE walk[c].waiting = <<>>
  BY WalkOf DEF WalkShape, TypeOK
<1>2. Frame(c) # <<>>
  BY DEF SearchVisit, TreeVisit
<1>3. EntryTaken(c) # <<>> /\ Len(EntryTaken(c)) = Len(walk[c].frames)
  <2>1. PICK f : f = Front(walk[c].frames)
    OBVIOUS
  <2>2. f \in Seq(Seq(Entry)) /\ Len(f) = Len(walk[c].frames) - 1 /\ Len(walk[c].frames) \in Nat
    BY <1>1, <2>1, FrontOf
  <2>3. Tail(Frame(c)) \in Seq(Entry)
    BY <1>1, <1>2, VisitTypes, HeadTailProperties
  <2> QED
    BY <2>1, <2>2, <2>3 DEF EntryTaken
<1>4. CASE Truncate(c)
  BY <1>1, <1>4 DEF Truncate, Finish, Goto, ShapeOf
<1>5. CASE SearchVisit(c) /\ ~Truncate(c)
  <2>1. ~LimitReached(c, Hit(c)) /\ request[c].tool = "search_files"
    BY <1>5 DEF SearchVisit, Hit
  <2>2. walk'[c].frames = EntryTaken(c) /\ pc' = pc
    BY <1>1, <1>5, <2>1, SearchWalk DEF Walk
  <2> QED
    BY <1>1, <1>3, <2>1, <2>2 DEF ShapeOf
<1>6. CASE TreeVisit(c) /\ ~Truncate(c)
  <2>1. Cardinality(walk[c].found) # TreeBudget /\ request[c].tool = "directory_tree"
    BY <1>6 DEF TreeVisit
  <2>2. /\ walk'[c].frames = EntryTaken(c) /\ walk'[c].waiting = Push(c)
        /\ Goto(c, IF NextEntry(c).dir /\ ~Skipped(c) THEN "open" ELSE "visit")
    BY <1>1, <1>6, <2>1, TreeWalk DEF Walk
  <2>3. CASE NextEntry(c).dir /\ ~Skipped(c)
    <3>1. Push(c) = Append(<<>>, NextEntry(c).path) /\ pc' = [pc EXCEPT ![c] = "open"]
      BY <1>1, <2>1, <2>2, <2>3 DEF Push, Goto
    <3>2. Len(Push(c)) = 1 /\ Push(c) # <<>>
      BY <3>1
    <3> QED
      BY <1>1, <2>1, <2>2, <3>1, <3>2 DEF ShapeOf
  <2>4. CASE ~(NextEntry(c).dir /\ ~Skipped(c))
    <3>1. Push(c) = <<>> /\ pc' = [pc EXCEPT ![c] = "visit"]
      BY <1>1, <2>1, <2>2, <2>4 DEF Push, Goto
    <3> QED
      BY <1>1, <1>3, <2>1, <2>2, <3>1 DEF ShapeOf
  <2> QED
    BY <2>3, <2>4
<1> QED
  BY <1>4, <1>5, <1>6

\* A search holds one open directory, a tree waits for at most one.
LEMMA WalkShapeStep ==
    ASSUME TypeOK, Dirs # <<>>, OnTrack, Granted, WalkShape, NEW c \in Calls, Handle(c)
    PROVE  WalkShape'
<1>1. /\ pc = [b \in Calls |-> pc[b]] /\ Others(c) /\ UNCHANGED <<roots, request>>
      /\ ShapeOf(request[c].tool, pc[c], walk[c])
      /\ walk[c].frames \in Seq(Seq(Entry)) /\ walk[c].waiting \in Seq(Seq(Int))
  BY StepIsLocal, ShapeIs, WalkOf DEF TypeOK
<1>2. ASSUME NEW b \in Calls, b # c PROVE ShapeOf(request'[b].tool, pc'[b], walk'[b])
  <2>1. ShapeOf(request[b].tool, pc[b], walk[b])
    BY ShapeIs
  <2> QED
    BY <1>1, <1>2, <2>1 DEF Others, callVars
<1>3. ShapeOf(request[c].tool, pc'[c], walk'[c])
  <2>1. CASE pc[c] \in {"resolve", "ancestor"}
    <3>1. CASE pc' = [pc EXCEPT ![c] = "done"]
      BY <1>1, <3>1 DEF ShapeOf
    <3>2. CASE pc' = [pc EXCEPT ![c] = "ancestor"] /\ walk' = walk
      BY <1>1, <2>1, <3>2 DEF ShapeOf
    <3> QED
      BY <2>1, <3>1, <3>2, ResolvingStep, GrantShape
  <2>2. CASE pc[c] \notin {"resolve", "ancestor", "open", "visit"}
    <3>1. pc'[c] \notin {"resolve", "ancestor", "open", "visit"}
      BY <2>2, AfterGranted
    <3> QED
      BY <3>1 DEF ShapeOf
  <2>3. CASE Finish(c, "error")
    BY <1>1, <2>3 DEF Finish, Goto, ShapeOf
  <2>4. CASE Open(c)
    <3>1. pc[c] = "open"
      BY <2>4 DEF Open
    <3>2. CASE walk[c].waiting # <<>> /\ LeadsToDir(tree, Last(walk[c].waiting))
      <4>1. PICK d, e : d = Last(walk[c].waiting) /\ e = Entries(d)
        OBVIOUS
      <4>2. /\ walk'[c].frames = Append(walk[c].frames, e) /\ walk'[c].waiting = Front(walk[c].waiting)
            /\ pc' = [pc EXCEPT ![c] = "visit"]
        BY <2>4, <3>2, <4>1, OpenWalk, OpenStep DEF Walk
      <4>3. CASE request[c].tool = "search_files"
        <5>1. Append(<<>>, e) # <<>> /\ Len(Append(<<>>, e)) = 1
          OBVIOUS
        <5> QED
          BY <1>1, <3>1, <4>2, <4>3, <5>1 DEF ShapeOf
      <4>4. CASE request[c].tool # "search_files"
        <5>1. PICK w : w = walk[c].waiting
          OBVIOUS
        <5>4. w \in Seq(Seq(Int)) /\ w # <<>> /\ Len(w) <= 1
          BY <1>1, <3>1, <3>2, <4>4, <5>1 DEF ShapeOf
        <5>5. Front(w) \in Seq(Seq(Int)) /\ Len(Front(w)) = Len(w) - 1 /\ Len(w) \in Nat \ {0}
          BY <5>4, FrontOf
        <5>6. Len(Front(w)) = 0
          BY <5>4, <5>5
        <5>2. Front(walk[c].waiting) = <<>>
          BY <5>1, <5>5, <5>6, EmptyIs
        <5>3. Append(walk[c].frames, e) # <<>>
          <6>1. e \in Seq(Entry)
            BY <2>4, <3>2, <4>1, OpenWalk
          <6> QED
            BY <1>1, <6>1, EmptyIs
        <5> QED
          BY <1>1, <4>2, <4>4, <5>2, <5>3 DEF ShapeOf
      <4> QED
        BY <4>3, <4>4
    <3>3. CASE ~(walk[c].waiting # <<>> /\ LeadsToDir(tree, Last(walk[c].waiting)))
      <4>1. pc' = [pc EXCEPT ![c] = "done"]
        BY <2>4, <3>3 DEF Open, Finish, Goto
      <4> QED
        BY <1>1, <4>1 DEF ShapeOf
    <3> QED
      BY <3>2, <3>3
  <2>5. CASE CloseDirectory(c)
    <3>1. pc[c] = "visit" /\ walk[c].frames # <<>>
      BY <1>1, <2>5 DEF CloseDirectory, ShapeOf
    <3>2. /\ walk'[c].frames = Front(walk[c].frames) /\ walk'[c].waiting = walk[c].waiting
          /\ pc' = [pc EXCEPT ![c] = IF Len(walk[c].frames) = 1 THEN "open" ELSE "visit"]
      BY <2>5, <3>1, CloseWalk DEF Walk, CloseDirectory, Goto
    <3>3. Len(Front(walk[c].frames)) = Len(walk[c].frames) - 1 /\ Front(walk[c].frames) \in Seq(Seq(Entry))
          /\ Len(walk[c].frames) \in Nat \ {0}
      BY <1>1, <3>1, FrontOf
    <3>4. CASE Len(walk[c].frames) = 1
      <4>1. Front(walk[c].frames) = <<>>
        BY <3>3, <3>4
      <4>2. request[c].tool # "search_files" => walk[c].waiting = <<>>
        BY <1>1, <3>1 DEF ShapeOf
      <4> QED
        BY <1>1, <3>2, <3>4, <4>1, <4>2 DEF ShapeOf
    <3>5. CASE Len(walk[c].frames) # 1
      <4>1. Front(walk[c].frames) # <<>>
        <5>1. PICK n, m : n = Len(walk[c].frames) /\ m = Len(Front(walk[c].frames))
          OBVIOUS
        <5>2. n \in Nat /\ m = n - 1 /\ n # 1
          BY <3>3, <3>5, <5>1
        <5>3. m # 0
          BY <5>2
        <5> QED
          BY <3>3, <5>1, <5>3, EmptyIs
      <4>2. request[c].tool # "search_files" /\ walk[c].waiting = <<>>
        BY <1>1, <3>1, <3>5 DEF ShapeOf
      <4> QED
        BY <1>1, <3>2, <3>5, <4>1, <4>2 DEF ShapeOf
    <3> QED
      BY <3>4, <3>5
  <2>6. CASE SearchVisit(c) \/ TreeVisit(c)
    BY <2>6, VisitShape DEF SearchVisit, TreeVisit
  <2> QED
    BY <2>1, <2>2, <2>3, <2>4, <2>5, <2>6, AfterGranted
<1>4. ASSUME NEW b \in Calls PROVE ShapeOf(request'[b].tool, pc'[b], walk'[b])
  BY <1>1, <1>2, <1>3 DEF callVars
<1> QED
  BY <1>4 DEF WalkShape, ShapeOf

-----------------------------------------------------------------------------
(* A walk passes nothing by *)

\* Frames and waiting directories lead on to the same paths when one is added ...
LEMMA FramesGrow ==
    ASSUME NEW fs \in Seq(Seq(Entry)), NEW f \in Seq(Entry), NEW r, NEW p,
           InFrames(fs, r, p) \/ InFrame(f, r, p)
    PROVE  InFrames(Append(fs, f), r, p)
<1>1. PICK g : g = Append(fs, f)
  OBVIOUS
<1>2. /\ g \in Seq(Seq(Entry)) /\ Len(g) = Len(fs) + 1 /\ Len(fs) \in Nat /\ g[Len(fs) + 1] = f
      /\ \A m \in 1..Len(fs) : g[m] = fs[m]
      /\ DOMAIN g = 1..Len(g) /\ DOMAIN fs = 1..Len(fs)
  BY <1>1
<1>3. Len(fs) + 1 \in DOMAIN g /\ \A m \in DOMAIN fs : m \in DOMAIN g
  BY <1>2
<1> QED
  BY <1>1, <1>2, <1>3 DEF InFrames

\* ... but for those of the last one when it goes.
LEMMA FramesShrink ==
    ASSUME NEW fs \in Seq(Seq(Entry)), fs # <<>>, NEW r, NEW p, InFrames(fs, r, p)
    PROVE  InFrames(Front(fs), r, p) \/ InFrame(Last(fs), r, p)
<1>1. PICK m \in DOMAIN fs : InFrame(fs[m], r, p)
  BY DEF InFrames
<1>2. PICK g : g = Front(fs)
  OBVIOUS
<1>3. /\ g \in Seq(Seq(Entry)) /\ Len(fs) \in Nat \ {0} /\ Len(g) = Len(fs) - 1
      /\ \A n \in 1..Len(fs) - 1 : g[n] = fs[n]
      /\ Last(fs) = fs[Len(fs)]
  BY <1>2, FrontOf
<1>4. DOMAIN g = 1..Len(fs) - 1 /\ DOMAIN fs = 1..Len(fs)
  BY <1>3
<1>5. CASE m = Len(fs)
  BY <1>1, <1>3, <1>5
<1>6. CASE m # Len(fs)
  <2>1. m \in DOMAIN g /\ g[m] = fs[m]
    BY <1>3, <1>4, <1>6
  <2> QED
    BY <1>1, <1>2, <2>1 DEF InFrames
<1> QED
  BY <1>5, <1>6

\* An entry taken from a frame leaves the paths the others lead on to.
LEMMA FrameShrinks ==
    ASSUME NEW f \in Seq(Entry), f # <<>>, NEW r, NEW p, InFrame(f, r, p)
    PROVE  LeadsOn(Head(f), r, p) \/ InFrame(Tail(f), r, p)
<1>1. PICK n \in DOMAIN f : LeadsOn(f[n], r, p)
  BY DEF InFrame
<1>2. PICK g, k : g = Tail(f) /\ k = Len(f)
  OBVIOUS
<1>3. /\ k \in Nat /\ DOMAIN f = 1..k /\ Head(f) = f[1] /\ DOMAIN g = 1..k - 1
      /\ \A i \in 1..k - 1 : g[i] = f[i + 1]
  <2>1. g \in Seq(Entry) /\ Len(g) = Len(f) - 1 /\ \A i \in 1..Len(g) : g[i] = f[i + 1]
    BY <1>2, HeadTailProperties
  <2> QED
    BY <1>2, <2>1
<1>4. CASE n = 1
  BY <1>1, <1>3, <1>4
<1>5. CASE n # 1
  <2>1. PICK i : i = n - 1
    OBVIOUS
  <2>2. i \in 1..k - 1 /\ i + 1 = n
    BY <1>3, <1>5, <2>1
  <2>3. g[i] = f[n] /\ i \in DOMAIN g
    BY <1>3, <2>2
  <2> QED
    BY <1>1, <1>2, <2>3 DEF InFrame
<1> QED
  BY <1>4, <1>5

\* The same for the directories that wait.
LEMMA WaitingGrows ==
    ASSUME NEW ws \in Seq(Seq(Int)), NEW d \in Seq(Int), NEW r, NEW p,
           WaitedFor(ws, r, p) \/ (Below(p, d) /\ Inside(d, r))
    PROVE  WaitedFor(Append(ws, d), r, p)
<1>1. PICK g : g = Append(ws, d)
  OBVIOUS
<1>2. /\ g \in Seq(Seq(Int)) /\ Len(g) = Len(ws) + 1 /\ Len(ws) \in Nat /\ g[Len(ws) + 1] = d
      /\ \A m \in 1..Len(ws) : g[m] = ws[m]
      /\ DOMAIN g = 1..Len(g) /\ DOMAIN ws = 1..Len(ws)
  BY <1>1
<1>3. Len(ws) + 1 \in DOMAIN g /\ \A m \in DOMAIN ws : m \in DOMAIN g
  BY <1>2
<1> QED
  BY <1>1, <1>2, <1>3 DEF WaitedFor

\* The last one that waits is what a walk goes on with.
LEMMA WaitingShrinks ==
    ASSUME NEW ws \in Seq(Seq(Int)), ws # <<>>, NEW r, NEW p, WaitedFor(ws, r, p)
    PROVE  WaitedFor(Front(ws), r, p) \/ (Below(p, Last(ws)) /\ Inside(Last(ws), r))
<1>1. PICK m \in DOMAIN ws : Below(p, ws[m]) /\ Inside(ws[m], r)
  BY DEF WaitedFor
<1>2. PICK g : g = Front(ws)
  OBVIOUS
<1>3. /\ g \in Seq(Seq(Int)) /\ Len(ws) \in Nat \ {0} /\ Len(g) = Len(ws) - 1
      /\ \A n \in 1..Len(ws) - 1 : g[n] = ws[n]
      /\ Last(ws) = ws[Len(ws)]
  BY <1>2, FrontOf
<1>4. DOMAIN g = 1..Len(ws) - 1 /\ DOMAIN ws = 1..Len(ws)
  BY <1>3
<1>5. CASE m = Len(ws)
  BY <1>1, <1>3, <1>5
<1>6. CASE m # Len(ws)
  <2>1. m \in DOMAIN g /\ g[m] = ws[m]
    BY <1>3, <1>4, <1>6
  <2> QED
    BY <1>1, <1>2, <2>1 DEF WaitedFor
<1> QED
  BY <1>5, <1>6

\* Opening a directory loses nothing that was ahead of the walk.
LEMMA OpenAhead ==
    ASSUME TypeOK, NEW c \in Calls, Open(c), walk[c].waiting # <<>>,
           LeadsToDir(tree, Last(walk[c].waiting)), target'[c] = target[c],
           NEW p, Exists(tree, p), Ahead(c, p)
    PROVE  Ahead(c, p)'
<1>1. PICK t, r, ws, fs, d, e :
        /\ t = tree /\ r = target[c] /\ ws = walk[c].waiting /\ fs = walk[c].frames
        /\ d = Last(ws) /\ e = Entries(d)
  OBVIOUS
<1>2. /\ walk'[c].found = walk[c].found /\ walk'[c].waiting = Front(ws)
      /\ walk'[c].frames = Append(fs, e) /\ e \in Seq(Entry) /\ d \in Seq(Int)
  BY <1>1, OpenWalk DEF Walk
<1>3. ws \in Seq(Seq(Int)) /\ fs \in Seq(Seq(Entry)) /\ ws # <<>> /\ r \in Seq(Int)
  BY <1>1, WalkOf, PathsOf
<1>4. CASE p \in walk[c].found
  BY <1>2, <1>4 DEF Ahead
<1>5. CASE WaitedFor(Front(ws), r, p)
  BY <1>1, <1>2, <1>5 DEF Ahead
<1>6. CASE InFrames(fs, r, p)
  BY <1>1, <1>2, <1>3, <1>6, FramesGrow DEF Ahead
<1>7. CASE Below(p, d) /\ Inside(d, r)
  <2>1. t \in [Paths -> Nodes(Names)] /\ IsTree(t) /\ Exists(t, p)
    BY <1>1, TreeIsTyped
  <2>2. RealPath(t, d) = d /\ \E q \in Children(t, d) :
             /\ q \in Seq(Int) /\ Append(d, Last(q)) = q /\ Inside(q, d)
             /\ p = q \/ (IsDir(t, q) /\ Below(p, q))
    BY <1>2, <1>7, <2>1, OnTheWay
  <2>3. PICK q \in Children(t, d) :
             /\ q \in Seq(Int) /\ Append(d, Last(q)) = q /\ Inside(q, d)
             /\ p = q \/ (IsDir(t, q) /\ Below(p, q))
    BY <2>2
  <2>4. PICK n \in DOMAIN e : e[n] = [path |-> q, dir |-> IsDir(t, q)]
    <3>1. RealPath(tree, d) = d
      BY <1>1, <2>2
    <3>2. \A a \in Children(tree, d) : \E n \in DOMAIN Entries(d) :
              Entries(d)[n] = [path |-> Append(d, Last(a)), dir |-> IsDir(tree, a)]
      BY <1>2, <3>1, EntriesAre
    <3> QED
      BY <1>1, <2>3, <3>2
  <2>5. Inside(q, r)
    BY <1>2, <1>3, <1>7, <2>3, InsideTransitive
  <2>6. LeadsOn(e[n], r, p)
    BY <2>3, <2>4, <2>5 DEF LeadsOn
  <2>7. InFrame(e, r, p)
    BY <2>4, <2>6 DEF InFrame
  <2>8. InFrames(Append(fs, e), r, p)
    BY <1>2, <1>3, <2>7, FramesGrow
  <2> QED
    BY <1>1, <1>2, <2>8 DEF Ahead
<1> QED
  BY <1>1, <1>3, <1>4, <1>5, <1>6, <1>7, WaitingShrinks DEF Ahead

\* A directory read to its end leads on to nothing.
LEMMA CloseAhead ==
    ASSUME TypeOK, NEW c \in Calls, CloseDirectory(c), walk[c].frames # <<>>, target'[c] = target[c],
           NEW p, Ahead(c, p)
    PROVE  Ahead(c, p)'
<1>1. PICK r, fs : r = target[c] /\ fs = walk[c].frames
  OBVIOUS
<1>2. /\ walk'[c].found = walk[c].found /\ walk'[c].waiting = walk[c].waiting
      /\ walk'[c].frames = Front(fs) /\ Last(fs) = <<>>
  BY <1>1, CloseWalk DEF Walk, CloseDirectory, Frame
<1>3. fs \in Seq(Seq(Entry)) /\ fs # <<>>
  BY <1>1, WalkOf
<1>4. ~InFrame(Last(fs), r, p)
  BY <1>2 DEF InFrame
<1>5. InFrames(fs, r, p) => InFrames(Front(fs), r, p)
  BY <1>3, <1>4, FramesShrink
<1> QED
  BY <1>1, <1>2, <1>5 DEF Ahead

\* Entries on the way to what may be shown are never skipped.
LEMMA OnTheWayIsPushed ==
    ASSUME TypeOK, NEW c \in Calls, IsWithin(target[c], roots), NEW e \in Seq(Int),
           NEW p, Shown(c, p), ~Excluded(c, p), Below(p, e), Inside(e, target[c])
    PROVE  Valid(tree, e, roots) /\ ~Excluded(c, e)
<1>1. PICK t, r : t = tree /\ r = target[c]
  OBVIOUS
<1>2. /\ t \in [Paths -> Nodes(Names)] /\ IsTree(t) /\ Exists(t, p) /\ r \in Seq(Int)
      /\ Paths \subseteq Seq(Int) /\ roots \in SUBSET Seq(Int)
  BY <1>1, TreeIsTyped, PathsOf, ConstantsAre DEF Shown, TypeOK
<1>3. IsDir(t, e)
  BY <1>2, OnTheWay
<1>4. IsWithin(e, roots)
  BY <1>1, <1>2, WithinBelow
<1>5. Valid(t, e, roots)
  BY <1>2, <1>3, <1>4, DirIsValid
<1>6. ~Excluded(c, e)
  <2>1. p \in Seq(Int) /\ Inside(p, e)
    BY <1>2, NodeKinds DEF Below
  <2> QED
    BY <2>1, ExcludedBelow
<1> QED
  BY <1>1, <1>5, <1>6

\* An entry that is visited was found, is led on to, or was excluded.
LEMMA VisitAhead ==
    ASSUME TypeOK, NEW c \in Calls, walk[c].frames # <<>>, Frame(c) # <<>>,
           IsWithin(target[c], roots), target'[c] = target[c],
           NEW p, Shown(c, p), ~Excluded(c, p), Ahead(c, p),
           walk'[c].frames = EntryTaken(c), walk'[c].waiting = Push(c),
           p \in walk[c].found => p \in walk'[c].found,
           ~Skipped(c) /\ p = NextEntry(c).path => p \in walk'[c].found
    PROVE  Ahead(c, p)'
<1>1. PICK r, ws, fs, f, e :
        /\ r = target[c] /\ ws = walk[c].waiting /\ fs = walk[c].frames
        /\ f = Frame(c) /\ e = NextEntry(c)
  OBVIOUS
<1>2. /\ ws \in Seq(Seq(Int)) /\ fs \in Seq(Seq(Entry)) /\ fs # <<>> /\ r \in Seq(Int)
      /\ f \in Seq(Entry) /\ f # <<>> /\ Last(fs) = f /\ e \in Entry /\ e.path \in Seq(Int)
      /\ Head(f) = e
  BY <1>1, WalkOf, PathsOf, VisitTypes DEF Frame, NextEntry
<1>3. /\ walk'[c].frames = Append(Front(fs), Tail(f))
      /\ Front(fs) \in Seq(Seq(Entry)) /\ Tail(f) \in Seq(Entry)
  BY <1>1, <1>2, FrontOf, HeadTailProperties DEF EntryTaken
<1>4. /\ walk'[c].waiting = IF e.dir /\ ~Skipped(c) THEN Append(ws, e.path) ELSE ws
  BY <1>1 DEF Push
<1>5. CASE p \in walk[c].found
  BY <1>5 DEF Ahead
<1>6. CASE WaitedFor(ws, r, p)
  <2>1. WaitedFor(Append(ws, e.path), r, p)
    BY <1>2, <1>6, WaitingGrows
  <2> QED
    BY <1>1, <1>4, <1>6, <2>1 DEF Ahead
<1>7. CASE InFrames(Front(fs), r, p) \/ InFrame(Tail(f), r, p)
  <2>1. InFrames(Append(Front(fs), Tail(f)), r, p)
    BY <1>3, <1>7, FramesGrow
  <2> QED
    BY <1>1, <1>3, <2>1 DEF Ahead
<1>8. CASE p = e.path
  <2>1. ~Skipped(c)
    BY <1>1, <1>8 DEF Skipped, Shown
  <2> QED
    BY <1>1, <1>8, <2>1 DEF Ahead
<1>9. CASE e.dir /\ Below(p, e.path) /\ Inside(e.path, r)
  <2>1. PICK d : d = e.path
    OBVIOUS
  <2>2. Valid(tree, d, roots) /\ ~Excluded(c, d)
    BY <1>1, <1>2, <1>9, <2>1, OnTheWayIsPushed
  <2>3. ~Skipped(c)
    BY <1>1, <2>1, <2>2 DEF Skipped
  <2>4. WaitedFor(Append(ws, d), r, p)
    BY <1>2, <1>9, <2>1, WaitingGrows
  <2> QED
    BY <1>1, <1>4, <1>9, <2>1, <2>3, <2>4 DEF Ahead
<1>10. InFrames(fs, r, p) => LeadsOn(e, r, p) \/ InFrames(Front(fs), r, p) \/ InFrame(Tail(f), r, p)
  BY <1>2, FramesShrink, FrameShrinks
<1> QED
  BY <1>1, <1>5, <1>6, <1>7, <1>8, <1>9, <1>10 DEF Ahead, LeadsOn

\* A step of a walk that goes on.
LEMMA WalkAhead ==
    ASSUME TypeOK, OnTrack, Granted, WalkShape, NEW c \in Calls, Handle(c),
           pc[c] \in {"open", "visit"}, pc'[c] \in {"open", "visit"},
           NEW p, Shown(c, p), Wanted(c, p), Ahead(c, p)
    PROVE  Ahead(c, p)'
<1>1. /\ target' = target /\ pc = [b \in Calls |-> pc[b]] /\ IsWithin(target[c], roots)
      /\ \/ Open(c) \/ CloseDirectory(c) \/ SearchVisit(c) \/ TreeVisit(c)
         \/ Finish(c, "error")
  BY AfterGranted DEF TypeOK, Granted
<1>2. ~Finish(c, "error") /\ ~Finish(c, "ok")
  BY <1>1 DEF Finish, Goto
<1>3. Exists(tree, p) /\ ~Excluded(c, p) /\ (request[c].tool = "search_files" => Matches(c, p))
  BY DEF Shown, Wanted
<1>4. CASE Open(c)
  <2>1. walk[c].waiting # <<>> /\ LeadsToDir(tree, Last(walk[c].waiting))
    BY <1>2, <1>4 DEF Open
  <2> QED
    BY <1>1, <1>3, <1>4, <2>1, OpenAhead
<1>5. CASE CloseDirectory(c)
  <2>1. walk[c].frames # <<>>
    BY <1>5 DEF CloseDirectory, WalkShape
  <2> QED
    BY <1>1, <1>5, <2>1, CloseAhead
<1>6. CASE SearchVisit(c)
  <2>1. walk[c].frames # <<>> /\ Frame(c) # <<>> /\ request[c].tool = "search_files"
    BY <1>6 DEF SearchVisit, WalkShape
  <2>2. ~LimitReached(c, Hit(c))
    BY <1>2, <1>6 DEF SearchVisit, Truncate, Hit
  <2>3. /\ walk'[c].frames = EntryTaken(c) /\ walk'[c].waiting = Push(c)
        /\ walk'[c].found = IF Hit(c) THEN walk[c].found \cup {NextEntry(c).path} ELSE walk[c].found
    BY <1>6, <2>1, <2>2, SearchWalk DEF Walk
  <2>4. ~Skipped(c) /\ p = NextEntry(c).path => p \in walk'[c].found
    BY <1>3, <2>1, <2>3 DEF Hit
  <2>5. p \in walk[c].found => p \in walk'[c].found
    BY <2>3
  <2> QED
    BY <1>1, <1>3, <2>1, <2>3, <2>4, <2>5, VisitAhead
<1>7. CASE TreeVisit(c)
  <2>1. walk[c].frames # <<>> /\ Frame(c) # <<>>
    BY <1>7 DEF TreeVisit, WalkShape
  <2>2. Cardinality(walk[c].found) # TreeBudget
    BY <1>2, <1>7 DEF TreeVisit, Truncate
  <2>3. /\ walk'[c].frames = EntryTaken(c) /\ walk'[c].waiting = Push(c)
        /\ walk'[c].found = IF Skipped(c) THEN walk[c].found ELSE walk[c].found \cup {NextEntry(c).path}
    BY <1>7, <2>1, <2>2, TreeWalk DEF Walk
  <2>4. ~Skipped(c) /\ p = NextEntry(c).path => p \in walk'[c].found
    BY <2>3
  <2>5. p \in walk[c].found => p \in walk'[c].found
    BY <2>3
  <2> QED
    BY <1>1, <1>3, <2>1, <2>3, <2>4, <2>5, VisitAhead
<1> QED
  BY <1>1, <1>2, <1>4, <1>5, <1>6, <1>7

\* What a walk could have seen, after a step.
LEMMA StaysAre ==
    ASSUME NEW b \in Calls, Watch
    PROVE  /\ pc[b] = "done" => stays'[b] = stays[b]
           /\ pc[b] # "done" /\ request[b].tool \in Walkers =>
                 stays'[b] = IF pc'[b] = "open" /\ pc[b] \in {"resolve", "ancestor"}
                             THEN {p \in Paths : Shown(b, p)'}
                             ELSE {p \in stays[b] : SameKind(p) /\ Shown(b, p)'}
<1>1. stays'[b] =
        CASE pc[b] = "done" \/ request[b].tool \notin Walkers -> stays[b]
          [] pc'[b] = "open" /\ pc[b] \in {"resolve", "ancestor"} -> {p \in Paths : Shown(b, p)'}
          [] OTHER -> {p \in stays[b] : SameKind(p) /\ Shown(b, p)'}
  BY DEF Watch
<1>2. PICK A, B, D : A = stays[b] /\ B = {p \in Paths : Shown(b, p)'}
                     /\ D = {p \in stays[b] : SameKind(p) /\ Shown(b, p)'}
  OBVIOUS
<1>3. stays'[b] =
        CASE pc[b] = "done" \/ request[b].tool \notin Walkers -> A
          [] pc'[b] = "open" /\ pc[b] \in {"resolve", "ancestor"} -> B
          [] OTHER -> D
  BY <1>1, <1>2, Zenon
<1>4. /\ pc[b] = "done" => stays'[b] = A
      /\ pc[b] # "done" /\ request[b].tool \in Walkers =>
            stays'[b] = IF pc'[b] = "open" /\ pc[b] \in {"resolve", "ancestor"} THEN B ELSE D
  BY <1>3
<1> QED
  BY <1>2, <1>4, Zenon

\* Everything below its root is ahead of a walk that starts.
LEMMA GrantAhead ==
    ASSUME TypeOK, NEW c \in Calls, NEW path \in Seq(Names), Granting(c, path),
           pc'[c] \in {"open", "visit"}
    PROVE  /\ pc'[c] = "open"
           /\ \A p : Shown(c, p)' => Ahead(c, p)'
<1>1. pc = [b \in Calls |-> pc[b]] /\ target = [b \in Calls |-> target[b]] /\ request[c].tool \in Tools
  BY FileAssumption DEF TypeOK
<1>2. ~(TwoPaths(c) /\ source[c] = NoPath)
  BY <1>1 DEF Granting, Grant, Goto
<1>3. pc'[c] = AfterResolve(c) /\ target'[c] = path
  BY <1>1, <1>2 DEF Granting, Grant, Goto
<1>4. request[c].tool \in Walkers /\ pc'[c] = "open"
  BY <1>1, <1>3 DEF AfterResolve, Tools, Readers, Writers, Walkers
<1>5. walk'[c].waiting = <<path>>
  BY <1>2, <1>4, GrantWalk DEF Granting, Walk, callVars
<1>6. Inside(path, path)
  BY InsideItself
<1>7. ASSUME NEW p, Below(p, path) PROVE WaitedFor(<<path>>, path, p)
  <2>1. 1 \in DOMAIN <<path>> /\ <<path>>[1] = path
    OBVIOUS
  <2> QED
    BY <1>6, <1>7, <2>1 DEF WaitedFor
<1> QED
  BY <1>3, <1>4, <1>5, <1>7 DEF Ahead, Shown

\* What stays all the while is found or ahead.
LEMMA CoveredStep ==
    ASSUME TypeOK, Dirs # <<>>, OnTrack, Walked, NEW c \in Calls, Handle(c), Watch
    PROVE  Covered'
<1>1. Others(c) /\ UNCHANGED <<roots, request>> /\ pc[c] # "done" /\ Granted /\ WalkShape /\ Covered
  BY StepIsLocal DEF Walked
<1>2. ASSUME NEW b \in Calls, pc'[b] \in {"open", "visit"}, NEW p \in stays'[b]
      PROVE  p \in Paths /\ Shown(b, p)' /\ (Wanted(b, p)' => Ahead(b, p)')
  <2>1. CASE pc[b] \in {"resolve", "ancestor"}
    <3>1. b = c
      BY <1>1, <1>2, <2>1 DEF Others
    <3>2. PICK path \in Seq(Names) : Granting(c, path)
      <4>1. pc = [a \in Calls |-> pc[a]]
        BY DEF TypeOK
      <4> QED
        BY <1>1, <1>2, <2>1, <3>1, <4>1, ResolvingStep
    <3>3. pc'[b] = "open" /\ (Shown(b, p)' => Ahead(b, p)')
      BY <1>2, <3>1, <3>2, GrantAhead
    <3>4. request[b].tool \in Walkers
      <4>1. OnTrack' /\ request' = request /\ request[b].tool \in Tools
        BY <1>1, OnTrackStep, FileAssumption DEF callVars, TypeOK
      <4> QED
        BY <3>3, <4>1 DEF OnTrack, Stages, Writing, Making, Tools, Readers, Writers, Walkers
    <3>5. p \in Paths /\ Shown(b, p)'
      BY <1>2, <2>1, <3>3, <3>4, StaysAre
    <3> QED
      BY <3>3, <3>5
  <2>2. CASE pc[b] \in {"open", "visit"}
    <3>1. request[b].tool \in Walkers
      <4>1. request[b].tool \in Tools
        BY FileAssumption DEF TypeOK
      <4> QED
        BY <2>2, <4>1 DEF OnTrack, Stages, Writing, Making, Tools, Readers, Writers, Walkers
    <3>2. p \in stays[b] /\ Shown(b, p)'
      BY <1>2, <2>2, <3>1, StaysAre
    <3>3. p \in Paths /\ Shown(b, p) /\ (Wanted(b, p) => Ahead(b, p))
      BY <1>1, <2>2, <3>2 DEF Covered
    <3>4. target'[b] = target[b]
      BY <1>1, <2>2, AfterGranted DEF Others
    <3>5. Wanted(b, p)' => Wanted(b, p)
      BY <1>1, <3>4 DEF callVars, Wanted, Excluded, Relative, Matches
    <3>6. CASE b = c
      BY <1>1, <1>2, <2>2, <3>2, <3>3, <3>5, <3>6, WalkAhead
    <3>7. CASE b # c
      BY <1>1, <3>2, <3>3, <3>5, <3>7 DEF Others, Ahead
    <3> QED
      BY <3>6, <3>7
  <2>3. CASE pc[b] \notin {"resolve", "ancestor", "open", "visit"}
    BY <1>1, <1>2, <2>3, AfterGranted DEF Others
  <2> QED
    BY <2>1, <2>2, <2>3
<1> QED
  BY <1>2 DEF Covered

\* How a walk comes to say that it is done.
LEMMA EndsWalk ==
    ASSUME TypeOK, OnTrack, NEW c \in Calls, Handle(c), request[c].tool \in Walkers, reply'[c] = "ok"
    PROVE  \/ pc[c] = "open" /\ walk[c].waiting = <<>> /\ walk' = walk /\ target' = target
           \/ pc[c] = "visit" /\ Truncate(c)
<1>1. /\ reply = [b \in Calls |-> reply[b]] /\ reply[c] = "none" /\ UNCHANGED <<roots, request>>
      /\ pc[c] \in {"resolve", "ancestor", "open", "visit"}
  <2>1. pc[c] # "done" /\ UNCHANGED <<roots, request>>
    BY StepIsLocal
  <2>2. reply[c] = "none" /\ reply = [b \in Calls |-> reply[b]] /\ request[c].tool \in Tools
    BY <2>1, FileAssumption DEF TypeOK
  <2> QED
    BY <2>1, <2>2 DEF OnTrack, Stages, Writing, Making, Tools, Readers, Writers, Walkers
<1>2. ~Finish(c, "error") /\ reply' # reply
  BY <1>1 DEF Finish
<1>3. CASE pc[c] \in {"resolve", "ancestor"}
  <2>1. Refuse(c) \/ LookUp(c) \/ LookAbove(c) \/ Fails(c)
    BY <1>3 DEF Handle, Read, ReadToEdit, CreateTemp, Fill, FillFails, Rename, SyncParent, RemoveTemp,
          MakeDirectory, CheckDirectory, DestinationExists, MoveFile, Open, CloseDirectory, SearchVisit, TreeVisit
  <2> QED
    BY <1>2, <2>1 DEF Refuse, LookUp, LookAbove, Fails, Looked
<1>4. CASE pc[c] \in {"open", "visit"}
  <2>1. Open(c) \/ CloseDirectory(c) \/ SearchVisit(c) \/ TreeVisit(c)
    BY <1>2, <1>4, AfterGranted
  <2>2. CASE Open(c)
    <3>1. pc[c] = "open" /\ target' = target
      BY <2>2 DEF Open
    <3>2. CASE walk[c].waiting = <<>>
      <4>1. walk' = walk
        BY <2>2, <3>2 DEF Open
      <4> QED
        BY <3>1, <3>2, <4>1
    <3>3. CASE walk[c].waiting # <<>>
      BY <1>2, <2>2, <3>3 DEF Open
    <3> QED
      BY <3>1, <3>2, <3>3
  <2>3. CASE CloseDirectory(c)
    BY <1>2, <2>3 DEF CloseDirectory
  <2>4. CASE SearchVisit(c)
    BY <1>2, <2>4 DEF SearchVisit
  <2>5. CASE TreeVisit(c)
    BY <1>2, <2>5 DEF TreeVisit
  <2> QED
    BY <2>1, <2>2, <2>3, <2>4, <2>5
<1> QED
  BY <1>1, <1>3, <1>4

\* So a walk that ends has found it.
LEMMA MissesNothingStep ==
    ASSUME TypeOK, Dirs # <<>>, OnTrack, Walked, WalksMissNothing, NEW c \in Calls, Handle(c), Watch
    PROVE  WalksMissNothing'
<1>1. Others(c) /\ UNCHANGED <<roots, request>> /\ pc[c] # "done" /\ WalkShape /\ Covered
  BY StepIsLocal DEF Walked
<1>2. ASSUME NEW b \in Calls, request'[b].tool \in Walkers, reply'[b] = "ok", ~walk'[b].cut,
             NEW p \in stays'[b], Wanted(b, p)'
      PROVE  p \in walk'[b].found
  <2>1. CASE b # c
    <3>1. pc[b] = "done" /\ reply[b] = "ok" /\ walk'[b] = walk[b] /\ target'[b] = target[b]
      BY <1>1, <1>2, <2>1 DEF Others, TypeOK
    <3>2. stays'[b] = stays[b]
      BY <3>1, StaysAre
    <3>3. Wanted(b, p)
      BY <1>1, <1>2, <3>1 DEF callVars, Wanted, Excluded, Relative, Matches
    <3> QED
      BY <1>1, <1>2, <3>1, <3>2, <3>3 DEF WalksMissNothing, callVars
  <2>2. CASE b = c
    <3>1. request[c].tool \in Walkers
      BY <1>1, <1>2, <2>2 DEF callVars
    <3>2. CASE Truncate(c)
      <4>1. walk'[c].cut = TRUE
        BY <1>1, <3>2, TruncateWalk DEF Walk
      <4> QED
        BY <1>2, <2>2, <4>1
    <3>3. CASE pc[c] = "open" /\ walk[c].waiting = <<>> /\ walk' = walk /\ target' = target
      <4>1. p \in stays[c]
        BY <1>2, <2>2, <3>1, <3>3, StaysAre
      <4>2. Wanted(c, p)
        BY <1>1, <1>2, <2>2, <3>3 DEF callVars, Wanted, Excluded, Relative, Matches
      <4>3. Ahead(c, p)
        BY <1>1, <3>3, <4>1, <4>2 DEF Covered
      <4>4. walk[c].frames = <<>>
        BY <1>1, <3>3 DEF WalkShape
      <4>5. p \in walk[c].found
        BY <3>3, <4>3, <4>4 DEF Ahead, WaitedFor, InFrames
      <4> QED
        BY <2>2, <3>3, <4>5
    <3> QED
      BY <1>2, <2>2, <3>1, <3>2, <3>3, EndsWalk
  <2> QED
    BY <2>1, <2>2
<1> QED
  BY <1>2 DEF WalksMissNothing

-----------------------------------------------------------------------------
(* What has happened to the files *)

\* A step gives its effect to the call whose step it is, or to none.
LEMMA EffectsAre ==
    ASSUME TypeOK, Steadied, NEW c \in Calls, Handle(c), Watch
    PROVE  /\ changed' \in [Calls -> BOOLEAN]
           /\ \A b \in Calls \ {c} : changed'[b] = changed[b]
           /\ changed'[c] <=> changed[c] \/ TakesEffect(c)
<1>1. changed' = [b \in Calls |-> changed[b] \/ TakesEffect(b)]
  BY DEF Watch
<1>2. ASSUME NEW b \in Calls \ {c} PROVE ~TakesEffect(b)
  <2>1. pc'[b] = pc[b] /\ reply'[b] = reply[b] /\ (pc[b] # "done" => reply[b] # "ok")
    BY StepIsLocal DEF Others, TypeOK
  <2> QED
    BY <2>1 DEF TakesEffect
<1>3. changed \in [Calls -> BOOLEAN]
  BY DEF Steadied
<1> QED
  BY <1>1, <1>2, <1>3

\* A call that had its effect only syncs, cleans up or has ended.
LEMMA SteadiedStep ==
    ASSUME TypeOK, OnTrack, Steadied, NEW c \in Calls, Handle(c), Watch
    PROVE  Steadied'
<1>1. /\ pc = [b \in Calls |-> pc[b]] /\ reply = [b \in Calls |-> reply[b]]
      /\ text = [b \in Calls |-> text[b]] /\ reply[c] = "none" /\ pc[c] # "done"
      /\ Others(c) /\ UNCHANGED <<roots, request>>
  BY StepIsLocal DEF TypeOK
<1>2. ASSUME pc'[c] = "sync", pc[c] # "sync" PROVE Rename(c)
  <2>1. ASSUME NEW path, Looked(c, path) PROVE FALSE
    <3>1. AfterResolve(c) # "sync"
      <4>1. request[c].tool \in Tools
        BY FileAssumption DEF TypeOK
      <4> QED
        BY <4>1 DEF AfterResolve, Tools, Readers, Writers, Walkers
    <3>2. \/ pc' = [pc EXCEPT ![c] = "done"] \/ pc' = [pc EXCEPT ![c] = "resolve"]
          \/ pc' = [pc EXCEPT ![c] = AfterResolve(c)]
      BY <2>1 DEF Looked, Grant, Finish, Goto
    <3> QED
      BY <1>1, <1>2, <3>1, <3>2
  <2>2. CASE Refuse(c) \/ Fails(c) \/ Read(c) \/ ReadToEdit(c)
    BY <1>1, <1>2, <2>2 DEF Refuse, Fails, Read, ReadToEdit, Finish, Goto
  <2>3. CASE LookUp(c) \/ LookAbove(c)
    BY <1>1, <1>2, <2>1, <2>3 DEF LookUp, LookAbove, Goto
  <2>4. CASE CreateTemp(c) \/ Fill(c) \/ FillFails(c) \/ SyncParent(c) \/ RemoveTemp(c)
    BY <1>1, <1>2, <2>4 DEF CreateTemp, Fill, FillFails, SyncParent, RemoveTemp, Finish, Goto
  <2>5. CASE DestinationExists(c) \/ MoveFile(c)
    BY <1>1, <1>2, <2>5 DEF DestinationExists, MoveFile, Finish, Goto
  <2>7. CASE MakeDirectory(c) \/ CheckDirectory(c)
    BY <1>1, <1>2, <2>7, MakingIs DEF Making
  <2>6. CASE Open(c) \/ CloseDirectory(c) \/ SearchVisit(c) \/ TreeVisit(c)
    BY <1>1, <1>2, <2>6 DEF Open, CloseDirectory, SearchVisit, TreeVisit, Truncate, Finish, Goto
  <2> QED
    BY <2>2, <2>3, <2>4, <2>5, <2>6, <2>7 DEF Handle
<1>4. ASSUME request[c].tool = "list_directory" PROVE text'[c] = <<>>
  <2>1. text[c] = <<>> /\ ~ReadToEdit(c)
    BY <1>4 DEF Steadied, ReadToEdit
  <2>2. text' = text \/ Read(c)
    BY <2>1 DEF Handle, Refuse, LookUp, LookAbove, Fails, CreateTemp, Fill, FillFails, Rename,
          SyncParent, RemoveTemp, MakeDirectory, CheckDirectory, DestinationExists, MoveFile, Open,
          CloseDirectory, SearchVisit, TreeVisit, Unchanged
  <2> QED
    BY <1>1, <1>4, <2>1, <2>2 DEF Read
<1>5. /\ changed'[c] => pc'[c] \in {"sync", "remove", "done"}
      /\ pc'[c] = "sync" => changed'[c]
  <2>1. CASE pc[c] = "rename"
    <3>1. pc'[c] \in {"sync", "remove"}
      BY <1>1, <2>1 DEF Handle, Refuse, LookUp, LookAbove, Fails, Read, ReadToEdit, CreateTemp, Fill,
            FillFails, Rename, SyncParent, RemoveTemp, MakeDirectory, CheckDirectory, DestinationExists, MoveFile,
            Open, CloseDirectory, SearchVisit, TreeVisit, Goto
    <3> QED
      BY <2>1, <3>1, EffectsAre DEF TakesEffect
  <2>2. CASE pc[c] \in {"sync", "remove", "move"}
    <3>1. pc'[c] \in {"remove", "done"}
      BY <1>1, <2>2 DEF Handle, Refuse, LookUp, LookAbove, Fails, Read, ReadToEdit, CreateTemp, Fill,
            FillFails, Rename, SyncParent, RemoveTemp, MakeDirectory, CheckDirectory, DestinationExists, MoveFile,
            Open, CloseDirectory, SearchVisit, TreeVisit, Goto, Finish
    <3> QED
      BY <3>1
  <2>3. CASE pc[c] \notin {"rename", "sync", "remove", "move"}
    <3>1. ~changed'[c]
      BY <1>1, <2>3, EffectsAre DEF Steadied, TakesEffect
    <3> QED
      BY <1>2, <2>3, <3>1 DEF Rename
  <2> QED
    BY <2>1, <2>2, <2>3
<1>3. \A b \in Calls \ {c} :
        /\ changed'[b] => pc'[b] \in {"sync", "remove", "done"}
        /\ pc'[b] = "sync" => changed'[b]
        /\ request[b].tool = "list_directory" => text'[b] = <<>>
  BY <1>1, EffectsAre DEF Others, Steadied
<1> QED
  BY <1>1, <1>3, <1>4, <1>5, EffectsAre DEF Steadied, callVars

-----------------------------------------------------------------------------
(* The invariant *)

\* What the server starts from: typed roots, and no temporary file.
LEMMA StartIsTyped ==
    ASSUME Init
    PROVE  TypeOK /\ Dirs # <<>> /\ \A c \in Calls : TempAt(c) = {}
<1>1. /\ tree \in Trees /\ CanServe(tree, Dirs) /\ roots = AllowedRoots(tree, Dirs)
      /\ request \in [Calls -> Menu]
      /\ candidate = [c \in Calls |-> Absolute(request[c].path, Dirs)]
  BY DEF Init
<1>2. /\ tree \in [Paths -> Nodes(Names)] /\ IsTree(tree)
      /\ \A p \in Paths : Exists(tree, p) => p \in Seq(Names)
      /\ Dirs \in Seq(Seq(Names))
  BY <1>1, FileAssumption
<1>3. Dirs # <<>>
  BY <1>1 DEF CanServe
<1>4. roots \subseteq Seq(Int)
  <2>1. ASSUME NEW n \in DOMAIN Dirs
        PROVE  Normalized(Dirs[n]) \in Seq(Int) /\ RealPath(tree, Normalized(Dirs[n])) \in Seq(Int)
    <3>1. Normalized(Dirs[n]) \in Seq(Names)
      BY <1>2, <2>1, NormalizedType
    <3> QED
      BY <1>2, <3>1, ConstantsAre, ChasedSteps, SeqMonotonic DEF RealPath
  <2> QED
    BY <1>1, <2>1 DEF AllowedRoots
<1>5. \A c \in Calls : Absolute(request[c].path, Dirs) \in Seq(Names)
  <2>1. ASSUME NEW r \in Asks PROVE Absolute(r, Dirs) \in Seq(Names)
    <3>1. r.parts \in Seq(Names) /\ Dirs[1] \in Seq(Names)
      BY <1>2, <1>3 DEF Asks
    <3>2. Normalized(Dirs[1]) \o r.parts \in Seq(Names)
      BY <3>1, NormalizedType, ConcatProperties
    <3> QED
      BY <3>1, <3>2, NormalizedType DEF Absolute
  <2> QED
    BY <1>1, <2>1, FileAssumption
<1>6. /\ NoWalk \in Walks /\ IsFiniteSet(NoWalk.found) /\ Cardinality(NoWalk.found) = 0
      /\ MaxResults \in Nat /\ TreeBudget \in Nat /\ NoPath \in Seq(Names)
  BY FS_EmptySet, FileAssumption, ConstantsAre DEF NoWalk, Walks
<1>7. TypeOK
  BY <1>1, <1>2, <1>4, <1>5, <1>6 DEF Init, TypeOK, PC
<1>8. ASSUME NEW c \in Calls PROVE TempAt(c) = {}
  <2>1. ASSUME NEW p \in TempAt(c) PROVE FALSE
    <3>1. p \in Seq(Names) /\ p # <<>> /\ Last(p) = Temp(c)
      BY <1>2, <2>1 DEF TempAt
    <3>2. Last(p) \in Names
      BY <3>1, ParentOf
    <3> QED
      BY <3>1, <3>2, ConstantsAre
  <2> QED
    BY <2>1
<1> QED
  BY <1>3, <1>7, <1>8

\* The invariant holds at the start ...
LEMMA InvariantHolds ==
    ASSUME Init
    PROVE  IInv
<1>1. TypeOK /\ Dirs # <<>> /\ \A c \in Calls : TempAt(c) = {}
  BY StartIsTyped
<1>2. \A c \in Calls : pc[c] = "resolve" /\ reply[c] = "none" /\ walk[c].frames = <<>>
                       /\ text[c] = <<>>
  BY DEF Init, NoWalk
<1>3. OnTrack /\ FreeToMove /\ Granted /\ WalkShape /\ Covered /\ WalksMissNothing
  BY <1>2 DEF OnTrack, FreeToMove, Granted, WalkShape, Covered, WalksMissNothing
<1>4. Temps /\ NoLitter
  <2>1. \A p \in Paths : ~(IsTemp(p) /\ Exists(tree, p))
    BY <1>1 DEF IsTemp, TempAt
  <2> QED
    BY <1>1, <2>1 DEF Temps, TempsAreFiles, OneTemp, TempsOfWriters, Filled, PathsLead, NoLitter
<1>5. Steadied
  BY <1>2 DEF Steadied, Init
<1>6. Sought
  <2>1. ASSUME NEW c \in Calls
        PROVE  target[c] = NoPath /\ candidate[c] = Asked(c) /\ source[c] = NoPath
    BY DEF Init, Asked
  <2> QED
    BY <1>2, <2>1 DEF Sought, Looking, Making
<1> QED
  BY <1>1, <1>3, <1>4, <1>5, <1>6 DEF IInv, Walked

\* ... and every step keeps it.
LEMMA InvariantStays ==
    ASSUME IInv, [Next]_<<vars, history>>
    PROVE  IInv'
<1>1. CASE UNCHANGED <<vars, history>>
  <2> USE <1>1 DEF IInv, Walked, Temps, vars, history
  <2>1. TypeOK' /\ (Dirs # <<>>)' /\ OnTrack' /\ FreeToMove' /\ Steadied'
    BY DEF TypeOK, OnTrack, FreeToMove, Steadied
  <2>6. Sought'
    BY DEF Sought, Above, Looking, Asked, AskedTarget, TwoPaths
  <2>2. TempsAreFiles' /\ OneTemp' /\ TempsOfWriters'
    BY DEF TempsAreFiles, IsTemp, OneTemp, TempsOfWriters, TempAt
  <2>3. Filled' /\ PathsLead' /\ NoLitter'
    BY DEF Filled, PathsLead, NoLitter, TempAt, NewText, TempOf, LeadsTo
  <2>4. Granted' /\ WalkShape'
    BY DEF Granted, WalkShape, Looking, Asked, AskedTarget, TwoPaths
  <2>5. Covered' /\ WalksMissNothing'
    BY DEF Covered, WalksMissNothing, Shown, Ahead, Wanted, Excluded, Relative, Matches
  <2> QED
    BY <2>1, <2>2, <2>3, <2>4, <2>5, <2>6
<1>2. ASSUME NEW c \in Calls, Handle(c), Watch
      PROVE  IInv'
  <2>1. /\ TypeOK /\ Dirs # <<>> /\ OnTrack /\ Sought /\ Temps /\ FreeToMove /\ Walked /\ Steadied
        /\ NoLitter /\ WalksMissNothing /\ Granted /\ WalkShape /\ TempsAreFiles
    BY DEF IInv, Walked, Temps
  <2>2. TypeOK'
    BY <1>2, <2>1, TypesStep
  <2>3. OnTrack'
    BY <1>2, <2>1, OnTrackStep
  <2>4. Temps' /\ NoLitter'
    BY <1>2, <2>1, TempsStep
  <2>5. FreeToMove'
    BY <1>2, <2>1, FreeToMoveStep
  <2>6. Granted'
    BY <1>2, <2>1, GrantedStep
  <2>7. WalkShape'
    BY <1>2, <2>1, WalkShapeStep
  <2>8. Covered'
    BY <1>2, <2>1, CoveredStep
  <2>9. Steadied'
    BY <1>2, <2>1, SteadiedStep
  <2>10. WalksMissNothing'
    BY <1>2, <2>1, MissesNothingStep
  <2>11. Sought'
    BY <1>2, <2>1, SoughtStep
  <2> QED
    BY <2>1, <2>2, <2>3, <2>4, <2>5, <2>6, <2>7, <2>8, <2>9, <2>10, <2>11 DEF IInv, Walked
<1> QED
  BY <1>1, <1>2 DEF Next, Answered

\* IInv is inductive, so it holds of every reachable state.
THEOREM Invariant == Spec => []IInv
<1>1. Init => IInv
  BY InvariantHolds
<1>2. IInv /\ [Next]_<<vars, history>> => IInv'
  BY InvariantStays
<1> QED
  BY <1>1, <1>2, PTL DEF Spec

\* Every reachable state is typed: the walks keep to their limits of results and
\* of entries, and a call has an answer when, and only when, it has ended.
THEOREM TypeCorrect == Spec => []TypeOK
<1>1. IInv => TypeOK
  BY DEF IInv
<1> QED
  BY <1>1, Invariant, PTL

\* A write that ended, however it ended, left its temporary file behind only where
\* its one attempt to remove it failed, or the path to it led elsewhere at some
\* moment (atomic_write, src/support/mod.rs).
THEOREM LitterSafety == Spec => []NoLitter
<1>1. IInv => NoLitter
  BY DEF IInv
<1> QED
  BY <1>1, Invariant, PTL

\* search_files and directory_tree (src/fs/mod.rs), when they do not say that they
\* were cut short, miss nothing that stood still while they ran.
THEOREM WalkSafety == Spec => []WalksMissNothing
<1>1. IInv => WalksMissNothing
  BY DEF IInv
<1> QED
  BY <1>1, Invariant, PTL

\* move_file (src/fs/mod.rs) looks before it renames, and replaces only what came
\* in between, or a link that leads nowhere.
THEOREM MoveSafety == Spec => MoveReplacesOnlyLatecomers
<1> DEFINE OneMove ==
             \A c \in Calls : pc[c] = "move" /\ reply'[c] = "ok" =>
                 \/ c \in taken
                 \/ ~Exists(tree, Place(tree, target[c]))
                 \/ IsLink(tree, Place(tree, target[c]))
<1>1. IInv /\ [Next]_<<vars, history>> => [OneMove]_<<vars, history>>
  <2> SUFFICES ASSUME IInv, Next, ~UNCHANGED <<vars, history>>
               PROVE  OneMove
    OBVIOUS
  <2>1. PICK c \in Calls : Handle(c)
    BY DEF Next, Answered
  <2>2. TypeOK /\ FreeToMove
    BY DEF IInv
  <2> QED
    BY <2>1, <2>2, MoveStep DEF LatecomersOnly
<1> QED
  BY <1>1, Invariant, PTL DEF Spec, MoveReplacesOnlyLatecomers

-----------------------------------------------------------------------------
(* The refinement: what the users of the server see *)

\* The abstract specification looks at trees with the operators of the concrete one.
LEMMA SameTrees ==
    /\ \A t, p : Store!Node(t, p) = Node(t, p)
    /\ \A t, p : Store!RealPath(t, p) = RealPath(t, p)
    /\ \A t, p : Store!Place(t, p) = Place(t, p)
    /\ \A t, p : Store!RealStatus(t, p) = RealStatus(t, p)
<1>0. Store!None = None /\ \A t, p : Store!Node(t, p) = Node(t, p)
  BY DEF Store!Node, Node, Store!None, None
<1>1. \A t, p : Store!Exists(t, p) = Exists(t, p) /\ Store!IsDir(t, p) = IsDir(t, p)
  BY <1>0 DEF Store!Exists, Exists, Store!IsDir, IsDir
<1>2. \A t, p : Store!IsFile(t, p) = IsFile(t, p) /\ Store!IsLink(t, p) = IsLink(t, p)
  BY <1>0 DEF Store!IsFile, IsFile, Store!IsLink, IsLink
<1>3. (\A p, n : Store!Prefix(p, n) = Prefix(p, n)) /\ (\A p : Store!Parent(p) = Parent(p))
  BY DEF Store!Prefix, Prefix, Store!Parent, Parent
<1>4. \A t, p : Store!LinksIn(t, p) = LinksIn(t, p)
  BY <1>2, <1>3 DEF Store!LinksIn, LinksIn
<1>5. \A t, p : Store!Follow(t, p) = Follow(t, p)
  BY Zenon DEF Store!Follow, Follow, Store!LinksIn, LinksIn, Store!IsLink, IsLink, Store!Node, Node,
       Store!None, None, Store!Prefix, Prefix
<1>6. \A t, p : Store!Chased(t, p) = Chased(t, p) /\ Store!RealPath(t, p) = RealPath(t, p)
  BY <1>4, <1>5 DEF Store!Chased, Chased, Store!RealPath, RealPath
<1>7. \A t, p : Store!RealStatus(t, p) = RealStatus(t, p)
  BY <1>1, <1>2, <1>3, <1>6 DEF Store!RealStatus, RealStatus
<1>8. \A t, p : Store!Place(t, p) = Place(t, p)
  BY <1>3, <1>6 DEF Store!Place, Place, Store!Last, Last
<1> QED
  BY <1>0, <1>6, <1>7, <1>8

\* A tree without its temporary files.
Visible(t) == [p \in Paths |-> IF IsTemp(p) THEN None ELSE t[p]]

LeafTemps(t) == \A p \in Paths : IsTemp(p) /\ Exists(t, p) => IsFile(t, p)

\* What is visible is a tree with the same directories.
LEMMA VisibleIs ==
    ASSUME NEW t \in [Paths -> Nodes(Names)], IsTree(t), LeafTemps(t)
    PROVE  /\ Visible(t) \in [Paths -> Nodes(Names)] /\ IsTree(Visible(t))
           /\ \A p : Node(Visible(t), p) = IF IsTemp(p) THEN None ELSE Node(t, p)
           /\ \A p : IsDir(Visible(t), p) <=> IsDir(t, p)
<1> DEFINE v == Visible(t)
<1>1. v \in [Paths -> Nodes(Names)]
  BY DEF Visible, Nodes
<1>2. ASSUME NEW p PROVE Node(v, p) = IF IsTemp(p) THEN None ELSE Node(t, p)
  BY DEF Visible, Node
<1>3. ASSUME NEW p PROVE IsDir(v, p) <=> IsDir(t, p)
  <2>1. CASE ~IsTemp(p)
    BY <1>2, <2>1 DEF IsDir
  <2>2. CASE IsTemp(p)
    <3>1. ~IsDir(v, p)
      BY <1>2, <2>2 DEF IsDir, None
    <3>2. ~IsDir(t, p)
      BY <2>2, NodeKinds DEF LeafTemps
    <3> QED
      BY <3>1, <3>2
  <2> QED
    BY <2>1, <2>2
<1>4. ASSUME NEW p, Exists(v, p) PROVE Exists(t, p)
  <2>1. ~IsTemp(p)
    BY <1>2, <1>4 DEF Exists, None
  <2> QED
    BY <1>2, <1>4, <2>1 DEF Exists
<1>5. IsTree(v)
  <2>1. IsDir(v, <<>>)
    BY <1>3 DEF IsTree
  <2>2. \A p \in Paths : Exists(v, p) /\ p # <<>> => IsDir(v, Parent(p))
    BY <1>3, <1>4, TreeIs
  <2> QED
    BY <1>1, <2>1, <2>2, TreeIs
<1> QED
  BY <1>1, <1>2, <1>3, <1>5

\* A path whose parent is a directory, and no link leads to, is its own place.
LEMMA OwnPlace ==
    ASSUME NEW t \in [Paths -> Nodes(Names)], IsTree(t), NEW p \in Seq(Int), p # <<>>,
           IsDir(t, Parent(p))
    PROVE  HasPlace(t, p) /\ Place(t, p) = p
<1>1. Exists(t, Parent(p)) /\ ~IsLink(t, Parent(p))
  BY NodeKinds
<1>2. RealPath(t, Parent(p)) = Parent(p) /\ RealStatus(t, Parent(p)) = "ok"
  BY <1>1, ConstantsAre, LinkFree
<1>3. p = Append(Parent(p), Last(p))
  BY ParentOf
<1> QED
  BY <1>2, <1>3 DEF HasPlace, Place

\* The users see a move as a move.
LEMMA VisibleMove ==
    ASSUME NEW t, NEW from, NEW to, NEW s, NEW d, IsRename(Names, t, from, to, s, d),
           NEW u, u = Renamed(t, from, to), LeafTemps(t), Last(s) \in Names, Last(d) \in Names
    PROVE  /\ Place(Visible(t), s) = s /\ Place(Visible(t), d) = d
           /\ CanRename(Visible(t), s, d) /\ Visible(u) = Renamed(Visible(t), s, d)
<1> DEFINE v == Visible(t)
<1>1. /\ s \in Paths /\ s \in Seq(Int) /\ s # <<>> /\ Exists(t, s) /\ IsDir(t, Parent(s))
      /\ d \in Paths /\ d \in Seq(Int) /\ d # <<>> /\ IsDir(t, Parent(d))
      /\ ~Inside(d, s) /\ ~Inside(s, d)
  BY RenameApart
<1>2. /\ t \in [Paths -> Nodes(Names)] /\ IsTree(t) /\ s # d /\ ~Below(d, s)
      /\ \A p \in Paths : Inside(p, s) /\ Exists(t, p) => Moved(p, s, d) \in Paths
      /\ IF IsDir(t, s)
         THEN ~Exists(t, d) \/ d = s \/ (IsDir(t, d) /\ Children(t, d) = {})
         ELSE ~IsDir(t, d)
  BY DEF IsRename, CanRename
<1>3. /\ v \in [Paths -> Nodes(Names)] /\ IsTree(v)
      /\ \A p : Node(v, p) = IF IsTemp(p) THEN None ELSE Node(t, p)
      /\ \A p : IsDir(v, p) <=> IsDir(t, p)
  BY <1>2, VisibleIs
<1>4. ~IsTemp(s) /\ ~IsTemp(d)
  BY ConstantsAre DEF IsTemp
<1>5. \A p : Exists(v, p) => Exists(t, p)
  BY <1>3 DEF Exists, None
<1>6. Exists(v, s) /\ (Exists(v, d) <=> Exists(t, d))
  BY <1>1, <1>3, <1>4 DEF Exists
<1>7. HasPlace(v, s) /\ Place(v, s) = s /\ HasPlace(v, d) /\ Place(v, d) = d
  BY <1>1, <1>3, OwnPlace
<1>8. Children(v, d) \subseteq Children(t, d)
  BY <1>5 DEF Children
<1>9. CanRename(v, s, d)
  BY <1>2, <1>3, <1>5, <1>6, <1>7, <1>8 DEF CanRename
<1>10. /\ u \in [Paths -> Nodes(Names)]
       /\ \A p \in Paths : Inside(p, d) => u[p] = Node(t, Moved(p, d, s))
       /\ \A p \in Paths : ~Inside(p, d) /\ Inside(p, s) => u[p] = None
       /\ \A p \in Paths : ~Inside(p, d) /\ ~Inside(p, s) => u[p] = t[p]
  BY RenamedNodes
<1>11. Renamed(v, s, d) = [p \in Paths |->
          IF Inside(p, d) THEN Node(v, Moved(p, d, s))
          ELSE IF Inside(p, s) THEN None ELSE v[p]]
  BY <1>2, <1>7 DEF Renamed
<1>12. ASSUME NEW p \in Paths
       PROVE  Visible(u)[p] = Renamed(v, s, d)[p]
  <2>1. Visible(u)[p] = (IF IsTemp(p) THEN None ELSE u[p]) /\ v[p] = IF IsTemp(p) THEN None ELSE t[p]
    BY DEF Visible
  <2>2. CASE Inside(p, d)
    <3>1. IsTemp(Moved(p, d, s)) <=> IsTemp(p)
      <4>1. CASE p = d
        <5>1. Moved(p, d, s) = s
          BY <1>1, <4>1, MovedTo, InsideItself
        <5> QED
          BY <1>4, <4>1, <5>1
      <4>2. CASE p # d
        <5>1. p # <<>> /\ Moved(p, d, s) # <<>> /\ Last(Moved(p, d, s)) = Last(p)
          BY <1>1, <2>2, <4>2, ConstantsAre, MovedBelow
        <5> QED
          BY <5>1 DEF IsTemp
      <4> QED
        BY <4>1, <4>2
    <3>2. Node(v, Moved(p, d, s)) = IF IsTemp(p) THEN None ELSE Node(t, Moved(p, d, s))
      BY <1>3, <3>1
    <3>3. u[p] = Node(t, Moved(p, d, s)) /\ Renamed(v, s, d)[p] = Node(v, Moved(p, d, s))
      BY <1>10, <1>11, <2>2
    <3> QED
      BY <2>1, <3>2, <3>3
  <2>3. CASE ~Inside(p, d)
    BY <1>10, <1>11, <2>1, <2>3
  <2> QED
    BY <2>2, <2>3
<1>13. Visible(u) = Renamed(v, s, d)
  <2>1. Visible(u) = [p \in Paths |-> Visible(u)[p]]
    BY DEF Visible
  <2>2. Renamed(v, s, d) = [p \in Paths |-> Renamed(v, s, d)[p]]
    BY <1>11
  <2> HIDE DEF v
  <2> QED
    BY <1>12, <2>1, <2>2
<1> QED
  BY <1>7, <1>9, <1>13

\* Nothing stands below what is no directory.
LEMMA NothingBelow ==
    ASSUME NEW t \in [Paths -> Nodes(Names)], IsTree(t), NEW s \in Seq(Int), ~IsDir(t, s),
           NEW p \in Seq(Int), Inside(p, s), p # s
    PROVE  Node(t, p) = None
<1>1. Len(s) \in 0..Len(p) /\ Prefix(p, Len(s)) = s
  BY InsideIs
<1>2. Len(s) # Len(p)
  BY <1>1, PrefixWhole
<1>3. Len(s) \in 0..Len(p) - 1
  BY <1>1, <1>2
<1>4. ~Exists(t, p)
  <2>1. Paths \subseteq Seq(Int)
    BY ConstantsAre
  <2>2. ASSUME Exists(t, p) PROVE FALSE
    <3>1. \A n \in 0..Len(p) - 1 : IsDir(t, Prefix(p, n))
      BY <2>1, <2>2, Ancestors
    <3> QED
      BY <1>1, <1>3, <3>1
  <2> QED
    BY <2>2
<1> QED
  BY <1>4, NodeKinds

\* The users see one whole file change when a temporary file is renamed over it.
LEMMA VisibleWrite ==
    ASSUME NEW t, NEW from, NEW to, NEW s, NEW d, IsRename(Names, t, from, to, s, d),
           NEW u, u = Renamed(t, from, to), LeafTemps(t),
           NEW c \in Calls, Last(s) = Temp(c), Last(d) \in Names
    PROVE  d \in Paths /\ ~IsDir(Visible(t), d) /\ Visible(u) = [Visible(t) EXCEPT ![d] = t[s]]
<1> DEFINE v == Visible(t)
<1>1. /\ s \in Paths /\ s \in Seq(Int) /\ s # <<>> /\ Exists(t, s)
      /\ d \in Paths /\ d \in Seq(Int) /\ d # <<>>
      /\ ~Inside(d, s) /\ ~Inside(s, d)
  BY RenameApart
<1>2. /\ t \in [Paths -> Nodes(Names)] /\ IsTree(t)
      /\ IF IsDir(t, s)
         THEN ~Exists(t, d) \/ d = s \/ (IsDir(t, d) /\ Children(t, d) = {})
         ELSE ~IsDir(t, d)
  BY DEF IsRename, CanRename
<1>3. IsTemp(s) /\ ~IsTemp(d)
  BY <1>1, ConstantsAre DEF IsTemp
<1>4. ~IsDir(t, s) /\ ~IsDir(t, d)
  BY <1>1, <1>2, <1>3, NodeKinds DEF LeafTemps
<1>5. ~IsDir(v, d)
  BY <1>2, <1>4, VisibleIs
<1>6. /\ u \in [Paths -> Nodes(Names)]
      /\ \A p \in Paths : Inside(p, d) => u[p] = Node(t, Moved(p, d, s))
      /\ \A p \in Paths : ~Inside(p, d) /\ Inside(p, s) => u[p] = None
      /\ \A p \in Paths : ~Inside(p, d) /\ ~Inside(p, s) => u[p] = t[p]
  BY RenamedNodes
<1>7. ASSUME NEW p \in Paths
      PROVE  (IF IsTemp(p) THEN None ELSE u[p]) =
             IF p = d THEN t[s] ELSE IF IsTemp(p) THEN None ELSE t[p]
  <2>1. p \in Seq(Int)
    BY ConstantsAre
  <2>2. CASE p = d
    <3>1. Moved(d, d, s) = s /\ Inside(d, d)
      BY <1>1, MovedTo, InsideItself
    <3>2. u[d] = Node(t, s) /\ Node(t, s) = t[s]
      BY <1>1, <1>6, <3>1 DEF Node
    <3> QED
      BY <1>3, <2>2, <3>2
  <2>3. CASE p # d /\ Inside(p, d)
    <3>1. Moved(p, d, s) # s /\ Moved(p, d, s) \in Seq(Int) /\ Inside(Moved(p, d, s), s)
      BY <1>1, <2>1, <2>3, MovedTo, MovedBelow
    <3>2. u[p] = None
      BY <1>1, <1>2, <1>4, <1>6, <2>3, <3>1, NothingBelow
    <3>3. Node(t, p) = None /\ Node(t, p) = t[p]
      BY <1>1, <1>2, <1>4, <2>1, <2>3, NothingBelow DEF Node
    <3> QED
      BY <2>3, <3>2, <3>3
  <2>4. CASE p # d /\ ~Inside(p, d) /\ Inside(p, s)
    <3>1. CASE p = s
      BY <1>3, <2>4, <3>1
    <3>2. CASE p # s
      <4>1. Node(t, p) = None /\ Node(t, p) = t[p]
        BY <1>1, <1>2, <1>4, <2>1, <2>4, <3>2, NothingBelow DEF Node
      <4> QED
        BY <1>6, <2>4, <4>1
    <3> QED
      BY <3>1, <3>2
  <2>5. CASE p # d /\ ~Inside(p, d) /\ ~Inside(p, s)
    BY <1>6, <2>5
  <2> QED
    BY <2>2, <2>3, <2>4, <2>5
<1>8. Visible(u) = [v EXCEPT ![d] = t[s]]
  BY <1>1, <1>7 DEF Visible
<1> QED
  BY <1>1, <1>5, <1>8

\* No name that users give is one of a temporary file.
LEMMA PlainIsSeen ==
    ASSUME NEW t \in [Paths -> Nodes(Names)], IsTree(t), LeafTemps(t),
           NEW v, v = Visible(t), NEW p \in Seq(Names)
    PROVE  /\ ~IsTemp(p) /\ Node(v, p) = Node(t, p)
           /\ Exists(v, p) = Exists(t, p) /\ IsDir(v, p) = IsDir(t, p)
           /\ IsFile(v, p) = IsFile(t, p) /\ IsLink(v, p) = IsLink(t, p)
<1>1. ~IsTemp(p)
  BY ConstantsAre, ParentOf DEF IsTemp
<1>2. Node(v, p) = Node(t, p)
  BY <1>1, VisibleIs
<1> QED
  BY <1>1, <1>2 DEF Exists, IsDir, IsFile, IsLink

\* Links are followed as before ...
LEMMA FollowAlike ==
    ASSUME NEW t \in [Paths -> Nodes(Names)], IsTree(t), LeafTemps(t),
           NEW v, v = Visible(t), NEW p \in Seq(Names)
    PROVE  Follow(v, p) = Follow(t, p)
<1>1. /\ p \in Seq(Int) /\ Len(p) \in Nat /\ Names \in SUBSET Int
      /\ \A n \in 1..Len(p) : Prefix(p, n) \in Seq(Names)
  <2>1. p \in Seq(Int) /\ Len(p) \in Nat /\ Names \in SUBSET Int
    <3>1. Names \in SUBSET Int /\ Len(p) \in Nat
      BY ConstantsAre
    <3> QED
      BY <3>1, SeqMonotonic
  <2>2. ASSUME NEW n \in 1..Len(p) PROVE Prefix(p, n) \in Seq(Names)
    <3>1. n \in 0..Len(p)
      BY <2>1
    <3> QED
      BY <3>1, PrefixOf
  <2> QED
    BY <2>1, <2>2
<1>2. ASSUME NEW n \in 1..Len(p) PROVE IsLink(v, Prefix(p, n)) = IsLink(t, Prefix(p, n))
  BY <1>1, PlainIsSeen
<1>3. LinksIn(v, p) = LinksIn(t, p)
  BY <1>2 DEF LinksIn
<1>4. CASE LinksIn(t, p) = {}
  BY <1>3, <1>4 DEF Follow
<1>5. CASE LinksIn(t, p) # {}
  <2>1. PICK n \in 1..Len(p) :
            /\ n \in LinksIn(t, p) /\ \A m \in LinksIn(t, p) : n <= m
            /\ Follow(t, p) = t[Prefix(p, n)].to \o SubSeq(p, n + 1, Len(p))
    BY <1>1, <1>5, FirstLink
  <2>2. PICK k \in 1..Len(p) :
            /\ k \in LinksIn(v, p) /\ \A m \in LinksIn(v, p) : k <= m
            /\ Follow(v, p) = v[Prefix(p, k)].to \o SubSeq(p, k + 1, Len(p))
    BY <1>1, <1>3, <1>5, FirstLink
  <2>3. k = n
    BY <1>1, <1>3, <2>1, <2>2
  <2>4. PICK q : q = Prefix(p, n)
    OBVIOUS
  <2>5. q \in Seq(Names) /\ IsLink(t, q)
    BY <1>1, <2>1, <2>4 DEF LinksIn
  <2>6. q \in Paths
    BY <2>5, NodeKinds
  <2>7. v[q] = t[q]
    BY <2>5, <2>6, PlainIsSeen DEF Visible
  <2> QED
    BY <2>1, <2>2, <2>3, <2>4, <2>7
<1> QED
  BY <1>4, <1>5

\* ... and a path that users may give leads where it led.
LEMMA SeesAlike ==
    ASSUME NEW t \in [Paths -> Nodes(Names)], IsTree(t), LeafTemps(t),
           NEW v, v = Visible(t), NEW p \in Seq(Names)
    PROVE  /\ RealPath(v, p) = RealPath(t, p) /\ RealPath(t, p) \in Seq(Names)
           /\ RealStatus(v, p) = RealStatus(t, p)
           /\ LeadsToDir(v, p) = LeadsToDir(t, p) /\ LeadsToFile(v, p) = LeadsToFile(t, p)
           /\ \A S : Allows(v, p, S) = Allows(t, p, S)
<1>1. v \in [Paths -> Nodes(Names)] /\ Names \in SUBSET Int
  BY VisibleIs, ConstantsAre
<1>2. PICK a, b, d : a = Follow(t, p) /\ b = Follow(t, a) /\ d = Follow(t, b)
  OBVIOUS
<1>3. a \in Seq(Names) /\ b \in Seq(Names) /\ d \in Seq(Names)
  BY <1>1, <1>2, FollowType
<1>4. Chased(t, p) = Follow(t, d) /\ Chased(t, p) \in Seq(Names)
  BY <1>1, <1>2, ChasedSteps
<1>5. Chased(v, p) = Follow(v, Follow(v, Follow(v, Follow(v, p))))
  BY <1>1, ChasedSteps
<1>6. Follow(v, p) = a /\ Follow(v, a) = b /\ Follow(v, b) = d /\ Follow(v, d) = Follow(t, d)
  BY <1>2, <1>3, FollowAlike
<1>7. PICK q : q = Chased(t, p)
  OBVIOUS
<1>8. Chased(v, p) = q /\ q \in Seq(Names)
  BY <1>4, <1>5, <1>6, <1>7
<1>9. /\ Exists(v, q) = Exists(t, q) /\ IsDir(v, q) = IsDir(t, q)
      /\ IsFile(v, q) = IsFile(t, q) /\ IsLink(v, q) = IsLink(t, q)
  BY <1>8, PlainIsSeen
<1>10. ASSUME NEW n \in 1..Len(q) - 1
       PROVE  IsLink(v, Prefix(q, n)) = IsLink(t, Prefix(q, n)) /\ IsFile(v, Prefix(q, n)) = IsFile(t, Prefix(q, n))
  <2>1. n \in 0..Len(q)
    BY <1>8
  <2>2. Prefix(q, n) \in Seq(Names)
    BY <1>8, <2>1, PrefixOf
  <2> QED
    BY <2>2, PlainIsSeen
<1>11. RealStatus(v, p) = RealStatus(t, p)
  BY <1>7, <1>8, <1>9, <1>10 DEF RealStatus
<1>12. RealPath(v, p) = q /\ RealPath(t, p) = q
  BY <1>7, <1>8 DEF RealPath
<1> QED
  BY <1>8, <1>9, <1>11, <1>12 DEF LeadsToDir, LeadsToFile, Allows

\* So are the places of entries.
LEMMA PlacedAlike ==
    ASSUME NEW t \in [Paths -> Nodes(Names)], IsTree(t), LeafTemps(t),
           NEW v, v = Visible(t), NEW p \in Seq(Names)
    PROVE  /\ Place(v, p) = Place(t, p) /\ HasPlace(v, p) = HasPlace(t, p)
           /\ Place(t, p) \in Seq(Names)
<1>1. PICK d : d = Parent(p)
  OBVIOUS
<1>2. d \in Seq(Names)
  BY <1>1, ParentType
<1>3. RealPath(v, d) = RealPath(t, d) /\ RealStatus(v, d) = RealStatus(t, d) /\ RealPath(t, d) \in Seq(Names)
  BY <1>2, SeesAlike
<1>4. IsDir(v, RealPath(t, d)) = IsDir(t, RealPath(t, d))
  BY <1>3, PlainIsSeen
<1>5. p # <<>> => Append(RealPath(t, d), Last(p)) \in Seq(Names)
  BY <1>3, ParentOf, AppendProperties
<1> QED
  BY <1>1, <1>3, <1>4, <1>5 DEF Place, HasPlace

\* The users see a new directory as a new directory.
LEMMA VisibleMkdir ==
    ASSUME NEW t \in [Paths -> Nodes(Names)], IsTree(t), LeafTemps(t), NEW p \in Seq(Names),
           CanMkdir(t, p), NEW u, u = Mkdir(t, p)
    PROVE  CanMkdir(Visible(t), p) /\ Visible(u) = Mkdir(Visible(t), p)
<1>1. PICK v, q : v = Visible(t) /\ q = Place(t, p)
  OBVIOUS
<1>2. Place(v, p) = q /\ HasPlace(v, p) = HasPlace(t, p) /\ q \in Seq(Names)
  BY <1>1, PlacedAlike
<1>3. q \in Paths /\ ~Exists(t, q) /\ HasPlace(t, p)
  BY <1>1 DEF CanMkdir
<1>4. ~IsTemp(q) /\ ~Exists(v, q)
  BY <1>1, <1>2, <1>3, PlainIsSeen
<1>5. u = [t EXCEPT ![q] = Dir]
  BY <1>1 DEF Mkdir
<1>6. Visible(u) = [v EXCEPT ![q] = Dir]
  BY <1>1, <1>3, <1>4, <1>5 DEF Visible
<1> QED
  BY <1>1, <1>2, <1>3, <1>4, <1>6 DEF CanMkdir, Mkdir

\* ... and asks the same questions of them ...
LEMMA SameChanges ==
    /\ \A t : Store!IsTree(t) = IsTree(t)
    /\ \A t, p : Store!IsDir(t, p) = IsDir(t, p)
    /\ \A t, p : Store!Place(t, p) = Place(t, p) /\ Store!HasPlace(t, p) = HasPlace(t, p)
    /\ \A x : Store!File(x) = File(x)
    /\ \A t, p, q : Store!CanRename(t, p, q) = CanRename(t, p, q)
    /\ \A t, p, q : Store!Renamed(t, p, q) = Renamed(t, p, q)
    /\ \A t, p : Store!CanMkdir(t, p) = CanMkdir(t, p) /\ Store!Mkdir(t, p) = Mkdir(t, p)
<1>1. \A t, p : Store!Node(t, p) = Node(t, p) /\ Store!Place(t, p) = Place(t, p)
  BY SameTrees
<1>2. \A t, p : Store!RealPath(t, p) = RealPath(t, p) /\ Store!RealStatus(t, p) = RealStatus(t, p)
  BY SameTrees
<1>3. \A t, p : Store!Exists(t, p) = Exists(t, p) /\ Store!IsDir(t, p) = IsDir(t, p)
  BY <1>1 DEF Store!Exists, Exists, Store!IsDir, IsDir
<1>4. \A p : Store!Parent(p) = Parent(p)
  BY DEF Store!Prefix, Prefix, Store!Parent, Parent
<1>5. \A t : Store!IsTree(t) = IsTree(t)
  BY <1>3, <1>4 DEF Store!IsTree, IsTree
<1>6. \A t, p : Store!HasPlace(t, p) = HasPlace(t, p)
  BY <1>2, <1>3, <1>4 DEF Store!HasPlace, HasPlace
<1>7. (\A p, q : Store!Inside(p, q) = Inside(p, q)) /\ (\A p, q : Store!Below(p, q) = Below(p, q))
  BY DEF Store!Inside, Inside, Store!Below, Below, Store!IsPrefix, IsPrefix
<1>8. /\ \A p, s, d : Store!Moved(p, s, d) = Moved(p, s, d)
      /\ \A t, d : Store!Children(t, d) = Children(t, d)
  BY <1>3, <1>4 DEF Store!Moved, Moved, Store!Children, Children
<1>9. \A t, p, q : Store!CanRename(t, p, q) = CanRename(t, p, q)
  BY <1>1, <1>3, <1>6, <1>7, <1>8 DEF Store!CanRename, CanRename
<1>10. \A t, p, q : Store!Renamed(t, p, q) = Renamed(t, p, q)
  BY <1>1, <1>7, <1>8 DEF Store!Renamed, Renamed, Store!None, None
<1>11. \A t, p : Store!CanMkdir(t, p) = CanMkdir(t, p)
  BY <1>1, <1>3, <1>6 DEF Store!CanMkdir, CanMkdir
<1>12. \A t, p : Store!Mkdir(t, p) = Mkdir(t, p)
  BY <1>1 DEF Store!Mkdir, Mkdir, Store!Dir, Dir
<1>13. \A x : Store!File(x) = File(x)
  BY DEF Store!File, File
<1> QED
  BY <1>1, <1>3, <1>5, <1>6, <1>9, <1>10, <1>11, <1>12, <1>13

\* ... of the paths that were asked for ...
LEMMA SamePaths ==
    /\ Store!NoPath = NoPath
    /\ \A p, n : Store!Prefix(p, n) = Prefix(p, n)
    /\ \A r, dirs : Store!Absolute(r, dirs) = Absolute(r, dirs)
    /\ \A t, dirs : Store!AllowedRoots(t, dirs) = AllowedRoots(t, dirs)
    /\ \A p, S : Store!IsWithin(p, S) = IsWithin(p, S)
    /\ \A t, p, S : Store!Allows(t, p, S) = Allows(t, p, S)
    /\ \A t, p : Store!RealPath(t, p) = RealPath(t, p)
    /\ \A t, p : Store!LeadsToDir(t, p) = LeadsToDir(t, p) /\ Store!LeadsToFile(t, p) = LeadsToFile(t, p)
<1>1. \A t, p : Store!RealPath(t, p) = RealPath(t, p) /\ Store!RealStatus(t, p) = RealStatus(t, p)
  BY SameTrees
<1>2. \A t, p : Store!Node(t, p) = Node(t, p)
  BY SameTrees
<1>3. \A t, p : Store!LeadsToDir(t, p) = LeadsToDir(t, p) /\ Store!LeadsToFile(t, p) = LeadsToFile(t, p)
  BY <1>1, <1>2 DEF Store!LeadsToDir, LeadsToDir, Store!LeadsToFile, LeadsToFile,
     Store!IsDir, IsDir, Store!IsFile, IsFile
<1>4. \A parts : Store!Normalized(parts) = Normalized(parts)
  BY Zenon DEF Store!Normalized, Normalized, Store!Here, Here, Store!Up, Up, Store!Front, Front
<1>5. \A r, dirs : Store!Absolute(r, dirs) = Absolute(r, dirs)
  BY <1>4 DEF Store!Absolute, Absolute
<1>6. \A t, dirs : Store!AllowedRoots(t, dirs) = AllowedRoots(t, dirs)
  BY <1>1, <1>4 DEF Store!AllowedRoots, AllowedRoots
<1>7. \A p, S : Store!IsWithin(p, S) = IsWithin(p, S)
  BY DEF Store!IsWithin, IsWithin, Store!Inside, Inside, Store!IsPrefix, IsPrefix
<1>8. \A t, p, S : Store!Allows(t, p, S) = Allows(t, p, S)
  BY <1>1, <1>7 DEF Store!Allows, Allows
<1>9. (\A p, n : Store!Prefix(p, n) = Prefix(p, n)) /\ Store!NoPath = NoPath
  BY DEF Store!Prefix, Prefix, Store!NoPath, NoPath, Store!Here, Here
<1> QED
  BY <1>1, <1>3, <1>5, <1>6, <1>7, <1>8, <1>9

\* ... and makes the same edits.
LEMMA SameEdits == \A x, edits : Store!Applied(x, edits) = Applied(x, edits)
BY Zenon DEF Store!Applied, Applied, Store!Accepted, Accepted, Store!Replaced, Replaced,
   Store!First, First, Store!MatchesFrom, MatchesFrom, Store!Occurrences, Occurrences,
   Store!Occurs, Occurs, Store!Earliest, Earliest

\* Seen, as a function of the tree.
LEMMA SeenIs == Seen = Visible(tree) /\ Seen' = Visible(tree')
BY DEF Seen, Visible, IsTemp

\* A tree and what is seen of it.
LEMMA SeenTree ==
    ASSUME TypeOK, TempsAreFiles
    PROVE  tree \in [Paths -> Nodes(Names)] /\ IsTree(tree) /\ LeafTemps(tree) /\ Seen = Visible(tree)
BY TreeIsTyped, SeenIs DEF LeafTemps, TempsAreFiles

\* A call that answers without a change of its own.
LEMMA AnswersOnly ==
    ASSUME NEW c \in Calls, reply[c] = "none", NEW how \in {"ok", "error"},
           reply' = [reply EXCEPT ![c] = how], Seen' = Seen, changed' = changed,
           UNCHANGED <<roots, request, source, target, text>>,
           how = "error" => (changed[c] => request[c].tool \in Writers),
           how = "ok" =>
              \/ changed[c]
              \/ request[c].tool \in Walkers
              \/ request[c].tool \in {"create_directory", "list_directory"} /\ LeadsToDir(Seen, target[c])
    PROVE  Store!StoreNext
<1>1. how = "error" => Store!Answer(c)
  BY DEF Store!Answer, Writers, Store!AtomicWriters
<1>2. how = "ok" => Store!Answer(c)
  BY SamePaths DEF Store!Answer, Walkers
<1> QED
  BY <1>1, <1>2 DEF Store!StoreNext

\* What every step that has no effect leaves as it was.
Quiet(c) ==
    /\ changed' = changed /\ UNCHANGED <<roots, request>> /\ Seen' = Seen
    /\ reply[c] = "none" /\ reply = [b \in Calls |-> reply[b]]
    /\ pc[c] # "sync" => ~changed[c] \/ pc[c] = "remove"

\* A step that changes no visible file and answers nothing, or answers an error.
LEMMA QuietStep ==
    ASSUME TypeOK, NEW c \in Calls, Quiet(c), UNCHANGED <<source, target, text>>,
           pc[c] # "sync" /\ pc[c] # "remove",
           reply' = reply \/ Finish(c, "error")
    PROVE  UNCHANGED Store!storeVars \/ Store!StoreNext
<1>1. CASE reply' = reply
  BY <1>1 DEF Quiet, Store!storeVars
<1>2. CASE Finish(c, "error")
  BY <1>2, AnswersOnly DEF Quiet, Finish
<1> QED
  BY <1>1, <1>2

\* Only the steps that may have an effect, and those of temporary files, are not quiet.
LEMMA MostAreQuiet ==
    ASSUME TypeOK, Steadied, NEW c \in Calls, Handle(c), Watch, Seen' = Seen, ~TakesEffect(c)
    PROVE  Quiet(c)
<1>1. reply = [b \in Calls |-> reply[b]] /\ reply[c] = "none" /\ UNCHANGED <<roots, request>>
  BY StepIsLocal DEF TypeOK
<1>2. changed' = changed
  <2>1. /\ changed' \in [Calls -> BOOLEAN] /\ changed \in [Calls -> BOOLEAN]
        /\ \A b \in Calls \ {c} : changed'[b] = changed[b]
        /\ changed'[c] <=> changed[c]
    BY EffectsAre DEF Steadied
  <2>2. \A b \in Calls : changed'[b] = changed[b]
    BY <2>1
  <2> QED
    BY <2>1, <2>2
<1>3. pc[c] # "sync" => ~changed[c] \/ pc[c] = "remove"
  BY StepIsLocal DEF Steadied
<1> QED
  BY <1>1, <1>2, <1>3 DEF Quiet

\* Writing or removing a temporary file changes nothing that is visible.
LEMMA TempUnseen ==
    ASSUME NEW t \in [Paths -> Nodes(Names)], NEW p \in Paths, IsTemp(p), NEW node,
           NEW u, u = [t EXCEPT ![p] = node]
    PROVE  Visible(u) = Visible(t)
BY DEF Visible

\* A call names to the store what the server looks up.
LEMMA NamedIs ==
    ASSUME NEW c \in Calls
    PROVE  /\ Store!NeedsSource(c) <=> TwoPaths(c) /\ source[c] = NoPath
           /\ Store!Named(c) = Looking(c)
<1>1. Store!NeedsSource(c) <=> TwoPaths(c) /\ source[c] = NoPath
  BY SamePaths DEF Store!NeedsSource, TwoPaths
<1> QED
  BY <1>1, SamePaths DEF Store!Named, Looking, Asked, AskedTarget, TwoPaths

\* What the server grants is a path the store may grant.
LEMMA GrantCalls ==
    ASSUME TypeOK, Dirs # <<>>, Sought, Granted, TempsAreFiles, NEW c \in Calls, Quiet(c),
           LookUp(c) \/ LookAbove(c), NEW path, Looked(c, path), Allows(tree, candidate[c], roots),
           ~LookAgain(tree, candidate[c]),
           path = IF pc[c] = "resolve" THEN RealPath(tree, candidate[c]) ELSE Looking(c)
    PROVE  Store!StoreNext
<1>1. PICK named : named = Looking(c)
  OBVIOUS
<1>2. named \in Seq(Names) /\ Store!Named(c) = named
  BY <1>1, AskedType, NamedIs
<1>3. pc[c] \in {"resolve", "ancestor"} /\ IsWithin(named, roots) /\ target[c] = NoPath
  BY <1>1 DEF LookUp, LookAbove, Sought, Granted
<1>4. RealPath(Seen, named) = RealPath(tree, named) /\ Allows(Seen, named, roots) = Allows(tree, named, roots)
  BY <1>2, SeenTree, SeesAlike
<1>5. /\ path \in {Store!Named(c), Store!RealPath(Seen, Store!Named(c))}
      /\ Store!MayGrant(Store!Named(c), path)
  <2>1. CASE pc[c] = "resolve"
    <3>1. candidate[c] = named /\ path = RealPath(tree, named)
      BY <1>1, <2>1 DEF Sought
    <3> QED
      BY <1>2, <1>3, <1>4, <3>1, SamePaths DEF Store!MayGrant
  <2>2. CASE pc[c] = "ancestor"
    <3>1. PICK n \in 0..Len(named) : candidate[c] = Prefix(named, n)
      BY <1>1, <2>2 DEF Sought, Above
    <3>2. PICK q : q = candidate[c]
      OBVIOUS
    <3>3. Allows(Seen, q, roots)
      <4>1. q \in Seq(Names) /\ Allows(tree, q, roots)
        BY <3>2 DEF TypeOK
      <4> QED
        BY <4>1, SeenTree, SeesAlike
    <3>4. Allows(Seen, Prefix(named, n), roots)
      BY <3>1, <3>2, <3>3
    <3> QED
      BY <1>1, <1>2, <1>3, <2>2, <3>4, SamePaths DEF Store!MayGrant
  <2> QED
    BY <1>3, <2>1, <2>2
<1>6. Grant(c, path) /\ UNCHANGED <<tree, text, reply>>
  BY DEF Looked, LookUp, LookAbove
<1>7. Store!Grant(c)
  <2>1. Store!Pending(c)
    BY <1>3 DEF Store!Pending, Quiet
  <2>2. CASE TwoPaths(c) /\ source[c] = NoPath
    <3>1. source' = [source EXCEPT ![c] = path] /\ UNCHANGED target
      BY <1>6, <2>2 DEF Grant
    <3> QED
      BY <1>5, <1>6, <2>1, <2>2, <3>1, NamedIs DEF Store!Grant, Quiet
  <2>3. CASE ~(TwoPaths(c) /\ source[c] = NoPath)
    <3>1. target' = [target EXCEPT ![c] = path] /\ UNCHANGED source
      BY <1>6, <2>3 DEF Grant
    <3> QED
      BY <1>3, <1>5, <1>6, <2>1, <2>3, <3>1, NamedIs, SamePaths DEF Store!Grant, Quiet
  <2> QED
    BY <2>2, <2>3
<1> QED
  BY <1>7 DEF Store!StoreNext

\* Looking up and testing change no file.
LEMMA QuietCalls ==
    ASSUME TypeOK, Dirs # <<>>, OnTrack, Sought, Granted, TempsAreFiles, Steadied,
           NEW c \in Calls, Watch, Handle(c),
           Refuse(c) \/ LookUp(c) \/ LookAbove(c) \/ Fails(c) \/ DestinationExists(c)
    PROVE  UNCHANGED Store!storeVars \/ Store!StoreNext
<1>1. tree' = tree /\ text' = text
  BY DEF Refuse, LookUp, LookAbove, Fails, DestinationExists, Unchanged
<1>2. pc[c] \in {"resolve", "ancestor", "read", "mkdir", "isdir", "descend", "exists", "move",
                 "open", "visit"}
  BY DEF Refuse, LookUp, LookAbove, Fails, DestinationExists
<1>3. reply' = reply \/ Finish(c, "error")
  <2>1. CASE Refuse(c) \/ Fails(c) \/ DestinationExists(c)
    BY <2>1 DEF Refuse, Fails, DestinationExists
  <2>2. CASE LookUp(c) \/ LookAbove(c)
    BY <2>2 DEF LookUp, LookAbove, Looked
  <2> QED
    BY <2>1, <2>2
<1>4. ~TakesEffect(c)
  <2>1. reply = [b \in Calls |-> reply[b]] /\ reply[c] = "none"
    BY <1>2 DEF TypeOK
  <2>2. reply'[c] # "ok"
    BY <1>3, <2>1 DEF Finish
  <2> QED
    BY <1>2, <2>2 DEF TakesEffect
<1>5. Seen' = Seen
  BY <1>1, SeenIs
<1>6. Quiet(c)
  BY <1>4, <1>5, MostAreQuiet
<1>7. CASE UNCHANGED <<source, target>>
  BY <1>1, <1>2, <1>3, <1>6, <1>7, QuietStep
<1>8. CASE Refuse(c) \/ Fails(c) \/ DestinationExists(c)
  BY <1>7, <1>8 DEF Refuse, Fails, DestinationExists, Unchanged
<1>9. CASE LookUp(c) \/ LookAbove(c)
  <2>1. CASE LookAgain(tree, candidate[c]) \/ ~Allows(tree, candidate[c], roots)
    BY <1>7, <1>9, <2>1 DEF LookUp, LookAbove, Looked
  <2>2. CASE ~LookAgain(tree, candidate[c]) /\ Allows(tree, candidate[c], roots)
    <3>1. PICK path : path = IF pc[c] = "resolve" THEN RealPath(tree, candidate[c]) ELSE Looking(c)
      OBVIOUS
    <3>2. Looked(c, path)
      BY <1>9, <2>2, <3>1 DEF LookUp, LookAbove
    <3> QED
      BY <1>6, <1>9, <2>2, <3>1, <3>2, GrantCalls
  <2> QED
    BY <2>1, <2>2
<1> QED
  BY <1>8, <1>9

\* Walks change nothing, and answer.
LEMMA WalkCalls ==
    ASSUME TypeOK, OnTrack, Steadied, NEW c \in Calls, Watch, Handle(c),
           Open(c) \/ CloseDirectory(c) \/ SearchVisit(c) \/ TreeVisit(c)
    PROVE  UNCHANGED Store!storeVars \/ Store!StoreNext
<1>1. tree' = tree /\ text' = text /\ UNCHANGED <<source, target>>
  BY DEF Open, CloseDirectory, SearchVisit, TreeVisit
<1>2. pc[c] \in {"open", "visit"}
  BY DEF Open, CloseDirectory, SearchVisit, TreeVisit
<1>3. reply' = reply \/ Finish(c, "error") \/ Finish(c, "ok")
  <2>1. CASE Open(c)
    BY <2>1 DEF Open
  <2>2. CASE CloseDirectory(c)
    BY <2>2 DEF CloseDirectory
  <2>3. CASE SearchVisit(c)
    BY <2>3 DEF SearchVisit, Truncate
  <2>4. CASE TreeVisit(c)
    BY <2>4 DEF TreeVisit, Truncate
  <2> QED
    BY <2>1, <2>2, <2>3, <2>4
<1>4. Quiet(c)
  <2>1. ~TakesEffect(c)
    BY <1>2 DEF TakesEffect
  <2>2. Seen' = Seen
    BY <1>1, SeenIs
  <2> QED
    BY <2>1, <2>2, MostAreQuiet
<1>5. request[c].tool \in Walkers
  BY <1>2, AfterGranted
<1>6. CASE Finish(c, "ok")
  BY <1>1, <1>4, <1>5, <1>6, AnswersOnly DEF Quiet, Finish
<1> QED
  BY <1>1, <1>2, <1>3, <1>4, <1>6, QuietStep

\* A file that a call opens is one that users see.
LEMMA OpenedIsSeen ==
    ASSUME TypeOK, TempsAreFiles, NEW c \in Calls, CanOpen(target[c]), ~IsDir(tree, Opened(target[c]))
    PROVE  Store!LeadsToFile(Seen, target[c]) /\ Store!Found(c) = tree[Opened(target[c])].text
<1>1. PICK t, q, p : t = tree /\ q = target[c] /\ p = RealPath(t, q)
  OBVIOUS
<1>2. t \in [Paths -> Nodes(Names)] /\ IsTree(t) /\ LeafTemps(t) /\ Seen = Visible(t) /\ q \in Seq(Names)
  BY <1>1, SeenTree DEF TypeOK
<1>3. RealPath(Seen, q) = p /\ p \in Seq(Names) /\ LeadsToFile(Seen, q) = LeadsToFile(t, q)
  BY <1>1, <1>2, SeesAlike
<1>4. RealStatus(t, q) = "ok" /\ Exists(t, p) /\ ~IsLink(t, p) /\ ~IsDir(t, p)
  BY <1>1 DEF CanOpen, Opened, RealPath, RealStatus
<1>5. IsFile(t, p) /\ p \in Paths
  BY <1>2, <1>4, NodeKinds
<1>6. LeadsToFile(Seen, q)
  BY <1>1, <1>3, <1>4, <1>5 DEF LeadsToFile
<1>7. Seen[p] = t[p]
  BY <1>2, <1>3, <1>5, PlainIsSeen DEF Visible
<1>8. Store!Found(c) = Seen[p].text
  BY <1>1, <1>3, SamePaths DEF Store!Found
<1> QED
  BY <1>1, <1>6, <1>7, <1>8, SamePaths DEF Opened

\* A read is a read of a visible file.
LEMMA ReadCalls ==
    ASSUME TypeOK, TempsAreFiles, Steadied, NEW c \in Calls, Watch, Handle(c), Read(c)
    PROVE  UNCHANGED Store!storeVars \/ Store!StoreNext
<1>1. /\ tree' = tree /\ pc[c] = "read" /\ request[c].tool \in Readers
      /\ UNCHANGED <<source, target>> /\ text = [b \in Calls |-> text[b]]
  BY DEF Read, TypeOK
<1>2. Quiet(c) /\ ~changed[c]
  <2>1. ~TakesEffect(c)
    BY <1>1 DEF TakesEffect
  <2>2. Seen' = Seen
    BY <1>1, SeenIs
  <2> QED
    BY <1>1, <2>1, <2>2, MostAreQuiet DEF Quiet
<1>3. CASE Finish(c, "error") /\ UNCHANGED text
  BY <1>1, <1>2, <1>3, QuietStep
<1>4. CASE ~(Finish(c, "error") /\ UNCHANGED text)
  <2>1. /\ CanOpen(target[c])
        /\ IsDir(tree, Opened(target[c])) = (request[c].tool = "list_directory")
        /\ Finish(c, "ok")
        /\ text' = [text EXCEPT ![c] = IF request[c].tool = "list_directory" THEN <<>>
                                       ELSE tree[Opened(target[c])].text]
    BY <1>4 DEF Read
  <2>2. CASE request[c].tool = "list_directory"
    <3>1. text' = text
      BY <1>1, <2>1, <2>2 DEF Steadied
    <3>2. LeadsToDir(Seen, target[c])
      <4>1. PICK q : q = target[c]
        OBVIOUS
      <4>2. q \in Seq(Names) /\ LeadsToDir(tree, q)
        BY <2>1, <2>2, <4>1 DEF TypeOK, CanOpen, Opened, LeadsToDir
      <4> QED
        BY <4>1, <4>2, SeenTree, SeesAlike
    <3> QED
      BY <1>1, <1>2, <2>1, <2>2, <3>1, <3>2, AnswersOnly DEF Quiet, Finish
  <2>3. CASE request[c].tool # "list_directory"
    <3>1. request[c].tool = "read_text_file"
      BY <1>1, <2>3 DEF Readers
    <3>2. Store!LeadsToFile(Seen, target[c]) /\ Store!Found(c) = tree[Opened(target[c])].text
      BY <2>1, <2>3, OpenedIsSeen
    <3>3. text' = [text EXCEPT ![c] = Store!Found(c)]
      BY <2>1, <2>3, <3>2
    <3>4. Store!Read(c)
      BY <1>1, <1>2, <2>1, <3>1, <3>2, <3>3 DEF Store!Read, Store!Pending, Quiet, Finish
    <3> QED
      BY <3>4 DEF Store!StoreNext
  <2> QED
    BY <2>2, <2>3
<1> QED
  BY <1>3, <1>4

\* An edit reads and edits a visible file.
LEMMA EditCalls ==
    ASSUME TypeOK, TempsAreFiles, Steadied, NEW c \in Calls, Watch, Handle(c), ReadToEdit(c)
    PROVE  UNCHANGED Store!storeVars \/ Store!StoreNext
<1>1. /\ tree' = tree /\ pc[c] = "read" /\ request[c].tool = "edit_file"
      /\ UNCHANGED <<source, target>> /\ text = [b \in Calls |-> text[b]]
  BY DEF ReadToEdit, TypeOK
<1>2. Quiet(c) /\ ~changed[c]
  <2>1. ~TakesEffect(c)
    BY <1>1 DEF TakesEffect
  <2>2. Seen' = Seen
    BY <1>1, SeenIs
  <2> QED
    BY <1>1, <2>1, <2>2, MostAreQuiet DEF Quiet
<1>3. CASE Finish(c, "error") /\ UNCHANGED text
  BY <1>1, <1>2, <1>3, QuietStep
<1>4. CASE CanOpen(target[c]) /\ IsFile(tree, Opened(target[c]))
  <2>1. Store!LeadsToFile(Seen, target[c]) /\ Store!Found(c) = tree[Opened(target[c])].text
    <3>1. ~IsDir(tree, Opened(target[c]))
      BY <1>4, TreeIsTyped, NodeKinds
    <3> QED
      BY <1>4, <3>1, OpenedIsSeen
  <2>2. PICK e : e = Edited(c)
    OBVIOUS
  <2>3. e = Store!Edited(c)
    BY <2>1, <2>2, SameEdits DEF Edited, Store!Edited
  <2>4. /\ text' = [text EXCEPT ![c] = e.text]
        /\ IF ~e.ok THEN Finish(c, "error")
           ELSE IF request[c].dry \/ e.text = Store!Found(c) THEN Finish(c, "ok")
           ELSE Goto(c, "create") /\ UNCHANGED reply
    BY <1>4, <2>1, <2>2 DEF ReadToEdit
  <2>5. reply' = [reply EXCEPT ![c] =
             IF ~e.ok THEN "error" ELSE IF request[c].dry \/ e.text = Store!Found(c) THEN "ok" ELSE "none"]
    <3>1. reply = [reply EXCEPT ![c] = "none"]
      BY <1>2 DEF Quiet
    <3> QED
      BY <2>4, <3>1 DEF Finish
  <2>6. Store!Edit(c)
    BY <1>1, <1>2, <2>1, <2>3, <2>4, <2>5 DEF Store!Edit, Store!Pending, Quiet
  <2> QED
    BY <2>6 DEF Store!StoreNext
<1> QED
  BY <1>3, <1>4 DEF ReadToEdit

\* Temporary files come and go unseen.
LEMMA TempCalls ==
    ASSUME TypeOK, OnTrack, Steadied, TempsAreFiles, NEW c \in Calls, Watch, Handle(c),
           CreateTemp(c) \/ Fill(c) \/ FillFails(c) \/ SyncParent(c) \/ RemoveTemp(c)
    PROVE  UNCHANGED Store!storeVars \/ Store!StoreNext
<1>1. pc[c] \in {"create", "fill", "sync", "remove"} /\ UNCHANGED <<source, target, text>>
  BY DEF CreateTemp, Fill, FillFails, SyncParent, RemoveTemp, Unchanged
<1>2. ~TakesEffect(c)
  BY <1>1 DEF TakesEffect
<1>3. Seen' = Seen
  <2>1. PICK t, u : t = tree /\ u = tree'
    OBVIOUS
  <2>2. t \in [Paths -> Nodes(Names)]
    BY <2>1, TreeIsTyped
  <2>3. ASSUME NEW p \in Paths, Last(p) = Temp(c), p # <<>>, NEW node, u = [t EXCEPT ![p] = node]
        PROVE  Visible(u) = Visible(t)
    <3>1. IsTemp(p)
      BY <2>3 DEF IsTemp
    <3> QED
      BY <2>2, <2>3, <3>1, TempUnseen
  <2>4. PICK p : p = Place(tree, TempOf(c))
    OBVIOUS
  <2>5. CASE CreateTemp(c) /\ u # t
    <3>1. HasPlace(tree, TempOf(c)) /\ p \in Paths /\ u = [t EXCEPT ![p] = File(Partial)]
      BY <2>1, <2>4, <2>5 DEF CreateTemp
    <3>2. Last(p) = Temp(c) /\ p # <<>>
      BY <2>4, <3>1, TempPlace
    <3> QED
      BY <2>1, <2>3, <3>1, <3>2, SeenIs
  <2>6. CASE Fill(c)
    <3>1. PICK q, node : q \in TempAt(c) /\ node = File(NewText(c)) /\ u = [t EXCEPT ![q] = node]
      BY <2>1, <2>6 DEF Fill
    <3>2. q \in Paths /\ Last(q) = Temp(c) /\ q # <<>>
      BY <3>1 DEF TempAt
    <3> QED
      BY <2>1, <2>3, <3>1, <3>2, SeenIs
  <2>7. CASE RemoveTemp(c) /\ u # t
    <3>1. HasPlace(tree, TempOf(c)) /\ Exists(tree, p) /\ u = [t EXCEPT ![p] = None]
      BY <2>1, <2>4, <2>7 DEF RemoveTemp
    <3>2. Last(p) = Temp(c) /\ p # <<>> /\ p \in Paths
      BY <2>1, <2>2, <2>4, <3>1, TempPlace, NodeKinds
    <3> QED
      BY <2>1, <2>3, <3>1, <3>2, SeenIs
  <2>8. CASE u = t
    BY <2>1, <2>8, SeenIs
  <2>9. CASE FillFails(c) \/ SyncParent(c)
    BY <2>1, <2>8, <2>9 DEF FillFails, SyncParent
  <2> QED
    BY <2>5, <2>6, <2>7, <2>8, <2>9
<1>4. Quiet(c)
  BY <1>2, <1>3, MostAreQuiet
<1>5. CASE CreateTemp(c) \/ Fill(c) \/ FillFails(c)
  <2>1. pc[c] \in {"create", "fill"} /\ (reply' = reply \/ Finish(c, "error"))
    BY <1>5 DEF CreateTemp, Fill, FillFails
  <2> QED
    BY <1>1, <1>4, <2>1, QuietStep
<1>6. request[c].tool \in Writers
  <2>1. request[c].tool \in Tools
    BY FileAssumption DEF TypeOK
  <2> QED
    BY <1>1, <2>1 DEF OnTrack, Stages, Writing, Making, Tools, Readers, Writers, Walkers
<1>7. CASE SyncParent(c)
  <2>1. pc[c] = "sync" /\ (reply' = reply \/ Finish(c, "ok"))
    BY <1>7 DEF SyncParent
  <2>2. changed[c]
    BY <2>1 DEF Steadied
  <2>3. CASE reply' = reply
    BY <1>1, <1>4, <2>3 DEF Quiet, Store!storeVars
  <2>4. CASE Finish(c, "ok")
    BY <1>1, <1>4, <2>2, <2>4, AnswersOnly DEF Quiet, Finish
  <2> QED
    BY <2>1, <2>3, <2>4
<1>8. CASE RemoveTemp(c)
  <2>1. Finish(c, "error")
    BY <1>8 DEF RemoveTemp
  <2> QED
    BY <1>1, <1>4, <1>6, <2>1, AnswersOnly DEF Quiet, Finish
<1> QED
  BY <1>5, <1>7, <1>8

\* A call takes effect once.
LEMMA EffectOf ==
    ASSUME TypeOK, Steadied, NEW c \in Calls, Watch, Handle(c), TakesEffect(c)
    PROVE  changed' = [changed EXCEPT ![c] = TRUE] /\ ~changed[c] /\ reply[c] = "none"
<1>1. /\ changed' \in [Calls -> BOOLEAN] /\ changed \in [Calls -> BOOLEAN]
      /\ \A b \in Calls \ {c} : changed'[b] = changed[b]
      /\ changed'[c] = TRUE
  BY EffectsAre DEF Steadied
<1>2. changed' = [b \in Calls |-> changed'[b]]
  BY <1>1
<1>3. changed' = [changed EXCEPT ![c] = TRUE]
  BY <1>1, <1>2
<1>4. ~changed[c]
  BY DEF Steadied, TakesEffect
<1>5. reply[c] = "none"
  BY StepIsLocal DEF TypeOK
<1> QED
  BY <1>3, <1>4, <1>5

\* create_directory makes its directories one by one, and answers when the last is there.
LEMMA DirCalls ==
    ASSUME TypeOK, OnTrack, Sought, Steadied, TempsAreFiles, NEW c \in Calls, Watch, Handle(c),
           MakeDirectory(c) \/ CheckDirectory(c)
    PROVE  UNCHANGED Store!storeVars \/ Store!StoreNext
<1>1. /\ pc[c] \in Making /\ UNCHANGED <<roots, request, source, target, text>>
      /\ request[c].tool = "create_directory"
      /\ reply = [b \in Calls |-> reply[b]] /\ reply[c] = "none" /\ ~changed[c]
  <2>1. pc[c] \in Making /\ UNCHANGED <<roots, request, source, target, text>>
    BY MakingIs
  <2>2. request[c].tool \in Tools
    BY FileAssumption DEF TypeOK
  <2>3. request[c].tool = "create_directory"
    BY <2>1, <2>2 DEF OnTrack, Stages, Writing, Making, Tools, Readers, Writers, Walkers
  <2>4. reply = [b \in Calls |-> reply[b]] /\ reply[c] = "none" /\ ~changed[c]
    BY <2>1 DEF TypeOK, Steadied, Making
  <2> QED
    BY <2>1, <2>3, <2>4
<1>2. changed' = changed
  <2>1. ~TakesEffect(c)
    BY <1>1 DEF TakesEffect, Making
  <2>2. /\ changed' \in [Calls -> BOOLEAN] /\ changed \in [Calls -> BOOLEAN]
        /\ \A b \in Calls \ {c} : changed'[b] = changed[b]
        /\ changed'[c] <=> changed[c]
    BY <2>1, EffectsAre DEF Steadied
  <2>3. \A b \in Calls : changed'[b] = changed[b]
    BY <2>2
  <2> QED
    BY <2>2, <2>3
<1>3. PICK t, u, p, q : t = tree /\ u = tree' /\ p = target[c] /\ q = candidate[c]
  OBVIOUS
<1>4. /\ t \in [Paths -> Nodes(Names)] /\ IsTree(t) /\ LeafTemps(t) /\ Seen = Visible(t) /\ Seen' = Visible(u)
      /\ p \in Seq(Names) /\ q \in Seq(Names) /\ Above(q, p)
  BY <1>1, <1>3, SeenTree, SeenIs DEF TypeOK, Sought
<1>5. PICK n \in 0..Len(p) : q = Prefix(p, n)
  BY <1>4 DEF Above
<1>6. q = p <=> n = Len(p)
  BY <1>4, <1>5, PrefixOf, PrefixWhole
<1>7. ASSUME NextDown(c) PROVE IF q = p THEN Finish(c, "ok") ELSE UNCHANGED reply
  BY <1>3, <1>7 DEF NextDown
<1>8. CASE MakeDirectory(c) /\ CanMkdir(t, q)
  <2>1. u = Mkdir(t, q) /\ NextDown(c)
    BY <1>3, <1>8 DEF MakeDirectory
  <2>2. CanMkdir(Seen, q) /\ Seen' = Mkdir(Seen, q)
    BY <1>4, <1>8, <2>1, VisibleMkdir
  <2>3. n \in 1..Len(p)
    <3>1. q # <<>>
      BY <1>8 DEF CanMkdir, HasPlace
    <3>2. n = 0 => q = <<>>
      BY <1>4, <1>5, SubSeqEmpty DEF Prefix
    <3> QED
      BY <1>4, <3>1, <3>2
  <2>4. reply' = [reply EXCEPT ![c] = IF n = Len(p) THEN "ok" ELSE "none"]
    <3>1. reply = [reply EXCEPT ![c] = "none"]
      BY <1>1
    <3> QED
      BY <1>6, <1>7, <2>1, <3>1 DEF Finish
  <2>5. /\ Store!CanMkdir(Seen, Store!Prefix(target[c], n))
        /\ Seen' = Store!Mkdir(Seen, Store!Prefix(target[c], n))
        /\ reply' = [reply EXCEPT ![c] = IF n = Len(target[c]) THEN "ok" ELSE "none"]
        /\ n \in 1..Len(target[c])
    BY <1>3, <1>5, <2>2, <2>3, <2>4, SameChanges, SamePaths
  <2>6. Store!MakeDir(c)
    BY <1>1, <1>2, <2>5 DEF Store!MakeDir, Store!Pending
  <2> QED
    BY <2>6 DEF Store!StoreNext
<1>9. ASSUME tree' = tree, UNCHANGED reply PROVE UNCHANGED Store!storeVars
  BY <1>1, <1>2, <1>9, SeenIs DEF Store!storeVars
<1>10. CASE MakeDirectory(c) /\ ~CanMkdir(t, q)
  BY <1>3, <1>9, <1>10 DEF MakeDirectory
<1>11. CASE CheckDirectory(c)
  <2>1. tree' = tree /\ Seen' = Seen
    BY <1>11, SeenIs DEF CheckDirectory
  <2>2. CASE ~LeadsToDir(t, q)
    <3>1. Finish(c, "error")
      BY <1>3, <1>11, <2>2 DEF CheckDirectory
    <3> QED
      BY <1>1, <1>2, <2>1, <3>1, AnswersOnly DEF Finish
  <2>3. CASE LeadsToDir(t, q)
    <3>1. NextDown(c)
      BY <1>3, <1>11, <2>3 DEF CheckDirectory
    <3>2. CASE q # p
      BY <1>7, <1>9, <2>1, <3>1, <3>2
    <3>3. CASE q = p
      <4>1. LeadsToDir(Seen, target[c])
        BY <1>3, <1>4, <2>3, <3>3, SeesAlike
      <4> QED
        BY <1>1, <1>2, <1>7, <2>1, <3>1, <3>3, <4>1, AnswersOnly DEF Finish
    <3> QED
      BY <3>2, <3>3
  <2> QED
    BY <2>2, <2>3
<1> QED
  BY <1>8, <1>10, <1>11

\* A write takes effect when the temporary file, whole by then, is renamed.
LEMMA WriteCalls ==
    ASSUME TypeOK, OnTrack, Steadied, TempsAreFiles, Filled, NEW c \in Calls, Watch, Handle(c), Rename(c)
    PROVE  UNCHANGED Store!storeVars \/ Store!StoreNext
<1>1. /\ pc[c] = "rename" /\ reply' = reply /\ UNCHANGED <<roots, request, source, target, text>>
      /\ request[c].tool \in Writers /\ pc = [b \in Calls |-> pc[b]]
  <2>1. pc[c] = "rename" /\ reply' = reply /\ UNCHANGED <<roots, request, source, target, text>>
    BY DEF Rename, Unchanged, callVars
  <2>2. request[c].tool \in Tools
    BY FileAssumption DEF TypeOK
  <2>3. request[c].tool \in Writers
    BY <2>1, <2>2 DEF OnTrack, Stages, Writing, Making, Tools, Readers, Writers, Walkers
  <2> QED
    BY <2>1, <2>3 DEF TypeOK
<1>2. CASE ~CanRename(tree, TempOf(c), target[c])
  <2>1. tree' = tree /\ pc'[c] = "remove"
    BY <1>1, <1>2 DEF Rename, Goto
  <2>2. ~TakesEffect(c)
    BY <1>1, <2>1 DEF TakesEffect
  <2>3. Quiet(c)
    BY <2>1, <2>2, SeenIs, MostAreQuiet
  <2> QED
    BY <1>1, <2>3, QuietStep
<1>3. CASE CanRename(tree, TempOf(c), target[c])
  <2>1. tree' = Renamed(tree, TempOf(c), target[c]) /\ pc'[c] = "sync"
    BY <1>1, <1>3 DEF Rename, Goto
  <2>2. TakesEffect(c)
    BY <1>1, <2>1 DEF TakesEffect
  <2>3. PICK t, u, from, to, s, d :
          /\ t = tree /\ u = tree' /\ from = TempOf(c) /\ to = target[c]
          /\ s = Place(t, from) /\ d = Place(t, to)
    OBVIOUS
  <2>4. CanRename(tree, from, to) /\ u = Renamed(tree, from, to)
    BY <1>3, <2>1, <2>3
  <2>5. /\ s # d => IsRename(Names, t, from, to, s, d)
        /\ u = Renamed(t, from, to)
        /\ Exists(t, s) /\ Last(s) = Last(from) /\ Last(d) \in Names
    BY <2>3, <2>4, RenameIs
  <2>6. Last(s) = Temp(c) /\ s # d
    <3>1. Last(from) = Temp(c)
      BY <2>3, PathsOf
    <3> QED
      BY <2>5, <3>1, ConstantsAre
  <2>7. LeafTemps(t) /\ IsRename(Names, t, from, to, s, d)
    BY <2>3, <2>5, <2>6 DEF LeafTemps, TempsAreFiles
  <2>8. d \in Paths /\ ~IsDir(Visible(t), d) /\ Visible(u) = [Visible(t) EXCEPT ![d] = t[s]]
    BY <2>5, <2>6, <2>7, VisibleWrite
  <2>9. t[s] = File(NewText(c))
    <3>1. s \in Paths /\ s # <<>>
      BY <2>7, RenameApart
    <3>2. s \in TempAt(c)
      BY <2>3, <2>5, <2>6, <3>1 DEF TempAt
    <3> QED
      BY <1>1, <2>3, <3>2 DEF Filled
  <2>10. Store!WriteOne(c, NewText(c))
    <3>1. t \in [Paths -> Nodes(Names)] /\ IsTree(t) /\ to \in Seq(Names) /\ HasPlace(t, to)
      BY <2>3, <2>4, SeenTree, PathsOf DEF CanRename
    <3>2. Place(Visible(t), to) = d /\ HasPlace(Visible(t), to)
      BY <2>3, <2>7, <3>1, PlacedAlike
    <3>3. Seen = Visible(t) /\ Seen' = Visible(u)
      BY <2>3, SeenIs
    <3> QED
      BY <2>3, <2>8, <2>9, <3>2, <3>3, SameChanges DEF Store!WriteOne
  <2>11. Store!Change(c)
    <3>1. CASE request[c].tool = "write_file"
      BY <1>1, <2>2, <2>10, <3>1, EffectOf DEF Store!Change, Store!Pending, NewText
    <3>2. CASE request[c].tool = "edit_file"
      BY <1>1, <2>2, <2>10, <3>2, EffectOf DEF Store!Change, Store!Pending, NewText
    <3> QED
      BY <1>1, <3>1, <3>2 DEF Writers
  <2> QED
    BY <2>11 DEF Store!StoreNext
<1> QED
  BY <1>2, <1>3

\* A move of an entry onto itself succeeds and changes nothing.
LEMMA VisibleStill ==
    ASSUME NEW t \in [Paths -> Nodes(Names)], IsTree(t), LeafTemps(t),
           NEW from \in Seq(Int), Parent(from) \in Seq(Names), NEW to, CanRename(t, from, to),
           NEW s, s = Place(t, from), s = Place(t, to), Last(s) \in Names
    PROVE  /\ Place(Visible(t), s) = s
           /\ CanRename(Visible(t), s, s) /\ Visible(t) = Renamed(Visible(t), s, s)
<1> DEFINE v == Visible(t)
<1>1. HasPlace(t, from) /\ Exists(t, s) /\ ~Below(s, s)
  BY DEF CanRename, Below
<1>2. /\ s \in Seq(Int) /\ s # <<>> /\ IsDir(t, Parent(s)) /\ s \in Paths
  <2>1. /\ s \in Seq(Int) /\ s # <<>>
        /\ Parent(s) = RealPath(t, Parent(from)) /\ IsDir(t, RealPath(t, Parent(from)))
    <3>1. Names \in SUBSET Int
      BY ConstantsAre
    <3> QED
      BY <1>1, <3>1, PlaceOf
  <2> QED
    BY <1>1, <2>1, NodeKinds
<1>3. /\ v \in [Paths -> Nodes(Names)] /\ IsTree(v)
      /\ \A p : Node(v, p) = IF IsTemp(p) THEN None ELSE Node(t, p)
      /\ \A p : IsDir(v, p) <=> IsDir(t, p)
  BY VisibleIs
<1>4. HasPlace(v, s) /\ Place(v, s) = s
  BY <1>2, <1>3, OwnPlace
<1>5. Exists(v, s)
  <2>1. ~IsTemp(s)
    BY ConstantsAre DEF IsTemp
  <2> QED
    BY <1>1, <1>3, <2>1 DEF Exists
<1>6. \A p \in Paths : Inside(p, s) => Moved(p, s, s) \in Paths
  <2>1. ASSUME NEW p \in Paths, Inside(p, s) PROVE Moved(p, s, s) = p
    <3>1. p \in Seq(Int)
      BY ConstantsAre
    <3>2. Len(s) \in 0..Len(p) /\ SubSeq(p, 1, Len(s)) = s
      BY <1>2, <2>1, <3>1, InsideIs DEF Prefix
    <3>3. PICK k, l : k = Len(s) /\ l = Len(p)
      OBVIOUS
    <3>4. 1 \in 1..Len(p) + 1 /\ k \in 1 - 1..Len(p) /\ l \in k..Len(p)
      BY <3>1, <3>2, <3>3
    <3>5. SubSeq(p, 1, k) \o SubSeq(p, k + 1, l) = SubSeq(p, 1, l)
      BY <3>1, <3>4, ConcatAdjacentSubSeq
    <3>6. SubSeq(p, 1, l) = p
      BY <3>1, <3>3, SubSeqFull
    <3> QED
      BY <3>2, <3>3, <3>5, <3>6 DEF Moved
  <2> QED
    BY <2>1
<1>7. CanRename(v, s, s)
  BY <1>1, <1>4, <1>5, <1>6 DEF CanRename
<1>8. Renamed(v, s, s) = v
  BY <1>4 DEF Renamed
<1> QED
  BY <1>4, <1>7, <1>8

\* A move takes effect at once.
LEMMA MoveCalls ==
    ASSUME TypeOK, OnTrack, Steadied, TempsAreFiles, NEW c \in Calls, Watch, Handle(c), MoveFile(c)
    PROVE  UNCHANGED Store!storeVars \/ Store!StoreNext
<1>1. /\ pc[c] = "move" /\ UNCHANGED <<roots, request, source, target, text>>
      /\ request[c].tool = "move_file"
      /\ reply = [b \in Calls |-> reply[b]] /\ reply[c] = "none"
  <2>1. pc[c] = "move" /\ UNCHANGED <<roots, request, source, target, text>>
    BY DEF MoveFile, Unchanged, callVars
  <2>2. request[c].tool \in Tools
    BY FileAssumption DEF TypeOK
  <2>3. request[c].tool = "move_file"
    BY <2>1, <2>2 DEF OnTrack, Stages, Writing, Making, Tools, Readers, Writers, Walkers
  <2> QED
    BY <2>1, <2>3 DEF TypeOK
<1>2. CASE ~CanRename(tree, source[c], target[c])
  <2>1. tree' = tree /\ Finish(c, "error")
    BY <1>2 DEF MoveFile
  <2>2. ~TakesEffect(c)
    BY <1>1, <2>1 DEF TakesEffect, Finish
  <2>3. Quiet(c)
    BY <2>1, <2>2, SeenIs, MostAreQuiet
  <2> QED
    BY <1>1, <2>1, <2>3, QuietStep
<1>3. CASE CanRename(tree, source[c], target[c])
  <2>1. tree' = Renamed(tree, source[c], target[c]) /\ Finish(c, "ok")
    BY <1>3 DEF MoveFile
  <2>2. TakesEffect(c)
    BY <1>1, <2>1 DEF TakesEffect, Finish
  <2>3. PICK t, u, from, to, s, d :
          /\ t = tree /\ u = tree' /\ from = source[c] /\ to = target[c]
          /\ s = Place(t, from) /\ d = Place(t, to)
    OBVIOUS
  <2>4. CanRename(tree, from, to) /\ u = Renamed(tree, from, to)
    BY <1>3, <2>1, <2>3
  <2>5. /\ s # d => IsRename(Names, t, from, to, s, d)
        /\ s = d => u = t
        /\ u = Renamed(t, from, to)
        /\ Last(s) = Last(from) /\ Last(d) \in Names
    BY <2>3, <2>4, RenameIs
  <2>6. from \in Seq(Int) /\ Parent(from) \in Seq(Names) /\ Last(from) \in Names
    <3>1. from # <<>>
      BY <2>4 DEF CanRename, HasPlace
    <3>2. from \in Seq(Names)
      BY <2>3, PathsOf
    <3> QED
      BY <2>3, <3>1, <3>2, PathsOf, ParentOf
  <2>7. LeafTemps(t) /\ t \in [Paths -> Nodes(Names)] /\ IsTree(t)
    BY <2>3, TreeIsTyped DEF LeafTemps, TempsAreFiles
  <2>8. /\ Place(Visible(t), s) = s /\ Place(Visible(t), d) = d
        /\ CanRename(Visible(t), s, d) /\ Visible(u) = Renamed(Visible(t), s, d)
    <3>1. CASE s # d
      BY <2>5, <2>6, <2>7, <3>1, VisibleMove
    <3>2. CASE s = d
      <4>1. /\ Place(Visible(t), s) = s
            /\ CanRename(Visible(t), s, s) /\ Visible(t) = Renamed(Visible(t), s, s)
        <5>1. s = Place(t, from) /\ s = Place(t, to) /\ Last(s) \in Names /\ CanRename(t, from, to)
          BY <2>3, <2>4, <2>5, <3>2
        <5> QED
          BY <2>6, <2>7, <5>1, VisibleStill
      <4> QED
        BY <2>5, <3>2, <4>1
    <3> QED
      BY <3>1, <3>2
  <2>9. CanRename(Visible(t), from, to) /\ Visible(u) = Renamed(Visible(t), from, to)
    <3>1. from \in Seq(Names) /\ to \in Seq(Names) /\ HasPlace(t, from) /\ HasPlace(t, to)
      BY <2>3, <2>4, PathsOf DEF CanRename
    <3>2. PICK v : v = Visible(t)
      OBVIOUS
    <3>3. /\ Place(v, from) = s /\ HasPlace(v, from) /\ Place(v, to) = d /\ HasPlace(v, to)
          /\ s \in Seq(Names) /\ d \in Seq(Names)
      BY <2>3, <2>7, <3>1, <3>2, PlacedAlike
    <3>4. Place(v, s) = s /\ Place(v, d) = d /\ CanRename(v, s, d)
      BY <2>8, <3>2
    <3>5. CanRename(v, from, to)
      BY <3>3, <3>4 DEF CanRename
    <3>6. Renamed(v, s, d) = Renamed(v, from, to)
      BY <3>3, <3>4 DEF Renamed
    <3> QED
      BY <2>8, <3>2, <3>5, <3>6
  <2>10. Store!Move(c)
    BY <2>3, <2>9, SeenIs, SameChanges DEF Store!Move
  <2>11. Store!Change(c)
    BY <1>1, <2>1, <2>2, <2>10, EffectOf DEF Store!Change, Store!Pending, Finish
  <2> QED
    BY <2>11 DEF Store!StoreNext
<1> QED
  BY <1>2, <1>3

\* Whatever its calls interleave with and whichever of their steps fail, the server
\* is to its users the store of FileStore: a write or a move changes the visible
\* files at most once, by its whole effect and at the path that was granted to it;
\* create_directory makes directories on the way to its path one by one; nothing
\* else changes.  Seen hides the temporary files, `changed' is the effect.
THEOREM ImplementsStore == Spec => KeepsTree
<1>1. Init => Store!StoreInit
  <2> SUFFICES ASSUME Init
               PROVE  Store!StoreInit
    OBVIOUS
  <2>1. TypeOK /\ TempsAreFiles
    BY InvariantHolds DEF IInv, Temps
  <2>2. IsTree(Visible(tree))
    BY <2>1, TreeIsTyped, VisibleIs DEF LeafTemps, TempsAreFiles
  <2>3. Store!IsTree(Seen)
    BY <2>2, SeenIs, SameChanges
  <2>4. roots = Store!AllowedRoots(Seen, Dirs)
    <3>1. tree \in Trees /\ roots = AllowedRoots(tree, Dirs)
      BY DEF Init
    <3>2. \A p \in Paths : Exists(tree, p) => p \in Seq(Names)
      BY <3>1, FileAssumption
    <3>3. ASSUME NEW p \in Paths, IsTemp(p) PROVE tree[p] = None
      <4>1. p \notin Seq(Names)
        BY <3>3, ConstantsAre, ParentOf DEF IsTemp
      <4> QED
        BY <2>1, <3>2, <3>3, <4>1, TreeIsTyped, NodeKinds
    <3>4. Visible(tree) = tree
      BY <2>1, <3>3, TreeIsTyped DEF Visible
    <3> QED
      BY <3>1, <3>4, SeenIs, SamePaths
  <2> QED
    BY <2>3, <2>4, SamePaths DEF Init, Store!StoreInit
<1>2. IInv /\ [Next]_<<vars, history>> => [Store!StoreNext]_Store!storeVars
  <2> SUFFICES ASSUME IInv, [Next]_<<vars, history>>
               PROVE  UNCHANGED Store!storeVars \/ Store!StoreNext
    OBVIOUS
  <2>1. /\ TypeOK /\ Dirs # <<>> /\ OnTrack /\ Sought /\ Granted /\ Steadied
        /\ TempsAreFiles /\ Filled
    BY DEF IInv, Temps, Walked
  <2>2. CASE UNCHANGED <<vars, history>>
    BY <2>2 DEF vars, history, Store!storeVars, Seen, IsTemp
  <2>3. ASSUME NEW c \in Calls, Handle(c), Watch
        PROVE  UNCHANGED Store!storeVars \/ Store!StoreNext
    <3>1. CASE Refuse(c) \/ LookUp(c) \/ LookAbove(c) \/ Fails(c) \/ DestinationExists(c)
      BY <2>1, <2>3, <3>1, QuietCalls
    <3>2. CASE Open(c) \/ CloseDirectory(c) \/ SearchVisit(c) \/ TreeVisit(c)
      BY <2>1, <2>3, <3>2, WalkCalls
    <3>3. CASE Read(c)
      BY <2>1, <2>3, <3>3, ReadCalls
    <3>4. CASE ReadToEdit(c)
      BY <2>1, <2>3, <3>4, EditCalls
    <3>5. CASE CreateTemp(c) \/ Fill(c) \/ FillFails(c) \/ SyncParent(c) \/ RemoveTemp(c)
      BY <2>1, <2>3, <3>5, TempCalls
    <3>6. CASE Rename(c)
      BY <2>1, <2>3, <3>6, WriteCalls
    <3>7. CASE MakeDirectory(c) \/ CheckDirectory(c)
      BY <2>1, <2>3, <3>7, DirCalls
    <3>8. CASE MoveFile(c)
      BY <2>1, <2>3, <3>8, MoveCalls
    <3> QED
      BY <2>3, <3>1, <3>2, <3>3, <3>4, <3>5, <3>6, <3>7, <3>8 DEF Handle
  <2> QED
    BY <2>2, <2>3 DEF Next, Answered
<1> QED
  BY <1>1, <1>2, Invariant, PTL DEF Spec, KeepsTree, Store!StoreSpec
=============================================================================
