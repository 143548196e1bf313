--------------------------- MODULE FieldStore_proofs ---------------------------
(* Proofs about FieldStore.                                                    *)
EXTENDS FieldStore, SequenceTheorems, FiniteSetTheorems, WellFoundedInduction, TLAPS
-----------------------------------------------------------------------------
(* Sequences: prefixes and what insertion and removal do, element by element. *)

LEMMA PrefixElements ==
  ASSUME NEW W, NEW s \in Seq(W), NEW t \in Seq(W)
  PROVE  IsPrefix(s, t) <=> Len(s) <= Len(t) /\ \A i \in 1..Len(s) : s[i] = t[i]
<1>1. SubSeq(s, 1, Len(s)) = s
  BY SubSeqFull
<1>2. CASE ~(Len(s) <= Len(t))
  BY <1>2 DEF IsPrefix
<1>3. CASE Len(s) <= Len(t)
  <2> DEFINE u == SubSeq(t, 1, Len(s))
  <2>1. \A i \in 1..Len(s) : i \in 1..Len(t) /\ t[i] \in W
    BY <1>3, ElementOfSeq, LenProperties
  <2>2. u \in Seq(W) /\ Len(u) = Len(s) /\ \A i \in 1..Len(s) : u[i] = t[i]
    BY <1>3, <2>1, SubSeqProperties, LenProperties
  <2> HIDE DEF u
  <2>3. u = s <=> \A i \in 1..Len(s) : u[i] = s[i]
    BY <2>2, SeqEqual
  <2>4. IsPrefix(s, t) <=> s = u
    BY <1>1, <1>3 DEF IsPrefix, u
  <2> QED BY <1>3, <2>2, <2>3, <2>4
<1> QED BY <1>2, <1>3

LEMMA PrefixesAre ==
  ASSUME NEW W, NEW t \in Seq(W), NEW p
  PROVE  p \in Prefixes(t) <=> p \in Seq(W) /\ IsPrefix(p, t)
<1>1. ASSUME p \in Prefixes(t) PROVE p \in Seq(W) /\ IsPrefix(p, t)
  <2>1. PICK l \in 0..Len(t) : p = SubSeq(t, 1, l)
    BY <1>1 DEF Prefixes
  <2>2. \A i \in 1..l : i \in 1..Len(t) /\ t[i] \in W
    BY ElementOfSeq, LenProperties
  <2>3. p \in Seq(W) /\ Len(p) = l /\ \A i \in 1..l : p[i] = t[i]
    BY <2>1, <2>2, SubSeqProperties, LenProperties
  <2> QED BY <2>3, PrefixElements, LenProperties
<1>2. ASSUME p \in Seq(W), IsPrefix(p, t) PROVE p \in Prefixes(t)
  <2>1. p = SubSeq(t, 1, Len(p)) /\ Len(p) \in 0..Len(t)
    BY <1>2, SubSeqFull, LenProperties DEF IsPrefix
  <2> QED BY <2>1 DEF Prefixes
<1> QED BY <1>1, <1>2

LEMMA PrefixOrder ==
  ASSUME NEW W, NEW s \in Seq(W), NEW t \in Seq(W), NEW u \in Seq(W)
  PROVE  /\ IsPrefix(s, s) /\ IsPrefix(<<>>, s)
         /\ IsPrefix(s, t) /\ IsPrefix(t, u) => IsPrefix(s, u)
         /\ IsPrefix(s, t) /\ s # <<>> => t # <<>> /\ s[1] = t[1]
<1>1. <<>> \in Seq(W) /\ Len(<<>>) = 0 /\ (s = <<>> <=> Len(s) = 0) /\ (t = <<>> <=> Len(t) = 0)
  BY EmptySeq
<1>2. Len(s) \in Nat /\ Len(t) \in Nat /\ Len(u) \in Nat
  BY LenProperties
<1>3. IsPrefix(s, s) /\ IsPrefix(<<>>, s)
  <2>1. IsPrefix(s, s)
    BY <1>2, PrefixElements
  <2>2. ASSUME NEW e \in Seq(W), Len(e) = 0 PROVE IsPrefix(e, s)
    <3>1. Len(e) <= Len(s) /\ \A i \in 1..Len(e) : e[i] = s[i]
      BY <1>2, <2>2
    <3> QED BY ONLY <3>1, PrefixElements, e \in Seq(W), s \in Seq(W)
  <2> QED BY <1>1, <2>1, <2>2
<1>4. IsPrefix(s, t) /\ IsPrefix(t, u) => IsPrefix(s, u)
  BY <1>2, PrefixElements
<1>5. IsPrefix(s, t) /\ s # <<>> => t # <<>> /\ s[1] = t[1]
  BY <1>1, <1>2, PrefixElements
<1> QED BY <1>3, <1>4, <1>5
-----------------------------------------------------------------------------
(* The tree.  Words are those that arguments are made of.                     *)
Words == UNION {ToSet(args) : args \in Args \cup {Comment}}
Paths == Seq(Words)
Branches(A) == {<<>>} \cup UNION {Prefixes(a) : a \in A}

\* The tree holds v[a] for each a in A and else nothing, comments aside.
Holds(tree, A, v) ==
  /\ DOMAIN tree \ {Comment} = Branches(A)
  /\ \A p \in DOMAIN tree \ {Comment} : tree[p] = IF p \in A THEN v[p] ELSE None

LEMMA ArgsPaths ==
  /\ Comment \in Paths /\ Comment # <<>> /\ Len(Comment) = 1
  /\ \A a \in Args : a \in Paths /\ a # <<>>
  /\ Args \subseteq Queries
  /\ \A q \in Queries : q \in Paths /\ q # <<>> /\ q[1] # Comment[1] /\ IdOf(q) # IdOf(Comment)
<1>1. ToSet(Comment) \subseteq Words /\ \A a \in Args : ToSet(a) \subseteq Words
  BY DEF Words
<1>2. Comment \in Seq(ToSet(Comment)) /\ Comment # <<>> /\ Len(Comment) = 1
  BY DEF Comment, ToSet
<1>3. \A a \in Args : a \in Paths /\ a # <<>>
  BY <1>1, SeqMonotonic, FieldAssumption DEF Paths
<1>4. Comment \in Paths
  BY <1>1, <1>2, SeqMonotonic DEF Paths
<1>5. \A a \in Args : a \in Prefixes(a)
  BY <1>3, PrefixesAre, PrefixOrder DEF Paths
<1>6. Args \subseteq Queries
  BY <1>3, <1>5 DEF Queries
<1>7. \A q \in Queries : q \in Paths /\ q # <<>>
  BY <1>3, PrefixesAre DEF Paths, Queries
<1> QED BY <1>2, <1>3, <1>4, <1>6, <1>7, FieldAssumption

\* Nothing but comments begins like a comment.
LEMMA Apart ==
  ASSUME NEW a \in Args, NEW p \in Prefixes(a), p # <<>>
  PROVE  p \in Queries /\ p \in Paths /\ IsPrefix(p, a) /\ p # Comment /\ ~IsPrefix(p, Comment)
<1>1. p \in Queries
  BY DEF Queries
<1>2. p \in Paths /\ p[1] # Comment[1] /\ IsPrefix(p, a)
  BY <1>1, ArgsPaths, PrefixesAre DEF Paths
<1> QED BY <1>1, <1>2, ArgsPaths, PrefixOrder DEF Paths

LEMMA BranchPaths ==
  ASSUME NEW A \in SUBSET Args
  PROVE  Branches(A) \subseteq Paths /\ Comment \notin Branches(A) /\ A \subseteq Branches(A)
<1>1. <<>> \in Paths
  BY EmptySeq DEF Paths
<1>2. \A a \in A : Prefixes(a) \subseteq Paths /\ Comment \notin Prefixes(a) /\ a \in Prefixes(a)
  BY ArgsPaths, Apart, PrefixesAre, PrefixOrder DEF Paths
<1> QED BY <1>1, <1>2, ArgsPaths DEF Branches

LEMMA CommentPrefixes ==
  Prefixes(Comment) = {<<>>, Comment}
<1>1. Comment \in Seq({<<"#">>}) /\ Len(Comment) = 1
  BY DEF Comment
<1>2. SubSeq(Comment, 1, 0) = <<>> /\ SubSeq(Comment, 1, 1) = Comment
  BY <1>1, SubSeqFull, SubSeqEmpty
<1>3. 0..Len(Comment) = {0, 1}
  BY <1>1
<1> QED BY <1>2, <1>3 DEF Prefixes

LEMMA CommentInserted ==
  ASSUME NEW A \in SUBSET Args, NEW tree, NEW v, NEW f, Holds(tree, A, v)
  PROVE  Holds(_tree_insert(tree, Comment, f), A, v)
<1> DEFINE t == _tree_insert(tree, Comment, f)
<1>1. <<>> \in DOMAIN tree
  BY DEF Holds, Branches
<1>2. DOMAIN t = DOMAIN tree \cup {Comment} /\ \A p \in DOMAIN tree \ {Comment} : t[p] = tree[p]
  BY <1>1, CommentPrefixes DEF _tree_insert
<1> QED BY <1>2 DEF Holds

LEMMA ArgsInserted ==
  ASSUME NEW A \in SUBSET Args, NEW tree, NEW v, NEW f, Holds(tree, A, v),
         NEW a \in Args, NEW w, w[a] = f, \A x \in A : x # a => w[x] = v[x]
  PROVE  Holds(_tree_insert(tree, a, f), A \cup {a}, w)
<1> DEFINE t == _tree_insert(tree, a, f)
<1>1. DOMAIN t = DOMAIN tree \cup Prefixes(a)
  BY DEF _tree_insert
<1>2. Comment \notin Prefixes(a) /\ a \in Prefixes(a)
  BY BranchPaths, ArgsPaths, PrefixesAre, PrefixOrder DEF Branches, Paths
<1>3. DOMAIN t \ {Comment} = Branches(A \cup {a})
  BY <1>1, <1>2 DEF Holds, Branches
<1>4. \A p \in DOMAIN t : t[p] = IF p = a THEN f ELSE IF p \in DOMAIN tree THEN tree[p] ELSE None
  BY <1>1 DEF _tree_insert
<1>5. A \subseteq DOMAIN tree
  BY BranchPaths DEF Holds
<1> HIDE DEF t
<1>6. \A p \in DOMAIN t \ {Comment} : t[p] = IF p \in A \cup {a} THEN w[p] ELSE None
  BY <1>4, <1>5 DEF Holds
<1> QED BY <1>3, <1>6 DEF Holds, t

LEMMA ArgsDeleted ==
  ASSUME NEW A \in SUBSET Args, NEW tree, NEW v, Holds(tree, A, v), NEW a \in A,
         \A x \in A : v[x] # None, NEW w, \A x \in A : x # a => w[x] = v[x]
  PROVE  Holds(_tree_delete(tree, a), A \ {a}, w)
<1> DEFINE cleared == [tree EXCEPT ![a] = None]
           Empty(p) == \A q \in DOMAIN tree :
                         IsPrefix(p, q) => IsPrefix(q, a) /\ cleared[q] = None
           gone == {p \in Prefixes(a) \ {<<>>} : Empty(p)}
           t == _tree_delete(tree, a)
<1>1. DOMAIN cleared = DOMAIN tree /\ \A p \in DOMAIN tree : cleared[p] = IF p = a THEN None ELSE tree[p]
  OBVIOUS
<1>2. DOMAIN t = DOMAIN tree \ gone /\ \A p \in DOMAIN t : t[p] = cleared[p]
  BY <1>1 DEF _tree_delete, Without, Restrict
<1> HIDE DEF t, cleared
<1>3. Comment \notin gone
  BY Apart
<1>4. \A p \in DOMAIN t \ {Comment} : t[p] = IF p \in A \ {a} THEN w[p] ELSE None
  BY <1>1, <1>2 DEF Holds
<1>5. ASSUME NEW b \in A \ {a}, NEW p \in Prefixes(b) PROVE p \in DOMAIN t \ {Comment}
  <2>1. b \in DOMAIN tree /\ cleared[b] # None
    BY <1>1, BranchPaths DEF Holds
  <2>2. p \in DOMAIN tree \ {Comment}
    BY DEF Holds, Branches
  <2>3. IsPrefix(p, b)
    BY ArgsPaths, PrefixesAre DEF Paths
  <2> QED BY <1>2, <2>1, <2>2, <2>3
<1>6. ASSUME NEW p \in DOMAIN t \ {Comment}, p # <<>>
      PROVE  \E b \in A \ {a} : p \in Prefixes(b)
  <2>1. PICK c \in A : p \in Prefixes(c)
    BY <1>2, <1>6 DEF Holds, Branches
  <2>2. CASE c # a
    BY <2>1, <2>2
  <2>3. CASE c = a
    <3>1. PICK q \in DOMAIN tree : IsPrefix(p, q) /\ ~(IsPrefix(q, a) /\ cleared[q] = None)
      BY <1>2, <1>6, <2>1, <2>3
    <3>2. p \in Paths /\ q # Comment
      BY <1>6, <2>1, <2>3, <3>1, Apart
    <3>3. q \in Branches(A) /\ q \in Paths
      BY <3>2, BranchPaths DEF Holds
    <3>4. q # <<>>
      BY <1>6, <3>1, <3>2, <3>3, PrefixOrder DEF Paths
    <3>5. PICK b \in A : q \in Prefixes(b)
      BY <3>3, <3>4 DEF Branches
    <3>6. b \in Paths /\ IsPrefix(q, b)
      BY <3>5, ArgsPaths, PrefixesAre DEF Paths
    <3>7. p \in Prefixes(b) /\ p \in Prefixes(q)
      BY <3>1, <3>2, <3>3, <3>6, PrefixOrder, PrefixesAre DEF Paths
    <3>8. CASE ~IsPrefix(q, a)
      BY <3>6, <3>7, <3>8
    <3>9. CASE cleared[q] # None
      <4>1. q \in A /\ q # a
        BY <1>1, <3>2, <3>9 DEF Holds
      <4> QED BY <3>7, <4>1
    <3> QED BY <3>1, <3>8, <3>9
  <2> QED BY <2>2, <2>3
<1>7. <<>> \in DOMAIN t \ {Comment}
  BY <1>2, ArgsPaths DEF Holds, Branches
<1>8. DOMAIN t \ {Comment} = Branches(A \ {a})
  BY <1>5, <1>6, <1>7 DEF Branches
<1> QED BY <1>4, <1>8 DEF Holds, t
-----------------------------------------------------------------------------
(* The list.                                                                  *)

\* The sequence t is s with e inserted at n.
Inserts(t, s, n, e) ==
  Len(t) = Len(s) + 1 /\ \A k \in 1..Len(s) + 1 :
                            t[k] = IF k < n THEN s[k] ELSE IF k = n THEN e ELSE s[k - 1]

LEMMA InsertedShape ==
  ASSUME NEW S, NEW s \in Seq(S), NEW e \in S, NEW n \in 1..Len(s) + 1
  PROVE  InsertAt(s, n, e) \in Seq(S) /\ Inserts(InsertAt(s, n, e), s, n, e)
<1> DEFINE a == SubSeq(s, 1, n - 1)
           b == a \o <<e>>
           c == SubSeq(s, n, Len(s))
<1>0. Len(s) \in Nat /\ n \in Nat /\ n >= 1 /\ n <= Len(s) + 1
  BY LenProperties
<1>1. \A i \in 1..Len(s) : s[i] \in S
  BY ElementOfSeq
<1>2. a \in Seq(S) /\ Len(a) = n - 1 /\ \A i \in 1..n - 1 : a[i] = s[i]
  <2>1. \A i \in 1..n - 1 : s[i] \in S
    BY <1>0, <1>1
  <2>2. n - 1 \in 1 - 1..Len(s)
    BY <1>0
  <2> QED BY <1>0, <2>1, <2>2, SubSeqProperties
<1>3. c \in Seq(S) /\ Len(c) = Len(s) + 1 - n /\ \A i \in 1..Len(s) + 1 - n : c[i] = s[n + i - 1]
  <2>1. \A i \in n..Len(s) : s[i] \in S
    BY <1>0, <1>1
  <2> QED BY <1>0, <2>1, SubSeqProperties
<1>4. <<e>> \in Seq(S) /\ Len(<<e>>) = 1 /\ <<e>>[1] = e
  OBVIOUS
<1> HIDE DEF a, c
<1>5. b \in Seq(S) /\ Len(b) = n /\ \A i \in 1..n : b[i] = IF i = n THEN e ELSE s[i]
  BY <1>0, <1>2, <1>4, ConcatProperties
<1> HIDE DEF b
<1>6. /\ b \o c \in Seq(S) /\ Len(b \o c) = Len(s) + 1
      /\ \A k \in 1..Len(s) + 1 : (b \o c)[k] = IF k <= n THEN b[k] ELSE c[k - n]
  <2>1. /\ b \o c \in Seq(S) /\ Len(b \o c) = Len(b) + Len(c)
        /\ \A k \in 1..Len(b) + Len(c) : (b \o c)[k] = IF k <= Len(b) THEN b[k] ELSE c[k - Len(b)]
    BY <1>3, <1>5, ConcatProperties
  <2>2. Len(b) + Len(c) = Len(s) + 1
    BY <1>0, <1>3, <1>5
  <2> QED BY <1>5, <2>1, <2>2
<1>7. InsertAt(s, n, e) = b \o c
  BY DEF InsertAt, a, b, c
<1>8. ASSUME NEW k \in 1..Len(s) + 1
      PROVE  (b \o c)[k] = IF k < n THEN s[k] ELSE IF k = n THEN e ELSE s[k - 1]
  <2>1. CASE k <= n
    BY <1>0, <1>5, <1>6, <2>1
  <2>2. CASE k > n
    <3>1. k - n \in 1..Len(s) + 1 - n /\ n + (k - n) - 1 = k - 1
      BY <1>0, <2>2
    <3>2. c[k - n] = s[k - 1]
      BY <1>3, <3>1
    <3> QED BY <1>0, <1>6, <2>2, <3>2
  <2>3. k <= n \/ k > n
    BY <1>0
  <2> QED BY <2>1, <2>2, <2>3
<1>9. Inserts(b \o c, s, n, e)
  BY <1>6, <1>8 DEF Inserts
<1> QED BY <1>6, <1>7, <1>9

LEMMA Inserted ==
  ASSUME NEW S, NEW s \in Seq(S), NEW e \in S, NEW n \in 1..Len(s) + 1
  PROVE  /\ InsertAt(s, n, e) \in Seq(S) /\ Len(InsertAt(s, n, e)) = Len(s) + 1
         /\ \A k \in 1..Len(s) + 1 :
              InsertAt(s, n, e)[k] = IF k < n THEN s[k] ELSE IF k = n THEN e ELSE s[k - 1]
<1>1. InsertAt(s, n, e) \in Seq(S) /\ Inserts(InsertAt(s, n, e), s, n, e)
  BY InsertedShape
<1> DEFINE t == InsertAt(s, n, e)
<1> HIDE DEF t
<1>2. Len(t) = Len(s) + 1 /\ \A k \in 1..Len(s) + 1 :
        t[k] = IF k < n THEN s[k] ELSE IF k = n THEN e ELSE s[k - 1]
  BY <1>1 DEF Inserts, t
<1> QED BY <1>1, <1>2 DEF t

LEMMA Removed ==
  ASSUME NEW S, NEW s \in Seq(S), NEW n \in 1..Len(s)
  PROVE  /\ RemoveAt(s, n) \in Seq(S) /\ Len(RemoveAt(s, n)) = Len(s) - 1
         /\ \A k \in 1..Len(s) - 1 : RemoveAt(s, n)[k] = IF k < n THEN s[k] ELSE s[k + 1]
<1> DEFINE a == SubSeq(s, 1, n - 1)
           c == SubSeq(s, n + 1, Len(s))
<1>0. Len(s) \in Nat /\ n \in Nat /\ n >= 1 /\ n <= Len(s)
  BY LenProperties
<1>1. \A i \in 1..Len(s) : s[i] \in S
  BY ElementOfSeq
<1>2. a \in Seq(S) /\ Len(a) = n - 1 /\ \A i \in 1..n - 1 : a[i] = s[i]
  <2>1. \A i \in 1..n - 1 : s[i] \in S
    BY <1>0, <1>1
  <2>2. n - 1 \in 1 - 1..Len(s)
    BY <1>0
  <2> QED BY <1>0, <2>1, <2>2, SubSeqProperties
<1>3. c \in Seq(S) /\ Len(c) = Len(s) - n /\ \A i \in 1..Len(s) - n : c[i] = s[n + i]
  <2>1. \A i \in n + 1..Len(s) : s[i] \in S
    BY <1>0, <1>1
  <2>2. Len(s) \in (n + 1) - 1..Len(s) /\ n + 1 \in Nat
    BY <1>0
  <2> QED BY <1>0, <2>1, <2>2, SubSeqProperties
<1> HIDE DEF a, c
<1>4. /\ a \o c \in Seq(S) /\ Len(a \o c) = Len(s) - 1
      /\ \A k \in 1..Len(s) - 1 : (a \o c)[k] = IF k < n THEN a[k] ELSE c[k - (n - 1)]
  <2>1. /\ a \o c \in Seq(S) /\ Len(a \o c) = Len(a) + Len(c)
        /\ \A k \in 1..Len(a) + Len(c) : (a \o c)[k] = IF k <= Len(a) THEN a[k] ELSE c[k - Len(a)]
    BY <1>2, <1>3, ConcatProperties
  <2>2. Len(a) + Len(c) = Len(s) - 1
    BY <1>0, <1>2, <1>3
  <2>3. \A k \in 1..Len(s) - 1 : k <= Len(a) <=> k < n
    BY <1>0, <1>2
  <2> QED BY <1>2, <2>1, <2>2, <2>3
<1>5. RemoveAt(s, n) = a \o c
  BY DEF RemoveAt, a, c
<1>6. ASSUME NEW k \in 1..Len(s) - 1
      PROVE  (a \o c)[k] = IF k < n THEN s[k] ELSE s[k + 1]
  <2>1. CASE k < n
    BY <1>0, <1>2, <1>4, <2>1
  <2>2. CASE k >= n
    <3>1. k - (n - 1) \in 1..Len(s) - n /\ n + (k - (n - 1)) = k + 1
      BY <1>0, <2>2
    <3>2. c[k - (n - 1)] = s[k + 1]
      BY <1>3, <3>1
    <3> QED BY <1>0, <1>4, <2>2, <3>2
  <2>3. k < n \/ k >= n
    BY <1>0
  <2> QED BY <2>1, <2>2, <2>3
<1> QED BY <1>4, <1>5, <1>6

\* Each dict of D is in the list once.
Lists(data, D) ==
  /\ data \in Seq(Dicts) /\ ToSet(data) = D
  /\ \A i, j \in 1..Len(data) : data[i] = data[j] => i = j

LEMMA SetOf ==
  ASSUME NEW S, NEW s \in Seq(S)
  PROVE  /\ ToSet(s) \subseteq S /\ \A k \in 1..Len(s) : s[k] \in ToSet(s)
         /\ \A e \in ToSet(s) : \E k \in 1..Len(s) : s[k] = e
BY LenProperties, ElementOfSeq DEF ToSet

LEMMA ListInserted ==
  ASSUME NEW data, NEW D, Lists(data, D), NEW f \in Dicts \ D, NEW n \in 1..Len(data) + 1
  PROVE  Lists(InsertAt(data, n, f), D \cup {f})
<1> DEFINE new == InsertAt(data, n, f)
<1>0. data \in Seq(Dicts) /\ Len(data) \in Nat
  BY LenProperties DEF Lists
<1>1. /\ new \in Seq(Dicts) /\ Len(new) = Len(data) + 1
      /\ \A k \in 1..Len(data) + 1 :
           new[k] = IF k < n THEN data[k] ELSE IF k = n THEN f ELSE data[k - 1]
  BY <1>0, Inserted
<1> HIDE DEF new
<1>2. \A k \in 1..Len(data) : data[k] \in D /\ data[k] # f
  BY <1>0, SetOf DEF Lists
<1>3. ToSet(new) \subseteq D \cup {f}
  <2>1. ASSUME NEW k \in 1..Len(new) PROVE new[k] \in D \cup {f}
    BY <1>0, <1>1, <1>2
  <2> QED BY <1>1, <2>1, SetOf
<1>4. D \cup {f} \subseteq ToSet(new)
  <2>1. f \in ToSet(new)
    BY <1>0, <1>1, SetOf
  <2>2. ASSUME NEW g \in D PROVE g \in ToSet(new)
    <3>1. PICK k \in 1..Len(data) : data[k] = g
      BY <1>0, SetOf DEF Lists
    <3>2. \E m \in 1..Len(new) : new[m] = g
      <4>1. CASE k < n
        BY <1>0, <1>1, <3>1, <4>1
      <4>2. CASE k >= n
        <5>1. k + 1 \in 1..Len(data) + 1 /\ (k + 1) - 1 = k /\ ~(k + 1 < n) /\ k + 1 # n
          BY <1>0, <4>2
        <5> QED BY <1>1, <3>1, <5>1
      <4> QED BY <1>0, <4>1, <4>2
    <3> QED BY <1>1, <3>2, SetOf
  <2> QED BY <2>1, <2>2
<1>5. ASSUME NEW i \in 1..Len(new), NEW j \in 1..Len(new), new[i] = new[j] PROVE i = j
  <2> DEFINE old(k) == IF k < n THEN k ELSE k - 1
  <2>1. ASSUME NEW k \in 1..Len(new)
        PROVE  \/ k = n /\ new[k] = f
               \/ k # n /\ old(k) \in 1..Len(data) /\ new[k] = data[old(k)]
    BY <1>0, <1>1
  <2>2. i = n <=> j = n
    BY <1>2, <1>5, <2>1
  <2>3. CASE i # n /\ j # n
    <3>1. old(i) = old(j)
      BY <1>5, <2>1, <2>3 DEF Lists
    <3> QED BY <1>0, <2>3, <3>1
  <2> QED BY <2>2, <2>3
<1> QED BY <1>1, <1>3, <1>4, <1>5 DEF Lists, new

LEMMA ListRemoved ==
  ASSUME NEW data, NEW D, Lists(data, D), NEW n \in 1..Len(data)
  PROVE  Lists(RemoveAt(data, n), D \ {data[n]})
<1> DEFINE new == RemoveAt(data, n)
<1>0. data \in Seq(Dicts) /\ Len(data) \in Nat
  BY LenProperties DEF Lists
<1>1. /\ new \in Seq(Dicts) /\ Len(new) = Len(data) - 1
      /\ \A k \in 1..Len(data) - 1 : new[k] = IF k < n THEN data[k] ELSE data[k + 1]
  BY <1>0, Removed
<1> HIDE DEF new
<1>2. \A i, j \in 1..Len(data) : data[i] = data[j] => i = j
  BY DEF Lists
<1>3. \A k \in 1..Len(data) : data[k] \in D
  BY <1>0, SetOf DEF Lists
<1>4. ToSet(new) \subseteq D \ {data[n]}
  <2>1. ASSUME NEW k \in 1..Len(new) PROVE new[k] \in D \ {data[n]}
    <3>1. CASE k < n
      <4>1. k \in 1..Len(data) /\ k # n
        BY <1>0, <1>1, <3>1
      <4> QED BY <1>1, <1>2, <1>3, <3>1, <4>1
    <3>2. CASE k >= n
      <4>1. k + 1 \in 1..Len(data) /\ k + 1 # n /\ ~(k < n)
        BY <1>0, <1>1, <3>2
      <4> QED BY <1>1, <1>2, <1>3, <4>1
    <3>3. k < n \/ k >= n
      BY <1>0, <1>1
    <3> QED BY <3>1, <3>2, <3>3
  <2>2. \A e \in ToSet(new) : \E k \in 1..Len(new) : new[k] = e
    BY <1>1, SetOf
  <2> QED BY ONLY <2>1, <2>2
<1>5. ASSUME NEW g \in D \ {data[n]} PROVE g \in ToSet(new)
  <2>1. PICK k \in 1..Len(data) : data[k] = g
    BY <1>0, SetOf DEF Lists
  <2>2. \E m \in 1..Len(new) : new[m] = g
    <3>1. CASE k < n
      BY <1>0, <1>1, <2>1, <3>1
    <3>2. CASE k > n
      <4>1. k - 1 \in 1..Len(data) - 1 /\ (k - 1) + 1 = k /\ ~(k - 1 < n)
        BY <1>0, <3>2
      <4> QED BY <1>1, <2>1, <4>1
    <3> QED BY <1>0, <1>5, <2>1, <3>1, <3>2
  <2> QED BY <1>1, <2>2, SetOf
<1>6. ASSUME NEW i \in 1..Len(new), NEW j \in 1..Len(new), new[i] = new[j] PROVE i = j
  BY <1>0, <1>1, <1>2, <1>6
<1> QED BY <1>1, <1>4, <1>5, <1>6 DEF Lists, new

\* A list that is not full leaves a dict.
LEMMA DictLeft ==
  ASSUME NEW data, NEW D, Lists(data, D), Len(data) < MaxFields
  PROVE  \E f \in Dicts : f \notin D
<1>1. SUFFICES ASSUME \A f \in Dicts : f \in D PROVE FALSE
  OBVIOUS
<1>2. data \in Seq(Dicts) /\ Len(data) \in Nat
  BY LenProperties DEF Lists
<1> DEFINE at == [f \in Dicts |-> CHOOSE k \in 1..Len(data) : data[k] = f]
<1>3. \A f \in Dicts : at[f] \in 1..Len(data) /\ data[at[f]] = f
  BY <1>1, <1>2, SetOf DEF Lists
<1>4. at \in [Dicts -> 1..Len(data)]
  BY <1>3
<1> HIDE DEF at
<1>5. IsFiniteSet(Dicts) /\ Cardinality(Dicts) = MaxFields
  BY FS_Interval, FieldAssumption DEF Dicts
<1>6. IsFiniteSet(1..Len(data)) /\ Cardinality(1..Len(data)) = Len(data)
  BY <1>2, FS_Interval
<1>7. \E f, g \in Dicts : f # g /\ at[f] = at[g]
  BY <1>2, <1>4, <1>5, <1>6, FS_PigeonHole, FieldAssumption
<1> QED BY <1>3, <1>7
-----------------------------------------------------------------------------
(* The dicts, and what they say the lookups have to hold.                     *)
Used(dict) == {f \in Dicts : dict[f] # None}
Named(dict) == {f \in Used(dict) : dict[f].args # Comment}
Arguments(dict) == {dict[f].args : f \in Named(dict)}
Owner(dict) == [a \in Arguments(dict) |-> CHOOSE f \in Named(dict) : dict[f].args = a]

Distinct(dict) ==
  /\ DOMAIN dict = Dicts /\ \A f \in Dicts : dict[f] \in Statement \cup {None}
  /\ \A f, g \in Named(dict) : IdOf(dict[f].args) = IdOf(dict[g].args) => f = g

\* The map leads from the ids of the arguments in A to the values v.
Maps(idmap, A, v) ==
  /\ DOMAIN idmap \ {IdOf(Comment)} = {IdOf(a) : a \in A}
  /\ \A a \in A : idmap[IdOf(a)] = v[a]

LEMMA OwnerIs ==
  ASSUME NEW dict, Distinct(dict)
  PROVE  /\ Arguments(dict) \subseteq Args
         /\ \A f \in Named(dict) : /\ f \in Dicts /\ dict[f] \in Statement /\ dict[f].args \in Args
                                   /\ dict[f].args \in Arguments(dict)
                                   /\ Owner(dict)[dict[f].args] = f
         /\ \A a \in Arguments(dict) : /\ Owner(dict)[a] \in Named(dict) /\ Owner(dict)[a] # None
                                       /\ dict[Owner(dict)[a]].args = a
<1>1. \A f \in Named(dict) : f \in Dicts /\ dict[f] \in Statement /\ dict[f].args \in Args
  BY DEF Named, Used, Distinct, Statement
<1>2. Arguments(dict) \subseteq Args
  BY <1>1 DEF Arguments
<1>3. \A a \in Arguments(dict) : Owner(dict)[a] \in Named(dict) /\ dict[Owner(dict)[a]].args = a
  BY DEF Arguments, Owner
<1>4. \A f \in Named(dict) : dict[f].args \in Arguments(dict) /\ Owner(dict)[dict[f].args] = f
  BY <1>3 DEF Distinct, Arguments
<1> QED BY <1>1, <1>2, <1>3, <1>4, FieldAssumption

\* dict with another entry at f.
Alters(dict, new, f, entry) ==
  DOMAIN new = Dicts /\ \A g \in Dicts : new[g] = IF g = f THEN entry ELSE dict[g]

LEMMA CommentAdded ==
  ASSUME NEW dict, Distinct(dict), NEW f \in Dicts \ Used(dict), NEW t \in Statement,
         t.args = Comment, NEW new, Alters(dict, new, f, t)
  PROVE  /\ Distinct(new) /\ Used(new) = Used(dict) \cup {f} /\ Named(new) = Named(dict)
         /\ Arguments(new) = Arguments(dict) /\ Owner(new) = Owner(dict)
<1>1. Used(new) = Used(dict) \cup {f} /\ Named(new) = Named(dict)
  BY FieldAssumption DEF Used, Named, Alters
<1>2. \A g \in Named(dict) : new[g] = dict[g]
  BY DEF Alters, Named, Used
<1>3. Arguments(new) = Arguments(dict)
  BY <1>1, <1>2 DEF Arguments
<1>4. Distinct(new)
  BY <1>1, <1>2 DEF Distinct, Alters
<1>5. Owner(new) = Owner(dict)
  BY <1>1, <1>2, <1>3 DEF Owner
<1> QED BY <1>1, <1>3, <1>4, <1>5

LEMMA FieldAdded ==
  ASSUME NEW dict, Distinct(dict), NEW f \in Dicts \ Used(dict), NEW t \in Statement,
         t.args \in Args, IdOf(t.args) \notin {IdOf(a) : a \in Arguments(dict)},
         NEW new, Alters(dict, new, f, t)
  PROVE  /\ Distinct(new) /\ Used(new) = Used(dict) \cup {f} /\ Named(new) = Named(dict) \cup {f}
         /\ Arguments(new) = Arguments(dict) \cup {t.args} /\ Owner(new)[t.args] = f
         /\ \A a \in Arguments(dict) : Owner(new)[a] = Owner(dict)[a]
<1>0. t.args # Comment
  BY ArgsPaths
<1>1. Used(new) = Used(dict) \cup {f} /\ Named(new) = Named(dict) \cup {f}
  BY <1>0, FieldAssumption DEF Used, Named, Alters
<1>2. new[f] = t /\ \A g \in Named(dict) : new[g] = dict[g] /\ g # f
  BY DEF Alters, Named, Used
<1>3. Arguments(new) = Arguments(dict) \cup {t.args}
  BY <1>1, <1>2 DEF Arguments
<1>4. Distinct(new)
  <2>1. DOMAIN new = Dicts /\ \A g \in Dicts : new[g] \in Statement \cup {None}
    BY DEF Distinct, Alters
  <2>2. \A g \in Named(dict) : IdOf(new[g].args) # IdOf(t.args)
    BY <1>2 DEF Arguments
  <2> QED BY <1>1, <1>2, <2>1, <2>2 DEF Distinct
<1>5. Owner(new)[t.args] = f
  BY <1>1, <1>2, <1>4, OwnerIs
<1>6. \A a \in Arguments(dict) : Owner(new)[a] = Owner(dict)[a]
  BY <1>1, <1>2, <1>4, OwnerIs
<1> QED BY <1>1, <1>3, <1>4, <1>5, <1>6

LEMMA FieldGone ==
  ASSUME NEW dict, Distinct(dict), NEW f \in Named(dict), NEW new, Alters(dict, new, f, None)
  PROVE  /\ Distinct(new) /\ Used(new) = Used(dict) \ {f} /\ Named(new) = Named(dict) \ {f}
         /\ Arguments(new) = Arguments(dict) \ {dict[f].args}
         /\ \A a \in Arguments(dict) : a # dict[f].args => Owner(new)[a] = Owner(dict)[a]
<1>1. Used(new) = Used(dict) \ {f} /\ Named(new) = Named(dict) \ {f}
  BY DEF Used, Named, Alters
<1>2. \A g \in Named(dict) \ {f} : new[g] = dict[g] /\ dict[g].args # dict[f].args
  BY DEF Alters, Named, Used, Distinct
<1>3. Arguments(new) = Arguments(dict) \ {dict[f].args}
  BY <1>1, <1>2 DEF Arguments
<1>4. Distinct(new)
  BY <1>1, <1>2 DEF Distinct, Alters
<1>5. \A a \in Arguments(dict) : a # dict[f].args => Owner(new)[a] = Owner(dict)[a]
  BY <1>1, <1>2, <1>3, <1>4, OwnerIs
<1> QED BY <1>1, <1>3, <1>4, <1>5

LEMMA FieldRenamed ==
  ASSUME NEW dict, Distinct(dict), NEW f \in Named(dict), NEW t \in Statement,
         t.args \in Args, IdOf(t.args) \notin {IdOf(a) : a \in Arguments(dict)},
         NEW new, Alters(dict, new, f, t)
  PROVE  /\ Distinct(new) /\ Used(new) = Used(dict) /\ Named(new) = Named(dict)
         /\ Arguments(new) = (Arguments(dict) \ {dict[f].args}) \cup {t.args}
         /\ Owner(new)[t.args] = f
         /\ \A a \in Arguments(dict) \ {dict[f].args} : Owner(new)[a] = Owner(dict)[a]
<1>0. t.args # Comment /\ t # None
  BY ArgsPaths, FieldAssumption
<1>1. Used(new) = Used(dict) /\ Named(new) = Named(dict)
  BY <1>0 DEF Used, Named, Alters
<1>2. f \in Dicts /\ new[f] = t
  BY DEF Alters, Named, Used
<1>3. \A g \in Named(dict) \ {f} : new[g] = dict[g] /\ dict[g].args # dict[f].args
  BY DEF Alters, Named, Used, Distinct
<1>4. Arguments(new) = (Arguments(dict) \ {dict[f].args}) \cup {t.args}
  BY <1>1, <1>2, <1>3 DEF Arguments
<1>5. Distinct(new)
  <2>1. DOMAIN new = Dicts /\ \A g \in Dicts : new[g] \in Statement \cup {None}
    BY DEF Distinct, Alters
  <2>2. \A g \in Named(dict) \ {f} : IdOf(new[g].args) # IdOf(t.args)
    BY <1>3 DEF Arguments
  <2> QED BY <1>1, <1>2, <1>3, <2>1, <2>2 DEF Distinct
<1>6. Owner(new)[t.args] = f
  BY <1>1, <1>2, <1>5, OwnerIs
<1>7. \A a \in Arguments(dict) \ {dict[f].args} : Owner(new)[a] = Owner(dict)[a]
  <2> SUFFICES ASSUME NEW a \in Arguments(dict) \ {dict[f].args} PROVE Owner(new)[a] = Owner(dict)[a]
    OBVIOUS
  <2>1. Owner(dict)[a] \in Named(dict) \ {f} /\ dict[Owner(dict)[a]].args = a
    BY OwnerIs
  <2> QED BY <1>1, <1>3, <1>5, <2>1, OwnerIs
<1> QED BY <1>1, <1>4, <1>5, <1>6, <1>7
-----------------------------------------------------------------------------
(* The collection.                                                            *)
Shaped(s) ==
  s = [dict |-> s.dict, data |-> s.data, tree |-> s.tree, idmap |-> s.idmap,
       files |-> s.files, raised |-> s.raised]

Good(s) ==
  /\ Shaped(s) /\ s.raised = FALSE
  /\ Distinct(s.dict)
  /\ Lists(s.data, Used(s.dict))
  /\ Holds(s.tree, Arguments(s.dict), Owner(s.dict))
  /\ Maps(s.idmap, Arguments(s.dict), Owner(s.dict))

LEMMA MapInserted ==
  ASSUME NEW A \in SUBSET Args, NEW idmap, NEW v, Maps(idmap, A, v), NEW a \in Args, NEW w, NEW f,
         IdOf(a) \notin {IdOf(x) : x \in A}, w[a] = f, \A x \in A : w[x] = v[x]
  PROVE  Maps(Extend(idmap, IdOf(a), f), A \cup {a}, w)
<1> DEFINE m == Extend(idmap, IdOf(a), f)
<1>1. /\ DOMAIN m = DOMAIN idmap \cup {IdOf(a)}
      /\ \A id \in DOMAIN m : m[id] = IF id = IdOf(a) THEN f ELSE idmap[id]
  BY DEF Extend
<1>2. IdOf(a) # IdOf(Comment)
  BY ArgsPaths
<1>3. \A x \in A : IdOf(x) \in DOMAIN idmap /\ IdOf(x) # IdOf(a)
  BY DEF Maps
<1> HIDE DEF m
<1>4. DOMAIN m \ {IdOf(Comment)} = {IdOf(x) : x \in A \cup {a}}
  BY <1>1, <1>2 DEF Maps
<1>5. \A x \in A \cup {a} : m[IdOf(x)] = w[x]
  BY <1>1, <1>3 DEF Maps
<1> QED BY <1>4, <1>5 DEF Maps, m

LEMMA CommentMapped ==
  ASSUME NEW A \in SUBSET Args, NEW idmap, NEW v, Maps(idmap, A, v), NEW f
  PROVE  Maps(Extend(idmap, IdOf(Comment), f), A, v)
<1>1. \A x \in A : IdOf(x) # IdOf(Comment)
  BY ArgsPaths
<1>2. \A x \in A : IdOf(x) \in DOMAIN idmap
  BY DEF Maps
<1> QED BY <1>1, <1>2 DEF Maps, Extend

LEMMA MapDeleted ==
  ASSUME NEW A \in SUBSET Args, NEW idmap, NEW v, Maps(idmap, A, v), NEW a \in A, NEW w,
         \A x, y \in A : IdOf(x) = IdOf(y) => x = y, \A x \in A : x # a => w[x] = v[x]
  PROVE  /\ IdOf(a) \in DOMAIN idmap
         /\ Maps(Without(idmap, {IdOf(a)}), A \ {a}, w)
<1>1. \A x \in A \ {a} : IdOf(x) # IdOf(a) /\ IdOf(x) \in DOMAIN idmap
  BY DEF Maps
<1>2. IdOf(a) \in DOMAIN idmap
  BY DEF Maps
<1> QED BY <1>1, <1>2 DEF Maps, Without, Restrict

LEMMA IdsDistinct ==
  ASSUME NEW dict, Distinct(dict)
  PROVE  \A x, y \in Arguments(dict) : IdOf(x) = IdOf(y) => x = y
BY DEF Arguments, Distinct

\* index() finds a field at its place: no other dict has the same content.
LEMMA IndexOfIs ==
  ASSUME NEW s, Good(s), NEW f \in Named(s.dict)
  PROVE  IndexOf(s, f) \in 1..Len(s.data) /\ s.data[IndexOf(s, f)] = f
<1> DEFINE I == {i \in 1..Len(s.data) : s.dict[s.data[i]] = s.dict[f]}
<1>1. s.data \in Seq(Dicts) /\ Len(s.data) \in Nat /\ ToSet(s.data) = Used(s.dict)
  BY LenProperties DEF Good, Lists
<1>2. PICK n \in 1..Len(s.data) : s.data[n] = f
  BY <1>1, SetOf DEF Named
<1>3. ASSUME NEW i \in I PROVE i = n
  <2>1. s.data[i] \in Used(s.dict)
    BY <1>1, SetOf
  <2>2. s.data[i] = f
    BY <2>1 DEF Good, Distinct, Named
  <2> QED BY <1>2, <2>2 DEF Good, Lists
<1>4. I = {n}
  BY <1>2, <1>3
<1>5. Min(I) = n
  BY <1>1, <1>4 DEF Min
<1>6. IndexOf(s, f) = IF I # {} THEN Min(I) ELSE 0
  BY DEF IndexOf, SelectInSeq
<1> QED BY <1>2, <1>4, <1>5, <1>6

LEMMA NewDictIs ==
  ASSUME NEW s, Good(s), Len(s.data) < MaxFields
  PROVE  NewDict(s) \in Dicts \ Used(s.dict)
<1>1. \E f \in Dicts : s.dict[f] = None
  BY DictLeft DEF Good, Used
<1> QED BY <1>1 DEF NewDict, Used

\* What add_data makes of the list and the dicts; files are left alone.
Adds(s, t, f, statement, index) ==
  /\ Alters(s.dict, t.dict, f, statement)
  /\ t.data = InsertAt(s.data, index, f) /\ t.files = s.files

LEMMA AddGood ==
  ASSUME NEW s, Good(s), NEW f \in Dicts \ Used(s.dict), NEW t \in Statement,
         NEW n \in 1..Len(s.data) + 1,
         t.args # Comment => IdOf(t.args) \notin {IdOf(a) : a \in Arguments(s.dict)}
  PROVE  Good(add_data(s, f, t, n)) /\ Adds(s, add_data(s, f, t, n), f, t, n)
<1> DEFINE u == add_data(s, f, t, n)
<1>1. s = [dict |-> s.dict, data |-> s.data, tree |-> s.tree, idmap |-> s.idmap,
           files |-> s.files, raised |-> s.raised]
  BY DEF Good, Shaped
<1>2. /\ Shaped(u) /\ u.raised = s.raised /\ u.files = s.files
      /\ u.dict = [s.dict EXCEPT ![f] = t] /\ u.data = InsertAt(s.data, n, f)
      /\ u.tree = _tree_insert(s.tree, t.args, f) /\ u.idmap = Extend(s.idmap, IdOf(t.args), f)
  <2>1. u = [dict |-> [s.dict EXCEPT ![f] = t], data |-> InsertAt(s.data, n, f),
             tree |-> _tree_insert(s.tree, t.args, f),
             idmap |-> Extend(s.idmap, IdOf(t.args), f), files |-> s.files, raised |-> s.raised]
    <3> DEFINE entries == [s.dict EXCEPT ![f] = t]
               list == InsertAt(s.data, n, f)
               nodes == _tree_insert(s.tree, t.args, f)
               ids == Extend(s.idmap, IdOf(t.args), f)
    <3>1. u = [s EXCEPT !.dict = entries, !.data = list, !.tree = nodes, !.idmap = ids]
      BY <1>1 DEF add_data
    <3> HIDE DEF entries, list, nodes, ids, u
    <3>2. u = [dict |-> entries, data |-> list, tree |-> nodes, idmap |-> ids,
               files |-> s.files, raised |-> s.raised]
      BY <1>1, <3>1
    <3> QED BY <3>2 DEF entries, list, nodes, ids
  <2> HIDE DEF u
  <2> QED BY <2>1 DEF Shaped
<1> HIDE DEF u
<1>3. Alters(s.dict, u.dict, f, t)
  BY <1>2 DEF Good, Distinct, Alters
<1>4. Distinct(s.dict) /\ Arguments(s.dict) \in SUBSET Args
  BY OwnerIs DEF Good
<1>5. Lists(u.data, Used(s.dict) \cup {f})
  BY <1>2, ListInserted DEF Good
<1>6. CASE t.args = Comment
  <2>1. /\ Distinct(u.dict) /\ Used(u.dict) = Used(s.dict) \cup {f}
        /\ Arguments(u.dict) = Arguments(s.dict) /\ Owner(u.dict) = Owner(s.dict)
    BY <1>3, <1>4, <1>6, CommentAdded
  <2>2. Holds(u.tree, Arguments(s.dict), Owner(s.dict))
    BY <1>2, <1>4, <1>6, CommentInserted DEF Good
  <2>3. Maps(u.idmap, Arguments(s.dict), Owner(s.dict))
    BY <1>2, <1>4, <1>6, CommentMapped DEF Good
  <2> QED BY <1>2, <1>3, <1>5, <2>1, <2>2, <2>3 DEF Good, Adds, u
<1>7. CASE t.args # Comment
  <2>0. t.args \in Args
    BY <1>7 DEF Statement
  <2>1. /\ Distinct(u.dict) /\ Used(u.dict) = Used(s.dict) \cup {f}
        /\ Arguments(u.dict) = Arguments(s.dict) \cup {t.args} /\ Owner(u.dict)[t.args] = f
        /\ \A a \in Arguments(s.dict) : Owner(u.dict)[a] = Owner(s.dict)[a]
    BY <1>3, <1>4, <1>7, <2>0, FieldAdded
  <2>2. Holds(u.tree, Arguments(s.dict) \cup {t.args}, Owner(u.dict))
    BY <1>2, <1>4, <2>0, <2>1, ArgsInserted DEF Good
  <2>3. Maps(u.idmap, Arguments(s.dict) \cup {t.args}, Owner(u.dict))
    <3>1. IdOf(t.args) \notin {IdOf(a) : a \in Arguments(s.dict)}
      BY <1>7
    <3>2. Maps(s.idmap, Arguments(s.dict), Owner(s.dict))
      BY DEF Good
    <3> DEFINE A == Arguments(s.dict)
               v == Owner(s.dict)
               w == Owner(u.dict)
    <3>3. A \in SUBSET Args /\ w[t.args] = f /\ \A x \in A : w[x] = v[x]
      BY <1>4, <2>1
    <3> HIDE DEF A, v, w
    <3>4. Maps(Extend(s.idmap, IdOf(t.args), f), A \cup {t.args}, w)
      BY <2>0, <3>1, <3>2, <3>3, MapInserted DEF A, v
    <3> QED BY <1>2, <3>4 DEF A, w
  <2> QED BY <1>2, <1>3, <1>5, <2>1, <2>2, <2>3 DEF Good, Adds, u
<1> QED BY <1>6, <1>7

Removes(s, t, f) ==
  /\ Alters(s.dict, t.dict, f, None)
  /\ t.data = RemoveAt(s.data, IndexOf(s, f)) /\ t.files = s.files

LEMMA RemoveGood ==
  ASSUME NEW s, Good(s), NEW f \in Named(s.dict)
  PROVE  Good(remove(s, f)) /\ Removes(s, remove(s, f), f)
<1> DEFINE u == remove(s, f)
           args == s.dict[f].args
<1>1. s = [dict |-> s.dict, data |-> s.data, tree |-> s.tree, idmap |-> s.idmap,
           files |-> s.files, raised |-> s.raised]
  BY DEF Good, Shaped
<1>2. /\ Distinct(s.dict) /\ Arguments(s.dict) \in SUBSET Args /\ args \in Arguments(s.dict)
      /\ f \in Dicts /\ \A a \in Arguments(s.dict) : Owner(s.dict)[a] # None
  BY OwnerIs DEF Good
<1>3. args \in DOMAIN s.tree
  BY <1>2, BranchPaths DEF Good, Holds
<1>4. IdOf(args) \in DOMAIN s.idmap
  BY <1>2 DEF Good, Maps
<1> HIDE DEF args
<1>5. /\ Shaped(u) /\ u.raised = s.raised /\ u.files = s.files
      /\ u.dict = [s.dict EXCEPT ![f] = None] /\ u.data = RemoveAt(s.data, IndexOf(s, f))
      /\ u.tree = _tree_delete(s.tree, args) /\ u.idmap = Without(s.idmap, {IdOf(args)})
  BY <1>1, <1>3, <1>4 DEF remove, Shaped, args
<1> HIDE DEF u
<1>6. Alters(s.dict, u.dict, f, None)
  BY <1>2, <1>5 DEF Distinct, Alters
<1>7. Lists(u.data, Used(s.dict) \ {f})
  <2>1. IndexOf(s, f) \in 1..Len(s.data) /\ s.data[IndexOf(s, f)] = f
    BY IndexOfIs
  <2> QED BY <1>5, <2>1, ListRemoved DEF Good
<1>8. /\ Distinct(u.dict) /\ Used(u.dict) = Used(s.dict) \ {f}
      /\ Arguments(u.dict) = Arguments(s.dict) \ {args}
      /\ \A a \in Arguments(s.dict) : a # args => Owner(u.dict)[a] = Owner(s.dict)[a]
  BY <1>2, <1>6, FieldGone DEF args
<1>9. Holds(u.tree, Arguments(s.dict) \ {args}, Owner(u.dict))
  BY <1>2, <1>5, <1>8, ArgsDeleted DEF Good
<1>10. Maps(u.idmap, Arguments(s.dict) \ {args}, Owner(u.dict))
  BY <1>2, <1>5, <1>8, MapDeleted, IdsDistinct DEF Good
<1> QED BY <1>5, <1>6, <1>7, <1>8, <1>9, <1>10 DEF Good, Removes, u

Renames(s, t, f, statement) ==
  Alters(s.dict, t.dict, f, statement) /\ t.data = s.data /\ t.files = s.files

LEMMA UpdateGood ==
  ASSUME NEW s, Good(s), NEW f \in Named(s.dict), NEW args \in Args,
         IdOf(args) \notin {IdOf(a) : a \in Arguments(s.dict)}
  PROVE  /\ Good(update(s, f, args))
         /\ Renames(s, update(s, f, args), f, [args |-> args, file |-> s.dict[f].file])
<1> DEFINE u == update(s, f, args)
           old == s.dict[f].args
           t == [args |-> args, file |-> s.dict[f].file]
<1>1. s = [dict |-> s.dict, data |-> s.data, tree |-> s.tree, idmap |-> s.idmap,
           files |-> s.files, raised |-> s.raised]
  BY DEF Good, Shaped
<1>2. /\ Distinct(s.dict) /\ Arguments(s.dict) \in SUBSET Args /\ old \in Arguments(s.dict)
      /\ f \in Dicts /\ \A a \in Arguments(s.dict) : Owner(s.dict)[a] # None
      /\ s.dict[f] \in Statement
  BY OwnerIs DEF Good
<1>3. old \in DOMAIN s.tree
  BY <1>2, BranchPaths DEF Good, Holds
<1>4. IdOf(old) \in DOMAIN s.idmap
  BY <1>2 DEF Good, Maps
<1>5. t \in Statement /\ t.args = args /\ [s.dict[f] EXCEPT !.args = args] = t
  BY <1>2 DEF Statement
<1> HIDE DEF old, t
<1>6. /\ Shaped(u) /\ u.raised = s.raised /\ u.files = s.files
      /\ u.dict = [s.dict EXCEPT ![f] = t] /\ u.data = s.data
      /\ u.tree = _tree_insert(_tree_delete(s.tree, old), args, f)
      /\ u.idmap = Extend(Without(s.idmap, {IdOf(old)}), IdOf(args), f)
  <2>1. [s.dict EXCEPT ![f].args = args] = [s.dict EXCEPT ![f] = t]
    BY <1>5
  <2> QED BY <1>1, <1>3, <1>4, <2>1 DEF update, Shaped, old
<1> HIDE DEF u
<1>7. Alters(s.dict, u.dict, f, t)
  BY <1>2, <1>6 DEF Distinct, Alters
<1>8. /\ Distinct(u.dict) /\ Used(u.dict) = Used(s.dict)
      /\ Arguments(u.dict) = (Arguments(s.dict) \ {old}) \cup {args}
      /\ Owner(u.dict)[args] = f
      /\ \A a \in Arguments(s.dict) \ {old} : Owner(u.dict)[a] = Owner(s.dict)[a]
  BY <1>2, <1>5, <1>7, FieldRenamed DEF old
<1> DEFINE A == Arguments(s.dict) \ {old}
<1>9. Holds(_tree_delete(s.tree, old), A, Owner(u.dict))
  BY <1>2, <1>8, ArgsDeleted DEF Good
<1>10. Maps(Without(s.idmap, {IdOf(old)}), A, Owner(u.dict))
  BY <1>2, <1>8, MapDeleted, IdsDistinct DEF Good
<1>11. A \in SUBSET Args /\ IdOf(args) \notin {IdOf(a) : a \in A}
  BY <1>2
<1> HIDE DEF A
<1>12. Holds(u.tree, A \cup {args}, Owner(u.dict))
  BY <1>6, <1>8, <1>9, <1>11, ArgsInserted
<1>13. Maps(u.idmap, A \cup {args}, Owner(u.dict))
  BY <1>6, <1>8, <1>10, <1>11, MapInserted
<1> QED BY <1>6, <1>7, <1>8, <1>12, <1>13 DEF Good, Renames, u, t, A
-----------------------------------------------------------------------------
(* What flattening collects: all that is in the sequences, and in order.      *)

\* Induction over the numbers for a set instead of a predicate.
LEMMA NatSetInduction ==
  ASSUME NEW S, 0 \in S, \A n \in Nat : n \in S => n + 1 \in S
  PROVE  Nat \subseteq S
<1> DEFINE T == {n \in Nat : n \notin S}
           R == OpToRel(<, Nat)
<1>1. SUFFICES ASSUME T # {} PROVE FALSE
  OBVIOUS
<1>2. T \subseteq Nat
  OBVIOUS
<1>3. IsWellFoundedOn(R, Nat)
  BY NatLessThanWellFounded
<1>4. \E x \in T : \A y \in T : ~ (<<y, x>> \in R)
  <2> HIDE DEF T, R
  <2> QED BY <1>1, <1>2, <1>3, WFMin
<1>5. PICK x \in T : \A y \in T : ~ (<<y, x>> \in R)
  BY <1>4
<1>6. x # 0 /\ x - 1 \in Nat /\ x - 1 \in T
  OBVIOUS
<1>7. <<x - 1, x>> \in R
  BY <1>6 DEF OpToRel
<1> QED BY <1>5, <1>6, <1>7

LEMMA SetOfBoth ==
  ASSUME NEW S, NEW s \in Seq(S), NEW t \in Seq(S)
  PROVE  ToSet(s \o t) = ToSet(s) \cup ToSet(t)
<1> DEFINE both == s \o t
<1>0. Len(s) \in Nat /\ Len(t) \in Nat
  BY LenProperties
<1>1. /\ both \in Seq(S) /\ Len(both) = Len(s) + Len(t)
      /\ \A i \in 1..Len(s) + Len(t) : both[i] = IF i <= Len(s) THEN s[i] ELSE t[i - Len(s)]
  BY ConcatProperties
<1> HIDE DEF both
<1>2. ASSUME NEW e \in ToSet(both) PROVE e \in ToSet(s) \cup ToSet(t)
  <2>1. PICK i \in 1..Len(both) : both[i] = e
    BY <1>1, SetOf
  <2>2. CASE i <= Len(s)
    <3>1. i \in 1..Len(s) /\ e = s[i]
      BY <1>0, <1>1, <2>1, <2>2
    <3> QED BY <3>1, SetOf
  <2>3. CASE i > Len(s)
    <3>1. i - Len(s) \in 1..Len(t) /\ e = t[i - Len(s)]
      BY <1>0, <1>1, <2>1, <2>3
    <3> QED BY <3>1, SetOf
  <2> QED BY <1>0, <2>2, <2>3
<1>3. ASSUME NEW e \in ToSet(s) PROVE e \in ToSet(both)
  <2>1. PICK i \in 1..Len(s) : s[i] = e
    BY SetOf
  <2>2. i \in 1..Len(both) /\ both[i] = e
    BY <1>0, <1>1, <2>1
  <2> QED BY <1>1, <2>2, SetOf
<1>4. ASSUME NEW e \in ToSet(t) PROVE e \in ToSet(both)
  <2>1. PICK i \in 1..Len(t) : t[i] = e
    BY SetOf
  <2>2. i + Len(s) \in 1..Len(both) /\ both[i + Len(s)] = e
    <3>1. i + Len(s) \in 1..Len(s) + Len(t) /\ ~(i + Len(s) <= Len(s)) /\ (i + Len(s)) - Len(s) = i
      BY <1>0
    <3> QED BY <1>1, <2>1, <3>1
  <2> QED BY <1>1, <2>2, SetOf
<1> QED BY <1>2, <1>3, <1>4 DEF both

\* What the function in FlattenSeq is defined by.
Flattens(g, seqs, n) ==
  g = [i \in 1..n |-> IF i = 1 THEN seqs[i] ELSE g[i - 1] \o seqs[i]]

LEMMA FlattenedExists ==
  ASSUME NEW seqs, NEW n \in Nat
  PROVE  \E g : Flattens(g, seqs, n)
<1> DEFINE Done == {m \in Nat : \E g : Flattens(g, seqs, m)}
<1>1. 0 \in Done
  <2> DEFINE g == [i \in 1..0 |-> 0]
  <2>1. g = [i \in 1..0 |-> IF i = 1 THEN seqs[i] ELSE g[i - 1] \o seqs[i]]
    OBVIOUS
  <2> QED BY <2>1 DEF Flattens
<1>2. ASSUME NEW m \in Nat, m \in Done PROVE m + 1 \in Done
  <2>1. PICK g : Flattens(g, seqs, m)
    BY <1>2
  <2>2. \A i \in 1..m : g[i] = IF i = 1 THEN seqs[i] ELSE g[i - 1] \o seqs[i]
    BY <2>1 DEF Flattens
  <2> DEFINE last == IF m = 0 THEN seqs[m + 1] ELSE g[m] \o seqs[m + 1]
             h == [i \in 1..m + 1 |-> IF i = m + 1 THEN last ELSE g[i]]
  <2>3. ASSUME NEW i \in 1..m + 1
        PROVE  h[i] = IF i = 1 THEN seqs[i] ELSE h[i - 1] \o seqs[i]
    <3>1. CASE i = m + 1
      <4>1. i # 1 => i - 1 \in 1..m /\ i - 1 \in 1..m + 1 /\ i - 1 # m + 1 /\ i - 1 = m
        BY <3>1
      <4>2. i # 1 => h[i - 1] = g[m]
        BY <4>1
      <4>3. h[i] = last
        BY <3>1
      <4>4. i = 1 <=> m = 0
        BY <3>1
      <4> HIDE DEF h
      <4> QED BY <3>1, <4>2, <4>3, <4>4
    <3>2. CASE i # m + 1
      <4>1. i \in 1..m /\ h[i] = g[i]
        BY <3>2
      <4>2. i # 1 => i - 1 \in 1..m + 1 /\ i - 1 # m + 1
        BY <3>2
      <4>3. i # 1 => h[i - 1] = g[i - 1]
        BY <4>2
      <4> HIDE DEF h
      <4> QED BY <2>2, <4>1, <4>3
    <3> QED BY <3>1, <3>2
  <2>4. h = [i \in 1..m + 1 |-> IF i = 1 THEN seqs[i] ELSE h[i - 1] \o seqs[i]]
    <3>1. DOMAIN h = 1..m + 1 /\ h = [i \in DOMAIN h |-> h[i]]
      OBVIOUS
    <3> HIDE DEF h
    <3> QED BY <2>3, <3>1
  <2> HIDE DEF h
  <2>5. Flattens(h, seqs, m + 1)
    BY <2>4 DEF Flattens
  <2> QED BY <2>5
<1>3. Nat \subseteq Done
  <2> HIDE DEF Done
  <2> QED BY <1>1, <1>2, NatSetInduction
<1> QED BY <1>3

LEMMA Flattened ==
  ASSUME NEW S, NEW seqs \in Seq(Seq(S))
  PROVE  /\ FlattenSeq(seqs) \in Seq(S)
         /\ ToSet(FlattenSeq(seqs)) = UNION {ToSet(seqs[i]) : i \in 1..Len(seqs)}
<1> DEFINE n == Len(seqs)
<1>0. n \in Nat /\ \A i \in 1..n : seqs[i] \in Seq(S)
  BY LenProperties, ElementOfSeq
<1>1. CASE n = 0
  <2>1. seqs = <<>> /\ FlattenSeq(seqs) = seqs
    BY <1>1, EmptySeq DEF FlattenSeq
  <2>2. 1..n = {} /\ DOMAIN seqs = {} /\ seqs \in Seq(S)
    BY <1>1, <2>1
  <2> QED BY <2>1, <2>2 DEF ToSet
<1>2. CASE n # 0
  <2> DEFINE g == CHOOSE g : g = [i \in 1..Len(seqs) |-> IF i = 1 THEN seqs[i] ELSE g[i - 1] \o seqs[i]]
  <2>1. FlattenSeq(seqs) = g[n]
    BY <1>2 DEF FlattenSeq
  <2>2. g = [i \in 1..n |-> IF i = 1 THEN seqs[i] ELSE g[i - 1] \o seqs[i]]
    BY <1>0, FlattenedExists DEF Flattens
  <2> HIDE DEF g, n
  <2>3. \A i \in 1..n : g[i] = IF i = 1 THEN seqs[i] ELSE g[i - 1] \o seqs[i]
    BY <2>2
  <2> DEFINE Upto(k) == UNION {ToSet(seqs[i]) : i \in 1..k}
             Done == {k \in Nat : k \in 1..n => g[k] \in Seq(S) /\ ToSet(g[k]) = Upto(k)}
  <2>4. 0 \in Done
    OBVIOUS
  <2>5. ASSUME NEW k \in Nat, k \in Done PROVE k + 1 \in Done
    <3> SUFFICES ASSUME k + 1 \in 1..n
                 PROVE  g[k + 1] \in Seq(S) /\ ToSet(g[k + 1]) = Upto(k + 1)
      OBVIOUS
    <3>1. seqs[k + 1] \in Seq(S)
      BY <1>0
    <3>2. Upto(k + 1) = Upto(k) \cup ToSet(seqs[k + 1])
      <4>1. 1..k + 1 = 1..k \cup {k + 1}
        OBVIOUS
      <4> QED BY <4>1
    <3>3. CASE k = 0
      <4>1. Upto(k) = {} /\ g[k + 1] = seqs[k + 1]
        BY <2>3, <3>3
      <4> HIDE DEF Upto
      <4> QED BY <3>1, <3>2, <4>1
    <3>4. CASE k # 0
      <4>1. k \in 1..n /\ k + 1 # 1 /\ (k + 1) - 1 = k
        BY <1>0, <3>4
      <4>2. g[k + 1] = g[k] \o seqs[k + 1]
        BY <2>3, <4>1
      <4>3. g[k] \in Seq(S) /\ ToSet(g[k]) = Upto(k)
        BY <2>5, <4>1
      <4> HIDE DEF Upto
      <4>4. ToSet(g[k + 1]) = ToSet(g[k]) \cup ToSet(seqs[k + 1])
        BY <3>1, <4>2, <4>3, SetOfBoth
      <4> QED BY <3>1, <3>2, <4>2, <4>3, <4>4, ConcatProperties
    <3> QED BY <3>3, <3>4
  <2>6. Nat \subseteq Done
    <3> HIDE DEF Done
    <3> QED BY <2>4, <2>5, NatSetInduction
  <2>7. n \in 1..n
    BY <1>0, <1>2
  <2> QED BY <1>0, <2>1, <2>6, <2>7 DEF n
<1> QED BY <1>1, <1>2
-----------------------------------------------------------------------------
(* What convert_to_comments, from_dir and build do.                            *)

LEMMA FieldLeft ==
  ASSUME NEW s, Good(s), NEW f \in Named(s.dict)
  PROVE  f \in Dicts /\ s.dict[f] \in Statement /\ [args |-> Comment, file |-> s.dict[f].file] \in Statement
BY OwnerIs DEF Good, Statement

LEMMA CommentBefore ==
  ASSUME NEW s, Good(s), Len(s.data) < MaxFields, NEW f \in Named(s.dict), NEW t,
         t = insert_before(s, f, NewDict(s), Comment)
  PROVE  /\ Good(t) /\ Named(t.dict) = Named(s.dict) /\ t.dict[f] = s.dict[f]
         /\ Len(t.data) = Len(s.data) + 1 /\ IndexOf(t, f) = IndexOf(s, f) + 1
         /\ Adds(s, t, NewDict(s), [args |-> Comment, file |-> s.dict[f].file], IndexOf(s, f))
<1> DEFINE g == NewDict(s)
           c == [args |-> Comment, file |-> s.dict[f].file]
           n == IndexOf(s, f)
<1>1. g \in Dicts \ Used(s.dict) /\ c \in Statement /\ c.args = Comment /\ f \in Dicts
  BY NewDictIs, FieldLeft
<1>2. s.data \in Seq(Dicts) /\ Len(s.data) \in Nat /\ n \in 1..Len(s.data) /\ s.data[n] = f
  BY IndexOfIs, LenProperties DEF Good, Lists
<1>3. t = add_data(s, g, c, n)
  BY DEF insert_before
<1> HIDE DEF g, c, n
<1>4. n \in 1..Len(s.data) + 1
  BY <1>2
<1>5. Good(t) /\ Adds(s, t, g, c, n)
  BY <1>1, <1>3, <1>4, AddGood
<1>6. f # g /\ t.dict[f] = s.dict[f]
  BY <1>1, <1>5 DEF Named, Adds, Alters
<1>7. Named(t.dict) = Named(s.dict)
  BY <1>1, <1>5, CommentAdded DEF Good, Adds
<1>8. /\ Len(t.data) = Len(s.data) + 1 /\ n + 1 \in 1..Len(t.data) /\ t.data[n + 1] = f
  <2>1. t.data = InsertAt(s.data, n, g) /\ g \in Dicts
    BY <1>1, <1>5 DEF Adds
  <2>2. /\ Len(t.data) = Len(s.data) + 1
        /\ \A k \in 1..Len(s.data) + 1 :
             t.data[k] = IF k < n THEN s.data[k] ELSE IF k = n THEN g ELSE s.data[k - 1]
    <3> DEFINE d == s.data
    <3>1. d \in Seq(Dicts) /\ n \in 1..Len(d) + 1 /\ g \in Dicts
      BY <1>2, <1>4, <2>1
    <3> HIDE DEF d
    <3>2. /\ Len(InsertAt(d, n, g)) = Len(d) + 1
          /\ \A k \in 1..Len(d) + 1 :
               InsertAt(d, n, g)[k] = IF k < n THEN d[k] ELSE IF k = n THEN g ELSE d[k - 1]
      BY ONLY <3>1, Inserted
    <3> QED BY <2>1, <3>2 DEF d
  <2>3. n + 1 \in 1..Len(s.data) + 1 /\ (n + 1) - 1 = n /\ ~(n + 1 < n) /\ n + 1 # n
    BY <1>2
  <2> QED BY <1>2, <2>2, <2>3
<1>9. IndexOf(t, f) = n + 1
  <2>1. IndexOf(t, f) \in 1..Len(t.data) /\ t.data[IndexOf(t, f)] = f
    BY <1>5, <1>7, IndexOfIs
  <2> QED BY <1>5, <1>8, <2>1 DEF Good, Lists
<1> QED BY <1>5, <1>6, <1>7, <1>8, <1>9 DEF g, c, n

\* What a file holds is of that file.
OfFile(file) == {t \in Statement : t.file = file}
Written(files) == DOMAIN files = Files /\ \A file \in Files : files[file] \in Seq(OfFile(file))

LEMMA Combined ==
  ASSUME NEW files, Written(files)
  PROVE  /\ _combine_fields(files) \in Seq(Statement)
         /\ ToSet(_combine_fields(files)) = UNION {ToSet(files[file]) : file \in Files}
<1> DEFINE seqs == [i \in 1..Len(FileOrder) |-> files[FileOrder[i]]]
<1>1. FileOrder \in Seq(Files) /\ Len(FileOrder) \in Nat
  BY LenProperties, FieldAssumption
<1>2. \A i \in 1..Len(FileOrder) : FileOrder[i] \in Files
  BY <1>1, ElementOfSeq
<1>3. \A file \in Files : files[file] \in Seq(Statement)
  <2>1. \A file \in Files : files[file] \in Seq(OfFile(file)) /\ OfFile(file) \subseteq Statement
    BY DEF Written, OfFile
  <2> QED BY <2>1, SeqMonotonic
<1>4. \A i \in 1..Len(FileOrder) : seqs[i] \in Seq(Statement)
  BY <1>2, <1>3
<1>5. seqs \in Seq(Seq(Statement)) /\ Len(seqs) = Len(FileOrder)
  BY <1>1, <1>4, IsASeq
<1>6. {ToSet(seqs[i]) : i \in 1..Len(FileOrder)} = {ToSet(files[file]) : file \in Files}
  <2>1. \A file \in Files : \E i \in 1..Len(FileOrder) : FileOrder[i] = file
    BY <1>1, SetOf DEF Files
  <2> QED BY <1>2, <2>1
<1> HIDE DEF seqs
<1>7. /\ FlattenSeq(seqs) \in Seq(Statement)
      /\ ToSet(FlattenSeq(seqs)) = UNION {ToSet(seqs[i]) : i \in 1..Len(seqs)}
  BY <1>5, Flattened
<1>8. _combine_fields(files) = FlattenSeq(seqs)
  BY DEF _combine_fields, seqs
<1> QED BY <1>5, <1>6, <1>7, <1>8

LEMMA FromDirGood ==
  ASSUME NEW files, NEW there, Written(files), Readable(files)
  PROVE  Good(from_dir(files, there)) /\ from_dir(files, there).files = there
<1> DEFINE all == _combine_fields(files)
           s == from_dir(files, there)
           fields == {f \in 1..Len(all) : all[f].args # Comment}
           With(args) == {f \in fields : all[f].args = args}
           WithId(id) == {f \in fields : IdOf(all[f].args) = id}
<1>1. /\ all \in Seq(Statement) /\ Len(all) \in Nat /\ Len(all) <= MaxFields /\ MaxFields \in Nat
      /\ \A i \in 1..Len(all) : all[i] \in Statement
      /\ DOMAIN all = 1..Len(all) /\ KeysUnique(all)
  BY Combined, LenProperties, ElementOfSeq, FieldAssumption DEF Readable
<1> HIDE DEF all
<1>2. s = [dict   |-> [f \in Dicts |-> IF f <= Len(all) THEN all[f] ELSE None],
           data   |-> [i \in 1..Len(all) |-> i],
           tree   |-> [p \in {<<>>} \cup UNION {Prefixes(all[f].args) : f \in fields} |->
                         IF With(p) = {} THEN None ELSE Max(With(p))],
           idmap  |-> [id \in {IdOf(all[f].args) : f \in fields} |-> Max(WithId(id))],
           files  |-> there,
           raised |-> FALSE]
  BY DEF from_dir, all
<1> HIDE DEF s
<1>3. Shaped(s) /\ s.raised = FALSE /\ s.files = there
  BY <1>2 DEF Shaped
<1>4. /\ DOMAIN s.dict = Dicts
      /\ \A f \in Dicts : s.dict[f] = IF f <= Len(all) THEN all[f] ELSE None
  BY <1>2
<1>5. \A f \in Dicts : f <= Len(all) <=> f \in 1..Len(all)
  BY <1>1 DEF Dicts
<1>6. 1..Len(all) \subseteq Dicts
  BY <1>1 DEF Dicts
<1>7. Used(s.dict) = 1..Len(all) /\ Named(s.dict) = fields
  BY <1>1, <1>4, <1>5, <1>6, FieldAssumption DEF Used, Named
<1>8. \A f \in fields : s.dict[f] = all[f]
  BY <1>4, <1>5, <1>6
<1>9. Distinct(s.dict)
  <2>1. \A f, g \in fields : IdOf(all[f].args) = IdOf(all[g].args) => f = g
    BY <1>1 DEF KeysUnique
  <2> QED BY <1>1, <1>4, <1>5, <1>7, <1>8, <2>1 DEF Distinct
<1>10. Arguments(s.dict) = {all[f].args : f \in fields}
  BY <1>7, <1>8 DEF Arguments
<1>11. Lists(s.data, Used(s.dict))
  <2>1. s.data = [i \in 1..Len(all) |-> i]
    BY <1>2
  <2>2. s.data \in Seq(Dicts) /\ Len(s.data) = Len(all)
    BY <1>1, <1>6, <2>1, IsASeq
  <2>3. ToSet(s.data) = 1..Len(all)
    BY <2>1 DEF ToSet
  <2> QED BY <1>7, <2>1, <2>2, <2>3 DEF Lists
<1>12. \A a \in Arguments(s.dict) :
         /\ Owner(s.dict)[a] \in fields /\ Owner(s.dict)[a] \in Nat
         /\ With(a) = {Owner(s.dict)[a]} /\ WithId(IdOf(a)) = {Owner(s.dict)[a]}
  <2> SUFFICES ASSUME NEW a \in Arguments(s.dict)
               PROVE  /\ Owner(s.dict)[a] \in fields /\ Owner(s.dict)[a] \in Nat
                      /\ With(a) = {Owner(s.dict)[a]} /\ WithId(IdOf(a)) = {Owner(s.dict)[a]}
    OBVIOUS
  <2>1. Owner(s.dict)[a] \in fields /\ all[Owner(s.dict)[a]].args = a
    BY <1>7, <1>8, <1>9, OwnerIs
  <2>2. \A f \in fields : IdOf(all[f].args) = IdOf(a) => f = Owner(s.dict)[a]
    BY <1>7, <1>8, <1>9, <2>1 DEF Distinct
  <2>3. Owner(s.dict)[a] \in Nat
    BY <2>1
  <2> QED BY <2>1, <2>2, <2>3
<1>13. \A n \in Nat : Max({n}) = n
  BY DEF Max
<1>14. Holds(s.tree, Arguments(s.dict), Owner(s.dict))
  <2>1. DOMAIN s.tree = Branches(Arguments(s.dict))
    <3>1. DOMAIN s.tree = {<<>>} \cup UNION {Prefixes(all[f].args) : f \in fields}
      BY <1>2
    <3>2. {Prefixes(all[f].args) : f \in fields} = {Prefixes(a) : a \in Arguments(s.dict)}
      <4> HIDE DEF fields
      <4> QED BY <1>10
    <3> QED BY ONLY <3>1, <3>2 DEF Branches
  <2>2. Comment \notin DOMAIN s.tree
    BY <1>9, <2>1, OwnerIs, BranchPaths
  <2>3. \A p \in DOMAIN s.tree : s.tree[p] = IF With(p) = {} THEN None ELSE Max(With(p))
    BY <1>2
  <2>4. \A p : p \notin Arguments(s.dict) => With(p) = {}
    BY <1>10
  <2> HIDE DEF With
  <2> QED BY <1>12, <1>13, <2>1, <2>2, <2>3, <2>4 DEF Holds
<1>15. Maps(s.idmap, Arguments(s.dict), Owner(s.dict))
  <2>1. DOMAIN s.idmap = {IdOf(a) : a \in Arguments(s.dict)}
    BY <1>2, <1>10
  <2>2. IdOf(Comment) \notin DOMAIN s.idmap
    BY <1>9, <2>1, OwnerIs, ArgsPaths
  <2>3. \A id \in DOMAIN s.idmap : s.idmap[id] = Max(WithId(id))
    BY <1>2
  <2> HIDE DEF WithId
  <2> QED BY <1>12, <1>13, <2>1, <2>2, <2>3 DEF Maps
<1> QED BY <1>3, <1>9, <1>11, <1>14, <1>15 DEF Good, s, all

\* The statements of a file in the list, as _rebuild_data collects them.
Mine(s, file) ==
  [i \in 1..Len(s.data) |->
     LET item == s.dict[s.data[i]] IN IF item.file = file THEN <<item>> ELSE <<>>]

LEMMA MineIs ==
  ASSUME NEW s, Good(s), NEW file
  PROVE  /\ Mine(s, file) \in Seq(Seq(OfFile(file))) /\ Len(Mine(s, file)) = Len(s.data)
         /\ FlattenSeq(Mine(s, file)) \in Seq(OfFile(file))
         /\ (\A i \in 1..Len(s.data) : s.dict[s.data[i]].file # file) =>
              FlattenSeq(Mine(s, file)) = <<>>
<1>1. s.data \in Seq(Dicts) /\ Len(s.data) \in Nat
  BY LenProperties DEF Good, Lists
<1>2. \A i \in 1..Len(s.data) : s.dict[s.data[i]] \in Statement
  BY <1>1, SetOf DEF Good, Lists, Used, Distinct
<1>3. ASSUME NEW i \in 1..Len(s.data)
      PROVE  Mine(s, file)[i] \in Seq(OfFile(file))
  <2>1. CASE s.dict[s.data[i]].file = file
    <3>1. s.dict[s.data[i]] \in OfFile(file)
      BY <1>2, <2>1 DEF OfFile
    <3> QED BY <2>1, <3>1 DEF Mine
  <2>2. CASE s.dict[s.data[i]].file # file
    BY <2>2 DEF Mine
  <2> QED BY <2>1, <2>2
<1>4. Mine(s, file) \in Seq(Seq(OfFile(file))) /\ Len(Mine(s, file)) = Len(s.data)
  <2>1. Mine(s, file) = [i \in 1..Len(s.data) |-> Mine(s, file)[i]]
    BY DEF Mine
  <2> QED BY <1>1, <1>3, <2>1, IsASeq
<1>5. FlattenSeq(Mine(s, file)) \in Seq(OfFile(file))
  BY <1>4, Flattened
<1>6. ASSUME \A i \in 1..Len(s.data) : s.dict[s.data[i]].file # file
      PROVE  FlattenSeq(Mine(s, file)) = <<>>
  <2>1. \A i \in 1..Len(s.data) : Mine(s, file)[i] = <<>>
    BY <1>6 DEF Mine
  <2>2. ToSet(<<>>) = {}
    BY DEF ToSet
  <2>3. ToSet(FlattenSeq(Mine(s, file))) = {}
    BY <1>4, <2>1, <2>2, Flattened
  <2> DEFINE flat == FlattenSeq(Mine(s, file))
  <2>4. Len(flat) \in Nat /\ ~(1 \in 1..Len(flat))
    BY <1>5, <2>3, SetOf, LenProperties
  <2> QED BY <1>5, <2>4, EmptySeq
<1> QED BY <1>4, <1>5, <1>6

LEMMA RebuildIs ==
  ASSUME NEW s, NEW file \in Known(s)
  PROVE  _rebuild_data(s)[file] = FlattenSeq(Mine(s, file))
BY DEF _rebuild_data, Mine

LEMMA BuildWritten ==
  ASSUME NEW s, Good(s), Written(disk), NEW files
  PROVE  Written(build(s, files))
<1>1. ASSUME NEW f \in Files PROVE build(s, files)[f] \in Seq(OfFile(f))
  <2>1. CASE f \in ToWrite(s, files)
    <3>1. build(s, files)[f] = FlattenSeq(Mine(s, f))
      BY <2>1, RebuildIs DEF build, ToWrite
    <3> QED BY <3>1, MineIs
  <2>2. CASE f \notin ToWrite(s, files)
    <3>1. build(s, files)[f] = disk[f]
      BY <2>2 DEF build
    <3> QED BY <3>1 DEF Written
  <2> QED BY <2>1, <2>2
<1>2. DOMAIN build(s, files) = Files
  BY DEF build
<1> QED BY <1>1, <1>2 DEF Written
-----------------------------------------------------------------------------
(* Every step keeps the collection good and the disk readable.                *)

\* The files with "file" in their names are among those any configuration has.
NamedFound == \A there \in Found : NamedFile \subseteq there

\* What is on disk is in files that are there, which the configuration knows.
Inv ==
  /\ Good(store) /\ Written(disk)
  /\ \A file \in Files : disk[file] # <<>> => file \in present
  /\ present \subseteq store.files
  /\ NamedFound => NamedFile \subseteq present

LEMMA FieldsAre ==
  ASSUME Good(store)
  PROVE  Fields = Named(store.dict) /\ ArgsOf(Fields) = Arguments(store.dict)
<1>1. Fields = Named(store.dict)
  BY DEF Fields, Named, Good, Lists
<1> QED BY <1>1 DEF ArgsOf, Arguments

LEMMA InitInv ==
  ASSUME Init
  PROVE  Inv
<1>1. Written(disk) /\ Readable(disk) /\ store = from_dir(disk, present)
  BY FieldAssumption DEF Init, Written, OfFile
<1>2. Good(store) /\ store.files = present
  BY <1>1, FromDirGood
<1>3. /\ \A file \in Files : disk[file] # <<>> => file \in present
      /\ NamedFound => NamedFile \subseteq present
  BY DEF Init, NamedFound
<1> QED BY <1>1, <1>2, <1>3 DEF Inv

LEMMA ChangeInv ==
  ASSUME Inv, NEW s, Change(s), Good(s), s.files = store.files
  PROVE  Inv'
<1>1. store' = s /\ disk' = disk /\ present' = present
  BY DEF Change
<1> QED BY <1>1 DEF Inv, Good, Shaped, Distinct, Lists, Holds, Maps, Written, OfFile

-----------------------------------------------------------------------------
(* The list of statements that FieldList speaks of.                           *)

LEMMA ListingIs ==
  ASSUME NEW s, Good(s)
  PROVE  /\ s.data \in Seq(Dicts) /\ Len(s.data) \in Nat
         /\ Listing(s) \in Seq(Statement) /\ Len(Listing(s)) = Len(s.data)
         /\ \A i \in 1..Len(s.data) : /\ Listing(s)[i] = s.dict[s.data[i]]
                                      /\ s.data[i] \in Used(s.dict) /\ s.data[i] \in Dicts
                                      /\ s.dict[s.data[i]] \in Statement
<1>1. s.data \in Seq(Dicts) /\ Len(s.data) \in Nat
  BY LenProperties DEF Good, Lists
<1>2. \A i \in 1..Len(s.data) : /\ s.data[i] \in Used(s.dict) /\ s.data[i] \in Dicts
                                /\ s.dict[s.data[i]] \in Statement
  BY <1>1, SetOf DEF Good, Lists, Used, Distinct
<1>3. \A i \in 1..Len(s.data) : Listing(s)[i] = s.dict[s.data[i]]
  BY DEF Listing
<1>4. Listing(s) \in Seq(Statement) /\ Len(Listing(s)) = Len(s.data)
  <2> DEFINE l == Listing(s)
             n == Len(s.data)
  <2>1. n \in Nat /\ l \in [1..n -> Statement]
    BY <1>1, <1>2 DEF Listing
  <2> HIDE DEF l, n
  <2>2. l \in Seq(Statement)
    BY <2>1, SeqDef
  <2> QED BY <2>1, <2>2, LenProperties DEF l, n
<1> QED BY <1>1, <1>2, <1>3, <1>4

LEMMA NotFull ==
  ASSUME NEW s, Good(s)
  PROVE  Len(s.data) \in 0..MaxFields
<1>1. s.data \in Seq(Dicts) /\ Len(s.data) \in Nat /\ MaxFields \in Nat
  BY ListingIs, FieldAssumption
<1> DEFINE at == [i \in 1..Len(s.data) |-> s.data[i]]
<1>2. at \in [1..Len(s.data) -> Dicts]
  BY ListingIs
<1>3. \A i, j \in 1..Len(s.data) : at[i] = at[j] => i = j
  BY DEF Good, Lists
<1>4. IsFiniteSet(Dicts) /\ Cardinality(Dicts) = MaxFields
  BY <1>1, FS_Interval DEF Dicts
<1>5. IsFiniteSet(1..Len(s.data)) /\ Cardinality(1..Len(s.data)) = Len(s.data)
  BY <1>1, FS_Interval
<1> HIDE DEF at
<1>6. CASE Len(s.data) > MaxFields
  <2>1. \E i, j \in 1..Len(s.data) : i # j /\ at[i] = at[j]
    BY <1>1, <1>2, <1>4, <1>5, <1>6, FS_PigeonHole
  <2> QED BY <1>3, <2>1
<1> QED BY <1>1, <1>6

LEMMA ListingInserted ==
  ASSUME NEW s, Good(s), NEW t, Good(t), NEW f \in Dicts \ Used(s.dict), NEW c \in Statement,
         NEW n \in 1..Len(s.data) + 1, Adds(s, t, f, c, n)
  PROVE  Listing(t) = InsertAt(Listing(s), n, c)
<1>1. /\ Len(t.data) = Len(s.data) + 1
      /\ \A k \in 1..Len(s.data) + 1 :
           t.data[k] = IF k < n THEN s.data[k] ELSE IF k = n THEN f ELSE s.data[k - 1]
  <2> DEFINE d == s.data
  <2>1. d \in Seq(Dicts) /\ n \in 1..Len(d) + 1 /\ f \in Dicts /\ t.data = InsertAt(d, n, f)
    BY ListingIs DEF Adds
  <2> HIDE DEF d
  <2>2. /\ Len(InsertAt(d, n, f)) = Len(d) + 1
        /\ \A k \in 1..Len(d) + 1 :
             InsertAt(d, n, f)[k] = IF k < n THEN d[k] ELSE IF k = n THEN f ELSE d[k - 1]
    BY ONLY <2>1, Inserted
  <2> QED BY <2>1, <2>2 DEF d
<1>2. /\ InsertAt(Listing(s), n, c) \in Seq(Statement)
      /\ Len(InsertAt(Listing(s), n, c)) = Len(s.data) + 1
      /\ \A k \in 1..Len(s.data) + 1 :
           InsertAt(Listing(s), n, c)[k] =
             IF k < n THEN Listing(s)[k] ELSE IF k = n THEN c ELSE Listing(s)[k - 1]
  BY ListingIs, Inserted
<1>3. \A g \in Used(s.dict) : t.dict[g] = s.dict[g]
  BY DEF Adds, Alters, Used
<1>4. t.dict[f] = c
  BY DEF Adds, Alters
<1>5. ASSUME NEW k \in 1..Len(t.data)
      PROVE  Listing(t)[k] = InsertAt(Listing(s), n, c)[k]
  <2>0. Len(s.data) \in Nat /\ Listing(t)[k] = t.dict[t.data[k]]
    BY ListingIs
  <2>1. CASE k < n
    <3>1. k \in 1..Len(s.data) /\ k \in 1..Len(s.data) + 1
      BY <1>1, <2>0, <2>1
    <3> QED BY <1>1, <1>2, <1>3, <2>0, <2>1, <3>1, ListingIs
  <2>2. CASE k = n
    BY <1>1, <1>2, <1>4, <2>0, <2>2
  <2>3. CASE k > n
    <3>1. k - 1 \in 1..Len(s.data) /\ k \in 1..Len(s.data) + 1 /\ ~(k < n) /\ k # n
      BY <1>1, <2>0, <2>3
    <3> QED BY <1>1, <1>2, <1>3, <2>0, <3>1, ListingIs
  <2> QED BY <2>0, <2>1, <2>2, <2>3
<1> QED BY <1>1, <1>2, <1>5, ListingIs, SeqEqual

LEMMA ListingRemoved ==
  ASSUME NEW s, Good(s), NEW t, Good(t), NEW f \in Named(s.dict), Removes(s, t, f)
  PROVE  Listing(t) = RemoveAt(Listing(s), IndexOf(s, f))
<1> DEFINE n == IndexOf(s, f)
<1>0. n \in 1..Len(s.data) /\ s.data[n] = f
  BY IndexOfIs
<1> HIDE DEF n
<1>1. /\ Len(t.data) = Len(s.data) - 1
      /\ \A k \in 1..Len(s.data) - 1 : t.data[k] = IF k < n THEN s.data[k] ELSE s.data[k + 1]
  <2> DEFINE d == s.data
  <2>1. d \in Seq(Dicts) /\ n \in 1..Len(d) /\ t.data = RemoveAt(d, n)
    BY <1>0, ListingIs DEF Removes, n
  <2> HIDE DEF d
  <2>2. /\ Len(RemoveAt(d, n)) = Len(d) - 1
        /\ \A k \in 1..Len(d) - 1 : RemoveAt(d, n)[k] = IF k < n THEN d[k] ELSE d[k + 1]
    BY ONLY <2>1, Removed
  <2> QED BY <2>1, <2>2 DEF d
<1>2. /\ RemoveAt(Listing(s), n) \in Seq(Statement)
      /\ Len(RemoveAt(Listing(s), n)) = Len(s.data) - 1
      /\ \A k \in 1..Len(s.data) - 1 :
           RemoveAt(Listing(s), n)[k] = IF k < n THEN Listing(s)[k] ELSE Listing(s)[k + 1]
  BY <1>0, ListingIs, Removed
<1>3. \A i \in 1..Len(s.data) : i # n => t.dict[s.data[i]] = s.dict[s.data[i]]
  <2>1. \A i \in 1..Len(s.data) : i # n => s.data[i] # f /\ s.data[i] \in Dicts
    BY <1>0, ListingIs DEF Good, Lists
  <2> QED BY <2>1 DEF Removes, Alters
<1>4. ASSUME NEW k \in 1..Len(t.data)
      PROVE  Listing(t)[k] = RemoveAt(Listing(s), n)[k]
  <2>0. Len(s.data) \in Nat /\ Listing(t)[k] = t.dict[t.data[k]]
    BY ListingIs
  <2>1. CASE k < n
    <3>1. k \in 1..Len(s.data) /\ k \in 1..Len(s.data) - 1 /\ k # n
      BY <1>0, <1>1, <2>0, <2>1
    <3> QED BY <1>1, <1>2, <1>3, <2>0, <2>1, <3>1, ListingIs
  <2>2. CASE k >= n
    <3>1. k + 1 \in 1..Len(s.data) /\ k \in 1..Len(s.data) - 1 /\ ~(k < n) /\ k + 1 # n
      BY <1>0, <1>1, <2>0, <2>2
    <3> QED BY <1>1, <1>2, <1>3, <2>0, <3>1, ListingIs
  <2>3. k < n \/ k >= n
    BY <1>0, <1>1, <2>0
  <2> QED BY <2>1, <2>2, <2>3
<1> QED BY <1>1, <1>2, <1>4, ListingIs, SeqEqual DEF n

LEMMA ListingRenamed ==
  ASSUME NEW s, Good(s), NEW t, Good(t), NEW f \in Named(s.dict), NEW args \in Args,
         Renames(s, t, f, [args |-> args, file |-> s.dict[f].file])
  PROVE  Listing(t) = [Listing(s) EXCEPT ![IndexOf(s, f)].args = args]
<1> DEFINE n == IndexOf(s, f)
           c == [args |-> args, file |-> s.dict[f].file]
<1>0. n \in 1..Len(s.data) /\ s.data[n] = f /\ f \in Dicts /\ s.dict[f] \in Statement
  BY IndexOfIs, FieldLeft
<1>1. t.data = s.data /\ \A g \in Dicts : t.dict[g] = IF g = f THEN c ELSE s.dict[g]
  BY DEF Renames, Alters
<1>2. [s.dict[f] EXCEPT !.args = args] = c
  BY <1>0 DEF Statement
<1> HIDE DEF n, c
<1>3. \A i \in 1..Len(s.data) : s.data[i] \in Dicts /\ (s.data[i] = f <=> i = n)
  BY <1>0, ListingIs DEF Good, Lists
<1>4. Listing(s)[n] = s.dict[f] /\ DOMAIN Listing(s) = 1..Len(s.data)
  BY <1>0 DEF Listing
<1>5. [Listing(s) EXCEPT ![n].args = args] = [Listing(s) EXCEPT ![n] = c]
  BY <1>2, <1>4
<1>6. Listing(t) = [i \in 1..Len(s.data) |-> IF i = n THEN c ELSE s.dict[s.data[i]]]
  BY <1>1, <1>3 DEF Listing
<1>7. [Listing(s) EXCEPT ![n] = c] = [i \in 1..Len(s.data) |-> IF i = n THEN c ELSE s.dict[s.data[i]]]
  BY DEF Listing
<1> QED BY <1>5, <1>6, <1>7 DEF n

\* One statement replaced by n others, as CommentOut of FieldList does it.
Replace(s, i, n, c) == SubSeq(s, 1, i - 1) \o [k \in 1..n |-> c] \o SubSeq(s, i + 1, Len(s))

Replaces(t, s, i, n, c) ==
  Len(t) = Len(s) - 1 + n /\ \A k \in 1..Len(s) - 1 + n :
                                t[k] = IF k < i THEN s[k] ELSE IF k < i + n THEN c ELSE s[k - n + 1]

LEMMA Replaced ==
  ASSUME NEW S, NEW s \in Seq(S), NEW i \in 1..Len(s), NEW n \in Nat, NEW c \in S
  PROVE  Replace(s, i, n, c) \in Seq(S) /\ Replaces(Replace(s, i, n, c), s, i, n, c)
<1> DEFINE a == SubSeq(s, 1, i - 1)
           m == [k \in 1..n |-> c]
           b == a \o m
           d == SubSeq(s, i + 1, Len(s))
<1>0. Len(s) \in Nat /\ i \in Nat /\ i >= 1 /\ i <= Len(s)
  BY LenProperties
<1>1. \A k \in 1..Len(s) : s[k] \in S
  BY ElementOfSeq
<1>2. a \in Seq(S) /\ Len(a) = i - 1 /\ \A k \in 1..i - 1 : a[k] = s[k]
  <2>1. \A k \in 1..i - 1 : s[k] \in S
    BY <1>0, <1>1
  <2> QED BY <1>0, <2>1, SubSeqProperties
<1>3. d \in Seq(S) /\ Len(d) = Len(s) - i /\ \A k \in 1..Len(s) - i : d[k] = s[i + k]
  <2>1. \A k \in i + 1..Len(s) : s[k] \in S
    BY <1>0, <1>1
  <2> QED BY <1>0, <2>1, SubSeqProperties
<1>4. m \in Seq(S) /\ Len(m) = n /\ \A k \in 1..n : m[k] = c
  BY IsASeq
<1> HIDE DEF a, m, d
<1>5. b \in Seq(S) /\ Len(b) = i - 1 + n /\ \A k \in 1..i - 1 + n : b[k] = IF k < i THEN s[k] ELSE c
  <2>1. /\ b \in Seq(S) /\ Len(b) = i - 1 + n
        /\ \A k \in 1..i - 1 + n : b[k] = IF k <= i - 1 THEN a[k] ELSE m[k - (i - 1)]
    <3>1. /\ b \in Seq(S) /\ Len(b) = Len(a) + Len(m)
          /\ \A k \in 1..Len(a) + Len(m) : b[k] = IF k <= Len(a) THEN a[k] ELSE m[k - Len(a)]
      BY <1>2, <1>4, ConcatProperties
    <3>2. Len(a) + Len(m) = i - 1 + n
      BY <1>0, <1>2, <1>4
    <3> QED BY <1>2, <3>1, <3>2
  <2> HIDE DEF b
  <2>2. ASSUME NEW k \in 1..i - 1 + n PROVE b[k] = IF k < i THEN s[k] ELSE c
    <3>1. CASE k < i
      <4>1. k \in 1..i - 1 /\ k <= i - 1
        BY <1>0, <3>1
      <4> QED BY <1>2, <2>1, <3>1, <4>1
    <3>2. CASE k >= i
      <4>1. k - (i - 1) \in 1..n /\ ~(k <= i - 1) /\ ~(k < i)
        BY <1>0, <3>2
      <4> QED BY <1>4, <2>1, <4>1
    <3>3. k < i \/ k >= i
      BY <1>0
    <3> QED BY <3>1, <3>2, <3>3
  <2> QED BY <2>1, <2>2
<1> HIDE DEF b
<1>6. /\ b \o d \in Seq(S) /\ Len(b \o d) = Len(s) - 1 + n
      /\ \A k \in 1..Len(s) - 1 + n :
           (b \o d)[k] = IF k <= i - 1 + n THEN b[k] ELSE d[k - (i - 1 + n)]
  <2>1. /\ b \o d \in Seq(S) /\ Len(b \o d) = Len(b) + Len(d)
        /\ \A k \in 1..Len(b) + Len(d) : (b \o d)[k] = IF k <= Len(b) THEN b[k] ELSE d[k - Len(b)]
    BY <1>3, <1>5, ConcatProperties
  <2>2. Len(b) + Len(d) = Len(s) - 1 + n
    BY <1>0, <1>3, <1>5
  <2> QED BY <1>5, <2>1, <2>2
<1>7. ASSUME NEW k \in 1..Len(s) - 1 + n
      PROVE  (b \o d)[k] = IF k < i THEN s[k] ELSE IF k < i + n THEN c ELSE s[k - n + 1]
  <2>1. CASE k < i + n
    <3>1. k \in 1..i - 1 + n /\ k <= i - 1 + n
      BY <1>0, <2>1
    <3> QED BY <1>5, <1>6, <2>1, <3>1
  <2>2. CASE k >= i + n
    <3>1. /\ k - (i - 1 + n) \in 1..Len(s) - i /\ i + (k - (i - 1 + n)) = k - n + 1
          /\ ~(k <= i - 1 + n) /\ ~(k < i) /\ ~(k < i + n)
      BY <1>0, <2>2
    <3>2. d[k - (i - 1 + n)] = s[k - n + 1]
      BY <1>3, <3>1
    <3> QED BY <1>6, <3>1, <3>2
  <2>3. k < i + n \/ k >= i + n
    BY <1>0
  <2> QED BY <2>1, <2>2, <2>3
<1>8. Replace(s, i, n, c) = b \o d
  BY DEF Replace, a, m, b, d
<1> QED BY <1>6, <1>7, <1>8 DEF Replaces

\* What is left once a field with n comments before it is removed.
LEMMA ReplacedByComments ==
  ASSUME NEW S, NEW s \in Seq(S), NEW i \in 1..Len(s), NEW c \in S, NEW n \in Nat,
         NEW t \in Seq(S), Len(t) = Len(s) + n,
         \A k \in 1..Len(s) + n : t[k] = IF k < i THEN s[k] ELSE IF k < i + n THEN c ELSE s[k - n]
  PROVE  RemoveAt(t, i + n) = Replace(s, i, n, c)
<1> DEFINE r == RemoveAt(t, i + n)
           q == Replace(s, i, n, c)
<1>0. Len(s) \in Nat /\ i \in Nat /\ i >= 1 /\ i <= Len(s)
  BY LenProperties
<1>1. /\ r \in Seq(S) /\ Len(r) = Len(s) - 1 + n
      /\ \A k \in 1..Len(s) - 1 + n : r[k] = IF k < i + n THEN t[k] ELSE t[k + 1]
  <2>1. i + n \in 1..Len(t) /\ Len(t) - 1 = Len(s) - 1 + n
    BY <1>0
  <2>2. /\ r \in Seq(S) /\ Len(r) = Len(t) - 1
        /\ \A k \in 1..Len(t) - 1 : r[k] = IF k < i + n THEN t[k] ELSE t[k + 1]
    BY <2>1, Removed
  <2> QED BY <2>1, <2>2
<1>2. /\ q \in Seq(S) /\ Len(q) = Len(s) - 1 + n
      /\ \A k \in 1..Len(s) - 1 + n :
           q[k] = IF k < i THEN s[k] ELSE IF k < i + n THEN c ELSE s[k - n + 1]
  <2>1. q \in Seq(S) /\ Replaces(q, s, i, n, c)
    BY Replaced
  <2> HIDE DEF q
  <2> QED BY <2>1 DEF Replaces
<1> HIDE DEF r, q
<1>3. ASSUME NEW k \in 1..Len(s) - 1 + n PROVE r[k] = q[k]
  <2>0. k \in 1..Len(s) + n /\ k \in Int
    BY <1>0
  <2>1. CASE k < i + n
    <3>1. r[k] = t[k]
      BY <1>1, <2>1
    <3> QED BY <1>2, <2>0, <2>1, <3>1
  <2>2. CASE k >= i + n
    <3>1. /\ k + 1 \in 1..Len(s) + n /\ (k + 1) - n = k - n + 1 /\ ~(k < i + n) /\ ~(k < i)
          /\ ~(k + 1 < i) /\ ~(k + 1 < i + n)
      BY <1>0, <2>2
    <3>2. r[k] = t[k + 1]
      BY <1>1, <3>1
    <3>3. t[k + 1] = s[(k + 1) - n]
      BY <3>1
    <3>4. q[k] = s[k - n + 1]
      BY <1>2, <3>1
    <3> QED BY <3>1, <3>2, <3>3, <3>4
  <2>3. k < i + n \/ k >= i + n
    BY <1>0
  <2> QED BY <2>1, <2>2, <2>3
<1>4. r = q
  BY <1>1, <1>2, <1>3, SeqEqual
<1> QED BY <1>4 DEF r, q
-----------------------------------------------------------------------------
(* convert_to_comments, comment after comment.                                *)
CommentOf(s, f) == [args |-> Comment, file |-> s.dict[f].file]
AddComment(s, f) == insert_before(s, f, NewDict(s), Comment)

\* What the function in convert_to_comments is defined by.
Comments(g, s, f, n) ==
  g = [k \in 0..n |-> IF k = 0 THEN s ELSE insert_before(g[k - 1], f, NewDict(g[k - 1]), Comment)]

LEMMA CommentsExist ==
  ASSUME NEW s, NEW f, NEW n \in Nat
  PROVE  \E g : Comments(g, s, f, n)
<1> DEFINE Done == {m \in Nat : \E g : Comments(g, s, f, m)}
<1>1. 0 \in Done
  <2> DEFINE g == [k \in 0..0 |-> s]
  <2>1. g = [k \in 0..0 |-> IF k = 0 THEN s ELSE insert_before(g[k - 1], f, NewDict(g[k - 1]), Comment)]
    OBVIOUS
  <2> QED BY <2>1 DEF Comments
<1>2. ASSUME NEW m \in Nat, m \in Done PROVE m + 1 \in Done
  <2>1. PICK g : Comments(g, s, f, m)
    BY <1>2
  <2>2. \A k \in 0..m : g[k] = IF k = 0 THEN s ELSE AddComment(g[k - 1], f)
    BY <2>1 DEF Comments, AddComment
  <2> DEFINE last == AddComment(g[m], f)
             h == [k \in 0..m + 1 |-> IF k = m + 1 THEN last ELSE g[k]]
  <2>3. ASSUME NEW k \in 0..m + 1
        PROVE  h[k] = IF k = 0 THEN s ELSE AddComment(h[k - 1], f)
    <3>1. CASE k = m + 1
      <4>1. k # 0 /\ k - 1 \in 0..m + 1 /\ k - 1 # m + 1 /\ k - 1 = m
        BY <3>1
      <4>2. h[k - 1] = g[m]
        BY <4>1
      <4>3. h[k] = last
        BY <3>1
      <4> HIDE DEF h
      <4> QED BY <4>1, <4>2, <4>3
    <3>2. CASE k # m + 1
      <4>1. k \in 0..m /\ h[k] = g[k]
        BY <3>2
      <4>2. k # 0 => k - 1 \in 0..m + 1 /\ k - 1 # m + 1
        BY <3>2
      <4>3. k # 0 => h[k - 1] = g[k - 1]
        BY <4>2
      <4> HIDE DEF h
      <4> QED BY <2>2, <4>1, <4>3
    <3> QED BY <3>1, <3>2
  <2>4. h = [k \in 0..m + 1 |-> IF k = 0 THEN s ELSE AddComment(h[k - 1], f)]
    <3>1. DOMAIN h = 0..m + 1 /\ h = [k \in DOMAIN h |-> h[k]]
      OBVIOUS
    <3> HIDE DEF h
    <3> QED BY <2>3, <3>1
  <2> HIDE DEF h
  <2>5. Comments(h, s, f, m + 1)
    BY <2>4 DEF Comments, AddComment
  <2> QED BY <2>5
<1>3. Nat \subseteq Done
  <2> HIDE DEF Done
  <2> QED BY <1>1, <1>2, NatSetInduction
<1> QED BY <1>3

\* The collection t is s with k comments before the field f.
Precedes(s, f, t, k) ==
  /\ Good(t) /\ Named(t.dict) = Named(s.dict) /\ t.dict[f] = s.dict[f] /\ t.files = s.files
  /\ Len(t.data) = Len(s.data) + k /\ IndexOf(t, f) = IndexOf(s, f) + k
  /\ \A j \in 1..Len(s.data) + k :
       Listing(t)[j] = IF j < IndexOf(s, f) THEN Listing(s)[j]
                       ELSE IF j < IndexOf(s, f) + k THEN CommentOf(s, f) ELSE Listing(s)[j - k]

LEMMA OneMoreComment ==
  ASSUME NEW s, Good(s), NEW f \in Named(s.dict), NEW k \in Nat, Len(s.data) + k < MaxFields,
         NEW t, Precedes(s, f, t, k)
  PROVE  Precedes(s, f, AddComment(t, f), k + 1)
<1> DEFINE m == Len(s.data)
           u == AddComment(t, f)
           c == CommentOf(s, f)
           i == IndexOf(s, f)
           ls == Listing(s)
           lt == Listing(t)
           lu == Listing(u)
<1>0. /\ m \in Nat /\ MaxFields \in Nat /\ i \in 1..m /\ c \in Statement
      /\ CommentOf(t, f) = c
      /\ m + k < MaxFields
  BY ListingIs, IndexOfIs, FieldLeft, FieldAssumption DEF CommentOf, Precedes
<1>1. /\ Good(t) /\ Named(t.dict) = Named(s.dict) /\ t.dict[f] = s.dict[f] /\ t.files = s.files
      /\ Len(t.data) = m + k /\ IndexOf(t, f) = i + k
      /\ \A j \in 1..m + k : lt[j] = IF j < i THEN ls[j] ELSE IF j < i + k THEN c ELSE ls[j - k]
  BY DEF Precedes
<1>2. /\ Good(u) /\ Named(u.dict) = Named(t.dict) /\ u.dict[f] = t.dict[f]
      /\ Len(u.data) = Len(t.data) + 1 /\ IndexOf(u, f) = IndexOf(t, f) + 1
      /\ Adds(t, u, NewDict(t), CommentOf(t, f), IndexOf(t, f))
  <2>1. Len(t.data) < MaxFields
    BY <1>0, <1>1
  <2> HIDE DEF u
  <2>2. u = insert_before(t, f, NewDict(t), Comment) /\ f \in Named(t.dict)
    BY <1>1 DEF u, AddComment
  <2> QED BY <1>1, <2>1, <2>2, CommentBefore DEF CommentOf
<1> HIDE DEF m, u, c, i
<1>3. lu = InsertAt(lt, i + k, c)
  <2>1. NewDict(t) \in Dicts \ Used(t.dict)
    <3>1. Len(t.data) < MaxFields
      BY <1>0, <1>1
    <3> QED BY <1>1, <3>1, NewDictIs
  <2>2. i + k \in 1..Len(t.data) + 1
    BY <1>0, <1>1
  <2> QED BY <1>0, <1>1, <1>2, <2>1, <2>2, ListingInserted
<1>4. Len(lu) = Len(lt) + 1 /\ \A j \in 1..Len(lt) + 1 :
                                 lu[j] = IF j < i + k THEN lt[j] ELSE IF j = i + k THEN c ELSE lt[j - 1]
  <2> DEFINE n == i + k
  <2>1. lt \in Seq(Statement) /\ Len(lt) = Len(t.data) /\ n \in 1..Len(lt) + 1
    BY <1>0, <1>1, ListingIs
  <2> HIDE DEF lt, lu, n
  <2>2. Inserts(InsertAt(lt, n, c), lt, n, c)
    BY <1>0, <2>1, InsertedShape
  <2> QED BY <1>3, <2>2 DEF Inserts, n
<1>5. Len(lt) = m + k
  BY <1>1, ListingIs
<1> HIDE DEF ls, lt, lu
<1>6. ASSUME NEW j \in 1..m + (k + 1)
      PROVE  lu[j] = IF j < i THEN ls[j] ELSE IF j < i + (k + 1) THEN c ELSE ls[j - (k + 1)]
  <2>0. j \in 1..Len(lt) + 1 /\ j \in Int
    BY <1>0, <1>5
  <2>1. CASE j < i + k
    <3>1. j \in 1..m + k /\ j < i + (k + 1)
      BY <1>0, <2>1
    <3> QED BY <1>1, <1>4, <2>0, <2>1, <3>1
  <2>2. CASE j = i + k
    <3>1. ~(j < i) /\ j < i + (k + 1) /\ ~(j < i + k)
      BY <1>0, <2>2
    <3> QED BY <1>4, <2>0, <2>2, <3>1
  <2>3. CASE j > i + k
    <3>1. /\ j - 1 \in 1..m + k /\ ~(j < i) /\ ~(j < i + (k + 1)) /\ ~(j < i + k) /\ j # i + k
          /\ ~(j - 1 < i) /\ ~(j - 1 < i + k) /\ (j - 1) - k = j - (k + 1)
      BY <1>0, <2>3
    <3>2. lu[j] = lt[j - 1]
      BY <1>4, <2>0, <3>1
    <3>3. lt[j - 1] = ls[(j - 1) - k]
      BY <1>1, <3>1
    <3> QED BY <3>1, <3>2, <3>3
  <2> QED BY <1>0, <2>0, <2>1, <2>2, <2>3
<1>7. Len(u.data) = m + (k + 1) /\ IndexOf(u, f) = i + (k + 1) /\ u.files = s.files
  BY <1>0, <1>1, <1>2 DEF Adds
<1> QED BY <1>1, <1>2, <1>6, <1>7 DEF Precedes, m, u, c, i, ls, lu

LEMMA Commented ==
  ASSUME NEW s, Good(s), NEW f \in Named(s.dict), NEW n \in Nat, Len(s.data) + n <= MaxFields
  PROVE  \E t : Precedes(s, f, t, n) /\ convert_to_comments(s, f, n) = remove(t, f)
<1> DEFINE g == CHOOSE g : g = [k \in 0..n |-> IF k = 0 THEN s
                                 ELSE insert_before(g[k - 1], f, NewDict(g[k - 1]), Comment)]
<1>0. Len(s.data) \in Nat /\ MaxFields \in Nat
  BY ListingIs, FieldAssumption
<1>1. convert_to_comments(s, f, n) = remove(g[n], f)
  BY DEF convert_to_comments
<1>2. Comments(g, s, f, n)
  <2>1. \E h : Comments(h, s, f, n)
    BY CommentsExist
  <2>2. \E h : h = [k \in 0..n |-> IF k = 0 THEN s
                                 ELSE insert_before(h[k - 1], f, NewDict(h[k - 1]), Comment)]
    BY <2>1 DEF Comments
  <2> QED BY <2>2 DEF Comments
<1> HIDE DEF g
<1>3. \A k \in 0..n : g[k] = IF k = 0 THEN s ELSE AddComment(g[k - 1], f)
  BY <1>2 DEF Comments, AddComment
<1> DEFINE Done == {k \in Nat : k \in 0..n => Precedes(s, f, g[k], k)}
<1>4. 0 \in Done
  <2>1. g[0] = s
    BY <1>3
  <2>2. IndexOf(s, f) \in 1..Len(s.data)
    BY IndexOfIs
  <2>3. Precedes(s, f, s, 0)
    BY <1>0, <2>2 DEF Precedes
  <2> QED BY <2>1, <2>3
<1>5. ASSUME NEW k \in Nat, k \in Done PROVE k + 1 \in Done
  <2> SUFFICES ASSUME k + 1 \in 0..n
               PROVE  Precedes(s, f, g[k + 1], k + 1)
    OBVIOUS
  <2>1. k \in 0..n /\ k + 1 # 0 /\ (k + 1) - 1 = k /\ Len(s.data) + k < MaxFields
    BY <1>0
  <2>2. Precedes(s, f, g[k], k)
    BY <1>5, <2>1
  <2>3. g[k + 1] = AddComment(g[k], f)
    BY <1>3, <2>1
  <2> QED BY <2>1, <2>2, <2>3, OneMoreComment
<1>6. Nat \subseteq Done
  <2> HIDE DEF Done
  <2> QED BY <1>4, <1>5, NatSetInduction
<1>7. Precedes(s, f, g[n], n)
  BY <1>6
<1> QED BY <1>1, <1>7

\* The field is replaced by its comments, at its place, and nothing else moves.
LEMMA ConvertGood ==
  ASSUME NEW s, Good(s), NEW f \in Named(s.dict), NEW n \in Nat, Len(s.data) + n <= MaxFields
  PROVE  /\ Good(convert_to_comments(s, f, n)) /\ convert_to_comments(s, f, n).files = s.files
         /\ Listing(convert_to_comments(s, f, n)) =
              Replace(Listing(s), IndexOf(s, f), n, CommentOf(s, f))
<1> DEFINE i == IndexOf(s, f)
           c == CommentOf(s, f)
           ls == Listing(s)
<1>1. PICK t : Precedes(s, f, t, n) /\ convert_to_comments(s, f, n) = remove(t, f)
  BY Commented
<1> DEFINE r == remove(t, f)
           lt == Listing(t)
<1>2. /\ Good(t) /\ Named(t.dict) = Named(s.dict) /\ t.files = s.files
      /\ Len(t.data) = Len(s.data) + n /\ IndexOf(t, f) = i + n
      /\ \A j \in 1..Len(s.data) + n : lt[j] = IF j < i THEN ls[j] ELSE IF j < i + n THEN c ELSE ls[j - n]
  BY <1>1 DEF Precedes
<1>3. Good(r) /\ Removes(t, r, f)
  BY <1>2, RemoveGood
<1>4. Listing(r) = RemoveAt(lt, i + n)
  <2> HIDE DEF r
  <2> QED BY <1>2, <1>3, ListingRemoved
<1>5. /\ ls \in Seq(Statement) /\ i \in 1..Len(ls) /\ c \in Statement
      /\ lt \in Seq(Statement) /\ Len(ls) = Len(s.data) /\ Len(lt) = Len(ls) + n
  BY <1>2, ListingIs, IndexOfIs, FieldLeft DEF CommentOf
<1> HIDE DEF ls, lt, c, i, r
<1>6. \A j \in 1..Len(ls) + n : lt[j] = IF j < i THEN ls[j] ELSE IF j < i + n THEN c ELSE ls[j - n]
  BY <1>2, <1>5
<1>7. RemoveAt(lt, i + n) = Replace(ls, i, n, c)
  BY ONLY <1>5, <1>6, n \in Nat, ReplacedByComments
<1> QED BY <1>1, <1>2, <1>3, <1>4, <1>7 DEF ls, c, i, r, Removes

LEMMA ListingRead ==
  ASSUME NEW files, NEW there, Written(files), Readable(files)
  PROVE  Listing(from_dir(files, there)) = _combine_fields(files)
<1> DEFINE all == _combine_fields(files)
           s == from_dir(files, there)
<1>1. all \in Seq(Statement) /\ Len(all) \in Nat /\ Len(all) <= MaxFields /\ MaxFields \in Nat
  BY Combined, LenProperties, FieldAssumption DEF Readable
<1>2. /\ s.data = [i \in 1..Len(all) |-> i]
      /\ s.dict = [f \in Dicts |-> IF f <= Len(all) THEN all[f] ELSE None]
  BY DEF from_dir
<1> HIDE DEF all, s
<1>3. Good(s)
  BY FromDirGood DEF s
<1>4. Len(s.data) = Len(all) /\ \A i \in 1..Len(all) : s.data[i] = i
  BY <1>1, <1>2, IsASeq
<1>5. \A i \in 1..Len(all) : Listing(s)[i] = all[i]
  BY <1>1, <1>2, <1>3, <1>4, ListingIs DEF Dicts
<1>6. Listing(s) = all
  BY <1>1, <1>3, <1>4, <1>5, ListingIs, SeqEqual
<1> QED BY <1>6 DEF s, all
-----------------------------------------------------------------------------
(* Every step is a step of FieldList.                                         *)

\* The operators of FieldList are those of FieldStore.
LEMMA Library ==
  /\ \A q : List!ToSet(q) = ToSet(q)
  /\ \A q : List!FlattenSeq(q) = FlattenSeq(q)
  /\ \A q, i, e : List!InsertAt(q, i, e) = InsertAt(q, i, e)
  /\ \A q, i : List!RemoveAt(q, i) = RemoveAt(q, i)
  /\ \A q : List!Prefixes(q) = Prefixes(q)
  /\ \A p, q : List!IsPrefix(p, q) = IsPrefix(p, q)
<1>1. ASSUME NEW q PROVE List!ToSet(q) = ToSet(q)
  BY DEF List!ToSet, ToSet
<1>2. ASSUME NEW q PROVE List!FlattenSeq(q) = FlattenSeq(q)
  BY DEF List!FlattenSeq, FlattenSeq
<1>3. ASSUME NEW q, NEW i, NEW e PROVE List!InsertAt(q, i, e) = InsertAt(q, i, e)
  BY DEF List!InsertAt, InsertAt
<1>4. ASSUME NEW q, NEW i PROVE List!RemoveAt(q, i) = RemoveAt(q, i)
  BY DEF List!RemoveAt, RemoveAt
<1>5. ASSUME NEW q PROVE List!Prefixes(q) = Prefixes(q)
  BY DEF List!Prefixes, Prefixes
<1>6. ASSUME NEW p, NEW q PROVE List!IsPrefix(p, q) = IsPrefix(p, q)
  BY DEF List!IsPrefix, IsPrefix
<1> QED BY <1>1, <1>2, <1>3, <1>4, <1>5, <1>6

LEMMA Names ==
  /\ List!Comment = Comment /\ List!Files = Files /\ List!Statement = Statement
  /\ List!Queries = Queries /\ \A args : List!IdOf(args) = IdOf(args)
  /\ \A files : List!ReadAll(files) = _combine_fields(files)
<1>1. List!Comment = Comment /\ List!Files = Files
  BY Library DEF List!Comment, List!Files, Comment, Files
<1>2. List!Statement = Statement
  BY <1>1 DEF List!Statement, Statement
<1>3. List!Queries = Queries
  BY Library DEF List!Queries, Queries
<1>4. ASSUME NEW args PROVE List!IdOf(args) = IdOf(args)
  BY Library DEF List!IdOf, IdOf
<1>5. ASSUME NEW files PROVE List!ReadAll(files) = _combine_fields(files)
  BY Library DEF List!ReadAll, _combine_fields
<1> QED BY <1>1, <1>2, <1>3, <1>4, <1>5

LEMMA ListedAre ==
  ASSUME Good(store)
  PROVE  List!Listed = Arguments(store.dict)
<1> DEFINE l == Listing(store)
<1>1. /\ l \in Seq(Statement) /\ Len(l) = Len(store.data)
      /\ \A i \in 1..Len(store.data) : /\ l[i] = store.dict[store.data[i]]
                                       /\ store.data[i] \in Used(store.dict)
  BY ListingIs
<1>2. \A f \in Used(store.dict) : \E i \in 1..Len(store.data) : store.data[i] = f
  BY SetOf DEF Good, Lists
<1> HIDE DEF l
<1>3. ToSet(l) = {store.dict[f] : f \in Used(store.dict)}
  <2>1. ASSUME NEW e \in ToSet(l) PROVE e \in {store.dict[f] : f \in Used(store.dict)}
    BY <1>1, SetOf
  <2>2. ASSUME NEW f \in Used(store.dict) PROVE store.dict[f] \in ToSet(l)
    BY <1>1, <1>2, SetOf
  <2> QED BY <2>1, <2>2
<1>4. List!Listed = {e.args : e \in ToSet(l)} \ {Comment}
  BY Names, Library DEF List!Listed, l
<1> QED BY <1>3, <1>4 DEF Arguments, Named

LEMMA InsertStep ==
  ASSUME Inv, NEW t \in Statement, NEW n \in 1..Len(store.data) + 1, ~Full,
         t.args # Comment => New(t.args), Change(add_data(store, NewDict(store), t, n))
  PROVE  Inv' /\ List!Next
<1> DEFINE f == NewDict(store)
           s == add_data(store, f, t, n)
<1>1. Good(store) /\ Len(store.data) < MaxFields /\ MaxFields \in Nat /\ Len(store.data) \in Nat
  BY NotFull, FieldAssumption DEF Inv, Full
<1>2. f \in Dicts \ Used(store.dict)
  BY <1>1, NewDictIs
<1> HIDE DEF f
<1>3. t.args # Comment => IdOf(t.args) \notin {IdOf(a) : a \in Arguments(store.dict)}
  BY <1>1, FieldsAre DEF New
<1>4. Good(s) /\ Adds(store, s, f, t, n)
  BY <1>1, <1>2, <1>3, AddGood
<1>5. Change(s) /\ store' = s /\ answer' = <<>> /\ disk' = disk
  BY DEF Change, f
<1> HIDE DEF s
<1>6. Inv'
  BY <1>4, <1>5, ChangeInv DEF Adds
<1>7. Listing(s) = InsertAt(Listing(store), n, t)
  BY <1>1, <1>2, <1>4, ListingInserted
<1>8. Len(Listing(store)) = Len(store.data)
  BY <1>1, ListingIs
<1>9. List!Insert(n, t)
  <2>1. t.args # List!Comment => List!Unused(t.args)
    BY <1>1, <1>3, Names, ListedAre DEF List!Unused
  <2>2. Listing(store') = InsertAt(Listing(store), n, t)
    BY <1>5, <1>7
  <2> QED BY <1>1, <1>5, <1>8, <2>1, <2>2, Library DEF List!Insert
<1>10. n \in 1..MaxFields /\ t \in List!Statement /\ n <= Len(Listing(store)) + 1
  BY <1>1, <1>8, Names
<1>11. List!Next
  BY <1>9, <1>10 DEF List!Next
<1> QED BY <1>6, <1>11

LEMMA DeleteStep ==
  ASSUME Inv, NEW f \in Fields, Delete(f)
  PROVE  Inv' /\ List!Next
<1> DEFINE s == remove(store, f)
<1>1. Good(store) /\ f \in Named(store.dict)
  BY FieldsAre DEF Inv
<1>2. Good(s) /\ Removes(store, s, f)
  BY <1>1, RemoveGood
<1>3. Change(s) /\ store' = s /\ answer' = <<>> /\ disk' = disk
  BY DEF Delete, Change
<1> HIDE DEF s
<1>4. Inv'
  BY <1>2, <1>3, ChangeInv DEF Removes
<1>5. Listing(store') = RemoveAt(Listing(store), IndexOf(store, f))
  BY <1>1, <1>2, <1>3, ListingRemoved
<1>6. IndexOf(store, f) \in 1..Len(Listing(store))
  BY <1>1, ListingIs, IndexOfIs
<1>7. List!Delete(IndexOf(store, f))
  BY <1>3, <1>5, Library DEF List!Delete
<1>8. List!Next
  BY <1>6, <1>7 DEF List!Next
<1> QED BY <1>4, <1>8

LEMMA SetArgsStep ==
  ASSUME Inv, NEW args \in Args, NEW f \in Fields, SetArgs(f, args)
  PROVE  Inv' /\ List!Next
<1> DEFINE s == update(store, f, args)
<1>1. Good(store) /\ f \in Named(store.dict)
  BY FieldsAre DEF Inv
<1>2. IdOf(args) \notin {IdOf(a) : a \in Arguments(store.dict)}
  BY <1>1, FieldsAre DEF SetArgs, New
<1>3. Good(s) /\ Renames(store, s, f, [args |-> args, file |-> store.dict[f].file])
  BY <1>1, <1>2, UpdateGood
<1>4. Change(s) /\ store' = s /\ answer' = <<>> /\ disk' = disk
  BY DEF SetArgs, Change
<1> HIDE DEF s
<1>5. Inv'
  BY <1>3, <1>4, ChangeInv DEF Renames
<1>6. Listing(store') = [Listing(store) EXCEPT ![IndexOf(store, f)].args = args]
  BY <1>1, <1>3, <1>4, ListingRenamed
<1>7. IndexOf(store, f) \in 1..Len(Listing(store))
  BY <1>1, ListingIs, IndexOfIs
<1>8. List!Unused(args)
  BY <1>1, <1>2, Names, ListedAre DEF List!Unused
<1>9. List!Change(IndexOf(store, f), args)
  BY <1>4, <1>6, <1>8 DEF List!Change
<1>10. List!Next
  BY <1>7, <1>9 DEF List!Next
<1> QED BY <1>5, <1>10

LEMMA ConvertStep ==
  ASSUME Inv, NEW f \in Fields, NEW n \in 1..MaxFields, ConvertToComments(f, n)
  PROVE  Inv' /\ List!Next
<1> DEFINE s == convert_to_comments(store, f, n)
           i == IndexOf(store, f)
<1>1. Good(store) /\ f \in Named(store.dict) /\ Len(store.data) + n <= MaxFields /\ n \in Nat
  BY FieldsAre, FieldAssumption DEF Inv, ConvertToComments
<1>2. /\ Good(s) /\ s.files = store.files
      /\ Listing(s) = Replace(Listing(store), i, n, [args |-> Comment, file |-> store.dict[f].file])
  BY <1>1, ConvertGood DEF CommentOf
<1>3. Change(s) /\ store' = s /\ answer' = <<>> /\ disk' = disk
  BY DEF ConvertToComments, Change
<1> HIDE DEF s
<1>4. Inv'
  BY <1>2, <1>3, ChangeInv
<1>5. i \in 1..Len(Listing(store)) /\ Listing(store)[i] = store.dict[f]
  BY <1>1, ListingIs, IndexOfIs
<1> HIDE DEF i
<1>6. Listing(store') = Replace(Listing(store), i, n, [args |-> Comment, file |-> Listing(store)[i].file])
  BY <1>2, <1>3, <1>5
<1>7. List!CommentOut(i, n)
  <2>1. Len(Listing(store)) = Len(store.data)
    BY <1>1, ListingIs
  <2> QED BY <1>1, <1>3, <1>6, <2>1, Names DEF List!CommentOut, Replace
<1>8. List!Next
  BY <1>5, <1>7 DEF List!Next
<1> QED BY <1>4, <1>8

LEMMA SearchFinds ==
  ASSUME Good(store), NEW q \in Queries
  PROVE  /\ ArgsOf(get_all(store, q)) = {a \in Arguments(store.dict) : IsPrefix(q, a)}
         /\ ArgsOf(get(store, IdOf(q))) = {a \in Arguments(store.dict) : IdOf(a) = IdOf(q)}
<1> DEFINE A == Arguments(store.dict)
           v == Owner(store.dict)
           tree == store.tree
           idmap == store.idmap
           dict == store.dict
<1>1. /\ A \subseteq Args /\ Holds(tree, A, v) /\ Maps(idmap, A, v)
      /\ \A a \in A : v[a] # None /\ dict[v[a]].args = a
  BY OwnerIs DEF Good
<1>2. q \in Paths /\ q # <<>> /\ q[1] # Comment[1] /\ IdOf(q) # IdOf(Comment)
  BY ArgsPaths
<1>3. ~IsPrefix(q, Comment)
  BY <1>2, ArgsPaths, PrefixOrder DEF Paths
<1>4. A \subseteq DOMAIN tree \ {Comment}
  BY <1>1, BranchPaths DEF Holds
<1> HIDE DEF A, v, tree, idmap, dict
<1>5. {tree[p] : p \in {p \in DOMAIN tree : IsPrefix(q, p)}} \ {None} = {v[a] : a \in {a \in A : IsPrefix(q, a)}}
  <2> DEFINE found == {tree[p] : p \in {p \in DOMAIN tree : IsPrefix(q, p)}} \ {None}
             wanted == {v[a] : a \in {a \in A : IsPrefix(q, a)}}
  <2>1. ASSUME NEW f \in found PROVE f \in wanted
    <3>1. PICK p \in DOMAIN tree : IsPrefix(q, p) /\ f = tree[p] /\ f # None
      OBVIOUS
    <3>2. p \in DOMAIN tree \ {Comment}
      BY <1>3, <3>1
    <3>3. p \in A /\ f = v[p]
      BY <1>1, <3>1, <3>2 DEF Holds
    <3> QED BY <3>1, <3>3
  <2>2. ASSUME NEW a \in A, IsPrefix(q, a) PROVE v[a] \in found
    <3>1. a \in DOMAIN tree /\ tree[a] = v[a] /\ v[a] # None
      BY <1>1, <1>4 DEF Holds
    <3> QED BY <2>2, <3>1
  <2> QED BY <2>1, <2>2
<1>6. {dict[f].args : f \in {v[a] : a \in {a \in A : IsPrefix(q, a)}}} = {a \in A : IsPrefix(q, a)}
  BY <1>1
<1>7. ArgsOf(get_all(store, q)) = {a \in A : IsPrefix(q, a)}
  BY <1>5, <1>6 DEF ArgsOf, get_all, tree, dict
<1>8. ArgsOf(get(store, IdOf(q))) = {a \in A : IdOf(a) = IdOf(q)}
  <2>1. CASE IdOf(q) \in DOMAIN idmap
    <3>1. PICK a \in A : IdOf(a) = IdOf(q)
      BY <1>1, <1>2, <2>1 DEF Maps
    <3>2. idmap[IdOf(q)] = v[a] /\ dict[v[a]].args = a
      BY <1>1, <3>1 DEF Maps
    <3>3. ArgsOf(get(store, IdOf(q))) = {a}
      BY <2>1, <3>2 DEF ArgsOf, get, idmap, dict
    <3>4. ASSUME NEW b \in A, IdOf(b) = IdOf(q) PROVE b = a
      <4>1. \A x, y \in A : IdOf(x) = IdOf(y) => x = y
        BY IdsDistinct DEF Good, A
      <4> QED BY <3>1, <3>4, <4>1
    <3> QED BY <3>1, <3>3, <3>4
  <2>2. CASE IdOf(q) \notin DOMAIN idmap
    <3>1. ArgsOf(get(store, IdOf(q))) = {}
      BY <2>2 DEF ArgsOf, get, idmap
    <3>2. \A a \in A : IdOf(a) # IdOf(q)
      BY <1>1, <2>2 DEF Maps
    <3> QED BY <3>1, <3>2
  <2> QED BY <2>1, <2>2
<1> QED BY <1>7, <1>8 DEF A

LEMMA SearchStep ==
  ASSUME Inv, Search
  PROVE  Inv' /\ List!Next
<1>1. Good(store) /\ store' = store /\ disk' = disk /\ present' = present
  BY DEF Inv, Search
<1>2. Inv'
  BY <1>1 DEF Inv, Good, Shaped, Distinct, Lists, Holds, Maps, Written, OfFile
<1>3. List!Listed = Arguments(store.dict) /\ List!Queries = Queries
  BY <1>1, ListedAre, Names
<1>4. answer' = [q \in Queries |-> [all |-> {a \in Arguments(store.dict) : IsPrefix(q, a)},
                                    one |-> {a \in Arguments(store.dict) : IdOf(a) = IdOf(q)}]]
  BY <1>1, SearchFinds DEF Search
<1>5. List!Search
  <2>1. \A q \in Queries : /\ {a \in List!Listed : List!IsPrefix(q, a)} = {a \in Arguments(store.dict) : IsPrefix(q, a)}
                           /\ {a \in List!Listed : List!IdOf(a) = List!IdOf(q)} = {a \in Arguments(store.dict) : IdOf(a) = IdOf(q)}
    BY <1>3, Library, Names
  <2>2. Listing(store)' = Listing(store)
    BY <1>1
  <2> QED BY <1>1, <1>3, <1>4, <2>1, <2>2 DEF List!Search
<1> QED BY <1>2, <1>5 DEF List!Next

LEMMA ReadStep ==
  ASSUME Inv, Read
  PROVE  Inv' /\ List!Next
<1> DEFINE s == from_dir(disk, present)
<1>1. Written(disk) /\ Readable(disk)
  BY DEF Inv, Read
<1>2. Good(s) /\ s.files = present
  BY <1>1, FromDirGood
<1>3. store' = s /\ answer' = <<>> /\ disk' = disk /\ present' = present
  BY DEF Read, Change
<1>4. Listing(s) = _combine_fields(disk)
  BY <1>1, ListingRead
<1> HIDE DEF s
<1>5. Inv'
  BY <1>1, <1>2, <1>3 DEF Inv, Good, Shaped, Distinct, Lists, Holds, Maps, Written, OfFile
<1>6. Listing(store') = List!ReadAll(disk)
  BY <1>3, <1>4, Names
<1>7. List!Load
  BY <1>3, <1>6 DEF List!Load
<1> QED BY <1>5, <1>7 DEF List!Next

\* The statement of a file in the list of FieldList.
LEMMA OfIs ==
  ASSUME Good(store), NEW file
  PROVE  List!Of(file) = FlattenSeq(Mine(store, file))
<1> DEFINE l == Listing(store)
           mine == [i \in 1..Len(l) |-> IF l[i].file = file THEN <<l[i]>> ELSE <<>>]
<1>1. Len(l) = Len(store.data) /\ \A i \in 1..Len(store.data) : l[i] = store.dict[store.data[i]]
  BY ListingIs
<1>2. List!Of(file) = FlattenSeq(mine)
  BY Library DEF List!Of
<1> HIDE DEF l
<1>3. mine = Mine(store, file)
  BY <1>1 DEF Mine
<1> QED BY <1>2, <1>3

LEMMA BuildStep ==
  ASSUME Inv, NEW files \in SUBSET Files, Build(files)
  PROVE  Inv' /\ (NamedFound => List!Next)
<1>1. /\ Good(store) /\ Written(disk) /\ present \subseteq store.files
      /\ \A file \in Files : disk[file] # <<>> => file \in present
      /\ NamedFound => NamedFile \subseteq present
  BY DEF Inv
<1>2. /\ disk' = build(store, files) /\ answer' = <<>>
      /\ present' = present \cup ToWrite(store, files)
      /\ store' = [store EXCEPT !.files = Known(store)]
  BY DEF Build
<1>3. store' = [dict |-> store.dict, data |-> store.data, tree |-> store.tree,
                idmap |-> store.idmap, files |-> Known(store), raised |-> store.raised]
  BY <1>1, <1>2 DEF Good, Shaped
<1>4. Good(store')
  BY <1>1, <1>3 DEF Good, Shaped
<1>5. Written(build(store, files))
  BY <1>1, BuildWritten
<1>6. /\ \A file \in Files : disk'[file] # <<>> => file \in present'
      /\ present' \subseteq store'.files
  BY <1>1, <1>2, <1>3 DEF build, ToWrite, Known
<1>7. Inv'
  <2>1. Written(disk')
    BY <1>2, <1>5
  <2>2. NamedFound => NamedFile \subseteq present'
    BY <1>1, <1>2
  <2> QED BY <1>4, <1>6, <2>1, <2>2 DEF Inv, Good, Shaped, Distinct, Lists, Holds, Maps, Written, OfFile, NamedFound
<1>8. ASSUME NamedFound PROVE List!Next
  <2>1. ASSUME NEW file \in Files
        PROVE  build(store, files)[file] = IF files = {} \/ file \in files THEN List!Of(file) ELSE disk[file]
    <3>1. CASE file \in Known(store)
      BY <1>1, <3>1, RebuildIs, OfIs DEF build, ToWrite
    <3>2. CASE file \notin Known(store)
      <4>1. disk[file] = <<>>
        BY <1>1, <3>2 DEF Known
      <4>2. \A i \in 1..Len(store.data) : store.dict[store.data[i]].file # file
        <5>1. \A i \in 1..Len(store.data) : store.data[i] \in ToSet(store.data)
          BY <1>1, ListingIs, SetOf
        <5>2. file \notin NamedFile
          BY <1>1, <1>8, <3>2 DEF Known
        <5> QED BY <3>2, <5>1, <5>2 DEF Known
      <4>3. List!Of(file) = <<>>
        BY <1>1, <4>2, OfIs, MineIs
      <4> QED BY <3>2, <4>1, <4>3 DEF build, ToWrite
    <3> QED BY <3>1, <3>2
  <2>2. disk' = [file \in Files |-> IF files = {} \/ file \in files THEN List!Of(file) ELSE disk[file]]
    <3>1. build(store, files) = [file \in Files |-> build(store, files)[file]]
      BY DEF build
    <3> QED BY <1>2, <2>1, <3>1
  <2>3. Listing(store') = Listing(store)
    BY <1>3 DEF Listing
  <2>4. List!Save(files)
    BY <1>2, <2>2, <2>3, Names DEF List!Save
  <2> QED BY <2>4, Names DEF List!Next
<1> QED BY <1>7, <1>8

LEMMA NextStep ==
  ASSUME Inv, Next
  PROVE  Inv' /\ (NamedFound => List!Next)
<1>1. Good(store) /\ Len(store.data) \in Nat /\ Fields = Named(store.dict)
  BY ListingIs, FieldsAre DEF Inv
<1>2. \A f \in Fields : /\ store.dict[f].file \in Files
                        /\ IndexOf(store, f) \in 1..Len(store.data) + 1
                        /\ IndexOf(store, f) + 1 \in 1..Len(store.data) + 1
  <2>1. ASSUME NEW f \in Named(store.dict) PROVE IndexOf(store, f) \in 1..Len(store.data)
    BY <1>1, IndexOfIs
  <2>2. ASSUME NEW f \in Named(store.dict) PROVE store.dict[f].file \in Files
    BY <1>1, OwnerIs DEF Good, Statement
  <2> QED BY <1>1, <2>1, <2>2
<1>3. ASSUME NEW args \in Args, NEW file \in Files, NEW index \in 1..Len(store.data) + 1,
             Add(args, file, index)
      PROVE  Inv' /\ List!Next
  <2> DEFINE t == [args |-> args, file |-> file]
  <2>1. t \in Statement /\ (t.args # Comment => New(t.args)) /\ ~Full
    BY <1>3 DEF Add, Statement
  <2>2. Change(add_data(store, NewDict(store), t, index))
    BY <1>3 DEF Add
  <2> HIDE DEF t
  <2> QED BY <2>1, <2>2, InsertStep
<1>4. ASSUME NEW args \in Args, NEW f \in Fields, InsertBefore(f, args)
      PROVE  Inv' /\ List!Next
  <2> DEFINE t == [args |-> args, file |-> store.dict[f].file]
             n == IndexOf(store, f)
  <2>1. t \in Statement /\ (t.args # Comment => New(t.args)) /\ ~Full /\ n \in 1..Len(store.data) + 1
    BY <1>2, <1>4 DEF InsertBefore, Statement
  <2>2. Change(add_data(store, NewDict(store), t, n))
    BY <1>4 DEF InsertBefore, insert_before
  <2> HIDE DEF t, n
  <2> QED BY <2>1, <2>2, InsertStep
<1>5. ASSUME NEW args \in Args, NEW f \in Fields, InsertAfter(f, args)
      PROVE  Inv' /\ List!Next
  <2> DEFINE t == [args |-> args, file |-> store.dict[f].file]
             n == IndexOf(store, f) + 1
  <2>1. t \in Statement /\ (t.args # Comment => New(t.args)) /\ ~Full /\ n \in 1..Len(store.data) + 1
    BY <1>2, <1>5 DEF InsertAfter, Statement
  <2>2. Change(add_data(store, NewDict(store), t, n))
    BY <1>5 DEF InsertAfter, insert_after
  <2> HIDE DEF t, n
  <2> QED BY <2>1, <2>2, InsertStep
<1>6. ASSUME NEW f \in Fields, InsertComment(f)
      PROVE  Inv' /\ List!Next
  <2> DEFINE t == [args |-> Comment, file |-> store.dict[f].file]
             n == IndexOf(store, f)
  <2>1. t \in Statement /\ (t.args # Comment => New(t.args)) /\ ~Full /\ n \in 1..Len(store.data) + 1
    BY <1>2, <1>6 DEF InsertComment, Statement
  <2>2. Change(add_data(store, NewDict(store), t, n))
    BY <1>6 DEF InsertComment, insert_before
  <2> HIDE DEF t, n
  <2> QED BY <2>1, <2>2, InsertStep
<1> QED BY <1>3, <1>4, <1>5, <1>6, DeleteStep, SetArgsStep, ConvertStep, BuildStep, SearchStep, ReadStep DEF Next
-----------------------------------------------------------------------------
(* What the theorems say of every configuration and of every change of it.    *)

(* The collection stays good: the lookups hold the fields of the list and     *)
(* nothing else, and the files on disk are ones the configuration knows.      *)
LEMMA InvHolds == Spec => []Inv
<1>1. ASSUME Inv, UNCHANGED vars PROVE Inv'
  BY <1>1 DEF vars, NamedFound, Inv, Good, Shaped, Distinct, Lists, Holds, Maps, Written, OfFile
<1>2. Inv /\ [Next]_vars => Inv'
  BY <1>1, NextStep
<1> QED BY <1>2, InitInv, PTL DEF Spec

(* No lookup of FastFieldCollection that a change has to bring up to date is  *)
(* missing: remove() and update() never raise a KeyError halfway, whatever    *)
(* fields were added, deleted, renamed, commented out or read again before.   *)
THEOREM LookupsPresent == Spec => []NeverRaises
<1>1. Inv => NeverRaises
  BY DEF Inv, Good, NeverRaises, Ready
<1> QED BY <1>1, InvHolds, PTL

(* The tree and the map of FastFieldCollection agree with its list: they have *)
(* a path and an id for every field and for nothing else, which lead to that  *)
(* field; comments aside, that share one path and one id.                     *)
THEOREM LookupsExact == Spec => []IndexExact
<1>1. ASSUME Inv PROVE IndexExact
  <2> DEFINE A == Arguments(store.dict)
             v == Owner(store.dict)
             tree == Without(store.tree, {Comment})
             idmap == Without(store.idmap, {IdOf(Comment)})
  <2>1. Good(store) /\ Fields = Named(store.dict) /\ ArgsOf(Fields) = A
    BY <1>1, FieldsAre DEF Inv
  <2>2. /\ A \subseteq Args /\ Holds(store.tree, A, v) /\ Maps(store.idmap, A, v)
        /\ \A f \in Named(store.dict) : store.dict[f].args \in A /\ v[store.dict[f].args] = f
    BY <2>1, OwnerIs DEF Good
  <2>3. \A a \in A : v[a] = CHOOSE f \in Fields : store.dict[f].args = a
    BY <2>1 DEF Owner
  <2>4. \A a \in A : IdOf(a) # IdOf(Comment)
    BY <2>2, ArgsPaths
  <2> HIDE DEF A, v
  <2>5. /\ DOMAIN tree = {<<>>} \cup UNION {Prefixes(a) : a \in A}
        /\ \A p \in DOMAIN tree : tree[p] = IF p \in A THEN v[p] ELSE None
    BY <2>2 DEF Holds, Branches, Without, Restrict
  <2>6. /\ DOMAIN idmap = {IdOf(a) : a \in A}
        /\ \A a \in A : idmap[IdOf(a)] = v[a]
    BY <2>2, <2>4 DEF Maps, Without, Restrict
  <2> HIDE DEF tree, idmap
  <2>7. \A p \in DOMAIN tree :
          tree[p] = IF p \in ArgsOf(Fields) THEN CHOOSE f \in Fields : store.dict[f].args = p ELSE None
    BY <2>1, <2>3, <2>5
  <2>8. \A f \in Fields : idmap[IdOf(store.dict[f].args)] = f
    BY <2>1, <2>2, <2>6
  <2> QED BY <2>1, <2>5, <2>6, <2>7, <2>8 DEF IndexExact, tree, idmap
<1> QED BY <1>1, InvHolds, PTL

(* The collection is the list of statements FieldList describes: searches     *)
(* find what is in the list, insertions, deletions, renamings and comments    *)
(* take their place in it, build() writes to each file its statements in      *)
(* order.  It is so when the files with "file" in their names, as             *)
(* profile_base.conf, are among those that were found, with statements or     *)
(* without: of one that was not, build() loses the statements added to it.    *)
THEOREM ListImplemented ==
  ASSUME NamedFound
  PROVE  Spec => ImplementsList
<1>1. ASSUME Init PROVE List!Init
  <2>1. Inv /\ Written(disk) /\ Readable(disk) /\ store = from_dir(disk, present) /\ answer = <<>>
    BY <1>1, InitInv, FieldAssumption DEF Init, Inv
  <2>2. disk \in [Files -> Seq(Statement)]
    BY <1>1, FieldAssumption DEF Init
  <2>3. Listing(store) = List!ReadAll(disk)
    BY <2>1, ListingRead, Names
  <2> QED BY <2>1, <2>2, <2>3, Names DEF List!Init
<1>2. ASSUME Inv, [Next]_vars PROVE [List!Next]_(List!vars)
  <2>1. CASE Next
    BY <1>2, <2>1, NextStep
  <2>2. CASE UNCHANGED vars
    BY <2>2 DEF vars, List!vars
  <2> QED BY <1>2, <2>1, <2>2
<1> QED BY <1>1, <1>2, InvHolds, PTL DEF Spec, ImplementsList, List!Spec
===============================================================================
