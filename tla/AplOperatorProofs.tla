------------------------- MODULE AplOperatorProofs -------------------------
(***************************************************************************)
(* What holds of the running operator for every number of commits, writes  *)
(* and faults: the types of its variables, the mutual exclusion of apply   *)
(* runs, that no push loses a user's commit, that the cluster is never     *)
(* taken back, that a teams-only run leaves no platform change behind, and *)
(* that the operator implements PlatformDelivery.                          *)
(*                                                                         *)
(* The module begins with facts about histories: what the git operations   *)
(* of GitHistory return, and which commits a history or a difference       *)
(* holds.                                                                  *)
(***************************************************************************)
EXTENDS AplOperator, TLAPS, FiniteSetTheorems, SequenceTheorems

\* The commits a user, the operator and the installation make are commits.
LEMMA CommitTypes ==
    /\ InstallCommit \in Commits
    /\ \A scope \in Scopes : OperatorCommit(scope) \in Commits
    /\ \A id \in Nat, scope \in Scopes, skip \in BOOLEAN :
         UserCommit(id, scope, skip) \in Commits
  BY DEF Commits, InstallCommit, OperatorCommit, UserCommit, Scopes

\* The empty history and a first commit are histories.
LEMMA SmallHistories ==
    /\ <<>> \in Histories
    /\ \A c \in Commits : <<c>> \in Histories
  BY DEF Histories

\* Two histories share at most all of the first.
LEMMA SharedLengthType ==
    ASSUME NEW a \in Histories, NEW b \in Histories
    PROVE  SharedLength(a, b) \in 0..Len(a)
<1> DEFINE S == {n \in 1..Len(a) : n <= Len(b) /\ SubSeq(a, 1, n) = SubSeq(b, 1, n)}
<1>1. Len(a) \in Nat
  BY LenProperties DEF Histories
<1>2. IsFiniteSet(1..Len(a)) /\ Cardinality(1..Len(a)) = Len(a)
  <2>1. 1 \in Int /\ Len(a) \in Int
    BY <1>1
  <2>2. /\ IsFiniteSet(1..Len(a))
        /\ Cardinality(1..Len(a)) = IF 1 > Len(a) THEN 0 ELSE Len(a) - 1 + 1
    BY <2>1, FS_Interval, Zenon
  <2>3. QED
    BY <1>1, <2>2
<1>3. S \in SUBSET (1..Len(a))
  OBVIOUS
<1>4. IsFiniteSet(S) /\ Cardinality(S) <= Len(a)
  BY <1>2, <1>3, FS_Subset
<1>5. Cardinality(S) \in Nat
  BY <1>4, FS_CardinalityType
<1>6. QED
  BY <1>1, <1>4, <1>5 DEF SharedLength

\* A part of a history is a history.
LEMMA SubHistory ==
    ASSUME NEW h \in Histories, NEW m \in Nat \ {0}, NEW n \in 0..Len(h)
    PROVE  /\ SubSeq(h, m, n) \in Histories
           /\ Len(SubSeq(h, m, n)) = IF m <= n THEN n - m + 1 ELSE 0
           /\ \A i \in 1..(n - m + 1) : SubSeq(h, m, n)[i] = h[m + i - 1]
<1>1. Len(h) \in Nat
  BY LenProperties DEF Histories
<1>2. \A i \in m..n : h[i] \in Commits
  BY <1>1, ElementOfSeq DEF Histories
<1>3. m \in Int /\ n \in Int
  BY <1>1
<1>4. QED
  BY <1>2, <1>3, SubSeqProperties DEF Histories

\* What a history is ahead by is a history, and so is the result of a rebase.
LEMMA RebaseType ==
    ASSUME NEW a \in Histories, NEW b \in Histories
    PROVE  /\ Ahead(a, b) \in Histories
           /\ RebaseOnto(a, b) \in Histories
<1>1. SharedLength(a, b) \in 0..Len(a) /\ Len(a) \in Nat
  BY SharedLengthType, LenProperties DEF Histories
<1>2. Ahead(a, b) \in Histories
  BY <1>1, SubHistory DEF Ahead
<1>3. QED
  BY <1>2, ConcatProperties DEF RebaseOnto, Histories

\* The number of commits in a history that users made is a natural number.
LEMMA WorkCount ==
    ASSUME NEW h \in Histories
    PROVE  Cardinality(Work(h)) \in Nat
<1>1. Len(h) \in Nat /\ DOMAIN h = 1..Len(h)
  BY LenProperties DEF Histories
<1> DEFINE Numbered == {<<i, h[i]>> : i \in DOMAIN h}
<1>2. IsFiniteSet(1..Len(h))
  <2>1. 1 \in Int /\ Len(h) \in Int
    BY <1>1
  <2>2. QED
    BY <2>1, FS_Interval, Zenon
<1>3. h \in Surjection(DOMAIN h, ToSet(h))
  <2>1. h \in [DOMAIN h -> ToSet(h)]
    BY <1>1, LenProperties DEF ToSet, Histories
  <2>2. QED
    BY <2>1 DEF Surjection, ToSet
<1>4. IsFiniteSet(ToSet(h))
  BY <1>1, <1>2, <1>3, FS_Surjection
<1>5. Work(h) \in SUBSET ToSet(h)
  BY DEF Work
<1>6. IsFiniteSet(Work(h))
  BY <1>4, <1>5, FS_Subset
<1>7. QED
  BY <1>6, FS_CardinalityType

\* Two histories share the first commits up to where they agree.
LEMMA SharedUpTo ==
    ASSUME NEW a \in Histories, NEW b \in Histories, NEW i \in 1..Len(a)
    PROVE  i <= SharedLength(a, b) <=> i \in DOMAIN b /\ \A j \in 1..i : a[j] = b[j]
<1> DEFINE S == {n \in 1..Len(a) : n <= Len(b) /\ SubSeq(a, 1, n) = SubSeq(b, 1, n)}
           k == SharedLength(a, b)
<1>1. /\ Len(a) \in Nat /\ Len(b) \in Nat
      /\ DOMAIN a = 1..Len(a) /\ DOMAIN b = 1..Len(b)
      /\ k \in 0..Len(a) /\ k = Cardinality(S)
  BY LenProperties, SharedLengthType DEF Histories, SharedLength
<1>2. IsFiniteSet(S)
  <2>1. 1 \in Int /\ Len(a) \in Int
    BY <1>1
  <2>2. IsFiniteSet(1..Len(a))
    BY <2>1, FS_Interval, Zenon
  <2>3. QED
    BY <2>2, FS_Subset
<1>3. ASSUME NEW n \in 1..Len(a), n <= Len(b)
      PROVE  n \in S <=> \A j \in 1..n : a[j] = b[j]
  <2>1. n \in 0..Len(a) /\ n \in 0..Len(b) /\ 1 \in Nat \ {0} /\ n - 1 + 1 = n
    BY <1>1, <1>3
  <2>2. /\ SubSeq(a, 1, n) \in Histories /\ Len(SubSeq(a, 1, n)) = n
        /\ \A j \in 1..n : SubSeq(a, 1, n)[j] = a[j]
    <3>1. \A j \in 1..n : 1 + j - 1 = j
      BY <1>1
    <3>2. QED
      BY <2>1, <3>1, SubHistory
  <2>3. /\ SubSeq(b, 1, n) \in Histories /\ Len(SubSeq(b, 1, n)) = n
        /\ \A j \in 1..n : SubSeq(b, 1, n)[j] = b[j]
    <3>1. \A j \in 1..n : 1 + j - 1 = j
      BY <1>1
    <3>2. QED
      BY <2>1, <3>1, SubHistory
  <2>4. SubSeq(a, 1, n) = SubSeq(b, 1, n) <=> \A j \in 1..n : a[j] = b[j]
    <3>1. /\ SubSeq(a, 1, n) = [j \in 1..n |-> SubSeq(a, 1, n)[j]]
          /\ SubSeq(b, 1, n) = [j \in 1..n |-> SubSeq(b, 1, n)[j]]
      BY <2>2, <2>3, LenProperties DEF Histories
    <3>2. QED
      BY <2>2, <2>3, <3>1
  <2>5. QED
    BY <1>3, <2>4
<1>4. ASSUME NEW n \in Nat
      PROVE  IsFiniteSet(1..n) /\ Cardinality(1..n) = n
  <2>1. 1 \in Int /\ n \in Int
    OBVIOUS
  <2>2. /\ IsFiniteSet(1..n)
        /\ Cardinality(1..n) = IF 1 > n THEN 0 ELSE n - 1 + 1
    BY <2>1, FS_Interval, Zenon
  <2>3. QED
    BY <2>2
<1>5. ASSUME i \in S
      PROVE  i <= k
  <2>1. i <= Len(b)
    BY <1>5
  <2>2. \A j \in 1..i : a[j] = b[j]
    BY <1>3, <1>5, <2>1
  <2>3. ASSUME NEW n \in 1..i
        PROVE  n \in S
    <3>1. n \in 1..Len(a) /\ n <= Len(b) /\ 1..n \subseteq 1..i
      BY <1>1, <2>1
    <3>2. QED
      BY <1>3, <2>2, <3>1
  <2>4. 1..i \in SUBSET S
    BY <2>3
  <2>5. Cardinality(1..i) <= Cardinality(S)
    BY <1>2, <2>4, FS_Subset
  <2>6. QED
    BY <1>1, <1>4, <2>5
<1>6. ASSUME i \notin S
      PROVE  k < i
  <2>1. ASSUME NEW n \in S
        PROVE  n \in 1..(i - 1)
    <3>1. CASE i <= n
      <4>1. i <= Len(b) /\ 1..i \subseteq 1..n
        BY <1>1, <3>1
      <4>2. \A j \in 1..n : a[j] = b[j]
        BY <1>3
      <4>3. i \in S
        BY <1>3, <4>1, <4>2
      <4>4. QED
        BY <1>6, <4>3
    <3>2. QED
      BY <1>1, <3>1
  <2>2. S \in SUBSET (1..(i - 1)) /\ i - 1 \in Nat
    BY <2>1
  <2>3. Cardinality(S) <= i - 1
    BY <1>4, <2>2, FS_Subset
  <2>4. QED
    BY <1>1, <2>3
<1>7. i \in S <=> i \in DOMAIN b /\ \A j \in 1..i : a[j] = b[j]
  <2>1. CASE i <= Len(b)
    BY <1>1, <1>3, <2>1
  <2>2. QED
    BY <1>1, <2>1
<1>8. QED
  BY <1>1, <1>5, <1>6, <1>7

\* The commits a is ahead of b by are those after the shared ones.
LEMMA AheadElements ==
    ASSUME NEW a \in Histories, NEW b \in Histories
    PROVE  /\ Len(Ahead(a, b)) = Len(a) - SharedLength(a, b)
           /\ DOMAIN Ahead(a, b) = 1..(Len(a) - SharedLength(a, b))
           /\ \A j \in DOMAIN Ahead(a, b) : Ahead(a, b)[j] = a[SharedLength(a, b) + j]
           /\ ToSet(Ahead(a, b)) = {a[i] : i \in (SharedLength(a, b) + 1)..Len(a)}
<1> DEFINE k == SharedLength(a, b)
<1>1. k \in 0..Len(a) /\ Len(a) \in Nat /\ k + 1 \in Nat \ {0} /\ Len(a) \in 0..Len(a)
  BY SharedLengthType, LenProperties DEF Histories
<1>2. /\ Len(Ahead(a, b)) = IF k + 1 <= Len(a) THEN Len(a) - (k + 1) + 1 ELSE 0
      /\ \A j \in 1..(Len(a) - (k + 1) + 1) : Ahead(a, b)[j] = a[k + 1 + j - 1]
  BY <1>1, SubHistory DEF Ahead
<1>3. Len(Ahead(a, b)) = Len(a) - k
  BY <1>1, <1>2
<1>4. DOMAIN Ahead(a, b) = 1..(Len(a) - k)
  BY <1>3, RebaseType, LenProperties DEF Histories
<1>5. ASSUME NEW j \in 1..(Len(a) - k)
      PROVE  Ahead(a, b)[j] = a[k + j] /\ k + j \in (k + 1)..Len(a)
  <2>1. j \in 1..(Len(a) - (k + 1) + 1) /\ k + 1 + j - 1 = k + j
    BY <1>1
  <2>2. Ahead(a, b)[j] = a[k + 1 + j - 1]
    BY <1>2, <2>1
  <2>3. k + j \in (k + 1)..Len(a)
    BY <1>1
  <2>4. QED
    BY <2>1, <2>2, <2>3
<1>6. ASSUME NEW i \in (k + 1)..Len(a)
      PROVE  i - k \in 1..(Len(a) - k) /\ Ahead(a, b)[i - k] = a[i]
  <2>1. i - k \in 1..(Len(a) - k) /\ k + (i - k) = i
    BY <1>1
  <2>2. QED
    BY <1>5, <2>1
<1>7. QED
  BY <1>3, <1>4, <1>5, <1>6 DEF ToSet

\* A commit a does not have in common with b is one it is ahead by.
LEMMA NewCommitsAreAhead ==
    ASSUME NEW a \in Histories, NEW b \in Histories
    PROVE  ToSet(a) \ ToSet(b) \subseteq ToSet(Ahead(a, b))
<1>1. DOMAIN a = 1..Len(a) /\ Len(a) \in Nat /\ SharedLength(a, b) \in 0..Len(a)
  BY LenProperties, SharedLengthType DEF Histories
<1>2. SUFFICES ASSUME NEW i \in 1..Len(a), a[i] \notin ToSet(b)
               PROVE  a[i] \in ToSet(Ahead(a, b))
  BY <1>1 DEF ToSet
<1>3. ~(i <= SharedLength(a, b))
  BY <1>2, SharedUpTo DEF ToSet
<1>4. i \in (SharedLength(a, b) + 1)..Len(a)
  BY <1>1, <1>3
<1>5. QED
  BY <1>4, AheadElements

\* When only the teams' files differ, the newer history brings no platform work.
LEMMA TeamsOnlyKeepsPlatform ==
    ASSUME NEW a \in Histories, NEW b \in Histories, ChangedScopes(a, b) = {"teams"}
    PROVE  PlatformWork(b) \subseteq PlatformWork(a)
<1>1. SUFFICES ASSUME NEW c \in PlatformWork(b), c \notin PlatformWork(a)
               PROVE  FALSE
  OBVIOUS
<1>2. /\ c \in ToSet(b) /\ c \notin ToSet(a)
      /\ c.scope = "platform"
  BY <1>1 DEF PlatformWork, Work
<1>3. c \in ToSet(Ahead(b, a))
  BY <1>2, NewCommitsAreAhead
<1>4. ToSet(Ahead(a, b)) \subseteq ToSet(a)
  <2>1. SharedLength(a, b) \in 0..Len(a) /\ Len(a) \in Nat /\ DOMAIN a = 1..Len(a)
    BY SharedLengthType, LenProperties DEF Histories
  <2>2. (SharedLength(a, b) + 1)..Len(a) \subseteq DOMAIN a
    BY <2>1
  <2>3. ASSUME NEW d \in ToSet(Ahead(a, b))
        PROVE  d \in ToSet(a)
    <3>1. \E i \in (SharedLength(a, b) + 1)..Len(a) : d = a[i]
      BY <2>3, AheadElements
    <3>2. QED
      BY <2>2, <3>1 DEF ToSet
  <2>4. QED
    BY <2>3
<1>5. "platform" \in ChangedScopes(a, b)
  BY <1>2, <1>3, <1>4 DEF ChangedScopes
<1>6. QED
  BY <1>5

-----------------------------------------------------------------------------
(* When the work in one history is kept in another: every commit of g that *)
(* a person made stands in h too, after the same commits.  It is what       *)
(* commits, rebases, pushes and resets leave true between the clone, the   *)
(* branch and the cluster, and it implies that h has all the work of g.    *)

KeptIn(g, h) ==
    \A i \in DOMAIN g :
        g[i].author # "operator" => i \in DOMAIN h /\ \A j \in 1..i : g[j] = h[j]

\* The work that is kept is there.
LEMMA KeptWork ==
    ASSUME NEW g \in Histories, NEW h \in Histories, KeptIn(g, h)
    PROVE  Work(g) \subseteq Work(h)
<1>1. DOMAIN g = 1..Len(g) /\ Len(g) \in Nat
  BY LenProperties DEF Histories
<1>2. \A i \in DOMAIN g : i \in 1..i
  BY <1>1
<1>3. QED
  BY <1>2 DEF KeptIn, Work, ToSet

\* Everything is kept in itself, and nothing is kept anywhere.
LEMMA KeptSelf ==
    ASSUME NEW h \in Histories
    PROVE  KeptIn(h, h) /\ KeptIn(<<>>, h)
  BY DEF KeptIn, Histories

\* What is kept in what is kept is kept.
LEMMA KeptTrans ==
    ASSUME NEW a \in Histories, NEW b \in Histories, NEW c \in Histories,
           KeptIn(a, b), KeptIn(b, c)
    PROVE  KeptIn(a, c)
<1>1. DOMAIN a = 1..Len(a) /\ Len(a) \in Nat
  BY LenProperties DEF Histories
<1>2. SUFFICES ASSUME NEW i \in DOMAIN a, a[i].author # "operator"
               PROVE  i \in DOMAIN c /\ \A j \in 1..i : a[j] = c[j]
  BY DEF KeptIn
<1>3. i \in DOMAIN b /\ \A j \in 1..i : a[j] = b[j]
  BY <1>2 DEF KeptIn
<1>4. b[i].author # "operator"
  BY <1>1, <1>2, <1>3
<1>5. i \in DOMAIN c /\ \A j \in 1..i : b[j] = c[j]
  BY <1>3, <1>4 DEF KeptIn
<1>6. QED
  BY <1>3, <1>5

\* A fast-forward keeps everything.
LEMMA PrefixKept ==
    ASSUME NEW a \in Histories, NEW b \in Histories, IsPrefix(a, b)
    PROVE  KeptIn(a, b)
<1>1. /\ Len(a) \in Nat /\ Len(b) \in Nat
      /\ DOMAIN a = 1..Len(a) /\ DOMAIN b = 1..Len(b)
  BY LenProperties DEF Histories
<1>2. Len(a) <= Len(b) /\ SubSeq(a, 1, Len(a)) = SubSeq(b, 1, Len(a))
  BY DEF IsPrefix
<1>3. ASSUME NEW i \in 1..Len(a)
      PROVE  a[i] = b[i]
  <2>1. SubSeq(a, 1, Len(a))[i] = a[i]
    BY <1>1, SubHistory
  <2>2. SubSeq(b, 1, Len(a))[i] = b[i]
    BY <1>1, <1>2, SubHistory
  <2>3. QED
    BY <1>2, <2>1, <2>2
<1>4. \A i \in DOMAIN a : i \in DOMAIN b /\ 1..i \subseteq 1..Len(a)
  BY <1>1, <1>2
<1>5. QED
  BY <1>3, <1>4 DEF KeptIn

\* A new commit keeps what was there, and one of the operator adds nothing to keep.
LEMMA AppendKept ==
    ASSUME NEW h \in Histories, NEW c \in Commits
    PROVE  /\ Append(h, c) \in Histories
           /\ KeptIn(h, Append(h, c))
           /\ \A g \in Histories :
                c.author = "operator" /\ KeptIn(h, g) => KeptIn(Append(h, c), g)
<1>1. /\ Append(h, c) \in Seq(Commits)
      /\ Len(Append(h, c)) = Len(h) + 1
      /\ \A i \in 1..Len(h) : Append(h, c)[i] = h[i]
      /\ Append(h, c)[Len(h) + 1] = c
      /\ Len(h) \in Nat
  BY DEF Histories
<1>2. DOMAIN h = 1..Len(h) /\ DOMAIN Append(h, c) = 1..(Len(h) + 1)
  BY <1>1, LenProperties DEF Histories
<1>3. KeptIn(h, Append(h, c))
  BY <1>1, <1>2 DEF KeptIn
<1>4. ASSUME NEW g \in Histories, c.author = "operator", KeptIn(h, g)
      PROVE  KeptIn(Append(h, c), g)
  <2>1. SUFFICES ASSUME NEW i \in DOMAIN Append(h, c), Append(h, c)[i].author # "operator"
                 PROVE  i \in DOMAIN g /\ \A j \in 1..i : Append(h, c)[j] = g[j]
    BY DEF KeptIn
  <2>2. i \in DOMAIN h
    BY <1>1, <1>2, <1>4, <2>1
  <2>3. h[i].author # "operator"
    BY <1>1, <1>2, <2>1, <2>2
  <2>4. i \in DOMAIN g /\ \A j \in 1..i : h[j] = g[j]
    BY <1>4, <2>2, <2>3 DEF KeptIn
  <2>5. QED
    BY <1>1, <1>2, <2>2, <2>4
<1>5. QED
  BY <1>1, <1>3, <1>4 DEF Histories

\* What a is ahead of b by is the operator's own when the work in a is kept in b.
LEMMA AheadIsOwn ==
    ASSUME NEW a \in Histories, NEW b \in Histories, KeptIn(a, b),
           NEW i \in (SharedLength(a, b) + 1)..Len(a)
    PROVE  i \in DOMAIN a /\ a[i].author = "operator"
<1>1. DOMAIN a = 1..Len(a) /\ Len(a) \in Nat /\ SharedLength(a, b) \in 0..Len(a)
  BY LenProperties, SharedLengthType DEF Histories
<1>2. i \in 1..Len(a) /\ ~(i <= SharedLength(a, b))
  BY <1>1
<1>3. ~(i \in DOMAIN b /\ \A j \in 1..i : a[j] = b[j])
  BY <1>2, SharedUpTo
<1>4. QED
  BY <1>1, <1>2, <1>3 DEF KeptIn

\* A rebase onto a branch that keeps the work adds nothing to the branch's.
LEMMA RebaseKept ==
    ASSUME NEW a \in Histories, NEW b \in Histories, KeptIn(a, b)
    PROVE  KeptIn(b, RebaseOnto(a, b)) /\ KeptIn(RebaseOnto(a, b), b)
<1> DEFINE r == RebaseOnto(a, b)
           x == Ahead(a, b)
           k == SharedLength(a, b)
<1>1. /\ Len(a) \in Nat /\ Len(b) \in Nat /\ DOMAIN b = 1..Len(b)
      /\ k \in 0..Len(a) /\ x \in Histories /\ r \in Histories
      /\ Len(x) = Len(a) - k /\ DOMAIN x = 1..(Len(a) - k)
      /\ \A j \in DOMAIN x : x[j] = a[k + j]
  BY LenProperties, SharedLengthType, RebaseType, AheadElements DEF Histories
<1>2. /\ Len(r) = Len(b) + Len(x)
      /\ \A j \in 1..(Len(b) + Len(x)) : r[j] = IF j <= Len(b) THEN b[j] ELSE x[j - Len(b)]
  BY <1>1, ConcatProperties DEF RebaseOnto, Histories
<1>3. DOMAIN r = 1..(Len(b) + Len(x))
  BY <1>1, <1>2, LenProperties DEF Histories
<1>4. \A j \in 1..Len(b) : j \in DOMAIN r /\ r[j] = b[j]
  BY <1>1, <1>2, <1>3
<1>5. KeptIn(b, r)
  <2>1. \A i \in DOMAIN b : 1..i \subseteq 1..Len(b)
    BY <1>1
  <2>2. QED
    BY <1>1, <1>4, <2>1 DEF KeptIn
<1>6. ASSUME NEW i \in DOMAIN r, r[i].author # "operator"
      PROVE  i <= Len(b)
  <2>1. SUFFICES ASSUME i > Len(b)
                 PROVE  FALSE
    BY <1>1, <1>3
  <2>2. i - Len(b) \in DOMAIN x /\ r[i] = x[i - Len(b)]
    BY <1>1, <1>2, <1>3, <2>1
  <2>3. r[i] = a[k + (i - Len(b))] /\ k + (i - Len(b)) \in (k + 1)..Len(a)
    BY <1>1, <2>2
  <2>4. QED
    BY <1>6, <2>3, AheadIsOwn
<1>7. KeptIn(r, b)
  <2>1. SUFFICES ASSUME NEW i \in DOMAIN r, r[i].author # "operator"
                 PROVE  i \in DOMAIN b /\ \A j \in 1..i : r[j] = b[j]
    BY DEF KeptIn
  <2>2. i \in 1..Len(b)
    BY <1>1, <1>3, <1>6, <2>1
  <2>3. \A j \in 1..i : j \in 1..Len(b)
    BY <1>1, <2>2
  <2>4. QED
    BY <1>1, <1>4, <2>2, <2>3
<1>8. QED
  BY <1>5, <1>7

\* Two histories' difference is marked when that of the first and a later one is.
LEMMA MarkedBefore ==
    ASSUME NEW p \in Histories, NEW n \in Histories, NEW h \in Histories,
           KeptIn(p, n), KeptIn(n, h), \A c \in LogBetween(p, h) : c.skip
    PROVE  \A c \in LogBetween(p, n) : c.skip
<1>0. /\ DOMAIN p = 1..Len(p) /\ DOMAIN n = 1..Len(n) /\ DOMAIN h = 1..Len(h)
      /\ Len(p) \in Nat /\ Len(n) \in Nat /\ Len(h) \in Nat
      /\ SharedLength(n, p) \in 0..Len(n) /\ SharedLength(h, p) \in 0..Len(h)
      /\ SharedLength(p, n) \in 0..Len(p)
  BY LenProperties, SharedLengthType DEF Histories
<1>1. \A c \in Commits : c.author = "operator" => c.skip
  BY DEF Commits
<1>2. ASSUME NEW i \in (SharedLength(p, n) + 1)..Len(p)
      PROVE  p[i].skip
  <2>1. i \in DOMAIN p /\ p[i].author = "operator"
    BY AheadIsOwn
  <2>2. p[i] \in Commits
    BY <1>0, <2>1, ElementOfSeq DEF Histories
  <2>3. QED
    BY <1>1, <2>1, <2>2
<1>3. ASSUME NEW i \in (SharedLength(n, p) + 1)..Len(n), n[i].author # "operator"
      PROVE  n[i].skip
  <2>1. i \in 1..Len(n) /\ ~(i <= SharedLength(n, p))
    BY <1>0
  <2>2. i \in 1..Len(h) /\ \A j \in 1..i : n[j] = h[j]
    BY <1>0, <1>3, <2>1 DEF KeptIn
  <2>3. ~(i \in DOMAIN p /\ \A j \in 1..i : n[j] = p[j])
    BY <2>1, SharedUpTo
  <2>4. ~(i \in DOMAIN p /\ \A j \in 1..i : h[j] = p[j])
    BY <2>2, <2>3
  <2>5. ~(i <= SharedLength(h, p))
    BY <2>2, <2>4, SharedUpTo
  <2>6. i \in (SharedLength(h, p) + 1)..Len(h)
    BY <1>0, <2>2, <2>5
  <2>7. h[i] \in LogBetween(p, h)
    BY <2>6, AheadElements DEF LogBetween
  <2>8. n[i] = h[i]
    BY <1>0, <2>1, <2>2
  <2>9. QED
    BY <2>7, <2>8
<1>4. ASSUME NEW i \in (SharedLength(n, p) + 1)..Len(n), n[i].author = "operator"
      PROVE  n[i].skip
  <2>1. i \in DOMAIN n
    BY <1>0
  <2>2. n[i] \in Commits
    BY <1>0, <2>1, ElementOfSeq DEF Histories
  <2>3. QED
    BY <1>1, <1>4, <2>2
<1>5. ASSUME NEW c \in LogBetween(p, n)
      PROVE  c.skip
  <2>1. CASE c \in ToSet(Ahead(p, n))
    <3>1. \E i \in (SharedLength(p, n) + 1)..Len(p) : c = p[i]
      BY <2>1, AheadElements
    <3>2. QED
      BY <1>2, <3>1
  <2>2. CASE c \in ToSet(Ahead(n, p))
    <3>1. \E i \in (SharedLength(n, p) + 1)..Len(n) : c = n[i]
      BY <2>2, AheadElements
    <3>2. QED
      BY <1>3, <1>4, <3>1
  <2>3. QED
    BY <1>5, <2>1, <2>2 DEF LogBetween
<1>6. QED
  BY <1>5

\* A history with a commit is not empty.
LEMMA AppendNonEmpty ==
    ASSUME NEW h \in Histories, NEW c \in Commits
    PROVE  Append(h, c) # <<>>
<1>1. Len(Append(h, c)) = Len(h) + 1 /\ Len(h) \in Nat
  BY DEF Histories
<1>2. QED
  BY <1>1

-----------------------------------------------------------------------------
(* The clean-up after a conflict drops the last commit of the clone's HEAD. *)

\* Dropping the last commit loses no other one, and never the only one.
LEMMA DroppedKept ==
    ASSUME NEW h \in Histories
    PROVE  /\ DroppedHead(h) \in Histories
           /\ KeptIn(DroppedHead(h), h)
           /\ h # <<>> => DroppedHead(h) # <<>>
           /\ \A i \in 1..(Len(h) - 1) : i \in DOMAIN DroppedHead(h) /\ DroppedHead(h)[i] = h[i]
<1>1. Len(h) \in Nat /\ DOMAIN h = 1..Len(h)
  BY LenProperties DEF Histories
<1>2. CASE Len(h) > 1
  <2>1. 1 \in Nat \ {0} /\ Len(h) - 1 \in 0..Len(h) /\ Len(h) - 1 - 1 + 1 = Len(h) - 1
    BY <1>1, <1>2
  <2>2. DroppedHead(h) = SubSeq(h, 1, Len(h) - 1)
    BY <1>2 DEF DroppedHead, Front
  <2>3. /\ DroppedHead(h) \in Histories
        /\ Len(DroppedHead(h)) = Len(h) - 1
        /\ \A i \in 1..(Len(h) - 1) : DroppedHead(h)[i] = h[1 + i - 1]
    BY <1>2, <2>1, <2>2, SubHistory
  <2>4. DOMAIN DroppedHead(h) = 1..(Len(h) - 1)
    BY <2>3, LenProperties DEF Histories
  <2>5. \A i \in 1..(Len(h) - 1) : DroppedHead(h)[i] = h[i] /\ i \in DOMAIN h
    BY <1>1, <2>3
  <2>6. KeptIn(DroppedHead(h), h)
    <3>1. \A i \in DOMAIN DroppedHead(h) : 1..i \subseteq 1..(Len(h) - 1)
      BY <1>1, <2>4
    <3>2. QED
      BY <2>4, <2>5, <3>1 DEF KeptIn
  <2>7. DroppedHead(h) # <<>>
    BY <1>2, <2>3
  <2>8. QED
    BY <2>3, <2>4, <2>5, <2>6, <2>7
<1>3. CASE ~(Len(h) > 1)
  <2>1. DroppedHead(h) = h
    BY <1>3 DEF DroppedHead
  <2>2. QED
    BY <1>1, <1>3, <2>1, KeptSelf
<1>4. QED
  BY <1>2, <1>3

\* When two histories have diverged, the last commit of neither is work that the local
\* one has to keep: the clean-up after a conflict can do without it.
LEMMA DivergedDropped ==
    ASSUME NEW a \in Histories, NEW b \in Histories, KeptIn(a, b), Diverged(a, b)
    PROVE  KeptIn(a, DroppedHead(a)) /\ KeptIn(a, DroppedHead(b))
<1>1. /\ DOMAIN a = 1..Len(a) /\ Len(a) \in Nat /\ DOMAIN b = 1..Len(b) /\ Len(b) \in Nat
      /\ SharedLength(a, b) \in 0..Len(a) /\ SharedLength(b, a) \in 0..Len(b)
      /\ Ahead(a, b) \in Histories /\ Ahead(b, a) \in Histories
  BY LenProperties, SharedLengthType, RebaseType DEF Histories
<1>2. SharedLength(a, b) < Len(a) /\ SharedLength(b, a) < Len(b)
  <2>1. Len(Ahead(a, b)) # 0 /\ Len(Ahead(b, a)) # 0
    BY <1>1, EmptySeq DEF Diverged, Histories
  <2>2. /\ Len(Ahead(a, b)) = Len(a) - SharedLength(a, b)
        /\ Len(Ahead(b, a)) = Len(b) - SharedLength(b, a)
    BY AheadElements
  <2>3. QED
    BY <1>1, <2>1, <2>2
<1>3. ASSUME NEW i \in DOMAIN a, a[i].author # "operator"
      PROVE  /\ i < Len(a) /\ i < Len(b)
             /\ \A j \in 1..i : a[j] = b[j]
  <2>1. i \in DOMAIN b /\ \A j \in 1..i : a[j] = b[j]
    BY <1>3 DEF KeptIn
  <2>2. i <= SharedLength(a, b)
    BY <1>1, <2>1, SharedUpTo
  <2>3. i <= SharedLength(b, a)
    BY <1>1, <2>1, SharedUpTo
  <2>4. QED
    BY <1>1, <1>2, <2>1, <2>2, <2>3
<1>4. ASSUME NEW h \in {a, b}
      PROVE  KeptIn(a, DroppedHead(h))
  <2>1. h \in Histories /\ Len(h) \in Nat
    BY <1>1
  <2>2. SUFFICES ASSUME NEW i \in DOMAIN a, a[i].author # "operator"
                 PROVE  /\ i \in DOMAIN DroppedHead(h)
                        /\ \A j \in 1..i : a[j] = DroppedHead(h)[j]
    BY DEF KeptIn
  <2>3. i \in Nat /\ i >= 1 /\ i < Len(h) /\ \A j \in 1..i : a[j] = h[j]
    BY <1>1, <1>3, <2>2
  <2>4. \A j \in 1..i : j \in 1..(Len(h) - 1)
    BY <2>1, <2>3
  <2>5. \A j \in 1..i : j \in DOMAIN DroppedHead(h) /\ DroppedHead(h)[j] = h[j]
    BY <2>1, <2>4, DroppedKept
  <2>6. QED
    BY <2>3, <2>5
<1>5. QED
  BY <1>4

\* A branch that goes on has all it had even without its new commit.
LEMMA AppendDropped ==
    ASSUME NEW g \in Histories, NEW h \in Histories, NEW c \in Commits, KeptIn(g, h)
    PROVE  KeptIn(g, DroppedHead(Append(h, c)))
<1>1. /\ Append(h, c) \in Histories
      /\ KeptIn(h, Append(h, c))
  BY AppendKept
<1>2. /\ Len(Append(h, c)) = Len(h) + 1
      /\ \A i \in 1..Len(h) : Append(h, c)[i] = h[i]
      /\ Len(h) \in Nat /\ DOMAIN h = 1..Len(h)
  BY LenProperties DEF Histories
<1>3. \A i \in 1..Len(h) : /\ i \in DOMAIN DroppedHead(Append(h, c))
                           /\ DroppedHead(Append(h, c))[i] = h[i]
  <2>1. Len(Append(h, c)) - 1 = Len(h)
    BY <1>2
  <2>2. QED
    BY <1>1, <1>2, <2>1, DroppedKept
<1>4. KeptIn(h, DroppedHead(Append(h, c)))
  <2>1. \A i \in DOMAIN h : 1..i \subseteq 1..Len(h)
    BY <1>2
  <2>2. QED
    BY <1>2, <1>3, <2>1 DEF KeptIn
<1>5. QED
  BY <1>1, <1>4, DroppedKept, KeptTrans

-----------------------------------------------------------------------------
(* The two loops.                                                          *)

\* The two loops are two, and no step of a cycle is a step of an apply run.
LEMMA Labels ==
    /\ "poll" \in ApplyTrigger /\ "reconcile" \in ApplyTrigger
    /\ \A t \in ApplyTrigger : t = "poll" \/ t = "reconcile"
    /\ SyncSteps \cap ApplySteps = {}
    /\ "idle" \notin SyncSteps \cup ApplySteps
  BY DEF ApplyTrigger, SyncSteps, ApplySteps

\* A fault is counted, or there is none.
LEMMA FaultsType ==
    ASSUME TypeOK, NoFault \/ \E kind \in FaultKinds : Fault(kind)
    PROVE  faults' \in Nat
  BY DEF TypeOK, NoFault, Fault

\* commit() returns to the rest of the run.
LEMMA AfterCommitType ==
    ASSUME TypeOK, NEW t \in ApplyTrigger
    PROVE  AfterCommit(t) \in {"teams", "done"}
  BY DEF AfterCommit

\* What an attempt to write apl-operator-state leaves there.
LEMMA RecordStateType ==
    ASSUME TypeOK,
           NEW status \in {"none", "in-progress", "succeeded", "failed"},
           NEW hash \in Histories, NEW t \in ApplyTrigger,
           RecordState(status, hash, t)
    PROVE  /\ applyState' \in [status : {"none", "in-progress", "succeeded", "failed"},
                               commitHash : Histories, trigger : ApplyTrigger]
           /\ faults' \in Nat
  BY DEF TypeOK, RecordState, NoFault, Fault

\* A run begins with its locals set.
LEMMA BeginApplyType ==
    ASSUME TypeOK, NEW t \in ApplyTrigger, NEW teamsOnly \in BOOLEAN,
           lastRevision' \in Histories, BeginApply(t, teamsOnly)
    PROVE  /\ isApplying' \in BOOLEAN
           /\ pc' \in [ApplyTrigger -> {"idle"} \cup SyncSteps \cup ApplySteps]
           /\ applyTeamsOnly' \in [ApplyTrigger -> BOOLEAN]
           /\ commitHash' \in [ApplyTrigger -> Histories]
           /\ nextStage' \in [ApplyTrigger -> {"deploy", "finish"}]
           /\ applyState' \in [status : {"none", "in-progress", "succeeded", "failed"},
                               commitHash : Histories, trigger : ApplyTrigger]
           /\ faults' \in Nat
<1>1. RecordState("in-progress", lastRevision', t)
  BY DEF BeginApply, ReportedRevision
<1>2. /\ applyState' \in [status : {"none", "in-progress", "succeeded", "failed"},
                          commitHash : Histories, trigger : ApplyTrigger]
      /\ faults' \in Nat
  BY <1>1, RecordStateType
<1>3. QED
  BY <1>2 DEF TypeOK, BeginApply, ReportedRevision, Goto, ApplySteps

\* The poll cycle ends in a run, or in none.
LEMMA TriggerPollType ==
    ASSUME TypeOK, NEW teamsOnly \in BOOLEAN,
           lastRevision' \in Histories, TriggerPoll(teamsOnly)
    PROVE  /\ isApplying' \in BOOLEAN
           /\ pc' \in [ApplyTrigger -> {"idle"} \cup SyncSteps \cup ApplySteps]
           /\ applyTeamsOnly' \in [ApplyTrigger -> BOOLEAN]
           /\ commitHash' \in [ApplyTrigger -> Histories]
           /\ nextStage' \in [ApplyTrigger -> {"deploy", "finish"}]
           /\ applyState' \in [status : {"none", "in-progress", "succeeded", "failed"},
                               commitHash : Histories, trigger : ApplyTrigger]
           /\ faults' \in Nat
<1>1. CASE BeginApply("poll", teamsOnly)
  BY <1>1, BeginApplyType, Labels
<1>2. CASE /\ ~MayApply
           /\ Goto("poll", "idle")
           /\ NoFault
           /\ UNCHANGED <<isApplying, runVars, applyState>>
  BY <1>2 DEF TypeOK, Goto, NoFault, runVars
<1>3. QED
  BY <1>1, <1>2 DEF TriggerPoll

\* The commit of a user is a commit.
LEMMA UserPushAppends ==
    ASSUME TypeOK, UserPush
    PROVE  /\ \E c \in Commits : remote' = Append(remote, c)
           /\ UNCHANGED <<tracking, head, tree, rebaseFrom, deployed, pc, up>>
<1>1. PICK kind \in UserCommitKinds :
         remote' = Append(remote, UserCommit(Cardinality(Work(remote)), kind[1], kind[2]))
  BY DEF UserPush
<1>2. kind[1] \in Scopes /\ kind[2] \in BOOLEAN /\ Cardinality(Work(remote)) \in Nat
  BY BoundsAssumption, WorkCount DEF TypeOK
<1>3. UserCommit(Cardinality(Work(remote)), kind[1], kind[2]) \in Commits
  BY <1>2, CommitTypes
<1>4. QED
  BY <1>1, <1>3 DEF UserPush, stateVars

\* A step of a run is taken by a loop that applies, which stays in the run or ends it.
LEMMA RunSteps ==
    ASSUME TypeOK, NEW t \in ApplyTrigger, ApplyStep(t) \/ ApplyTrouble(t)
    PROVE  /\ Applying(t)
           /\ UNCHANGED pc \/ \E l \in {"idle"} \cup ApplySteps : Goto(t, l)
           /\ UNCHANGED <<syncVars, up>>
<1>1. Applying(t) /\ UNCHANGED <<syncVars, up>>
  BY DEF ApplyStep, Prepare, Commit, Pull, Push, AbortRebase, DropCommit, ApplyTeams,
         ApplyApps, Finish, Release, ReportFailure, ApplyTrouble, PauseForUpgrade,
         RetryApplyAll, StepFails, Applying, ApplySteps
<1>2. UNCHANGED pc \/ \E l \in {"idle"} \cup ApplySteps : Goto(t, l)
  <2>1. CASE Prepare(t) \/ Pull(t) \/ AbortRebase(t) \/ ApplyApps(t) \/ Finish(t)
             \/ Release(t) \/ ReportFailure(t)
    BY <2>1 DEF Prepare, Pull, AbortRebase, ApplyApps, Finish, Release, ReportFailure,
                ApplySteps
  <2>2. CASE Commit(t) \/ Push(t) \/ DropCommit(t)
    BY <2>2, AfterCommitType DEF Commit, Push, DropCommit, ApplySteps
  <2>3. CASE ApplyTeams(t) \/ ApplyTrouble(t)
    BY <2>3 DEF ApplyTeams, ApplyTrouble, PauseForUpgrade, RetryApplyAll, StepFails,
                ApplySteps
  <2>4. QED
    BY <2>1, <2>2, <2>3 DEF ApplyStep
<1>3. QED
  BY <1>1, <1>2

\* A poll cycle moves on by its own steps, or ends with the process.
LEMMA PollMoves ==
    ASSUME TypeOK, [Next]_vars, pc["poll"] \in SyncSteps, pc'["poll"] # pc["poll"]
    PROVE  PollSync \/ SyncFails \/ Crash \/ Evict
<1>1. ASSUME NEW t \in ApplyTrigger, ApplyStep(t) \/ ApplyTrouble(t)
      PROVE  FALSE
  <2>1. t # "poll" /\ (UNCHANGED pc \/ \E l : Goto(t, l))
    BY <1>1, RunSteps, Labels DEF Applying
  <2>2. QED
    BY <2>1, Labels DEF Goto, TypeOK
<1>2. ~(Start \/ CycleSkipped \/ UserPush \/ UNCHANGED vars)
  BY DEF Start, CycleSkipped, UserPush, vars
<1>3. ~ReconcileTick
  BY Labels DEF ReconcileTick, BeginApply, Goto, TypeOK
<1>4. ~PollWake
  BY Labels DEF PollWake
<1>5. QED
  BY <1>1, <1>2, <1>3, <1>4 DEF Next

-----------------------------------------------------------------------------
(* Type correctness: one lemma for each part of Next.                      *)

LEMMA TypeInit == Init => TypeOK
<1>1. <<InstallCommit>> \in Histories /\ <<>> \in Histories
  BY CommitTypes, SmallHistories
<1>2. ASSUME Init
      PROVE  /\ remote \in Histories /\ tracking \in Histories
             /\ head \in Histories /\ rebaseFrom \in Histories
             /\ lastRevision \in Histories
             /\ previousRevision \in Histories /\ newRevision \in Histories
             /\ commitHash \in [ApplyTrigger -> Histories]
             /\ deployed \in [Scopes -> Histories]
             /\ applyState.commitHash \in Histories
  BY <1>1, <1>2 DEF Init
<1>3. ASSUME Init
      PROVE  /\ tree \in {"clean", "dirty", "conflicted"}
             /\ isApplying \in BOOLEAN /\ ready \in BOOLEAN /\ up \in BOOLEAN
             /\ pc \in [ApplyTrigger -> {"idle"} \cup SyncSteps \cup ApplySteps]
             /\ applyTeamsOnly \in [ApplyTrigger -> BOOLEAN]
             /\ nextStage \in [ApplyTrigger -> {"deploy", "finish"}]
             /\ faults \in Nat
  BY <1>3 DEF Init
<1>4. ASSUME Init
      PROVE  applyState \in [status : {"none", "in-progress", "succeeded", "failed"},
                             commitHash : Histories, trigger : ApplyTrigger]
  BY <1>1, <1>4, Labels DEF Init
<1>5. QED
  BY <1>2, <1>3, <1>4 DEF TypeOK

\* The poll loop keeps the types.
LEMMA TypeSync ==
    ASSUME TypeOK, PollWake \/ PollSync \/ SyncFails
    PROVE  TypeOK'
<1>0. <<>> \in Histories
  BY SmallHistories
<1>1. CASE PollWake
  BY <1>1 DEF PollWake, TypeOK, Goto, NoFault, repoVars, runVars, stateVars, SyncSteps
<1>2. CASE PullFetch
  BY <1>2 DEF PullFetch, TypeOK, Goto, NoFault, syncVars, runVars, stateVars, SyncSteps
<1>3. CASE PullReset
  BY <1>3 DEF PullReset, PulledHead, TreeAfterReset, TypeOK, Goto, NoFault, syncVars,
              runVars, stateVars, SyncSteps
<1>4. CASE CurrentRevision
  <2>1. UNCHANGED <<repoVars, ready, deployed, up>>
    BY <1>4 DEF CurrentRevision
  <2>2. CASE UNCHANGED lastRevision /\ EndCycle
    BY <1>0, <2>1, <2>2 DEF EndCycle, ForgetSync, TypeOK, Goto, NoFault, repoVars, runVars
  <2>3. CASE lastRevision' = head /\ ForgetSync /\ TriggerPoll(FALSE)
    <3>1. lastRevision' \in Histories
      BY <2>3 DEF TypeOK
    <3>2. QED
      BY <1>0, <2>1, <2>3, <3>1, TriggerPollType DEF TypeOK, ForgetSync, repoVars
  <2>4. CASE /\ lastRevision' = head /\ newRevision' = head
             /\ Goto("poll", "log")
             /\ NoFault
             /\ UNCHANGED <<previousRevision, isApplying, runVars, applyState>>
    BY <2>1, <2>4 DEF TypeOK, Goto, NoFault, repoVars, runVars, SyncSteps
  <2>5. QED
    BY <1>4, <2>2, <2>3, <2>4 DEF CurrentRevision
<1>5. CASE SkipCheck
  <2>1. UNCHANGED <<repoVars, lastRevision, ready, deployed, up>>
    BY <1>5 DEF SkipCheck
  <2>2. CASE EndCycle
    BY <1>0, <2>1, <2>2 DEF EndCycle, ForgetSync, TypeOK, Goto, NoFault, repoVars, runVars
  <2>3. CASE /\ Goto("poll", "diff")
             /\ NoFault
             /\ UNCHANGED <<previousRevision, newRevision, isApplying, runVars, applyState>>
    BY <2>1, <2>3 DEF TypeOK, Goto, NoFault, repoVars, runVars, SyncSteps
  <2>4. QED
    BY <1>5, <2>2, <2>3 DEF SkipCheck
<1>6. CASE DiffCheck
  <2>1. UNCHANGED <<repoVars, lastRevision, ready, deployed, up>> /\ ForgetSync
    BY <1>6 DEF DiffCheck
  <2>2. PICK teamsOnly \in BOOLEAN : TriggerPoll(teamsOnly)
    BY <1>6 DEF DiffCheck, IsTeamsOnlyChange
  <2>3. lastRevision' \in Histories
    BY <2>1 DEF TypeOK
  <2>4. QED
    BY <1>0, <2>1, <2>2, <2>3, TriggerPollType DEF TypeOK, ForgetSync, repoVars
<1>7. CASE SyncFails
  <2>1. faults' \in Nat
    BY <1>7 DEF SyncFails, Fault, TypeOK
  <2>2. previousRevision' \in Histories /\ newRevision' \in Histories
    BY <1>0, <1>7 DEF SyncFails, ForgetSync
  <2>3. pc' \in [ApplyTrigger -> {"idle"} \cup SyncSteps \cup ApplySteps]
    BY <1>7 DEF SyncFails, Goto, TypeOK
  <2>4. UNCHANGED <<remote, tracking, head, tree, rebaseFrom, lastRevision, applyTeamsOnly,
                    commitHash, nextStage, applyState, ready, deployed, isApplying, up>>
    BY <1>7 DEF SyncFails, repoVars, runVars, stateVars
  <2>5. QED
    BY <2>1, <2>2, <2>3, <2>4 DEF TypeOK
<1>8. QED
  BY <1>1, <1>2, <1>3, <1>4, <1>5, <1>6, <1>7 DEF PollSync

\* An apply run keeps the types.
LEMMA TypeApply ==
    ASSUME TypeOK, NEW t \in ApplyTrigger, ApplyStep(t) \/ ApplyTrouble(t)
    PROVE  TypeOK'
<1> DEFINE Label(l) == l \in {"idle"} \cup SyncSteps \cup ApplySteps
<1>0. /\ <<>> \in Histories
      /\ Label("idle") /\ Label("commit") /\ Label("teams") /\ Label("done")
      /\ Label("pull") /\ Label("push") /\ Label("abort") /\ Label("drop")
      /\ Label("failed") /\ Label("apps") /\ Label("tail")
  BY SmallHistories DEF ApplySteps
<1>00. Label(AfterCommit(t))
  BY <1>0, AfterCommitType
<1>1. CASE Prepare(t)
  BY <1>0, <1>1 DEF Prepare, TypeOK, Goto, NoFault, syncVars, runVars, stateVars
<1>2. CASE Commit(t)
  <2>1. CASE tree = "clean" /\ Goto(t, AfterCommit(t)) /\ UNCHANGED <<head, tree>>
    BY <1>00, <1>2, <2>1 DEF Commit, TypeOK, Goto, NoFault, syncVars, runVars, stateVars
  <2>2. CASE /\ \E scope \in Scopes : head' = Append(head, OperatorCommit(scope))
             /\ tree' = "clean"
             /\ Goto(t, "pull")
    <3>1. head' \in Histories
      BY <2>2, CommitTypes, AppendKept DEF TypeOK
    <3>2. QED
      BY <1>0, <1>2, <2>2, <3>1 DEF Commit, TypeOK, Goto, NoFault, syncVars, runVars, stateVars
  <2>3. QED
    BY <1>2, <2>1, <2>2 DEF Commit
<1>3. CASE Pull(t)
  <2>1. RebaseOnto(head, remote) \in Histories
    BY RebaseType DEF TypeOK
  <2>2. /\ head' \in Histories /\ tracking' \in Histories /\ rebaseFrom' \in Histories
        /\ tree' \in {"clean", "dirty", "conflicted"}
    BY <1>3, <2>1 DEF Pull, TypeOK
  <2>3. pc' \in [ApplyTrigger -> {"idle"} \cup SyncSteps \cup ApplySteps]
    BY <1>0, <1>3 DEF Pull, TypeOK, Goto
  <2>4. QED
    BY <1>3, <2>2, <2>3 DEF Pull, TypeOK, NoFault, syncVars, runVars, stateVars
<1>4. CASE Push(t)
  <2>1. remote' \in Histories /\ tracking' \in Histories
    BY <1>4 DEF Push, TypeOK
  <2>2. pc' \in [ApplyTrigger -> {"idle"} \cup SyncSteps \cup ApplySteps]
    BY <1>0, <1>00, <1>4 DEF Push, TypeOK, Goto
  <2>3. QED
    BY <1>4, <2>1, <2>2 DEF Push, TypeOK, NoFault, syncVars, runVars, stateVars
<1>5. CASE AbortRebase(t)
  <2>1. head' \in Histories /\ rebaseFrom' \in Histories
    BY <1>0, <1>5 DEF AbortRebase, AbortedHead, TypeOK
  <2>2. tree' \in {"clean", "dirty", "conflicted"} /\ faults' \in Nat
    BY <1>5 DEF AbortRebase, TypeOK, NoFault, Fault
  <2>3. pc' \in [ApplyTrigger -> {"idle"} \cup SyncSteps \cup ApplySteps]
    BY <1>0, <1>5 DEF AbortRebase, TypeOK, Goto
  <2>4. QED
    BY <1>5, <2>1, <2>2, <2>3 DEF AbortRebase, TypeOK, syncVars, runVars, stateVars
<1>6. CASE DropCommit(t)
  <2>1. DroppedHead(head) \in Histories
    BY DroppedKept DEF TypeOK
  <2>2. tree' \in {"clean", "dirty", "conflicted"}
    BY <1>6 DEF DropCommit, TreeAfterReset, TypeOK
  <2>3. faults' \in Nat /\ head' \in Histories
    BY <1>6, <2>1 DEF DropCommit, TypeOK, NoFault, Fault
  <2>4. pc' \in [ApplyTrigger -> {"idle"} \cup SyncSteps \cup ApplySteps]
    BY <1>0, <1>00, <1>6 DEF DropCommit, TypeOK, Goto
  <2>5. QED
    BY <1>6, <2>2, <2>3, <2>4 DEF DropCommit, TypeOK, syncVars, runVars, stateVars
<1>7. CASE ApplyTeams(t)
  <2>1. deployed' \in [Scopes -> Histories] /\ faults' \in Nat
    BY <1>7 DEF ApplyTeams, TypeOK, NoFault, Fault
  <2>2. pc' \in [ApplyTrigger -> {"idle"} \cup SyncSteps \cup ApplySteps]
    BY <1>0, <1>7 DEF ApplyTeams, TypeOK, Goto
  <2>3. QED
    BY <1>7, <2>1, <2>2 DEF ApplyTeams, TypeOK, repoVars, syncVars, runVars
<1>8. CASE ApplyApps(t)
  <2>1. deployed' \in [Scopes -> Histories] /\ faults' \in Nat
    BY <1>8 DEF ApplyApps, TypeOK, NoFault, Fault
  <2>2. /\ pc' \in [ApplyTrigger -> {"idle"} \cup SyncSteps \cup ApplySteps]
        /\ nextStage' \in [ApplyTrigger -> {"deploy", "finish"}]
    BY <1>0, <1>8 DEF ApplyApps, TypeOK, Goto
  <2>3. QED
    BY <1>8, <2>1, <2>2 DEF ApplyApps, TypeOK, repoVars, syncVars
<1>9. CASE Finish(t)
  <2>1. RecordState("succeeded", commitHash[t], t)
    BY <1>9 DEF Finish, Outcome
  <2>2. commitHash[t] \in Histories
    BY DEF TypeOK
  <2>3. /\ applyState' \in [status : {"none", "in-progress", "succeeded", "failed"},
                            commitHash : Histories, trigger : ApplyTrigger]
        /\ faults' \in Nat
    BY <2>1, <2>2, RecordStateType
  <2>4. ready' \in BOOLEAN
    BY <1>9 DEF Finish, TypeOK
  <2>5. pc' \in [ApplyTrigger -> {"idle"} \cup SyncSteps \cup ApplySteps]
    BY <1>0, <1>9 DEF Finish, Goto, TypeOK
  <2>6. QED
    BY <1>9, <2>3, <2>4, <2>5 DEF Finish, TypeOK, repoVars, syncVars, runVars
<1>10. CASE Release(t)
  <2>1. /\ applyTeamsOnly' \in [ApplyTrigger -> BOOLEAN]
        /\ commitHash' \in [ApplyTrigger -> Histories]
        /\ nextStage' \in [ApplyTrigger -> {"deploy", "finish"}]
    BY <1>0, <1>10 DEF Release, ForgetRun, TypeOK
  <2>2. pc' \in [ApplyTrigger -> {"idle"} \cup SyncSteps \cup ApplySteps]
    BY <1>0, <1>10 DEF Release, Goto, TypeOK
  <2>3. QED
    BY <1>10, <2>1, <2>2 DEF Release, TypeOK, NoFault, repoVars, syncVars, stateVars
<1>11. CASE ReportFailure(t)
  <2>1. RecordState("failed", commitHash[t], t) /\ commitHash[t] \in Histories
    BY <1>11 DEF ReportFailure, TypeOK
  <2>2. /\ applyState' \in [status : {"none", "in-progress", "succeeded", "failed"},
                            commitHash : Histories, trigger : ApplyTrigger]
        /\ faults' \in Nat
    BY <2>1, RecordStateType
  <2>3. /\ applyTeamsOnly' \in [ApplyTrigger -> BOOLEAN]
        /\ commitHash' \in [ApplyTrigger -> Histories]
        /\ nextStage' \in [ApplyTrigger -> {"deploy", "finish"}]
    BY <1>0, <1>11 DEF ReportFailure, ForgetRun, TypeOK
  <2>4. pc' \in [ApplyTrigger -> {"idle"} \cup SyncSteps \cup ApplySteps]
    BY <1>0, <1>11 DEF ReportFailure, Goto, TypeOK
  <2>5. QED
    BY <1>11, <2>2, <2>3, <2>4
       DEF ReportFailure, ReleasedOnFailure, TypeOK, repoVars, syncVars
<1>12. CASE PauseForUpgrade(t)
  BY <1>0, <1>12 DEF PauseForUpgrade, TypeOK, Goto, Fault, repoVars, syncVars, runVars, stateVars
<1>13. CASE RetryApplyAll(t)
  BY <1>0, <1>13 DEF RetryApplyAll, TypeOK, Goto, Fault, repoVars, syncVars, stateVars
<1>14. CASE StepFails(t)
  BY <1>0, <1>14 DEF StepFails, TypeOK, Goto, Fault, repoVars, syncVars, runVars, stateVars
<1>15. QED
  BY <1>1, <1>2, <1>3, <1>4, <1>5, <1>6, <1>7, <1>8, <1>9, <1>10, <1>11, <1>12, <1>13, <1>14
     DEF ApplyStep, ApplyTrouble

\* Starting, ticking, users, restarts and evictions keep the types.
LEMMA TypeRest ==
    ASSUME TypeOK,
           Start \/ ReconcileTick \/ CycleSkipped \/ UserPush \/ Crash \/ Evict
    PROVE  TypeOK'
<1>0. <<>> \in Histories
  BY SmallHistories
<1>1. CASE Start
  BY <1>1 DEF Start, ClonedHead, TypeOK, NoFault, syncVars, runVars, stateVars
<1>2. CASE ReconcileTick
  <2>1. lastRevision' \in Histories /\ BeginApply("reconcile", FALSE)
    BY <1>2 DEF ReconcileTick, ReconcileTeamsOnly, TypeOK, syncVars
  <2>2. QED
    BY <1>2, <2>1, BeginApplyType, Labels DEF ReconcileTick, TypeOK, syncVars, repoVars
<1>3. CASE CycleSkipped
  BY <1>3 DEF CycleSkipped, TypeOK, vars, repoVars, syncVars, runVars, stateVars
<1>4. CASE UserPush
  <2>1. remote' \in Histories
    BY <1>4, UserPushAppends, AppendKept DEF TypeOK
  <2>2. QED
    BY <1>4, <2>1 DEF UserPush, TypeOK, NoFault, syncVars, runVars, stateVars
<1>5. ASSUME LoseMemory
      PROVE  /\ lastRevision' \in Histories
             /\ previousRevision' \in Histories /\ newRevision' \in Histories
             /\ isApplying' \in BOOLEAN /\ up' \in BOOLEAN
             /\ pc' \in [ApplyTrigger -> {"idle"} \cup SyncSteps \cup ApplySteps]
             /\ applyTeamsOnly' \in [ApplyTrigger -> BOOLEAN]
             /\ commitHash' \in [ApplyTrigger -> Histories]
             /\ nextStage' \in [ApplyTrigger -> {"deploy", "finish"}]
  BY <1>0, <1>5 DEF LoseMemory
<1>6. CASE Crash
  BY <1>5, <1>6 DEF Crash, Fault, TypeOK, repoVars, stateVars
<1>7. CASE Evict
  <2>1. /\ LoseMemory
        /\ ready' \in BOOLEAN
        /\ head' \in Histories /\ tracking' \in Histories /\ rebaseFrom' \in Histories
        /\ tree' \in {"clean", "dirty", "conflicted"}
        /\ UNCHANGED <<remote, applyState, deployed>>
    BY <1>0, <1>7 DEF Evict
  <2>2. faults' \in Nat
    BY <1>7 DEF Evict, Fault, TypeOK
  <2>3. QED
    BY <1>5, <2>1, <2>2 DEF TypeOK
<1>8. QED
  BY <1>1, <1>2, <1>3, <1>4, <1>6, <1>7

\* Every step keeps the types.
LEMMA TypeNext == TypeOK /\ [Next]_vars => TypeOK'
<1>1. ASSUME TypeOK, UNCHANGED vars
      PROVE  TypeOK'
  BY <1>1 DEF TypeOK, vars, repoVars, syncVars, runVars, stateVars
<1>2. QED
  BY <1>1, TypeSync, TypeApply, TypeRest DEF Next

\* Whatever the loops, the users and the faults do, every variable keeps its type.
THEOREM TypeCorrect == Spec => []TypeOK
  BY TypeInit, TypeNext, PTL DEF Spec

-----------------------------------------------------------------------------
(* The apply lock.  OneApplyAtATime is inductive given the types: a loop   *)
(* enters a run only from a state without one, and leaves it only with the *)
(* flag cleared.                                                           *)

\* Entering a run.
LEMMA LockTaken ==
    ASSUME TypeOK, OneApplyAtATime, NEW t \in ApplyTrigger, NEW teamsOnly,
           BeginApply(t, teamsOnly)
    PROVE  OneApplyAtATime'
<1>1. ~isApplying /\ isApplying' = TRUE
  BY DEF BeginApply, MayApply
<1>2. \A u \in ApplyTrigger : ~Applying(u)
  BY <1>1 DEF OneApplyAtATime
<1>3. pc' = [pc EXCEPT ![t] = "prepare"]
  BY DEF BeginApply, Goto
<1>4. Applying(t)' /\ \A u \in ApplyTrigger \ {t} : ~Applying(u)'
  BY <1>2, <1>3 DEF TypeOK, Applying, ApplySteps
<1>5. QED
  BY <1>1, <1>4, Labels DEF OneApplyAtATime

\* A step inside a run.
LEMMA LockKept ==
    ASSUME TypeOK, OneApplyAtATime, NEW t \in ApplyTrigger, Applying(t),
           NEW l \in ApplySteps, Goto(t, l), isApplying' = isApplying
    PROVE  OneApplyAtATime'
<1>1. Applying(t)' /\ \A u \in ApplyTrigger \ {t} : Applying(u)' <=> Applying(u)
  BY DEF TypeOK, Applying, Goto
<1>2. QED
  BY <1>1, Labels DEF OneApplyAtATime

\* A step of a poll cycle that does not enter a run.
LEMMA LockUntouched ==
    ASSUME TypeOK, OneApplyAtATime, ~Applying("poll"),
           NEW l \in {"idle"} \cup SyncSteps, Goto("poll", l),
           isApplying' = isApplying
    PROVE  OneApplyAtATime'
<1>1. l \notin ApplySteps
  BY Labels
<1>2. ~Applying("poll")' /\ (Applying("reconcile")' <=> Applying("reconcile"))
  BY <1>1, Labels DEF TypeOK, Applying, Goto
<1>3. QED
  BY <1>2, Labels DEF OneApplyAtATime

\* Leaving a run.
LEMMA LockGivenBack ==
    ASSUME TypeOK, OneApplyAtATime, NEW t \in ApplyTrigger, Applying(t),
           Goto(t, "idle"), isApplying' = FALSE
    PROVE  OneApplyAtATime'
<1>1. \A u \in ApplyTrigger \ {t} : ~Applying(u)
  BY Labels DEF OneApplyAtATime
<1>2. \A u \in ApplyTrigger : ~Applying(u)'
  BY <1>1, Labels DEF TypeOK, Applying, Goto
<1>3. QED
  BY <1>2, Labels DEF OneApplyAtATime

\* The poll cycle's end.
LEMMA LockAtTrigger ==
    ASSUME TypeOK, OneApplyAtATime, ~Applying("poll"), NEW teamsOnly,
           TriggerPoll(teamsOnly)
    PROVE  OneApplyAtATime'
<1>1. CASE BeginApply("poll", teamsOnly)
  BY <1>1, LockTaken, Labels
<1>2. CASE ~MayApply /\ Goto("poll", "idle") /\ UNCHANGED isApplying
  BY <1>2, LockUntouched
<1>3. QED
  BY <1>1, <1>2 DEF TriggerPoll

LEMMA LockInit == Init => OneApplyAtATime
  BY Labels DEF Init, OneApplyAtATime, Applying

LEMMA LockNext == TypeOK /\ OneApplyAtATime /\ [Next]_vars => OneApplyAtATime'
<1> SUFFICES ASSUME TypeOK, OneApplyAtATime, [Next]_vars
             PROVE  OneApplyAtATime'
  OBVIOUS
<1>1. CASE UNCHANGED <<isApplying, pc>>
  BY <1>1 DEF OneApplyAtATime, Applying
<1>2. CASE Start \/ CycleSkipped \/ UserPush \/ UNCHANGED vars
  BY <1>1, <1>2 DEF Start, CycleSkipped, UserPush, vars
<1>3. CASE ReconcileTick
  BY <1>3, LockTaken, Labels DEF ReconcileTick
<1>4. CASE PollWake \/ PollSync \/ SyncFails
  <2>1. ~Applying("poll")
    BY <1>4, Labels DEF PollWake, PollSync, PullFetch, PullReset, CurrentRevision,
                        SkipCheck, DiffCheck, SyncFails, Applying, SyncSteps
  <2>2. CASE \E l \in {"idle"} \cup SyncSteps : Goto("poll", l) /\ UNCHANGED isApplying
    BY <2>1, <2>2, LockUntouched
  <2>3. CASE PollWake \/ PullFetch \/ PullReset \/ SkipCheck \/ SyncFails
    BY <2>2, <2>3 DEF PollWake, PullFetch, PullReset, SkipCheck, EndCycle, SyncFails,
                      SyncSteps
  <2>4. CASE CurrentRevision
    <3>1. CASE EndCycle \/ (Goto("poll", "log") /\ UNCHANGED isApplying)
      BY <2>2, <3>1 DEF EndCycle, SyncSteps
    <3>2. CASE TriggerPoll(FALSE)
      BY <2>1, <3>2, LockAtTrigger
    <3>3. QED
      BY <2>4, <3>1, <3>2 DEF CurrentRevision
  <2>5. CASE DiffCheck
    BY <2>1, <2>5, LockAtTrigger DEF DiffCheck
  <2>6. QED
    BY <1>4, <2>3, <2>4, <2>5 DEF PollSync
<1>5. ASSUME NEW t \in ApplyTrigger, ApplyStep(t) \/ ApplyTrouble(t)
      PROVE  OneApplyAtATime'
  <2>1. CASE Applying(t) /\ \E l \in ApplySteps : Goto(t, l) /\ UNCHANGED isApplying
    BY <2>1, LockKept
  <2>2. CASE Prepare(t) \/ Pull(t) \/ AbortRebase(t) \/ ApplyApps(t) \/ Finish(t)
    <3>1. Applying(t) /\ UNCHANGED isApplying
      BY <2>2 DEF Prepare, Pull, AbortRebase, ApplyApps, Finish, Applying, ApplySteps
    <3>2. (\E l \in ApplySteps : Goto(t, l)) \/ UNCHANGED pc
      BY <2>2 DEF Prepare, Pull, AbortRebase, ApplyApps, Finish, ApplySteps
    <3>3. QED
      BY <1>1, <2>1, <3>1, <3>2
  <2>3. CASE Commit(t) \/ Push(t) \/ DropCommit(t)
    <3>1. Applying(t) /\ UNCHANGED isApplying
      BY <2>3 DEF Commit, Push, DropCommit, Applying, ApplySteps
    <3>2. AfterCommit(t) \in ApplySteps
      BY AfterCommitType DEF ApplySteps
    <3>3. \E l \in ApplySteps : Goto(t, l)
      BY <2>3, <3>2 DEF Commit, Push, DropCommit, ApplySteps
    <3>4. QED
      BY <2>1, <3>1, <3>3
  <2>4. CASE ApplyTeams(t) \/ ApplyTrouble(t)
    <3>1. Applying(t) /\ UNCHANGED isApplying
      BY <2>4 DEF ApplyTeams, ApplyTrouble, PauseForUpgrade, RetryApplyAll, StepFails,
                  Applying, ApplySteps
    <3>2. \E l \in ApplySteps : Goto(t, l)
      BY <2>4 DEF ApplyTeams, ApplyTrouble, PauseForUpgrade, RetryApplyAll, StepFails,
                  ApplySteps
    <3>3. QED
      BY <2>1, <3>1, <3>2
  <2>5. CASE Release(t) \/ ReportFailure(t)
    <3>1. Applying(t) /\ Goto(t, "idle") /\ isApplying' = FALSE
      BY <2>5 DEF Release, ReportFailure, ReleasedOnFailure, Applying, ApplySteps
    <3>2. QED
      BY <3>1, LockGivenBack
  <2>6. QED
    BY <1>5, <2>2, <2>3, <2>4, <2>5 DEF ApplyStep
<1>6. CASE Crash \/ Evict
  <2>1. isApplying' = FALSE /\ pc' = [t \in ApplyTrigger |-> "idle"]
    BY <1>6 DEF Crash, Evict, LoseMemory
  <2>2. QED
    BY <2>1, Labels DEF OneApplyAtATime, Applying
<1>7. QED
  BY <1>2, <1>3, <1>4, <1>5, <1>6 DEF Next

\* Only one apply run is under way at a time, and the flag is up exactly while one
\* is: the promise of the apply lock, for any number of restarts and failures.
THEOREM ApplyLock == Spec => []OneApplyAtATime
<1>1. TypeOK /\ OneApplyAtATime /\ [Next]_vars => OneApplyAtATime'
  BY LockNext
<1>2. QED
  BY <1>1, LockInit, TypeCorrect, PTL DEF Spec

-----------------------------------------------------------------------------
(* Action properties.                                                      *)

\* Only a push and a user move the branch.
LEMMA BranchMoves ==
    ASSUME [Next]_vars, ~UserPush, \A t \in ApplyTrigger : ~Push(t)
    PROVE  UNCHANGED remote
  BY DEF Next, Start, ReconcileTick, PollWake, CycleSkipped, PollSync, PullFetch, PullReset,
         CurrentRevision, SkipCheck, DiffCheck, SyncFails, ApplyStep, Prepare, Commit, Pull,
         AbortRebase, DropCommit, ApplyTeams, ApplyApps, Finish, Release, ReportFailure,
         ApplyTrouble, PauseForUpgrade, RetryApplyAll, StepFails, Crash, Evict, vars, repoVars

\* A push the server takes keeps what is on the branch, and so does a user's.
LEMMA BranchGrows ==
    ASSUME TypeOK, [Next]_vars
    PROVE  Work(remote) \subseteq Work(remote')
<1>1. CASE UNCHANGED remote
  BY <1>1
<1>2. ASSUME NEW t \in ApplyTrigger, Push(t)
      PROVE  Work(remote) \subseteq Work(remote')
  <2>1. CASE MayPush
    BY <1>2, <2>1, PrefixKept, KeptWork DEF Push, MayPush, TypeOK
  <2>2. CASE ~MayPush
    BY <1>1, <1>2, <2>2 DEF Push
  <2>3. QED
    BY <2>1, <2>2
<1>3. CASE UserPush
  BY <1>3, UserPushAppends, AppendKept, KeptWork DEF TypeOK
<1>4. QED
  BY <1>1, <1>2, <1>3, BranchMoves

\* No push of the operator, after whatever resets, rebases and conflicts, drops a
\* commit a user pushed: what leaves the clone is a fast-forward or is refused.
THEOREM NothingLost == Spec => UserWorkSurvives
<1>1. TypeOK /\ [Next]_vars => [Work(remote) \subseteq Work(remote')]_vars
  BY BranchGrows
<1>2. QED
  BY <1>1, TypeCorrect, PTL DEF Spec, UserWorkSurvives

\* The comparison of two revisions never calls a change teams-only that brings
\* platform work, whatever histories the two revisions have.
THEOREM TeamsOnlyIsSafe == Spec => NoPlatformChangeMissed
<1> DEFINE Missed == /\ pc["poll"] = "diff" /\ pc'["poll"] = "prepare"
                     /\ applyTeamsOnly'["poll"]
<1>1. ASSUME TypeOK, [Next]_vars, Missed
      PROVE  PlatformWork(newRevision) \subseteq PlatformWork(previousRevision)
  <2>1. /\ pc'["poll"] # pc["poll"] /\ pc["poll"] \in SyncSteps
        /\ pc["poll"] = "diff" /\ pc'["poll"] = "prepare"
    BY <1>1 DEF SyncSteps
  <2>2. ~(PullFetch \/ PullReset \/ CurrentRevision \/ SkipCheck)
    BY <2>1 DEF PullFetch, PullReset, CurrentRevision, SkipCheck
  <2>3. ~(SyncFails \/ Crash \/ Evict)
    BY <1>1, <2>1, Labels DEF SyncFails, Crash, Evict, LoseMemory, Goto, TypeOK
  <2>4. DiffCheck
    BY <1>1, <2>1, <2>2, <2>3, PollMoves DEF PollSync
  <2>5. BeginApply("poll", IsTeamsOnlyChange(previousRevision, newRevision))
    BY <1>1, <2>1, <2>4, Labels DEF DiffCheck, TriggerPoll, Goto, TypeOK
  <2>6. IsTeamsOnlyChange(previousRevision, newRevision)
    BY <1>1, <2>5, Labels DEF BeginApply, TypeOK
  <2>7. QED
    BY <1>1, <2>6, TeamsOnlyKeepsPlatform DEF IsTeamsOnlyChange, TypeOK
<1>2. TypeOK /\ [Next]_vars
        => [Missed => PlatformWork(newRevision) \subseteq PlatformWork(previousRevision)]_vars
  BY <1>1
<1>3. QED
  BY <1>2, TypeCorrect, PTL DEF Spec, NoPlatformChangeMissed

-----------------------------------------------------------------------------
(* What the branch, the clone and the cluster hold of the users' work.     *)

\* The work in what the cluster runs is kept in h.
ClusterKeptIn(h) == \A s \in Scopes : KeptIn(deployed[s], h)

\* A process that runs has a clone with commits in it; without one, no loop is anywhere.
CloneExists ==
    /\ remote # <<>>
    /\ up => head # <<>>
    /\ head # <<>> => tracking # <<>>
    /\ ~up => \A t \in ApplyTrigger : pc[t] = "idle"

\* The clone never gets ahead of origin/<branch> in work, nor that of the branch, and
\* the cluster runs nothing the branch does not have.
BranchHasAll ==
    /\ KeptIn(tracking, remote)
    /\ KeptIn(head, tracking)
    /\ KeptIn(rebaseFrom, tracking)
    /\ ClusterKeptIn(remote)

\* A clone is never behind the cluster ...
CloneHasCluster == head # <<>> => ClusterKeptIn(head)

Conflicted(t) == (pc[t] = "pull" /\ tree = "conflicted") \/ pc[t] = "abort"

\* ... although a conflict takes it to the branch, back to where it was, and one commit
\* further back, with resets by the poll loop at any time.
CleanUpKeepsCluster ==
    /\ tree = "conflicted" => rebaseFrom # <<>>
    /\ \A t \in ApplyTrigger :
        /\ pc[t] = "push" => tree # "conflicted"
        /\ Conflicted(t) => rebaseFrom # <<>> /\ ClusterKeptIn(DroppedHead(rebaseFrom))
        /\ Conflicted(t) \/ pc[t] = "drop" =>
             /\ ClusterKeptIn(DroppedHead(tracking)) /\ ClusterKeptIn(DroppedHead(remote))
             /\ ClusterKeptIn(DroppedHead(head))

DeliveryInv == CloneExists /\ BranchHasAll /\ CloneHasCluster /\ CleanUpKeepsCluster

\* What the cluster runs is kept in whatever keeps a history that has it.
LEMMA ClusterKeptTrans ==
    ASSUME TypeOK, NEW g \in Histories, NEW h \in Histories,
           ClusterKeptIn(g), KeptIn(g, h)
    PROVE  ClusterKeptIn(h)
  BY KeptTrans DEF ClusterKeptIn, TypeOK

\* The steps that touch the clone, the branch or the cluster.
RepoStep(t) ==
    \/ Commit(t) \/ Pull(t) \/ Push(t) \/ AbortRebase(t) \/ DropCommit(t)
    \/ ApplyTeams(t) \/ ApplyApps(t)

LEMMA RepoMoves ==
    ASSUME [Next]_vars
    PROVE  \/ UNCHANGED <<remote, tracking, head, rebaseFrom, deployed>>
           \/ Start \/ PullFetch \/ PullReset \/ UserPush \/ Evict
           \/ \E t \in ApplyTrigger : RepoStep(t)
  BY DEF Next, ReconcileTick, PollWake, CycleSkipped, PollSync, CurrentRevision, SkipCheck,
         DiffCheck, SyncFails, ApplyStep, Prepare, Finish, Release, ReportFailure,
         ApplyTrouble, PauseForUpgrade, RetryApplyAll, StepFails, Crash, vars, repoVars,
         stateVars, RepoStep

\* A run that is under way, or a poll cycle, has a clone.
LEMMA RunHasClone ==
    ASSUME TypeOK, CloneExists, NEW t \in ApplyTrigger, pc[t] # "idle"
    PROVE  up /\ head # <<>> /\ tracking # <<>> /\ remote # <<>>
  BY DEF CloneExists, TypeOK

\* Where a run goes on from a commit is not a step of the clean-up.
CommitSteps == {"pull", "push", "abort", "drop"}

LEMMA CloneInit == Init => CloneExists
  BY SmallHistories DEF Init, CloneExists

LEMMA CloneNext ==
    ASSUME TypeOK, OneApplyAtATime, CloneExists, [Next]_vars
    PROVE  CloneExists'
<1>1. remote' # <<>>
  <2>1. CASE UNCHANGED remote
    BY <2>1 DEF CloneExists
  <2>2. ASSUME NEW t \in ApplyTrigger, Push(t)
        PROVE  remote' # <<>>
    <3>1. head # <<>>
      BY <2>2, RunHasClone DEF Push
    <3>2. QED
      BY <2>2, <3>1 DEF Push, CloneExists
  <2>3. CASE UserPush
    <3>1. PICK c \in Commits : remote' = Append(remote, c)
      BY <2>3, UserPushAppends
    <3>2. QED
      BY <3>1, AppendNonEmpty DEF TypeOK
  <2>4. QED
    BY <2>1, <2>2, <2>3, BranchMoves
<1>2. (up' => head' # <<>>) /\ (head' # <<>> => tracking' # <<>>)
  <2>1. CASE UNCHANGED <<tracking, head>> /\ (up' => up)
    BY <2>1 DEF CloneExists
  <2>2. CASE Start
    BY <2>2 DEF Start, ClonedHead, CloneExists
  <2>3. CASE PullFetch \/ PullReset
    <3>1. up /\ head # <<>> /\ tracking # <<>> /\ remote # <<>>
      BY <2>3, RunHasClone, Labels DEF PullFetch, PullReset
    <3>2. QED
      BY <2>3, <3>1 DEF PullFetch, PullReset, PulledHead
  <2>4. CASE Evict
    BY <2>4 DEF Evict, LoseMemory
  <2>5. ASSUME NEW t \in ApplyTrigger, RepoStep(t)
        PROVE  (up' => head' # <<>>) /\ (head' # <<>> => tracking' # <<>>)
    <3>1. up /\ head # <<>> /\ tracking # <<>> /\ remote # <<>>
      BY <2>5, RunHasClone DEF RepoStep, Commit, Pull, Push, AbortRebase, DropCommit,
                               ApplyTeams, ApplyApps
    <3>2. CASE Push(t) \/ ApplyTeams(t) \/ ApplyApps(t)
      BY <3>1, <3>2 DEF Push, ApplyTeams, ApplyApps, repoVars
    <3>3. CASE Commit(t)
      <4>1. \A scope \in Scopes : Append(head, OperatorCommit(scope)) # <<>>
        BY CommitTypes, AppendNonEmpty DEF TypeOK
      <4>2. QED
        BY <3>1, <3>3, <4>1 DEF Commit
    <3>4. CASE Pull(t)
      <4>1. RebaseOnto(head, remote) # <<>>
        <5>1. /\ Ahead(head, remote) \in Histories /\ remote \in Histories
              /\ Len(remote) \in Nat /\ Len(Ahead(head, remote)) \in Nat
          BY RebaseType, LenProperties DEF TypeOK, Histories
        <5>2. Len(remote) # 0
          BY <3>1, <5>1, EmptySeq DEF Histories
        <5>3. Len(RebaseOnto(head, remote)) = Len(remote) + Len(Ahead(head, remote))
          BY <5>1, ConcatProperties DEF RebaseOnto, Histories
        <5>4. QED
          BY <5>1, <5>2, <5>3
      <4>2. QED
        BY <3>1, <3>4, <4>1 DEF Pull
    <3>5. CASE AbortRebase(t)
      BY <3>1, <3>5 DEF AbortRebase, AbortedHead
    <3>6. CASE DropCommit(t)
      <4>1. DroppedHead(head) # <<>>
        BY <3>1, DroppedKept DEF TypeOK
      <4>2. QED
        BY <3>1, <3>6, <4>1 DEF DropCommit
    <3>7. QED
      BY <2>5, <3>2, <3>3, <3>4, <3>5, <3>6 DEF RepoStep
  <2>6. CASE UserPush
    BY <2>1, <2>6 DEF UserPush
  <2>7. Start \/ (up' => up)
    BY DEF Next, ReconcileTick, PollWake, CycleSkipped, PollSync, PullFetch, PullReset,
           CurrentRevision, SkipCheck, DiffCheck, SyncFails, ApplyStep, Prepare, Commit, Pull,
           Push, AbortRebase, DropCommit, ApplyTeams, ApplyApps, Finish, Release,
           ReportFailure, ApplyTrouble, PauseForUpgrade, RetryApplyAll, StepFails, UserPush,
           Crash, Evict, LoseMemory, vars
  <2>8. QED
    BY <2>1, <2>2, <2>3, <2>4, <2>5, <2>6, <2>7, RepoMoves
<1>3. ~up' => \A t \in ApplyTrigger : pc'[t] = "idle"
  <2>1. CASE Crash \/ Evict
    BY <2>1 DEF Crash, Evict, LoseMemory
  <2>2. CASE UNCHANGED <<pc, up>>
    BY <2>2 DEF CloneExists
  <2>3. CASE Start \/ ReconcileTick \/ PollWake
    BY <2>3 DEF Start, ReconcileTick, PollWake
  <2>4. CASE PollSync \/ SyncFails
    <3>1. up /\ up' = up
      BY <2>4, RunHasClone, Labels
         DEF PollSync, PullFetch, PullReset, CurrentRevision, SkipCheck, DiffCheck,
             SyncFails, SyncSteps
    <3>2. QED
      BY <3>1
  <2>5. ASSUME NEW t \in ApplyTrigger, ApplyStep(t) \/ ApplyTrouble(t)
        PROVE  up'
    BY <2>5, RunSteps, RunHasClone, Labels DEF Applying
  <2>6. QED
    BY <2>1, <2>2, <2>3, <2>4, <2>5 DEF Next, CycleSkipped, UserPush, vars
<1>4. QED
  BY <1>1, <1>2, <1>3 DEF CloneExists

LEMMA BranchNext ==
    ASSUME TypeOK, TypeOK', CloneExists, BranchHasAll, [Next]_vars
    PROVE  BranchHasAll'
<1> USE DEF BranchHasAll
<1>0. /\ remote \in Histories /\ tracking \in Histories /\ head \in Histories
      /\ rebaseFrom \in Histories /\ deployed \in [Scopes -> Histories]
      /\ KeptIn(head, remote) /\ KeptIn(rebaseFrom, remote)
  BY KeptTrans DEF TypeOK
<1>1. CASE UNCHANGED <<remote, tracking, head, rebaseFrom, deployed>>
  BY <1>1 DEF ClusterKeptIn
<1>2. CASE Start
  BY <1>0, <1>2, KeptSelf DEF Start, ClonedHead, ClusterKeptIn, stateVars
<1>3. CASE PullFetch
  BY <1>0, <1>3, KeptSelf DEF PullFetch, ClusterKeptIn, stateVars
<1>4. CASE PullReset
  BY <1>0, <1>4, KeptSelf DEF PullReset, PulledHead, ClusterKeptIn, stateVars
<1>5. CASE UserPush
  <2>1. PICK c \in Commits : remote' = Append(remote, c)
    BY <1>5, UserPushAppends
  <2>2. KeptIn(remote, remote') /\ remote' \in Histories
    BY <1>0, <2>1, AppendKept
  <2>3. KeptIn(tracking, remote') /\ ClusterKeptIn(remote')
    BY <1>0, <2>2, KeptTrans, ClusterKeptTrans
  <2>4. QED
    BY <1>5, <2>3, UserPushAppends DEF ClusterKeptIn
<1>6. CASE Evict
  <2>1. KeptIn(<<>>, remote) /\ KeptIn(<<>>, <<>>)
    BY <1>0, SmallHistories, KeptSelf
  <2>2. QED
    BY <1>0, <1>6, <2>1 DEF Evict, ClusterKeptIn
<1>7. ASSUME NEW t \in ApplyTrigger, Commit(t)
      PROVE  BranchHasAll'
  <2>1. \A scope \in Scopes : KeptIn(Append(head, OperatorCommit(scope)), tracking)
    <3>1. \A scope \in Scopes : OperatorCommit(scope).author = "operator"
      BY DEF OperatorCommit
    <3>2. QED
      BY <1>0, <3>1, CommitTypes, AppendKept
  <2>2. QED
    BY <1>7, <2>1 DEF Commit, ClusterKeptIn, stateVars
<1>8. ASSUME NEW t \in ApplyTrigger, Pull(t)
      PROVE  BranchHasAll'
  <2>1. KeptIn(RebaseOnto(head, remote), remote) /\ KeptIn(remote, remote)
    BY <1>0, RebaseKept, KeptSelf
  <2>2. QED
    BY <1>0, <1>8, <2>1 DEF Pull, ClusterKeptIn, stateVars
<1>9. ASSUME NEW t \in ApplyTrigger, Push(t)
      PROVE  BranchHasAll'
  <2>1. CASE MayPush
    <3>1. KeptIn(remote, head) /\ KeptIn(head, head)
      BY <1>0, <2>1, PrefixKept, KeptSelf DEF MayPush
    <3>2. KeptIn(rebaseFrom, head) /\ ClusterKeptIn(head)
      BY <1>0, <3>1, KeptTrans, ClusterKeptTrans
    <3>3. QED
      BY <1>9, <2>1, <3>1, <3>2 DEF Push, ClusterKeptIn, stateVars
  <2>2. CASE ~MayPush
    BY <1>1, <1>9, <2>2 DEF Push, stateVars
  <2>3. QED
    BY <2>1, <2>2
<1>10. ASSUME NEW t \in ApplyTrigger, AbortRebase(t)
       PROVE  BranchHasAll'
  BY <1>0, <1>10, KeptSelf DEF AbortRebase, AbortedHead, ClusterKeptIn, stateVars
<1>11. ASSUME NEW t \in ApplyTrigger, DropCommit(t)
       PROVE  BranchHasAll'
  <2>1. KeptIn(DroppedHead(head), tracking)
    BY <1>0, DroppedKept, KeptTrans
  <2>2. QED
    BY <1>11, <2>1 DEF DropCommit, ClusterKeptIn, stateVars
<1>12. ASSUME NEW t \in ApplyTrigger, ApplyTeams(t) \/ ApplyApps(t)
       PROVE  BranchHasAll'
  BY <1>0, <1>12 DEF ApplyTeams, ApplyApps, ClusterKeptIn, repoVars
<1>13. QED
  BY <1>1, <1>2, <1>3, <1>4, <1>5, <1>6, <1>7, <1>8, <1>9, <1>10, <1>11, <1>12, RepoMoves
     DEF RepoStep

LEMMA ClusterNext ==
    ASSUME TypeOK, TypeOK', CloneExists, BranchHasAll, CloneHasCluster, CleanUpKeepsCluster,
           [Next]_vars
    PROVE  CloneHasCluster'
<1>0. /\ remote \in Histories /\ tracking \in Histories /\ head \in Histories
      /\ rebaseFrom \in Histories /\ deployed \in [Scopes -> Histories]
      /\ KeptIn(head, remote) /\ ClusterKeptIn(remote)
  BY KeptTrans DEF TypeOK, BranchHasAll
<1>1. CASE UNCHANGED <<head, deployed>>
  BY <1>1 DEF CloneHasCluster, ClusterKeptIn
<1>2. CASE Start
  BY <1>0, <1>2 DEF Start, ClonedHead, CloneHasCluster, ClusterKeptIn, stateVars
<1>3. CASE PullReset
  <2>1. head # <<>>
    BY <1>3, RunHasClone, Labels DEF PullReset
  <2>2. ClusterKeptIn(tracking)
    BY <1>0, <2>1, ClusterKeptTrans DEF BranchHasAll, CloneHasCluster
  <2>3. QED
    BY <1>3, <2>2 DEF PullReset, PulledHead, CloneHasCluster, ClusterKeptIn, stateVars
<1>4. CASE Evict
  BY <1>4 DEF Evict, CloneHasCluster
<1>5. CASE PullFetch \/ UserPush
  BY <1>1, <1>5 DEF PullFetch, UserPush, stateVars
<1>6. ASSUME NEW t \in ApplyTrigger, RepoStep(t)
      PROVE  CloneHasCluster'
  <2>0. head # <<>> /\ ClusterKeptIn(head)
    BY <1>6, RunHasClone DEF RepoStep, Commit, Pull, Push, AbortRebase, DropCommit,
                             ApplyTeams, ApplyApps, CloneHasCluster
  <2>1. CASE Commit(t)
    <3>1. \A scope \in Scopes : ClusterKeptIn(Append(head, OperatorCommit(scope)))
      BY <1>0, <2>0, CommitTypes, AppendKept, ClusterKeptTrans
    <3>2. QED
      BY <1>1, <2>1, <3>1 DEF Commit, CloneHasCluster, ClusterKeptIn, stateVars
  <2>2. CASE Pull(t)
    <3>1. ClusterKeptIn(RebaseOnto(head, remote))
      BY <1>0, RebaseKept, RebaseType, ClusterKeptTrans
    <3>2. QED
      BY <1>0, <1>1, <2>2, <3>1 DEF Pull, CloneHasCluster, ClusterKeptIn, stateVars
  <2>3. CASE Push(t)
    BY <1>1, <2>3 DEF Push, stateVars
  <2>4. CASE AbortRebase(t)
    <3>1. Conflicted(t)
      BY <2>4 DEF AbortRebase, Conflicted
    <3>2. rebaseFrom # <<>> /\ ClusterKeptIn(DroppedHead(rebaseFrom))
      BY <3>1 DEF CleanUpKeepsCluster
    <3>3. ClusterKeptIn(rebaseFrom)
      BY <1>0, <3>2, DroppedKept, ClusterKeptTrans
    <3>4. QED
      BY <2>4, <3>2, <3>3 DEF AbortRebase, AbortedHead, CloneHasCluster, ClusterKeptIn,
                              stateVars
  <2>5. CASE DropCommit(t)
    BY <2>5 DEF DropCommit, CleanUpKeepsCluster, CloneHasCluster, ClusterKeptIn, stateVars
  <2>6. CASE ApplyTeams(t) \/ ApplyApps(t)
    BY <1>0, <2>0, <2>6, KeptSelf
       DEF ApplyTeams, ApplyApps, CloneHasCluster, ClusterKeptIn, repoVars
  <2>7. QED
    BY <1>6, <2>1, <2>2, <2>3, <2>4, <2>5, <2>6 DEF RepoStep
<1>7. QED
  BY <1>1, <1>2, <1>3, <1>4, <1>5, <1>6, RepoMoves

\* Only the run that is under way is in the middle of a commit.
LEMMA OthersAreNotCommitting ==
    ASSUME OneApplyAtATime, NEW t \in ApplyTrigger, Applying(t)
    PROVE  \A u \in ApplyTrigger \ {t} : pc[u] \notin CommitSteps
  BY Labels DEF OneApplyAtATime, Applying, CommitSteps, ApplySteps

\* A clean-up is not disturbed by steps elsewhere.
LEMMA CleanUpUntouched ==
    ASSUME CleanUpKeepsCluster,
           UNCHANGED <<remote, tracking, head, rebaseFrom, deployed>>,
           tree' = "conflicted" => tree = "conflicted",
           \A t \in ApplyTrigger : pc'[t] \in CommitSteps => pc'[t] = pc[t]
    PROVE  CleanUpKeepsCluster'
<1>1. \A t \in ApplyTrigger :
        /\ pc'[t] = "push" => pc[t] = "push"
        /\ Conflicted(t)' => Conflicted(t)
        /\ pc'[t] = "drop" => pc[t] = "drop"
  BY DEF Conflicted, CommitSteps
<1>2. QED
  BY <1>1 DEF CleanUpKeepsCluster, ClusterKeptIn

\* Nor is there one where no run is in the middle of a commit.
LEMMA NoCleanUp ==
    ASSUME tree' = "conflicted" => rebaseFrom' # <<>>,
           \A t \in ApplyTrigger : pc'[t] \notin CommitSteps
    PROVE  CleanUpKeepsCluster'
  BY DEF CleanUpKeepsCluster, Conflicted, CommitSteps

\* The steps outside of a run, and those of a run that are not part of a commit.
LEMMA CleanUpElsewhere ==
    ASSUME TypeOK, TypeOK', OneApplyAtATime, CloneExists, BranchHasAll, CloneHasCluster,
           CleanUpKeepsCluster,
           Start \/ ReconcileTick \/ PollWake \/ CycleSkipped \/ PollSync \/ SyncFails
             \/ UserPush \/ Crash \/ Evict \/ UNCHANGED vars
    PROVE  CleanUpKeepsCluster'
<1>0. /\ remote \in Histories /\ tracking \in Histories /\ head \in Histories
      /\ rebaseFrom \in Histories /\ deployed \in [Scopes -> Histories]
  BY DEF TypeOK
<1>1. CASE CycleSkipped \/ UNCHANGED vars
  BY <1>1, CleanUpUntouched DEF CycleSkipped, vars, repoVars, stateVars
<1>2. CASE Start
  <2>1. \A t \in ApplyTrigger : pc'[t] \notin CommitSteps
    BY <1>2 DEF Start, CloneExists, CommitSteps
  <2>2. QED
    BY <1>2, <2>1, NoCleanUp DEF Start, CleanUpKeepsCluster
<1>3. CASE Crash \/ Evict
  <2>1. \A t \in ApplyTrigger : pc'[t] \notin CommitSteps
    BY <1>3 DEF Crash, Evict, LoseMemory, CommitSteps
  <2>2. tree' = "conflicted" => rebaseFrom' # <<>>
    BY <1>3 DEF Crash, Evict, CleanUpKeepsCluster, repoVars
  <2>3. QED
    BY <2>1, <2>2, NoCleanUp
<1>4. ASSUME NEW l, Goto("poll", l), l \notin CommitSteps
      PROVE  \A t \in ApplyTrigger : pc'[t] \in CommitSteps => pc'[t] = pc[t]
  BY <1>4, Labels DEF Goto, TypeOK
<1>5. ASSUME NEW t \in ApplyTrigger, NEW teamsOnly, BeginApply(t, teamsOnly)
      PROVE  \A u \in ApplyTrigger : pc'[u] \in CommitSteps => pc'[u] = pc[u]
  BY <1>5 DEF BeginApply, Goto, TypeOK, CommitSteps
<1>6. CASE ReconcileTick
  BY <1>5, <1>6, CleanUpUntouched, Labels DEF ReconcileTick, repoVars
<1>7. ASSUME NEW teamsOnly, TriggerPoll(teamsOnly)
      PROVE  \A t \in ApplyTrigger : pc'[t] \in CommitSteps => pc'[t] = pc[t]
  BY <1>4, <1>5, <1>7, Labels DEF TriggerPoll, CommitSteps
<1>8. CASE PollWake \/ SyncFails
  <2>1. \A t \in ApplyTrigger : pc'[t] \in CommitSteps => pc'[t] = pc[t]
    BY <1>4, <1>8 DEF PollWake, SyncFails, CommitSteps
  <2>2. QED
    BY <1>8, <2>1, CleanUpUntouched DEF PollWake, SyncFails, repoVars, stateVars
<1>9. CASE CurrentRevision \/ SkipCheck \/ DiffCheck
  <2>1. UNCHANGED <<repoVars, deployed>>
    BY <1>9 DEF CurrentRevision, SkipCheck, DiffCheck
  <2>2. \/ \E teamsOnly : TriggerPoll(teamsOnly)
        \/ \E l \in {"idle", "log", "diff"} : Goto("poll", l)
    BY <1>9 DEF CurrentRevision, SkipCheck, DiffCheck, EndCycle
  <2>3. \A t \in ApplyTrigger : pc'[t] \in CommitSteps => pc'[t] = pc[t]
    BY <1>4, <1>7, <2>2 DEF CommitSteps
  <2>4. QED
    BY <2>1, <2>3, CleanUpUntouched DEF repoVars
<1>10. CASE PullFetch
  <2>1. \A t \in ApplyTrigger : pc'[t] \in CommitSteps => pc'[t] = pc[t]
    BY <1>4, <1>10 DEF PullFetch, CommitSteps
  <2>2. QED
    BY <1>10, <2>1 DEF PullFetch, CleanUpKeepsCluster, Conflicted, ClusterKeptIn, CommitSteps,
                       stateVars
<1>11. CASE PullReset
  <2>1. \A t \in ApplyTrigger : pc'[t] \in CommitSteps => pc'[t] = pc[t]
    BY <1>4, <1>11 DEF PullReset, CommitSteps
  <2>2. tree' # "conflicted" /\ head' = tracking
    BY <1>11 DEF PullReset, PulledHead, TreeAfterReset
  <2>3. QED
    BY <1>11, <2>1, <2>2 DEF PullReset, CleanUpKeepsCluster, Conflicted, ClusterKeptIn,
                             CommitSteps, stateVars
<1>12. CASE UserPush
  <2>1. PICK c \in Commits : remote' = Append(remote, c)
    BY <1>12, UserPushAppends
  <2>2. ClusterKeptIn(DroppedHead(remote'))
    BY <1>0, <2>1, AppendDropped DEF BranchHasAll, ClusterKeptIn
  <2>3. QED
    BY <1>12, <2>2, UserPushAppends DEF CleanUpKeepsCluster, Conflicted, ClusterKeptIn
<1>13. QED
  BY <1>1, <1>2, <1>3, <1>6, <1>8, <1>9, <1>10, <1>11, <1>12 DEF PollSync

\* The steps of a run.
LEMMA CleanUpInRun ==
    ASSUME TypeOK, TypeOK', OneApplyAtATime, CloneExists, BranchHasAll, CloneHasCluster,
           CleanUpKeepsCluster,
           NEW t \in ApplyTrigger, ApplyStep(t) \/ ApplyTrouble(t)
    PROVE  CleanUpKeepsCluster'
<1>0. /\ remote \in Histories /\ tracking \in Histories /\ head \in Histories
      /\ rebaseFrom \in Histories /\ deployed \in [Scopes -> Histories]
  BY DEF TypeOK
<1>1. Applying(t)
  BY RunSteps
<1>2. \A u \in ApplyTrigger \ {t} : pc[u] \notin CommitSteps
  BY <1>1, OthersAreNotCommitting
<1>3. ASSUME NEW l, Goto(t, l)
      PROVE  pc'[t] = l /\ \A u \in ApplyTrigger \ {t} : pc'[u] \notin CommitSteps
  BY <1>2, <1>3 DEF Goto, TypeOK
<1>4. AfterCommit(t) \notin CommitSteps
  BY AfterCommitType DEF CommitSteps
<1>5. ASSUME NEW l, Goto(t, l), l \notin CommitSteps, tree' = tree \/ tree' # "conflicted",
             rebaseFrom' = rebaseFrom
      PROVE  CleanUpKeepsCluster'
  BY <1>3, <1>5, NoCleanUp DEF CleanUpKeepsCluster
<1>6. CASE Prepare(t) \/ ApplyTeams(t) \/ ApplyApps(t) \/ Finish(t) \/ Release(t)
           \/ ReportFailure(t) \/ ApplyTrouble(t)
  <2>1. \E l \in {"commit", "done", "apps", "tail", "idle", "teams", "failed"} : Goto(t, l)
    <3>1. CASE Prepare(t) \/ ApplyApps(t) \/ Finish(t) \/ Release(t) \/ ReportFailure(t)
      BY <3>1 DEF Prepare, ApplyApps, Finish, Release, ReportFailure
    <3>2. CASE ApplyTeams(t) \/ ApplyTrouble(t)
      BY <3>2 DEF ApplyTeams, ApplyTrouble, PauseForUpgrade, RetryApplyAll, StepFails
    <3>3. QED
      BY <1>6, <3>1, <3>2
  <2>2. (tree' = tree \/ tree' # "conflicted") /\ rebaseFrom' = rebaseFrom
    BY <1>6 DEF Prepare, ApplyTeams, ApplyApps, Finish, Release, ReportFailure, ApplyTrouble,
                PauseForUpgrade, RetryApplyAll, StepFails, repoVars
  <2>3. QED
    BY <1>5, <2>1, <2>2 DEF CommitSteps
<1>7. CASE Commit(t)
  <2>1. CASE Goto(t, "pull") /\ tree' = "clean"
    BY <1>3, <2>1 DEF CleanUpKeepsCluster, Conflicted, CommitSteps
  <2>2. CASE Goto(t, AfterCommit(t)) /\ UNCHANGED <<head, tree>>
    BY <1>4, <1>5, <1>7, <2>2 DEF Commit
  <2>3. QED
    BY <1>7, <2>1, <2>2 DEF Commit
<1>8. CASE Pull(t)
  <2>1. CASE /\ tree = "conflicted"
             /\ Goto(t, "abort")
             /\ UNCHANGED <<tracking, head, tree, rebaseFrom>>
    <3>1. Conflicted(t)
      BY <1>8, <2>1 DEF Pull, Conflicted
    <3>2. pc'[t] = "abort" /\ UNCHANGED <<remote, deployed>>
      BY <1>3, <1>8, <2>1 DEF Pull, stateVars
    <3>3. QED
      BY <1>3, <2>1, <3>1, <3>2 DEF CleanUpKeepsCluster, Conflicted, ClusterKeptIn, CommitSteps
  <2>2. CASE Goto(t, "failed") /\ UNCHANGED <<tracking, head, tree, rebaseFrom>>
    BY <1>5, <2>2 DEF CommitSteps
  <2>3. CASE /\ tree # "conflicted"
             /\ Goto(t, "push")
             /\ UNCHANGED <<tree, rebaseFrom>>
    BY <1>3, <2>3 DEF CleanUpKeepsCluster, Conflicted, CommitSteps
  <2>4. CASE /\ tracking' = remote
             /\ Diverged(head, remote)
             /\ rebaseFrom' = head
             /\ head' = remote
             /\ tree' = "conflicted"
             /\ UNCHANGED pc
    <3>1. head # <<>> /\ ClusterKeptIn(head) /\ KeptIn(head, remote)
      BY <1>0, <1>8, RunHasClone, KeptTrans DEF Pull, CloneHasCluster, BranchHasAll
    <3>2. KeptIn(head, DroppedHead(head)) /\ KeptIn(head, DroppedHead(remote))
      BY <1>0, <2>4, <3>1, DivergedDropped
    <3>3. ClusterKeptIn(DroppedHead(head)) /\ ClusterKeptIn(DroppedHead(remote))
      BY <1>0, <3>1, <3>2, DroppedKept, ClusterKeptTrans
    <3>4. pc[t] = "pull" /\ UNCHANGED <<remote, deployed>>
      BY <1>8 DEF Pull, stateVars
    <3>5. QED
      BY <1>2, <2>4, <3>1, <3>3, <3>4
         DEF CleanUpKeepsCluster, Conflicted, ClusterKeptIn, CommitSteps
  <2>5. QED
    BY <1>8, <2>1, <2>2, <2>3, <2>4 DEF Pull
<1>9. CASE Push(t)
  <2>1. tree # "conflicted" /\ UNCHANGED <<tree, rebaseFrom>>
    BY <1>9 DEF Push, CleanUpKeepsCluster
  <2>2. CASE Goto(t, AfterCommit(t))
    BY <1>4, <1>5, <2>1, <2>2
  <2>3. CASE Goto(t, "pull")
    BY <1>3, <2>1, <2>3 DEF CleanUpKeepsCluster, Conflicted, CommitSteps
  <2>4. QED
    BY <1>9, <2>2, <2>3 DEF Push
<1>10. CASE AbortRebase(t)
  <2>1. Conflicted(t)
    BY <1>10 DEF AbortRebase, Conflicted
  <2>2. /\ rebaseFrom # <<>> /\ ClusterKeptIn(DroppedHead(rebaseFrom))
        /\ ClusterKeptIn(DroppedHead(tracking)) /\ ClusterKeptIn(DroppedHead(remote))
        /\ ClusterKeptIn(DroppedHead(head))
    BY <2>1 DEF CleanUpKeepsCluster
  <2>3. /\ \/ head' = rebaseFrom /\ tree' = "clean"
           \/ UNCHANGED <<head, rebaseFrom>>
        /\ pc'[t] = "drop" /\ UNCHANGED <<remote, tracking, deployed>>
    BY <1>3, <1>10, <2>2 DEF AbortRebase, AbortedHead, stateVars
  <2>4. \A u \in ApplyTrigger \ {t} : pc'[u] \notin CommitSteps
    BY <1>3, <1>10 DEF AbortRebase
  <2>5. tree' = "conflicted" => rebaseFrom' # <<>>
    BY <1>10, <2>2 DEF AbortRebase
  <2>6. QED
    BY <2>2, <2>3, <2>4, <2>5 DEF CleanUpKeepsCluster, Conflicted, ClusterKeptIn, CommitSteps
<1>11. CASE DropCommit(t)
  <2>1. tree' = tree \/ tree' # "conflicted"
    BY <1>11 DEF DropCommit, TreeAfterReset
  <2>2. QED
    BY <1>4, <1>5, <1>11, <2>1 DEF DropCommit
<1>12. QED
  BY <1>6, <1>7, <1>8, <1>9, <1>10, <1>11 DEF ApplyStep

LEMMA DeliveryInit == Init => DeliveryInv
<1>1. <<>> \in Histories /\ <<InstallCommit>> \in Histories
  BY SmallHistories, CommitTypes
<1>2. KeptIn(<<>>, <<>>) /\ KeptIn(<<>>, <<InstallCommit>>)
  BY <1>1, KeptSelf
<1>3. Init => BranchHasAll
  BY <1>2 DEF Init, BranchHasAll, ClusterKeptIn
<1>4. Init => CloneHasCluster /\ CleanUpKeepsCluster
  BY DEF Init, CloneHasCluster, CleanUpKeepsCluster, Conflicted
<1>5. QED
  BY <1>3, <1>4, CloneInit DEF DeliveryInv

LEMMA DeliveryNext ==
    ASSUME TypeOK, TypeOK', OneApplyAtATime, DeliveryInv, [Next]_vars
    PROVE  DeliveryInv'
<1>1. CloneExists /\ BranchHasAll /\ CloneHasCluster /\ CleanUpKeepsCluster
  BY DEF DeliveryInv
<1>2. CloneExists' /\ BranchHasAll' /\ CloneHasCluster'
  BY <1>1, CloneNext, BranchNext, ClusterNext
<1>3. CleanUpKeepsCluster'
  BY <1>1, CleanUpElsewhere, CleanUpInRun DEF Next
<1>4. QED
  BY <1>2, <1>3 DEF DeliveryInv

\* Between the branch, the clone and the cluster no work of the users' is ever missing
\* where the next step needs it, whatever conflicts, resets, restarts and evictions
\* there are: the inductive invariant of delivery.
THEOREM DeliveryInvariant == Spec => []DeliveryInv
<1>1. TypeOK /\ TypeOK' /\ OneApplyAtATime /\ DeliveryInv /\ [Next]_vars => DeliveryInv'
  BY DeliveryNext
<1>2. QED
  BY <1>1, DeliveryInit, TypeCorrect, ApplyLock, PTL DEF Spec

\* What a step may do to the cluster: hand the clone's HEAD to a part of it, in a run.
LEMMA ClusterMoves ==
    ASSUME TypeOK, [Next]_vars
    PROVE  \/ UNCHANGED deployed
           \/ \E t \in ApplyTrigger, s \in Scopes :
                /\ Applying(t) /\ Applying(t)'
                /\ UNCHANGED remote
                /\ deployed' = [deployed EXCEPT ![s] = head]
<1>1. CASE \A t \in ApplyTrigger : ~ApplyTeams(t) /\ ~ApplyApps(t)
  BY <1>1 DEF Next, Start, ReconcileTick, PollWake, CycleSkipped, PollSync, PullFetch,
         PullReset, CurrentRevision, SkipCheck, DiffCheck, SyncFails, ApplyStep, Prepare,
         Commit, Pull, Push, AbortRebase, DropCommit, Finish, Release, ReportFailure,
         ApplyTrouble, PauseForUpgrade, RetryApplyAll, StepFails, UserPush, Crash, Evict,
         vars, stateVars
<1>2. ASSUME NEW t \in ApplyTrigger, ApplyTeams(t) \/ ApplyApps(t), deployed' # deployed
      PROVE  \E s \in Scopes : deployed' = [deployed EXCEPT ![s] = head]
  BY <1>2 DEF ApplyTeams, ApplyApps, Scopes
<1>3. ASSUME NEW t \in ApplyTrigger, ApplyTeams(t) \/ ApplyApps(t)
      PROVE  UNCHANGED remote /\ Applying(t) /\ Applying(t)'
  BY <1>3 DEF ApplyTeams, ApplyApps, Goto, Applying, ApplySteps, TypeOK, repoVars
<1>4. QED
  BY <1>1, <1>2, <1>3

\* What the cluster has been handed grows, and stays within the branch.
LEMMA DeliveryGrows ==
    ASSUME TypeOK, TypeOK', DeliveryInv, [Next]_vars, NEW s \in Scopes
    PROVE  Work(deployed[s]) \subseteq Work(deployed'[s])
<1>0. /\ head \in Histories /\ remote \in Histories /\ deployed \in [Scopes -> Histories]
      /\ deployed' \in [Scopes -> Histories]
  BY DEF TypeOK
<1>1. ASSUME NEW t \in ApplyTrigger, NEW p \in Scopes, Applying(t),
             deployed' = [deployed EXCEPT ![p] = head]
      PROVE  Work(deployed[s]) \subseteq Work(deployed'[s])
  <2>1. head # <<>>
    <3>1. pc[t] # "idle"
      BY <1>1, Labels DEF Applying
    <3>2. QED
      BY <3>1, RunHasClone DEF DeliveryInv
  <2>2. KeptIn(deployed[s], head)
    BY <2>1 DEF DeliveryInv, CloneHasCluster, ClusterKeptIn
  <2>3. Work(deployed[s]) \subseteq Work(head)
    BY <1>0, <2>2, KeptWork
  <2>4. deployed'[s] = head \/ deployed'[s] = deployed[s]
    BY <1>0, <1>1
  <2>5. QED
    BY <2>3, <2>4
<1>2. QED
  BY <1>1, ClusterMoves

\* The cluster is never taken back to values older than those it runs, whatever the
\* two loops do to the clone, conflicts, failures and restarts included.
THEOREM NothingRolledBack == Spec => NoRollback
<1>1. TypeOK /\ TypeOK' /\ DeliveryInv /\ [Next]_vars
        => [\A s \in Scopes : Work(deployed[s]) \subseteq Work(deployed'[s])]_vars
  BY DeliveryGrows
<1>2. QED
  BY <1>1, TypeCorrect, DeliveryInvariant, PTL DEF Spec, NoRollback

-----------------------------------------------------------------------------
(* The refinement of PlatformDelivery.                                     *)

\* No run begins while the flag is up.
LEMMA NoSecondRun ==
    ASSUME TypeOK, isApplying, [Next]_vars, NEW u \in ApplyTrigger, ~Applying(u)
    PROVE  ~Applying(u)'
<1>1. CASE Start \/ CycleSkipped \/ UserPush \/ UNCHANGED vars
  BY <1>1 DEF Start, CycleSkipped, UserPush, vars, Applying
<1>2. \A t : \A teamsOnly : ~BeginApply(t, teamsOnly)
  BY DEF BeginApply, MayApply
<1>3. ~ReconcileTick
  BY <1>2 DEF ReconcileTick
<1>4. CASE PollWake \/ PollSync \/ SyncFails
  <2>1. \E l \in {"idle"} \cup SyncSteps : Goto("poll", l)
    <3>1. CASE PollWake \/ PullFetch \/ PullReset \/ SkipCheck \/ SyncFails
      BY <3>1 DEF PollWake, PullFetch, PullReset, SkipCheck, EndCycle, SyncFails, SyncSteps
    <3>2. CASE CurrentRevision \/ DiffCheck
      BY <1>2, <3>2 DEF CurrentRevision, DiffCheck, EndCycle, TriggerPoll, SyncSteps
    <3>3. QED
      BY <1>4, <3>1, <3>2 DEF PollSync
  <2>2. PICK l \in {"idle"} \cup SyncSteps : Goto("poll", l)
    BY <2>1
  <2>3. l \notin ApplySteps
    BY Labels
  <2>4. QED
    BY <2>2, <2>3 DEF Goto, Applying, TypeOK
<1>5. ASSUME NEW t \in ApplyTrigger, ApplyStep(t) \/ ApplyTrouble(t)
      PROVE  ~Applying(u)'
  <2>1. /\ t # u
        /\ UNCHANGED pc \/ \E l : Goto(t, l)
    BY <1>5, RunSteps
  <2>2. QED
    BY <2>1 DEF Goto, Applying, TypeOK
<1>6. CASE Crash \/ Evict
  BY <1>6, Labels DEF Crash, Evict, LoseMemory, Applying
<1>7. QED
  BY <1>1, <1>3, <1>4, <1>5, <1>6 DEF Next

\* Who delivers is the loop whose run is under way.
LEMMA BusyIs ==
    /\ \A t \in ApplyTrigger : OneApplyAtATime /\ Applying(t) => Busy = t
    /\ (\A t \in ApplyTrigger : ~Applying(t)) => Busy = "nobody"
    /\ \A t \in ApplyTrigger : OneApplyAtATime' /\ Applying(t)' => Busy' = t
    /\ (\A t \in ApplyTrigger : ~Applying(t)') => Busy' = "nobody"
<1>1. ASSUME NEW t \in ApplyTrigger, OneApplyAtATime, Applying(t)
      PROVE  Busy = t
  <2>1. \A u \in ApplyTrigger : Applying(u) <=> u = t
    BY <1>1, Labels DEF OneApplyAtATime
  <2>2. (CHOOSE u \in ApplyTrigger : Applying(u)) = t
    BY <2>1
  <2>3. QED
    BY <1>1, <2>2 DEF Busy
<1>2. ASSUME NEW t \in ApplyTrigger, OneApplyAtATime', Applying(t)'
      PROVE  Busy' = t
  <2>1. \A u \in ApplyTrigger : Applying(u)' <=> u = t
    BY <1>2, Labels DEF OneApplyAtATime
  <2>2. (CHOOSE u \in ApplyTrigger : Applying(u)') = t
    BY <2>1
  <2>3. QED
    BY <1>2, <2>2 DEF Busy
<1>3. QED
  BY <1>1, <1>2 DEF Busy

\* The initial states are initial states of PlatformDelivery.
LEMMA RefinesInit == Init => Delivery!Init
<1>1. ASSUME Init
      PROVE  Delivery!Init
  <2>1. Work(<<>>) = {} /\ Work(<<InstallCommit>>) = {InstallCommit}
    <3>1. ToSet(<<>>) = {}
      BY DEF ToSet
    <3>2. ToSet(<<InstallCommit>>) = {InstallCommit}
      BY DEF ToSet
    <3>3. InstallCommit.author # "operator"
      BY DEF InstallCommit
    <3>4. QED
      BY <3>1, <3>2, <3>3 DEF Work
  <2>2. [s \in Scopes |-> Work(deployed[s])] = [s \in Scopes |-> {}]
    BY <1>1, <2>1 DEF Init
  <2>3. Busy = "nobody"
    <3>1. \A t \in ApplyTrigger : ~Applying(t)
      BY <1>1, Labels DEF Init, Applying
    <3>2. QED
      BY <3>1, BusyIs
  <2>4. QED
    BY <1>1, <2>1, <2>2, <2>3 DEF Delivery!Init, Init
<1>2. QED
  BY <1>1

\* Every step is one of PlatformDelivery or changes nothing it speaks of.
LEMMA RefinesNext ==
    ASSUME TypeOK, TypeOK', OneApplyAtATime, OneApplyAtATime', DeliveryInv, [Next]_vars
    PROVE  [Delivery!Next]_(Delivery!vars)
<1> DEFINE platform == [s \in Scopes |-> Work(deployed[s])]
<1>0. /\ head \in Histories /\ remote \in Histories /\ deployed \in [Scopes -> Histories]
      /\ tracking \in Histories /\ remote' \in Histories
      /\ deployed' \in [Scopes -> Histories]
  BY DEF TypeOK
<1>1. CASE UNCHANGED <<remote, deployed>>
  <2>1. UNCHANGED <<Work(remote), platform>>
    BY <1>1
  <2>2. CASE \E t \in ApplyTrigger : Applying(t)
    <3>1. PICK t \in ApplyTrigger : Applying(t)
      BY <2>2
    <3>2. Busy = t /\ Busy # "nobody"
      BY <3>1, BusyIs DEF ApplyTrigger
    <3>3. \A u \in ApplyTrigger \ {t} : ~Applying(u)'
      <4>1. isApplying
        BY <3>1 DEF OneApplyAtATime
      <4>2. \A u \in ApplyTrigger \ {t} : ~Applying(u)
        BY <3>1, Labels DEF OneApplyAtATime
      <4>3. QED
        BY <4>1, <4>2, NoSecondRun
    <3>4. Busy' = t \/ Busy' = "nobody"
      BY <3>3, BusyIs
    <3>5. QED
      BY <2>1, <3>2, <3>4 DEF Delivery!Next, Delivery!End, Delivery!vars
  <2>3. CASE \A t \in ApplyTrigger : ~Applying(t)
    <3>1. Busy = "nobody"
      BY <2>3, BusyIs
    <3>2. Busy' \in ApplyTrigger \/ Busy' = "nobody"
      BY BusyIs
    <3>3. QED
      BY <2>1, <3>1, <3>2 DEF Delivery!Next, Delivery!Begin, Delivery!vars
  <2>4. QED
    BY <2>2, <2>3
<1>2. ASSUME NEW t \in ApplyTrigger, NEW s \in Scopes, Applying(t), Applying(t)',
             UNCHANGED remote, deployed' = [deployed EXCEPT ![s] = head]
      PROVE  [Delivery!Next]_(Delivery!vars)
  <2>1. Busy = t /\ Busy' = t /\ Busy # "nobody"
    BY <1>2, BusyIs DEF ApplyTrigger
  <2>2. platform' = [platform EXCEPT ![s] = platform'[s]]
    BY <1>0, <1>2
  <2>3. platform[s] \subseteq platform'[s]
    BY DeliveryGrows
  <2>4. platform'[s] \subseteq Work(remote)
    <3>1. KeptIn(head, remote)
      BY <1>0, KeptTrans DEF DeliveryInv, BranchHasAll
    <3>2. Work(head) \subseteq Work(remote)
      BY <1>0, <3>1, KeptWork
    <3>3. platform'[s] = Work(head)
      BY <1>0, <1>2
    <3>4. QED
      BY <3>2, <3>3
  <2>5. Delivery!Deliver(s)
    BY <1>2, <2>1, <2>2, <2>3, <2>4 DEF Delivery!Deliver
  <2>6. QED
    BY <2>5 DEF Delivery!Next
<1>3. CASE remote' # remote /\ UNCHANGED deployed
  <2>1. Work(remote) \subseteq Work(remote')
    BY BranchGrows
  <2>2. UNCHANGED platform
    BY <1>3
  <2>3. Busy' = Busy
    <3>1. CASE UserPush
      BY <3>1 DEF UserPush, Busy, Applying
    <3>2. ASSUME NEW t \in ApplyTrigger, Push(t)
          PROVE  Busy' = Busy
      <4>1. Applying(t) /\ Applying(t)'
        BY <3>2, AfterCommitType DEF Push, Goto, Applying, ApplySteps, TypeOK
      <4>2. QED
        BY <4>1, BusyIs
    <3>3. QED
      BY <1>3, <3>1, <3>2, BranchMoves
  <2>4. QED
    BY <2>1, <2>2, <2>3 DEF Delivery!Next, Delivery!Push
<1>4. QED
  BY <1>1, <1>2, <1>3, ClusterMoves

\* The operator implements the promise of PlatformDelivery: every step of the two loops,
\* of the users and of the faults is a push, the beginning or the end of a delivery, a
\* part of the platform moving on to more of the branch, or nothing at all.
THEOREM DeliveryImplemented == Spec => ImplementsDelivery
<1>1. TypeOK /\ TypeOK' /\ OneApplyAtATime /\ OneApplyAtATime' /\ DeliveryInv /\ [Next]_vars
        => [Delivery!Next]_(Delivery!vars)
  BY RefinesNext
<1>2. QED
  BY <1>1, RefinesInit, TypeCorrect, ApplyLock, DeliveryInvariant, PTL
     DEF Spec, ImplementsDelivery, Delivery!Spec

-----------------------------------------------------------------------------
(* What the poll loop and a run remember, while rebases do not conflict.   *)
(* A conflict breaks both properties of this section: the clean-up takes   *)
(* the clone back behind revisions that were read from it.                 *)

\* No rebase has conflicted.
NoConflict ==
    /\ tree # "conflicted" /\ rebaseFrom = <<>>
    /\ \A t \in ApplyTrigger : pc[t] \notin {"abort", "drop"}

\* The revisions a cycle or a run has read are still in the clone.
RevisionsKept ==
    /\ KeptIn(lastRevision, head)
    /\ KeptIn(previousRevision, head)
    /\ KeptIn(newRevision, head)
    /\ pc["poll"] \in {"log", "diff"} => KeptIn(previousRevision, newRevision)
    /\ \A t \in ApplyTrigger : KeptIn(commitHash[t], head)

LEMMA NoConflictNext ==
    ASSUME "conflict" \notin Faults, TypeOK, NoConflict, [Next]_vars
    PROVE  NoConflict'
<1>1. CASE Start \/ ReconcileTick \/ PollWake \/ CycleSkipped \/ PollSync \/ SyncFails
            \/ UserPush \/ Crash \/ Evict \/ UNCHANGED vars
  <2>1. tree' # "conflicted" /\ rebaseFrom' = <<>>
    BY <1>1 DEF NoConflict, Start, ReconcileTick, PollWake, CycleSkipped, PollSync, PullFetch,
                PullReset, TreeAfterReset, CurrentRevision, SkipCheck, DiffCheck, SyncFails,
                UserPush, Crash, Evict, vars, repoVars
  <2>2. CASE Crash \/ Evict
    BY <2>1, <2>2 DEF NoConflict, Crash, Evict, LoseMemory
  <2>3. CASE UNCHANGED pc
    BY <2>1, <2>3 DEF NoConflict
  <2>4. CASE \E t \in ApplyTrigger : \E l \in {"idle", "prepare"} \cup SyncSteps : Goto(t, l)
    BY <2>1, <2>4 DEF NoConflict, Goto, SyncSteps, TypeOK
  <2>5. \A t : \A teamsOnly : BeginApply(t, teamsOnly) => Goto(t, "prepare")
    BY DEF BeginApply
  <2>6. \A teamsOnly : TriggerPoll(teamsOnly) => Goto("poll", "prepare") \/ Goto("poll", "idle")
    BY <2>5 DEF TriggerPoll
  <2>7. CASE ReconcileTick
    BY <2>4, <2>5, <2>7, Labels DEF ReconcileTick
  <2>8. CASE PollWake \/ PollSync \/ SyncFails
    <3>1. \E l \in {"idle", "prepare"} \cup SyncSteps : Goto("poll", l)
      <4>1. CASE PollWake \/ PullFetch \/ PullReset \/ SkipCheck \/ SyncFails
        BY <4>1 DEF PollWake, PullFetch, PullReset, SkipCheck, EndCycle, SyncFails, SyncSteps
      <4>2. CASE CurrentRevision \/ DiffCheck
        BY <2>6, <4>2 DEF CurrentRevision, DiffCheck, EndCycle, SyncSteps
      <4>3. QED
        BY <2>8, <4>1, <4>2 DEF PollSync
    <3>2. QED
      BY <2>4, <3>1, Labels
  <2>9. QED
    BY <1>1, <2>2, <2>3, <2>7, <2>8 DEF Start, CycleSkipped, UserPush, vars
<1>2. ASSUME NEW t \in ApplyTrigger, ApplyStep(t) \/ ApplyTrouble(t)
      PROVE  NoConflict'
  <2>1. pc[t] \notin {"abort", "drop"}
    BY DEF NoConflict
  <2>2. ~AbortRebase(t) /\ ~DropCommit(t)
    BY <2>1 DEF AbortRebase, DropCommit
  <2>3. CASE UNCHANGED <<tree, rebaseFrom>> /\ \E l : Goto(t, l) /\ l \notin {"abort", "drop"}
    BY <2>3 DEF NoConflict, Goto, TypeOK
  <2>4. CASE Prepare(t) \/ Commit(t)
    <3>1. tree' # "conflicted" /\ rebaseFrom' = <<>>
      BY <2>4 DEF NoConflict, Prepare, Commit
    <3>2. \E l \in {"commit", "teams", "done", "pull"} : Goto(t, l)
      BY <2>4, AfterCommitType DEF Prepare, Commit
    <3>3. QED
      BY <3>1, <3>2 DEF NoConflict, Goto, TypeOK
  <2>5. CASE Pull(t)
    BY <2>3, <2>5 DEF Pull, NoConflict
  <2>6. CASE Push(t)
    BY <2>3, <2>6, AfterCommitType DEF Push
  <2>7. CASE ApplyTeams(t) \/ ApplyApps(t) \/ Finish(t) \/ Release(t) \/ ReportFailure(t)
              \/ ApplyTrouble(t)
    <3>1. UNCHANGED <<tree, rebaseFrom>>
      BY <2>7 DEF ApplyTeams, ApplyApps, Finish, Release, ReportFailure, ApplyTrouble,
                  PauseForUpgrade, RetryApplyAll, StepFails, repoVars
    <3>2. \E l \in {"commit", "done", "apps", "tail", "idle", "teams", "failed"} : Goto(t, l)
      <4>1. CASE ApplyApps(t) \/ Finish(t) \/ Release(t) \/ ReportFailure(t)
        BY <4>1 DEF ApplyApps, Finish, Release, ReportFailure
      <4>2. CASE ApplyTeams(t) \/ ApplyTrouble(t)
        BY <4>2 DEF ApplyTeams, ApplyTrouble, PauseForUpgrade, RetryApplyAll, StepFails
      <4>3. QED
        BY <2>7, <4>1, <4>2
    <3>3. QED
      BY <2>3, <3>1, <3>2
  <2>8. QED
    BY <1>2, <2>2, <2>4, <2>5, <2>6, <2>7 DEF ApplyStep
<1>3. QED
  BY <1>1, <1>2 DEF Next

\* Short of an eviction the clone keeps its work.
LEMMA HeadGrows ==
    ASSUME TypeOK, TypeOK', NoConflict, BranchHasAll, [Next]_vars, ~Evict
    PROVE  KeptIn(head, head')
<1>0. /\ remote \in Histories /\ tracking \in Histories /\ head \in Histories
      /\ KeptIn(head, remote) /\ KeptIn(head, tracking) /\ KeptIn(head, head)
  BY KeptTrans, KeptSelf DEF TypeOK, BranchHasAll
<1>1. CASE UNCHANGED head
  BY <1>0, <1>1
<1>2. CASE Start
  BY <1>0, <1>2 DEF Start, ClonedHead
<1>3. CASE PullReset
  BY <1>0, <1>3 DEF PullReset, PulledHead
<1>4. CASE PullFetch \/ UserPush
  BY <1>1, <1>4 DEF PullFetch, UserPush
<1>5. ASSUME NEW t \in ApplyTrigger, RepoStep(t)
      PROVE  KeptIn(head, head')
  <2>1. CASE Commit(t)
    <3>1. \A scope \in Scopes : KeptIn(head, Append(head, OperatorCommit(scope)))
      BY <1>0, CommitTypes, AppendKept
    <3>2. QED
      BY <1>1, <2>1, <3>1 DEF Commit
  <2>2. CASE Pull(t)
    <3>1. KeptIn(head, RebaseOnto(head, remote))
      BY <1>0, RebaseKept, RebaseType, KeptTrans
    <3>2. QED
      BY <1>0, <1>1, <2>2, <3>1 DEF Pull
  <2>3. CASE Push(t) \/ ApplyTeams(t) \/ ApplyApps(t)
    BY <1>1, <2>3 DEF Push, ApplyTeams, ApplyApps, repoVars
  <2>4. ~AbortRebase(t) /\ ~DropCommit(t)
    BY DEF NoConflict, AbortRebase, DropCommit
  <2>5. QED
    BY <1>5, <2>1, <2>2, <2>3, <2>4 DEF RepoStep
<1>6. QED
  BY <1>1, <1>2, <1>3, <1>4, <1>5, RepoMoves

\* Where a cycle and a run take their revisions from.
LEMMA RevisionsMove ==
    ASSUME TypeOK, [Next]_vars
    PROVE  /\ lastRevision' \in {lastRevision, head, <<>>}
           /\ previousRevision' \in {previousRevision, lastRevision, <<>>}
           /\ newRevision' \in {newRevision, head, <<>>}
           /\ \A t \in ApplyTrigger : commitHash'[t] \in {commitHash[t], lastRevision', <<>>}
           /\ pc'["poll"] \in {"log", "diff"} =>
                /\ previousRevision' = previousRevision
                /\ \/ newRevision' = head
                   \/ pc["poll"] \in {"log", "diff"} /\ UNCHANGED newRevision
<1> DEFINE Hashes == \A t \in ApplyTrigger : commitHash'[t] \in {commitHash[t], lastRevision', <<>>}
           Compared == pc'["poll"] \in {"log", "diff"} =>
                         /\ previousRevision' = previousRevision
                         /\ \/ newRevision' = head
                            \/ pc["poll"] \in {"log", "diff"} /\ UNCHANGED newRevision
           Synced == /\ lastRevision' \in {lastRevision, head, <<>>}
                     /\ previousRevision' \in {previousRevision, lastRevision, <<>>}
                     /\ newRevision' \in {newRevision, head, <<>>}
<1>0. "poll" \in ApplyTrigger
  BY Labels
<1>1. CASE Start \/ CycleSkipped \/ UserPush \/ UNCHANGED vars
  BY <1>1 DEF Start, CycleSkipped, UserPush, vars, syncVars, runVars
<1>2. ASSUME NEW t \in ApplyTrigger, NEW teamsOnly, BeginApply(t, teamsOnly)
      PROVE  Hashes /\ pc' = [pc EXCEPT ![t] = "prepare"]
  BY <1>2 DEF BeginApply, ReportedRevision, Goto, TypeOK
<1>3. CASE ReconcileTick
  <2>1. Hashes /\ pc' = [pc EXCEPT !["reconcile"] = "prepare"]
    BY <1>2, <1>3, Labels DEF ReconcileTick
  <2>2. UNCHANGED syncVars
    BY <1>3 DEF ReconcileTick
  <2>3. QED
    BY <2>1, <2>2 DEF TypeOK, syncVars
<1>4. ASSUME NEW teamsOnly, TriggerPoll(teamsOnly)
      PROVE  Hashes /\ pc'["poll"] \in {"idle", "prepare"}
  <2>1. CASE BeginApply("poll", teamsOnly)
    BY <1>0, <1>2, <2>1 DEF TypeOK
  <2>2. CASE Goto("poll", "idle") /\ UNCHANGED runVars
    BY <1>0, <2>2 DEF Goto, TypeOK, runVars
  <2>3. QED
    BY <1>4, <2>1, <2>2 DEF TriggerPoll
<1>5. CASE PollWake \/ PullFetch \/ PullReset \/ SyncFails
  <2>1. pc'["poll"] \in {"fetch", "reset", "head", "idle"}
    BY <1>0, <1>5 DEF PollWake, PullFetch, PullReset, SyncFails, Goto, TypeOK
  <2>2. Synced /\ UNCHANGED commitHash
    BY <1>5 DEF PollWake, PullFetch, PullReset, SyncFails, ForgetSync, syncVars, runVars
  <2>3. QED
    BY <2>1, <2>2
<1>6. CASE CurrentRevision
  <2>1. CASE UNCHANGED lastRevision /\ EndCycle
    BY <1>0, <2>1 DEF EndCycle, ForgetSync, Goto, TypeOK, runVars
  <2>2. CASE lastRevision' = head /\ ForgetSync /\ TriggerPoll(FALSE)
    BY <1>4, <2>2 DEF ForgetSync
  <2>3. CASE /\ lastRevision' = head
             /\ newRevision' = head
             /\ Goto("poll", "log")
             /\ UNCHANGED <<previousRevision, isApplying, runVars, applyState>>
    <3>1. Hashes /\ Synced
      BY <2>3 DEF runVars
    <3>2. QED
      BY <2>3, <3>1
  <2>4. QED
    BY <1>6, <2>1, <2>2, <2>3 DEF CurrentRevision
<1>7. CASE SkipCheck
  <2>1. CASE EndCycle
    BY <1>0, <1>7, <2>1 DEF SkipCheck, EndCycle, ForgetSync, Goto, TypeOK, runVars
  <2>2. CASE Goto("poll", "diff") /\ UNCHANGED <<previousRevision, newRevision, runVars>>
    BY <1>0, <1>7, <2>2 DEF SkipCheck, Goto, TypeOK, runVars
  <2>3. QED
    BY <1>7, <2>1, <2>2 DEF SkipCheck
<1>8. CASE DiffCheck
  <2>1. PICK teamsOnly : TriggerPoll(teamsOnly)
    BY <1>8 DEF DiffCheck
  <2>2. QED
    BY <1>4, <1>8, <2>1 DEF DiffCheck, ForgetSync
<1>9. ASSUME NEW t \in ApplyTrigger, ApplyStep(t) \/ ApplyTrouble(t)
      PROVE  Synced /\ Hashes /\ Compared
  <2>1. UNCHANGED syncVars
    BY <1>9, RunSteps
  <2>2. Hashes
    BY <1>9 DEF ApplyStep, Prepare, Commit, Pull, Push, AbortRebase, DropCommit,
                ApplyTeams, ApplyApps, Finish, Release, ReportFailure, ForgetRun, ApplyTrouble,
                PauseForUpgrade, RetryApplyAll, StepFails, runVars, TypeOK
  <2>3. UNCHANGED pc \/ \E l \in {"idle"} \cup ApplySteps : Goto(t, l)
    BY <1>9, RunSteps
  <2>4. pc'["poll"] \in {"log", "diff"} => pc'["poll"] = pc["poll"]
    BY <2>3, Labels DEF Goto, TypeOK, ApplySteps
  <2>5. QED
    BY <2>1, <2>2, <2>4 DEF syncVars
<1>10. CASE Crash \/ Evict
  BY <1>0, <1>10 DEF Crash, Evict, LoseMemory
<1>11. CASE PollSync
  BY <1>5, <1>6, <1>7, <1>8, <1>11 DEF PollSync
<1>12. CASE \E t \in ApplyTrigger : ApplyStep(t) \/ ApplyTrouble(t)
  BY <1>9, <1>12
<1>13. QED
  BY <1>1, <1>3, <1>5, <1>10, <1>11, <1>12 DEF Next

LEMMA RevisionsNext ==
    ASSUME TypeOK, TypeOK', NoConflict, BranchHasAll, RevisionsKept, [Next]_vars
    PROVE  RevisionsKept'
<1>0. /\ head \in Histories /\ head' \in Histories /\ KeptIn(head, head) /\ KeptIn(<<>>, head)
      /\ lastRevision \in Histories /\ previousRevision \in Histories
      /\ newRevision \in Histories /\ commitHash \in [ApplyTrigger -> Histories]
      /\ lastRevision' \in Histories /\ previousRevision' \in Histories
      /\ newRevision' \in Histories /\ commitHash' \in [ApplyTrigger -> Histories]
  BY KeptSelf DEF TypeOK
<1>1. CASE Evict
  <2>1. \A h \in Histories : KeptIn(<<>>, h)
    BY KeptSelf
  <2>2. /\ lastRevision' = <<>> /\ previousRevision' = <<>> /\ newRevision' = <<>>
        /\ \A t \in ApplyTrigger : commitHash'[t] = <<>>
    BY <1>1 DEF Evict, LoseMemory
  <2>3. QED
    BY <1>0, <2>1, <2>2 DEF RevisionsKept
<1>2. CASE ~Evict
  <2>1. KeptIn(head, head')
    BY <1>2, HeadGrows
  <2>2. /\ KeptIn(lastRevision', head) /\ KeptIn(previousRevision', head)
        /\ KeptIn(newRevision', head)
    BY <1>0, RevisionsMove DEF RevisionsKept
  <2>3. \A t \in ApplyTrigger : KeptIn(commitHash'[t], head)
    BY <1>0, <2>2, RevisionsMove DEF RevisionsKept
  <2>4. pc'["poll"] \in {"log", "diff"} => KeptIn(previousRevision', newRevision')
    BY <1>0, RevisionsMove DEF RevisionsKept
  <2>5. /\ KeptIn(lastRevision', head') /\ KeptIn(previousRevision', head')
        /\ KeptIn(newRevision', head')
    BY <1>0, <2>1, <2>2, KeptTrans
  <2>6. \A t \in ApplyTrigger : KeptIn(commitHash'[t], head')
    BY <1>0, <2>1, <2>3, KeptTrans
  <2>7. QED
    BY <2>4, <2>5, <2>6 DEF RevisionsKept
<1>3. QED
  BY <1>1, <1>2

LEMMA RevisionsInit == Init => NoConflict /\ RevisionsKept
<1>1. KeptIn(<<>>, <<>>)
  BY SmallHistories, KeptSelf
<1>2. QED
  BY <1>1, Labels DEF Init, NoConflict, RevisionsKept

\* As long as rebases do not conflict, the clone holds the work of every revision that a
\* poll cycle or a run has read from it.
THEOREM RevisionsInvariant ==
    ASSUME "conflict" \notin Faults
    PROVE  Spec => [](NoConflict /\ RevisionsKept)
<1>1. TypeOK /\ TypeOK' /\ DeliveryInv /\ NoConflict /\ RevisionsKept /\ [Next]_vars
        => NoConflict' /\ RevisionsKept'
  BY NoConflictNext, RevisionsNext DEF DeliveryInv
<1>2. QED
  BY <1>1, RevisionsInit, TypeCorrect, DeliveryInvariant, PTL DEF Spec

\* As long as rebases do not conflict, the tree a run applies from holds the revision it
\* will report, however often the poll loop resets that tree under it.
THEOREM ReportsWhatItApplies ==
    ASSUME "conflict" \notin Faults
    PROVE  Spec => []AppliesWhatItReports
<1>1. TypeOK /\ RevisionsKept => AppliesWhatItReports
  BY KeptWork DEF RevisionsKept, AppliesWhatItReports, TypeOK
<1>2. QED
  BY <1>1, TypeCorrect, RevisionsInvariant, PTL

\* As long as rebases do not conflict, a poll cycle drops new commits only when each of
\* them carries the marker, although the log it looks at may go further than the revision
\* it has just compared.
THEOREM SkipsAreMarked ==
    ASSUME "conflict" \notin Faults
    PROVE  Spec => SkipsOnlyMarked
<1> DEFINE Dropped == /\ pc["poll"] = "log" /\ pc'["poll"] = "idle"
                      /\ up' /\ faults' = faults
<1>1. ASSUME TypeOK, RevisionsKept, [Next]_vars, Dropped
      PROVE  \A c \in LogBetween(previousRevision, newRevision) : c.skip
  <2>1. SkipCheck
    <3>1. pc["poll"] \in SyncSteps /\ pc'["poll"] # pc["poll"]
      BY <1>1 DEF SyncSteps
    <3>2. ~(Crash \/ Evict)
      BY <1>1 DEF Crash, Evict, LoseMemory
    <3>3. ~(PullFetch \/ PullReset \/ CurrentRevision \/ DiffCheck)
      BY <1>1 DEF PullFetch, PullReset, CurrentRevision, DiffCheck
    <3>4. ~SyncFails
      <4>1. faults \in Nat
        BY <1>1 DEF TypeOK
      <4>2. SyncFails => faults' = faults + 1
        BY DEF SyncFails, Fault
      <4>3. faults' = faults
        BY <1>1
      <4>4. QED
        BY <4>1, <4>2, <4>3
    <3>5. QED
      BY <1>1, <3>1, <3>2, <3>3, <3>4, PollMoves DEF PollSync
  <2>2. ShouldSkipCommits(previousRevision, head)
    BY <1>1, <2>1, Labels DEF SkipCheck, Goto, TypeOK
  <2>3. KeptIn(previousRevision, newRevision) /\ KeptIn(newRevision, head)
    BY <1>1 DEF RevisionsKept
  <2>4. QED
    BY <1>1, <2>2, <2>3, MarkedBefore DEF ShouldSkipCommits, TypeOK
<1>2. TypeOK /\ RevisionsKept /\ [Next]_vars
        => [Dropped => \A c \in LogBetween(previousRevision, newRevision) : c.skip]_vars
  BY <1>1
<1>3. QED
  BY <1>2, TypeCorrect, RevisionsInvariant, PTL DEF Spec, SkipsOnlyMarked

=============================================================================
