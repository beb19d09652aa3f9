------------------------- MODULE ValuesFilesProofs -------------------------
(***************************************************************************)
(* Proofs about ValuesFiles, for every set of teams, keys and parts of the *)
(* values, any number of saves and all faults: types, a load gives the     *)
(* values of the files it found in the order of their names, whatever the  *)
(* order in which they are read, and what was saved last is loaded again.  *)
(***************************************************************************)
EXTENDS ValuesFiles, TLAPS, FiniteSetTheorems

-----------------------------------------------------------------------------
(* Sorting.  The place of an item in the sorted list is the number of the  *)
(* items with a smaller name; when names differ, items and places match    *)
(* one to one, and the choice in Sorted is that of the only candidate.     *)

Distinct(items) ==
    \A i, j \in 1..Len(items) : i # j => items[i].name # items[j].name

Below(items, it) == {o \in RangeOf(items) : o.name < it.name}
Place(items, it) == Cardinality(Below(items, it))

LEMMA NamesAreNumbers == \A it \in Item : it.name \in Int /\ it.content \in Int
  BY FilesAssumption DEF Item, Keys, Unknown, Written

LEMMA RangeFacts ==
    ASSUME NEW s \in Seq(Item), Distinct(s)
    PROVE  /\ IsFiniteSet(RangeOf(s))
           /\ Cardinality(RangeOf(s)) = Len(s)
           /\ RangeOf(s) \subseteq Item
           /\ \A a, b \in RangeOf(s) : a.name = b.name => a = b
  <1> DEFINE f == [i \in 1..Len(s) |-> s[i]]
  <1>1. DOMAIN s = 1..Len(s) /\ Len(s) \in Nat /\ RangeOf(s) = {s[i] : i \in 1..Len(s)}
    BY DEF RangeOf
  <1>2. f \in Injection(1..Len(s), RangeOf(s))
    <2>1. \A i, j \in 1..Len(s) : s[i] = s[j] => i = j
      BY DEF Distinct
    <2>2. f \in [1..Len(s) -> RangeOf(s)]
      BY <1>1
    <2> QED
      BY <2>1, <2>2 DEF Injection, IsInjective
  <1>3. f \in Surjection(1..Len(s), RangeOf(s))
    BY <1>1 DEF Surjection
  <1>4. IsFiniteSet(1..Len(s)) /\ Cardinality(1..Len(s)) = Len(s)
    BY <1>1, FS_Interval
  <1>5. IsFiniteSet(RangeOf(s)) /\ Cardinality(RangeOf(s)) = Len(s)
    BY <1>2, <1>3, <1>4, FS_Surjection
  <1>6. ASSUME NEW a \in RangeOf(s), NEW b \in RangeOf(s), a.name = b.name
        PROVE  a = b
    <2>1. PICK i \in 1..Len(s) : s[i] = a
      BY <1>1
    <2>2. PICK j \in 1..Len(s) : s[j] = b
      BY <1>1
    <2> QED
      BY <1>6, <2>1, <2>2 DEF Distinct
  <1>7. RangeOf(s) \subseteq Item
    BY <1>1
  <1> QED
    BY <1>5, <1>6, <1>7

LEMMA PlaceFacts ==
    ASSUME NEW s \in Seq(Item), Distinct(s)
    PROVE  /\ \A a \in RangeOf(s) : Place(s, a) \in 0..Len(s) - 1
           /\ \A a, b \in RangeOf(s) : a.name < b.name <=> Place(s, a) < Place(s, b)
           /\ \A a, b \in RangeOf(s) : Place(s, a) = Place(s, b) => a = b
  <1> DEFINE S == RangeOf(s)
  <1>1. /\ IsFiniteSet(S) /\ Cardinality(S) = Len(s) /\ S \subseteq Item
        /\ \A a, b \in S : a.name = b.name => a = b
    BY RangeFacts
  <1>2. \A a \in S : IsFiniteSet(Below(s, a)) /\ Place(s, a) \in Nat
    <2> SUFFICES ASSUME NEW a \in S PROVE IsFiniteSet(Below(s, a)) /\ Place(s, a) \in Nat
      OBVIOUS
    <2>1. Below(s, a) \in SUBSET S
      BY DEF Below
    <2>2. IsFiniteSet(Below(s, a))
      BY <1>1, <2>1, FS_Subset
    <2> QED
      BY <2>2, FS_CardinalityType DEF Place
  <1>3. ASSUME NEW a \in S PROVE Place(s, a) < Len(s)
    <2>1. Below(s, a) \in SUBSET S /\ a \notin Below(s, a) /\ Below(s, a) # S
      BY <1>1, NamesAreNumbers DEF Below
    <2>2. Cardinality(Below(s, a)) <= Cardinality(S) /\ Cardinality(Below(s, a)) # Cardinality(S)
      BY <1>1, <2>1, FS_Subset
    <2> QED
      BY <1>1, <1>2, <2>2 DEF Place
  <1>4. ASSUME NEW a \in S, NEW b \in S, a.name < b.name
        PROVE  Place(s, a) < Place(s, b)
    <2>1. a.name \in Int /\ b.name \in Int
      BY <1>1, NamesAreNumbers
    <2>2. Below(s, a) \subseteq Below(s, b)
      BY <1>1, <1>4, <2>1, NamesAreNumbers DEF Below
    <2>3. a \in Below(s, b) /\ a \notin Below(s, a)
      BY <1>4, <2>1 DEF Below
    <2>4. IsFiniteSet(Below(s, b)) /\ Below(s, a) \in SUBSET Below(s, b) /\ Below(s, a) # Below(s, b)
      BY <1>2, <2>2, <2>3
    <2>5. /\ Cardinality(Below(s, a)) <= Cardinality(Below(s, b))
          /\ Cardinality(Below(s, a)) # Cardinality(Below(s, b))
      BY <2>4, FS_Subset
    <2> QED
      BY <1>2, <2>5 DEF Place
  <1>5. ASSUME NEW a \in S, NEW b \in S
        PROVE  /\ a.name < b.name <=> Place(s, a) < Place(s, b)
               /\ Place(s, a) = Place(s, b) => a = b
    <2>1. a.name \in Int /\ b.name \in Int
      BY <1>1, NamesAreNumbers
    <2>2. CASE a.name < b.name
      <3>1. Place(s, a) < Place(s, b)
        BY <1>4, <2>2
      <3> QED
        BY <1>2, <2>2, <3>1
    <2>3. CASE b.name < a.name
      <3>1. Place(s, b) < Place(s, a)
        BY <1>4, <2>3
      <3> QED
        BY <1>2, <2>1, <2>3, <3>1
    <2>4. CASE a.name = b.name
      <3>1. a = b
        BY <1>1, <2>4
      <3> QED
        BY <1>2, <2>1, <3>1
    <2> QED
      BY <2>1, <2>2, <2>3, <2>4
  <1>6. \A a \in S : Place(s, a) \in 0..Len(s) - 1
    BY <1>2, <1>3
  <1> QED
    BY <1>5, <1>6

\* Every place is taken, because there are as many places as items.
LEMMA PlacesTaken ==
    ASSUME NEW s \in Seq(Item), Distinct(s), NEW i \in 1..Len(s)
    PROVE  \E it \in RangeOf(s) : Place(s, it) = i - 1
  <1> DEFINE S == RangeOf(s)
             T == 0..Len(s) - 1
             place == [it \in S |-> Place(s, it)]
  <1>1. IsFiniteSet(S) /\ Cardinality(S) = Len(s) /\ Len(s) \in Nat
    BY RangeFacts
  <1>2. IsFiniteSet(T) /\ Cardinality(T) = Len(s)
    <2>1. 0 \in Int /\ Len(s) - 1 \in Int
      BY <1>1
    <2>2. IsFiniteSet(T) /\ Cardinality(T) = IF 0 > Len(s) - 1 THEN 0 ELSE Len(s) - 1 - 0 + 1
      BY <2>1, FS_Interval
    <2> QED
      BY <1>1, <2>2
  <1>3. place \in Injection(S, T)
    <2>1. place \in [S -> T]
      BY PlaceFacts
    <2>2. \A a, b \in S : place[a] = place[b] => a = b
      BY PlaceFacts
    <2> QED
      BY <2>1, <2>2 DEF Injection, IsInjective
  <1>4. place \in Surjection(S, T)
    BY <1>1, <1>2, <1>3, FS_Injection
  <1>5. i - 1 \in T
    BY <1>1
  <1> QED
    BY <1>4, <1>5 DEF Surjection

LEMMA SortedFacts ==
    ASSUME NEW s \in Seq(Item), Distinct(s)
    PROVE  /\ Sorted(s) \in Seq(Item)
           /\ Len(Sorted(s)) = Len(s)
           /\ RangeOf(Sorted(s)) = RangeOf(s)
           /\ \A i \in 1..Len(s) - 1 : Sorted(s)[i].name < Sorted(s)[i + 1].name
  <1> DEFINE S == RangeOf(s)
  <1>1. DOMAIN s = 1..Len(s) /\ Len(s) \in Nat /\ S \subseteq Item
    BY RangeFacts
  <1>0. Sorted(s) = [i \in 1..Len(s) |-> CHOOSE it \in S : Place(s, it) = i - 1]
    BY <1>1 DEF Sorted, Place, Below
  <1>2. ASSUME NEW i \in 1..Len(s)
        PROVE  Sorted(s)[i] \in S /\ Place(s, Sorted(s)[i]) = i - 1
    <2>1. Sorted(s)[i] = CHOOSE it \in S : Place(s, it) = i - 1
      BY <1>0
    <2>2. \E it \in S : Place(s, it) = i - 1
      BY PlacesTaken
    <2> QED
      BY <2>1, <2>2
  <1>3. Sorted(s) \in [1..Len(s) -> Item]
    <2>1. Sorted(s) = [i \in 1..Len(s) |-> Sorted(s)[i]]
      BY <1>0
    <2> QED
      BY <1>1, <1>2, <2>1
  <1>4. Sorted(s) \in Seq(Item) /\ Len(Sorted(s)) = Len(s)
    BY <1>1, <1>3
  <1>5. RangeOf(Sorted(s)) = S
    <2>1. RangeOf(Sorted(s)) = {Sorted(s)[i] : i \in 1..Len(s)}
      BY <1>3 DEF RangeOf
    <2>2. ASSUME NEW it \in S PROVE \E i \in 1..Len(s) : Sorted(s)[i] = it
      <3>1. Place(s, it) \in 0..Len(s) - 1
        BY PlaceFacts
      <3>2. Place(s, it) + 1 \in 1..Len(s)
        BY <1>1, <3>1
      <3>3. Sorted(s)[Place(s, it) + 1] \in S
            /\ Place(s, Sorted(s)[Place(s, it) + 1]) = Place(s, it)
        BY <1>2, <3>1, <3>2
      <3> QED
        BY <3>2, <3>3, PlaceFacts
    <2> QED
      BY <1>2, <2>1, <2>2
  <1>6. ASSUME NEW i \in 1..Len(s) - 1
        PROVE  Sorted(s)[i].name < Sorted(s)[i + 1].name
    <2>1. i \in 1..Len(s) /\ i + 1 \in 1..Len(s) /\ i - 1 < i /\ i + 1 - 1 = i
      BY <1>1
    <2>2. /\ Sorted(s)[i] \in S /\ Place(s, Sorted(s)[i]) = i - 1
          /\ Sorted(s)[i + 1] \in S /\ Place(s, Sorted(s)[i + 1]) = i
      BY <1>2, <2>1
    <2> QED
      BY <2>1, <2>2, PlaceFacts
  <1> QED
    BY <1>4, <1>5, <1>6

LEMMA AppendFacts ==
    ASSUME NEW s \in Seq(Item), NEW x \in Item
    PROVE  /\ Append(s, x) \in Seq(Item)
           /\ RangeOf(Append(s, x)) = RangeOf(s) \cup {x}
           /\ Len(Append(s, x)) = Len(s) + 1 /\ Len(s) \in Nat
           /\ \A i \in 1..Len(s) : Append(s, x)[i] = s[i]
           /\ Append(s, x)[Len(s) + 1] = x
  <1>1. /\ Append(s, x) \in Seq(Item)
        /\ Len(Append(s, x)) = Len(s) + 1 /\ Len(s) \in Nat
        /\ \A i \in 1..Len(s) : Append(s, x)[i] = s[i]
        /\ Append(s, x)[Len(s) + 1] = x
    OBVIOUS
  <1>2. DOMAIN s = 1..Len(s) /\ DOMAIN Append(s, x) = 1..Len(s) + 1
    BY <1>1
  <1>3. \A i \in 1..Len(s) + 1 : i \in 1..Len(s) \/ i = Len(s) + 1
    BY <1>1
  <1>4. 1..Len(s) \subseteq 1..Len(s) + 1 /\ Len(s) + 1 \in 1..Len(s) + 1
    BY <1>1
  <1>5. RangeOf(Append(s, x)) \subseteq RangeOf(s) \cup {x}
    BY <1>1, <1>2, <1>3 DEF RangeOf
  <1>6. RangeOf(s) \cup {x} \subseteq RangeOf(Append(s, x))
    <2>1. ASSUME NEW i \in 1..Len(s) PROVE s[i] \in RangeOf(Append(s, x))
      BY <1>1, <1>2, <1>4 DEF RangeOf
    <2>2. x \in RangeOf(Append(s, x))
      BY <1>1, <1>2, <1>4 DEF RangeOf
    <2>3. RangeOf(s) = {s[i] : i \in 1..Len(s)}
      BY <1>2 DEF RangeOf
    <2> QED
      BY <2>1, <2>2, <2>3
  <1> QED
    BY <1>1, <1>5, <1>6

\* A name that no item has yet keeps the names different.
LEMMA AppendDistinct ==
    ASSUME NEW s \in Seq(Item), NEW x \in Item, Distinct(s),
           \A i \in 1..Len(s) : s[i].name # x.name
    PROVE  Distinct(Append(s, x))
  <1>1. \A i \in 1..Len(s) + 1 : i \in 1..Len(s) \/ i = Len(s) + 1
    BY AppendFacts
  <1> QED
    BY <1>1, AppendFacts DEF Distinct

-----------------------------------------------------------------------------
(* Files and the lists they belong to.                                     *)

LEMMA ContentFacts ==
    /\ NoFile \in Contents /\ Empty \in Contents /\ Written \subseteq Contents
    /\ \A c \in Contents : c # NoFile /\ c # Empty => c \in Written
    /\ NoFile \notin Written /\ Empty \notin Written
  BY FilesAssumption DEF NoFile, Empty, Contents, Written

LEMMA ItemsOfTeams == \A m \in FileMaps : m.each = "item" => m.team
  <1>1. \A m \in PlatformMaps : m.each # "item"
    BY DEF PlatformMaps, MapOf
  <1>2. ASSUME NEW m \in TeamMaps PROVE m.team
    <2>1. PICK p, e, d, r : m = MapOf(p, e, TRUE, d, r)
      BY Zenon DEF TeamMaps
    <2>2. m.team = TRUE
      BY <2>1 DEF MapOf
    <2> QED
      BY <2>2
  <1> QED
    BY <1>1, <1>2 DEF FileMaps

LEMMA FileFacts ==
    ASSUME NEW f \in Files
    PROVE  /\ f = [map |-> f.map, team |-> f.team, name |-> f.name]
           /\ f.map.each = "item" =>
                /\ f.name \in Keys \cup {Unknown}
                /\ f.map.load => ListOf(f) \in Lists
  <1>1. PICK n \in Nodes : f = FilePath(n)
    BY DEF Files
  <1>2. PICK m \in FileMaps : n \in NodesOf(m)
    BY DEF Nodes
  <1>3. f.map = n.map /\ f.team = n.team /\ f.name = ResourceName(n)
    BY <1>1 DEF FilePath
  <1>4. n.map = m
    BY <1>2 DEF NodesOf
  <1>5. ASSUME m.each = "item" PROVE n.team \in Teams /\ n.key \in Keys
    BY <1>2, <1>5, ItemsOfTeams DEF NodesOf
  <1>6. f = [map |-> f.map, team |-> f.team, name |-> f.name]
    BY <1>1 DEF FilePath
  <1> QED
    BY <1>3, <1>4, <1>5, <1>6 DEF ResourceName, ListOf, Lists

LEMMA NodeFacts ==
    ASSUME NEW n \in Nodes
    PROVE  /\ FilePath(n) \in Files
           /\ FilePath(n).map = n.map /\ FilePath(n).team = n.team
           /\ n.by # "none" => FilePath(n).name = n.key
  BY DEF Files, FilePath, ResourceName

-----------------------------------------------------------------------------
(* Types.  A load takes the name of an item from the name of its file, and *)
(* reads a file once: names of a list differ, so that it can be sorted.    *)

Types ==
    /\ files \in [Files -> Contents] /\ head \in [Files -> Contents]
    /\ remote \in [Files -> Contents] /\ found \in [Files -> Contents]
    /\ saved.nodes \in SUBSET Nodes /\ saved.number \in 0..MaxSaves
    /\ writing \in SUBSET [file : Files, content : Written]
    /\ reading \in SUBSET Files
    /\ maps \in SUBSET [file : Files, content : Written]
    /\ DOMAIN lists = Lists /\ \A l \in Lists : lists[l] \in Seq(Item)
    /\ disturbed \in BOOLEAN
    /\ pc \in {"idle", "saving", "loading", "loaded"}

ReadOnce ==
    pc = "loading" =>
      /\ \A f \in reading : f.map.load
      /\ \A l \in Lists :
           /\ Distinct(lists[l])
           /\ \A f \in reading :
                ListOf(f) = l =>
                  \A i \in 1..Len(lists[l]) : lists[l][i].name # f.name

ListInv == Types /\ ReadOnce

LEMMA TypesEnough == Types => TypeOK
  <1> SUFFICES ASSUME Types PROVE TypeOK
    OBVIOUS
  <1>1. ASSUME NEW l \in Lists PROVE RangeOf(lists[l]) \subseteq Item
    BY <1>1 DEF Types, RangeOf
  <1>2. saved.number \in Nat
    BY FilesAssumption DEF Types
  <1> QED
    BY <1>1, <1>2 DEF Types, TypeOK

LEMMA EmptyListsFacts ==
    /\ DOMAIN EmptyLists = Lists
    /\ \A l \in Lists : EmptyLists[l] = << >> /\ EmptyLists[l] \in Seq(Item)
    /\ \A l \in Lists : Len(EmptyLists[l]) = 0 /\ RangeOf(EmptyLists[l]) = {}
    /\ \A l \in Lists : Distinct(EmptyLists[l])
  BY DEF EmptyLists, RangeOf, Distinct

LEMMA ListInit == Init => ListInv
  <1> SUFFICES ASSUME Init PROVE ListInv
    OBVIOUS
  <1>1. files \in [Files -> Contents]
    BY ContentFacts DEF Init
  <1>2. saved.nodes \in SUBSET Nodes /\ saved.number \in 0..MaxSaves
    BY FilesAssumption DEF Init
  <1> QED
    BY <1>1, <1>2, EmptyListsFacts DEF Init, ListInv, Types, ReadOnce

LEMMA SaveTypes ==
    ASSUME ListInv, NEW nodes \in Values, SaveValues(nodes)
    PROVE  ListInv'
  <1>1. saved'.nodes \in SUBSET Nodes /\ saved'.number = saved.number + 1
    BY DEF SaveValues, Values, SavedNodes
  <1>2. saved'.number \in Written /\ saved'.number \in 0..MaxSaves
    BY <1>1, FilesAssumption DEF SaveValues, ListInv, Types, Written
  <1>3. writing' \in SUBSET [file : Files, content : Written]
    BY <1>1, <1>2, NodeFacts DEF SaveValues, ListInv, Types
  <1>4. disturbed' \in BOOLEAN
    BY DEF SaveValues
  <1> QED
    BY <1>1, <1>2, <1>3, <1>4 DEF SaveValues, values, ListInv, Types, ReadOnce

LEMMA LoadValuesTypes == ASSUME ListInv, LoadValues PROVE ListInv'
  <1>1. reading' \in SUBSET Files /\ \A f \in reading' : f.map.load
    BY DEF LoadValues, Present
  <1>2. Types'
    BY <1>1, EmptyListsFacts DEF LoadValues, ListInv, Types
  <1>3. ReadOnce'
    BY <1>1, EmptyListsFacts DEF LoadValues, ReadOnce
  <1> QED
    BY <1>2, <1>3 DEF ListInv

\* The lists after a file was read.
LEMMA LoadFileLists ==
    ASSUME ListInv, pc = "loading", NEW f \in reading, ~Unreadable(f),
           f.map.each = "item", NEW x, x = [name |-> f.name, content |-> files[f]]
    PROVE  /\ x \in Item /\ ListOf(f) \in Lists
           /\ lists[ListOf(f)] \in Seq(Item)
  <1>1. f \in Files /\ f.map.load
    BY DEF ListInv, Types, ReadOnce
  <1>2. files[f] \in Written
    BY <1>1, ContentFacts DEF ListInv, Types, Unreadable
  <1> QED
    BY <1>1, <1>2, FileFacts DEF Item, ListInv, Types

LEMMA LoadFileTypes == ASSUME ListInv, LoadFile PROVE ListInv'
  <1>1. PICK f \in reading :
           /\ ~Unreadable(f)
           /\ reading' = reading \ {f}
           /\ lists' =
                IF f.map.each = "item"
                THEN [lists EXCEPT ![ListOf(f)] =
                        Append(@, [name |-> f.name, content |-> files[f]])]
                ELSE lists
           /\ maps' =
                IF f.map.each = "item" \/ files[f] = Empty THEN maps
                ELSE maps \cup {[file |-> f, content |-> files[f]]}
    BY DEF LoadFile
  <1>2. /\ f \in Files /\ f.map.load /\ pc = "loading"
        /\ UNCHANGED <<files, head, remote, saved, writing, found, disturbed, pc>>
    BY DEF LoadFile, ListInv, Types, ReadOnce
  <1>3. maps' \in SUBSET [file : Files, content : Written]
    <2>1. files[f] \in Contents /\ files[f] # NoFile
      BY <1>1, <1>2 DEF ListInv, Types, Unreadable
    <2> QED
      BY <1>1, <1>2, <2>1, ContentFacts DEF ListInv, Types
  <1>4. CASE f.map.each # "item"
    <2>1. lists' = lists /\ reading' \subseteq reading
      BY <1>1, <1>4
    <2> QED
      BY <1>2, <1>3, <2>1 DEF ListInv, Types, ReadOnce
  <1>5. CASE f.map.each = "item"
    <2> DEFINE x == [name |-> f.name, content |-> files[f]]
               L == ListOf(f)
    <2>1. x \in Item /\ L \in Lists /\ lists[L] \in Seq(Item)
      BY <1>1, <1>2, <1>5, LoadFileLists
    <2>2. lists' = [lists EXCEPT ![L] = Append(lists[L], x)]
      BY <1>1, <1>5
    <2>3. /\ DOMAIN lists' = Lists
          /\ lists'[L] = Append(lists[L], x)
          /\ \A l \in Lists : l # L => lists'[l] = lists[l]
      BY <2>1, <2>2 DEF ListInv, Types
    <2>4. \A l \in Lists : lists'[l] \in Seq(Item)
      BY <2>1, <2>3, AppendFacts DEF ListInv, Types
    <2>5. /\ Distinct(lists[L])
          /\ \A i \in 1..Len(lists[L]) : lists[L][i].name # x.name
      BY <1>1, <1>2, <2>1 DEF ListInv, ReadOnce
    <2>6. Distinct(lists'[L])
      BY <2>1, <2>3, <2>5, AppendDistinct
    <2>7. ASSUME NEW g \in reading', ListOf(g) = L, NEW i \in 1..Len(lists'[L])
          PROVE  lists'[L][i].name # g.name
      <3>1. g \in reading /\ g # f /\ g \in Files
        BY <1>1, <2>7 DEF ListInv, Types
      <3>2. g.name # f.name
        BY <1>2, <2>7, <3>1, FileFacts DEF ListOf
      <3>3. i \in 1..Len(lists[L]) \/ i = Len(lists[L]) + 1
        BY <2>1, <2>3, AppendFacts
      <3>4. CASE i \in 1..Len(lists[L])
        <4>1. lists'[L][i] = lists[L][i]
          BY <2>1, <2>3, <3>4, AppendFacts
        <4> QED
          BY <1>2, <2>1, <2>7, <3>1, <3>4, <4>1 DEF ListInv, ReadOnce
      <3>5. CASE i = Len(lists[L]) + 1
        <4>1. lists'[L][i] = x
          BY <2>1, <2>3, <3>5, AppendFacts
        <4> QED
          BY <3>2, <4>1
      <3> QED
        BY <3>3, <3>4, <3>5
    <2>8. ReadOnce'
      <3>1. \A g \in reading' : g.map.load
        BY <1>1, <1>2 DEF ListInv, ReadOnce
      <3>2. ASSUME NEW l \in Lists, l # L
            PROVE  /\ Distinct(lists'[l])
                   /\ \A g \in reading' :
                        ListOf(g) = l =>
                          \A i \in 1..Len(lists'[l]) : lists'[l][i].name # g.name
        BY <1>1, <1>2, <2>3, <3>2 DEF ListInv, ReadOnce
      <3> QED
        BY <2>6, <2>7, <3>1, <3>2 DEF ReadOnce
    <2>9. Types'
      BY <1>1, <1>2, <1>3, <2>3, <2>4 DEF ListInv, Types
    <2> QED
      BY <2>8, <2>9 DEF ListInv
  <1> QED
    BY <1>4, <1>5

LEMMA LoadEndsTypes == ASSUME ListInv, LoadEnds PROVE ListInv'
  <1>1. DOMAIN lists' = Lists /\ \A l \in Lists : lists'[l] = Sorted(lists[l])
    BY DEF LoadEnds
  <1>2. \A l \in Lists : lists'[l] \in Seq(Item)
    BY <1>1, SortedFacts DEF LoadEnds, ListInv, Types, ReadOnce
  <1> QED
    BY <1>1, <1>2 DEF LoadEnds, ListInv, Types, ReadOnce

LEMMA CrashTypes == ASSUME ListInv, Crash PROVE ListInv'
  <1>1. files' \in [Files -> Contents]
    BY ContentFacts DEF Crash, ListInv, Types
  <1>2. disturbed' \in BOOLEAN
    BY DEF Crash, ListInv, Types
  <1> QED
    BY <1>1, <1>2, EmptyListsFacts DEF Crash, ListInv, Types, ReadOnce

LEMMA ListNext == ListInv /\ [Next]_vars => ListInv'
  <1> SUFFICES ASSUME ListInv, [Next]_vars PROVE ListInv'
    OBVIOUS
  <1>1. ASSUME NEW nodes \in Values, SaveValues(nodes) PROVE ListInv'
    BY <1>1, SaveTypes
  <1>2. CASE WriteFile
    <2>1. files' \in [Files -> Contents]
      BY <1>2, ContentFacts DEF WriteFile, ListInv, Types
    <2>2. disturbed' \in BOOLEAN /\ writing' \in SUBSET [file : Files, content : Written]
      BY <1>2 DEF WriteFile, ListInv, Types
    <2> QED
      BY <1>2, <2>1, <2>2 DEF WriteFile, values, ListInv, Types, ReadOnce
  <1>3. CASE SaveEnds
    BY <1>3 DEF SaveEnds, values, ListInv, Types, ReadOnce
  <1>4. CASE WriteFails
    BY <1>4 DEF WriteFails, values, ListInv, Types, ReadOnce
  <1>5. CASE LoadValues
    BY <1>5, LoadValuesTypes
  <1>6. CASE LoadFile
    BY <1>6, LoadFileTypes
  <1>7. CASE LoadFails
    BY <1>7 DEF LoadFails, values, ListInv, Types, ReadOnce
  <1>8. CASE LoadEnds
    BY <1>8, LoadEndsTypes
  <1>9. CASE Commit
    BY <1>9 DEF Commit, values, ListInv, Types, ReadOnce
  <1>10. CASE UserRemoves
    <2>1. remote' \in [Files -> Contents]
      BY <1>10, ContentFacts DEF UserRemoves, ListInv, Types
    <2> QED
      BY <1>10, <2>1 DEF UserRemoves, values, ListInv, Types, ReadOnce
  <1>11. CASE Reset
    <2>1. files' \in [Files -> Contents]
      BY <1>11 DEF Reset, ListInv, Types
    <2> QED
      BY <1>11, <2>1 DEF Reset, values, ListInv, Types, ReadOnce
  <1>12. CASE Crash
    BY <1>12, CrashTypes
  <1>13. CASE UNCHANGED vars
    BY <1>13 DEF vars, ListInv, Types, ReadOnce
  <1> QED
    BY <1>1, <1>2, <1>3, <1>4, <1>5, <1>6, <1>7, <1>8, <1>9, <1>10, <1>11, <1>12, <1>13 DEF Next

\* The types of everything a save or a load touches hold in every reachable state, also
\* of the lists that LoadEnds sorts.
THEOREM FilesTypes == Spec => []TypeOK
  <1>1. Spec => []ListInv
    BY ListInit, ListNext, PTL DEF Spec
  <1>2. ListInv => TypeOK
    BY TypesEnough DEF ListInv
  <1> QED
    BY <1>1, <1>2, PTL

-----------------------------------------------------------------------------
(* As long as nothing disturbed it, a save leaves its files behind: each is *)
(* written or still to be written until the save ends, nothing of another  *)
(* save is under way, and the tree does not change under a load.           *)

SavedOnDisk(n) ==
    /\ n.map.load /\ saved.number > 0
    /\ \/ files[FilePath(n)] = saved.number
       \/ [file |-> FilePath(n), content |-> saved.number] \in writing

WritesLand ==
    ~disturbed =>
      /\ \A w \in writing : w.content = saved.number
      /\ pc # "saving" => writing = {}
      /\ pc \in {"loading", "loaded"} => found = files
      /\ \A n \in saved.nodes : SavedOnDisk(n)

LEMMA WritesInit == Init => WritesLand
  BY DEF Init, WritesLand

LEMMA SaveWrites ==
    ASSUME ListInv, WritesLand, NEW nodes \in Values, SaveValues(nodes)
    PROVE  WritesLand'
  <1> SUFFICES ASSUME ~disturbed' PROVE WritesLand'
    BY DEF WritesLand
  <1>1. /\ writing = {} /\ pc' = "saving"
        /\ saved' = [nodes |-> SavedNodes(nodes), number |-> saved.number + 1]
        /\ writing' = {[file |-> FilePath(n), content |-> saved'.number] : n \in saved'.nodes}
    BY DEF SaveValues
  <1>2. saved'.number > 0
    BY <1>1, FilesAssumption DEF ListInv, Types
  <1>3. \A n \in saved'.nodes : n.map.load
    BY <1>1 DEF SavedNodes
  <1> QED
    BY <1>1, <1>2, <1>3 DEF WritesLand, SavedOnDisk

LEMMA WriteWrites == ASSUME ListInv, WritesLand, WriteFile PROVE WritesLand'
  <1> SUFFICES ASSUME ~disturbed' PROVE WritesLand'
    BY DEF WritesLand
  <1>1. PICK w \in writing :
           /\ files' = [files EXCEPT ![w.file] = w.content]
           /\ writing' = writing \ {w}
    BY DEF WriteFile
  <1>2. ~disturbed /\ pc = "saving" /\ UNCHANGED <<saved, found, pc>>
    BY <1>1 DEF WriteFile, WritesLand
  <1>3. w.content = saved.number /\ w \in [file : Files, content : Written]
    BY <1>1, <1>2 DEF WritesLand, ListInv, Types
  <1>4. ASSUME NEW n \in saved.nodes PROVE SavedOnDisk(n)'
    <2>1. SavedOnDisk(n) /\ FilePath(n) \in Files
      BY <1>2, <1>4, NodeFacts DEF WritesLand, ListInv, Types
    <2>2. CASE w.file = FilePath(n)
      <3>1. files'[FilePath(n)] = saved.number
        BY <1>1, <1>3, <2>1, <2>2 DEF ListInv, Types
      <3> QED
        BY <1>2, <2>1, <3>1 DEF SavedOnDisk
    <2>3. CASE w.file # FilePath(n)
      <3>1. files'[FilePath(n)] = files[FilePath(n)]
        BY <1>1, <2>1, <2>3 DEF ListInv, Types
      <3>2. w # [file |-> FilePath(n), content |-> saved.number]
        BY <2>3
      <3> QED
        BY <1>1, <1>2, <2>1, <3>1, <3>2 DEF SavedOnDisk
    <2> QED
      BY <2>2, <2>3
  <1> QED
    BY <1>1, <1>2, <1>4 DEF WritesLand

LEMMA CrashWrites == ASSUME ListInv, WritesLand, Crash PROVE WritesLand'
  <1> SUFFICES ASSUME ~disturbed' PROVE WritesLand'
    BY DEF WritesLand
  <1>1. /\ ~disturbed /\ pc # "saving" /\ files' = files /\ pc' = "idle"
        /\ writing' = {} /\ saved' = saved
    BY Zenon DEF Crash
  <1>2. writing = {}
    BY <1>1 DEF WritesLand
  <1> QED
    BY <1>1, <1>2 DEF WritesLand, SavedOnDisk

LEMMA WritesNext == ListInv /\ WritesLand /\ [Next]_vars => WritesLand'
  <1> SUFFICES ASSUME ListInv, WritesLand, [Next]_vars PROVE WritesLand'
    OBVIOUS
  <1>1. ASSUME NEW nodes \in Values, SaveValues(nodes) PROVE WritesLand'
    BY <1>1, SaveWrites
  <1>2. CASE WriteFile
    BY <1>2, WriteWrites
  <1>3. CASE SaveEnds
    <2>1. ~disturbed => writing = {}
      BY <1>3 DEF SaveEnds, Outstanding, WritesLand
    <2> QED
      BY <1>3, <2>1 DEF SaveEnds, WritesLand, SavedOnDisk
  <1>4. CASE WriteFails
    BY <1>4 DEF WriteFails, WritesLand
  <1>5. CASE LoadValues
    BY <1>5 DEF LoadValues, WritesLand, SavedOnDisk
  <1>6. CASE LoadFile
    BY <1>6 DEF LoadFile, WritesLand, SavedOnDisk
  <1>7. CASE LoadFails
    BY <1>7 DEF LoadFails, WritesLand, SavedOnDisk
  <1>8. CASE LoadEnds
    BY <1>8 DEF LoadEnds, WritesLand, SavedOnDisk
  <1>9. CASE Commit
    BY <1>9 DEF Commit, WritesLand, SavedOnDisk
  <1>10. CASE UserRemoves
    BY <1>10 DEF UserRemoves, WritesLand, SavedOnDisk
  <1>11. CASE Reset
    BY <1>11 DEF Reset, WritesLand
  <1>12. CASE Crash
    BY <1>12, CrashWrites
  <1>13. CASE UNCHANGED vars
    BY <1>13 DEF vars, WritesLand, SavedOnDisk
  <1> QED
    BY <1>1, <1>2, <1>3, <1>4, <1>5, <1>6, <1>7, <1>8, <1>9, <1>10, <1>11, <1>12, <1>13 DEF Next

-----------------------------------------------------------------------------
(* What a load has built at any moment is what the files hold that it has  *)
(* read, whichever they are.                                               *)

MapsOf(tree, read) ==
    {[file |-> f, content |-> tree[f]] :
       f \in {g \in read : tree[g] # Empty /\ g.map.each # "item"}}

ItemsOf(tree, read, l) ==
    {[name |-> f.name, content |-> tree[f]] :
       f \in {g \in read : /\ tree[g] # Empty /\ g.map.each = "item"
                          /\ ListOf(g) = l}}

Ordered ==
    \A l \in Lists :
      \A i \in 1..Len(lists[l]) - 1 :
        lists[l][i].name < lists[l][i + 1].name

ReadSoFar ==
    ~disturbed /\ pc \in {"loading", "loaded"} =>
      /\ reading \subseteq Present(found)
      /\ maps = MapsOf(found, Present(found) \ reading)
      /\ \A l \in Lists : RangeOf(lists[l]) = ItemsOf(found, Present(found) \ reading, l)
      /\ pc = "loaded" => reading = {} /\ Ordered

LEMMA ReadInit == Init => ReadSoFar
  BY DEF Init, ReadSoFar

LEMMA LoadValuesReads == ASSUME ListInv, LoadValues PROVE ReadSoFar'
  <1>1. /\ reading' = Present(found') /\ lists' = EmptyLists /\ maps' = {}
        /\ pc' = "loading"
    BY DEF LoadValues
  <1>2. Present(found') \ reading' = {}
    BY <1>1
  <1>3. \A l \in Lists : ItemsOf(found', {}, l) = {}
    BY DEF ItemsOf
  <1>4. MapsOf(found', {}) = {}
    BY DEF MapsOf
  <1> QED
    BY <1>1, <1>2, <1>3, <1>4, EmptyListsFacts DEF ReadSoFar, Present

\* One more file read.
LEMMA MoreMaps ==
    ASSUME NEW tree, NEW read, NEW f
    PROVE  MapsOf(tree, read \cup {f}) =
             IF f.map.each = "item" \/ tree[f] = Empty THEN MapsOf(tree, read)
             ELSE MapsOf(tree, read) \cup {[file |-> f, content |-> tree[f]]}
  BY DEF MapsOf

LEMMA MoreItems ==
    ASSUME NEW tree, NEW read, NEW f, NEW l, tree[f] # Empty \/ f.map.each # "item"
    PROVE  ItemsOf(tree, read \cup {f}, l) =
             IF f.map.each = "item" /\ ListOf(f) = l
             THEN ItemsOf(tree, read, l) \cup {[name |-> f.name, content |-> tree[f]]}
             ELSE ItemsOf(tree, read, l)
  BY DEF ItemsOf

LEMMA LoadFileReads == ASSUME ListInv, WritesLand, ReadSoFar, LoadFile PROVE ReadSoFar'
  <1> SUFFICES ASSUME ~disturbed' PROVE ReadSoFar'
    BY DEF ReadSoFar
  <1>1. PICK f \in reading :
           /\ ~Unreadable(f)
           /\ reading' = reading \ {f}
           /\ lists' =
                IF f.map.each = "item"
                THEN [lists EXCEPT ![ListOf(f)] =
                        Append(@, [name |-> f.name, content |-> files[f]])]
                ELSE lists
           /\ maps' =
                IF f.map.each = "item" \/ files[f] = Empty THEN maps
                ELSE maps \cup {[file |-> f, content |-> files[f]]}
    BY DEF LoadFile
  <1>2. ~disturbed /\ pc = "loading" /\ pc' = "loading" /\ found' = found /\ found = files
    BY DEF LoadFile, WritesLand
  <1> DEFINE read == Present(found) \ reading
             x == [name |-> f.name, content |-> found[f]]
  <1>3. /\ f \in Present(found) /\ reading \subseteq Present(found)
        /\ maps = MapsOf(found, read)
        /\ \A l \in Lists : RangeOf(lists[l]) = ItemsOf(found, read, l)
    BY <1>1, <1>2 DEF ReadSoFar
  <1>4. Present(found') \ reading' = read \cup {f}
    BY <1>1, <1>2, <1>3
  <1>5. maps' = MapsOf(found, read \cup {f})
    <2>1. MapsOf(found, read \cup {f}) =
            IF f.map.each = "item" \/ found[f] = Empty THEN MapsOf(found, read)
            ELSE MapsOf(found, read) \cup {[file |-> f, content |-> found[f]]}
      BY MoreMaps
    <2>2. maps' = IF f.map.each = "item" \/ found[f] = Empty THEN maps
                  ELSE maps \cup {[file |-> f, content |-> found[f]]}
      BY <1>1, <1>2
    <2> QED
      BY <1>3, <2>1, <2>2
  <1>6. ASSUME NEW l \in Lists
        PROVE  RangeOf(lists'[l]) = ItemsOf(found, read \cup {f}, l)
    <2>1. found[f] # Empty \/ f.map.each # "item"
      BY <1>1, <1>2 DEF Unreadable
    <2>2. CASE f.map.each = "item" /\ ListOf(f) = l
      <3>1. x \in Item /\ lists[l] \in Seq(Item)
        BY <1>1, <1>2, <2>2, LoadFileLists
      <3>2. lists'[l] = Append(lists[l], x)
        BY <1>1, <1>2, <2>2 DEF ListInv, Types
      <3>3. RangeOf(lists'[l]) = RangeOf(lists[l]) \cup {x}
        BY <3>1, <3>2, AppendFacts
      <3>4. ItemsOf(found, read \cup {f}, l) = ItemsOf(found, read, l) \cup {x}
        BY <2>2, <2>1, MoreItems
      <3> QED
        BY <1>3, <3>3, <3>4
    <2>3. CASE f.map.each # "item" \/ ListOf(f) # l
      <3>1. lists'[l] = lists[l]
        BY <1>1, <2>3 DEF ListInv, Types
      <3>2. ItemsOf(found, read \cup {f}, l) = ItemsOf(found, read, l)
        BY <2>3, <2>1, MoreItems
      <3> QED
        BY <1>3, <3>1, <3>2
    <2> QED
      BY <2>2, <2>3
  <1>7. reading' \subseteq Present(found')
    BY <1>1, <1>2, <1>3
  <1> QED
    BY <1>2, <1>4, <1>5, <1>6, <1>7 DEF ReadSoFar

LEMMA LoadEndsReads == ASSUME ListInv, ReadSoFar, LoadEnds PROVE ReadSoFar'
  <1> SUFFICES ASSUME ~disturbed' PROVE ReadSoFar'
    BY DEF ReadSoFar
  <1>1. /\ ~disturbed /\ pc = "loading" /\ reading = {} /\ pc' = "loaded"
        /\ UNCHANGED <<reading, maps, found>>
        /\ \A l \in Lists : lists'[l] = Sorted(lists[l])
    BY DEF LoadEnds
  <1>2. ASSUME NEW l \in Lists
        PROVE  /\ RangeOf(lists'[l]) = RangeOf(lists[l])
               /\ \A i \in 1..Len(lists'[l]) - 1 : lists'[l][i].name < lists'[l][i + 1].name
    <2>1. lists[l] \in Seq(Item) /\ Distinct(lists[l])
      BY <1>1 DEF ListInv, Types, ReadOnce
    <2>2. /\ RangeOf(Sorted(lists[l])) = RangeOf(lists[l])
          /\ Len(Sorted(lists[l])) = Len(lists[l])
          /\ \A i \in 1..Len(lists[l]) - 1 :
               Sorted(lists[l])[i].name < Sorted(lists[l])[i + 1].name
      BY <2>1, SortedFacts
    <2> QED
      BY <1>1, <2>2
  <1>3. Ordered'
    BY <1>2 DEF Ordered
  <1> QED
    BY <1>1, <1>2, <1>3 DEF ReadSoFar

LEMMA ReadNext == ListInv /\ WritesLand /\ ReadSoFar /\ [Next]_vars => ReadSoFar'
  <1> SUFFICES ASSUME ListInv, WritesLand, ReadSoFar, [Next]_vars PROVE ReadSoFar'
    OBVIOUS
  <1>1. ASSUME NEW nodes \in Values, SaveValues(nodes) PROVE ReadSoFar'
    BY <1>1 DEF SaveValues, ReadSoFar
  <1>2. CASE WriteFile
    <2>1. ~disturbed' => pc = "saving"
      BY <1>2 DEF WriteFile, WritesLand
    <2> QED
      BY <1>2, <2>1 DEF WriteFile, ReadSoFar
  <1>3. CASE SaveEnds
    BY <1>3 DEF SaveEnds, ReadSoFar
  <1>4. CASE WriteFails
    BY <1>4 DEF WriteFails, ReadSoFar
  <1>5. CASE LoadValues
    BY <1>5, LoadValuesReads
  <1>6. CASE LoadFile
    BY <1>6, LoadFileReads
  <1>7. CASE LoadFails
    BY <1>7 DEF LoadFails, ReadSoFar
  <1>8. CASE LoadEnds
    BY <1>8, LoadEndsReads
  <1>9. CASE Commit
    BY <1>9 DEF Commit, values, ReadSoFar, Ordered
  <1>10. CASE UserRemoves
    BY <1>10 DEF UserRemoves, values, ReadSoFar, Ordered
  <1>11. CASE Reset
    BY <1>11 DEF Reset, ReadSoFar
  <1>12. CASE Crash
    BY <1>12 DEF Crash, ReadSoFar
  <1>13. CASE UNCHANGED vars
    BY <1>13 DEF vars, ReadSoFar, Ordered
  <1> QED
    BY <1>1, <1>2, <1>3, <1>4, <1>5, <1>6, <1>7, <1>8, <1>9, <1>10, <1>11, <1>12, <1>13 DEF Next

-----------------------------------------------------------------------------
(* What is loaded.                                                         *)

FilesInv == ListInv /\ WritesLand /\ ReadSoFar

LEMMA LoadedFiles ==
    ASSUME FilesInv, pc = "loaded", ~disturbed
    PROVE  Loaded = {[file |-> f, content |-> found[f]] :
                       f \in {g \in Present(found) : found[g] # Empty}}
  <1> DEFINE full == {g \in Present(found) : found[g] # Empty}
             entry(f) == [file |-> f, content |-> found[f]]
             ItemEntry(l, it) == [file |-> [map |-> l.map, team |-> l.team, name |-> it.name],
                                  content |-> it.content]
  <1>1. /\ maps = MapsOf(found, Present(found))
        /\ \A l \in Lists : RangeOf(lists[l]) = ItemsOf(found, Present(found), l)
    BY DEF FilesInv, ReadSoFar
  <1>2. Loaded = maps \cup UNION {{ItemEntry(l, it) : it \in RangeOf(lists[l])} : l \in Lists}
    BY DEF Loaded
  <1>3. ASSUME NEW f \in full PROVE entry(f) \in Loaded
    <2>1. f \in Files /\ f.map.load
      BY DEF Present
    <2>2. CASE f.map.each # "item"
      <3>1. entry(f) \in maps
        BY <1>1, <2>2 DEF MapsOf
      <3> QED
        BY <1>2, <3>1
    <2>3. CASE f.map.each = "item"
      <3> DEFINE it == [name |-> f.name, content |-> found[f]]
      <3>1. ListOf(f) \in Lists
        BY <2>1, <2>3, FileFacts
      <3>2. it \in RangeOf(lists[ListOf(f)])
        BY <1>1, <2>3, <3>1 DEF ItemsOf
      <3>3. ItemEntry(ListOf(f), it) = entry(f)
        BY <2>1, FileFacts DEF ListOf
      <3>4. ItemEntry(ListOf(f), it) \in {ItemEntry(ListOf(f), i) : i \in RangeOf(lists[ListOf(f)])}
        BY <3>2
      <3>5. {ItemEntry(ListOf(f), i) : i \in RangeOf(lists[ListOf(f)])} \subseteq Loaded
        BY <1>2, <3>1
      <3> QED
        BY <3>3, <3>4, <3>5
    <2> QED
      BY <2>2, <2>3
  <1>4. ASSUME NEW e \in Loaded PROVE \E f \in full : e = entry(f)
    <2>1. CASE e \in maps
      BY <1>1, <2>1 DEF MapsOf
    <2>2. CASE e \notin maps
      <3>1. PICK l \in Lists : \E it \in RangeOf(lists[l]) : e = ItemEntry(l, it)
        BY <1>2, <2>2
      <3>2. PICK it \in RangeOf(lists[l]) : e = ItemEntry(l, it)
        BY <3>1
      <3>3. PICK f \in full : ListOf(f) = l /\ it = [name |-> f.name, content |-> found[f]]
        BY <1>1, <3>2 DEF ItemsOf
      <3>4. f = [map |-> l.map, team |-> l.team, name |-> it.name]
        BY <3>3, FileFacts DEF ListOf, Present
      <3>5. e = entry(f)
        BY <3>2, <3>3, <3>4
      <3> QED
        BY <3>5
    <2> QED
      BY <2>1, <2>2
  <1> QED
    BY <1>3, <1>4

LEMMA FilesInvEnough == FilesInv => LoadIsDeterministic /\ SavedIsLoaded
  <1> SUFFICES ASSUME FilesInv PROVE LoadIsDeterministic /\ SavedIsLoaded
    OBVIOUS
  <1>1. LoadIsDeterministic
    BY LoadedFiles DEF FilesInv, ReadSoFar, Ordered, LoadIsDeterministic
  <1>2. ASSUME pc = "loaded", ~disturbed, NEW n \in saved.nodes
        PROVE  \E e \in Loaded :
                 /\ e.file.map = n.map /\ e.file.team = n.team
                 /\ n.by # "none" /\ n.map.each # "one" => e.file.name = n.key
                 /\ e.content = saved.number
    <2> DEFINE f == FilePath(n)
               e == [file |-> f, content |-> found[f]]
    <2>1. n \in Nodes /\ f \in Files
      BY NodeFacts DEF FilesInv, ListInv, Types
    <2>2. n.map.load /\ saved.number > 0 /\ found[f] = saved.number
      <3>1. writing = {} /\ found = files /\ SavedOnDisk(n)
        BY <1>2 DEF FilesInv, WritesLand
      <3> QED
        BY <3>1 DEF SavedOnDisk
    <2>3. found[f] # NoFile /\ found[f] # Empty
      BY <2>2, FilesAssumption DEF NoFile, Empty, FilesInv, ListInv, Types
    <2>4. f \in Present(found)
      BY <2>1, <2>2, <2>3, NodeFacts DEF Present
    <2>5. e \in Loaded
      BY <1>2, <2>3, <2>4, LoadedFiles
    <2> QED
      BY <2>1, <2>2, <2>5, NodeFacts
  <1> QED
    BY <1>1, <1>2 DEF SavedIsLoaded

LEMMA FilesInvariant == Spec => []FilesInv
  <1>1. Init => FilesInv
    BY ListInit, WritesInit, ReadInit DEF FilesInv
  <1>2. FilesInv /\ [Next]_vars => FilesInv'
    BY ListNext, WritesNext, ReadNext DEF FilesInv
  <1> QED
    BY <1>1, <1>2, PTL DEF Spec

\* loadValues gives the values of the files it found, each once, lists in the order of
\* their names, whatever the order in which the reads end.
THEOREM LoadsAgree == Spec => []LoadIsDeterministic
  BY FilesInvariant, FilesInvEnough, PTL

\* What saveValues wrote last is what loadValues gives, whatever writes failed or were
\* cut off before that save.
THEOREM SavesAreLoaded == Spec => []SavedIsLoaded
  BY FilesInvariant, FilesInvEnough, PTL
=============================================================================
