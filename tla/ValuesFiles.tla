----------------------------- MODULE ValuesFiles -----------------------------
(***************************************************************************)
(* How values become files of the values repository and files become       *)
(* values again (src/common/repo.ts).  A table says which parts of the     *)
(* values have files of their own.  A save writes all its files at once, a *)
(* load reads all files it finds at once; the writes and reads end in any  *)
(* order, and the poll loop may reset the tree in between.                 *)
(*                                                                         *)
(* A definition named Broken... is a plausible mistake in the definition   *)
(* that follows it; no action uses it.                                     *)
(***************************************************************************)
EXTENDS Integers, Sequences, FiniteSets

CONSTANTS
    Teams,     \* the teams of the instance
    LastKey,   \* names of apps, policies and items are 1..LastKey, in their order
    Paths,     \* the parts of the values the instance uses
    Faults,    \* the kinds of fault that may happen
    MaxNodes,  \* bound: nodes in the values of one save
    MaxSaves   \* bound: saves of a behaviour

FaultKinds == {"write", "crash", "reset"}

\* An entry of the table: the path in the values; whether it has one file, one per key
\* or one per item of a list; the directory; whether a load puts its files into the
\* values.
MapOf(path, each, team, dir, load) ==
    [path |-> path, each |-> each, team |-> team, dir |-> dir, load |-> load]

PlatformMaps ==
    {MapOf(p, "key", FALSE, p, TRUE) : p \in {"apps", "catalogs", "databases"}}
    \cup {MapOf(p, "one", FALSE, "settings", TRUE) :
            p \in {"alerts", "cluster", "dns", "ingress", "obj", "oidc", "otomi",
                   "platformBackups", "smtp", "versions"}}

TeamMaps ==
    {MapOf(p, "item", TRUE, p, TRUE) :
       p \in {"codeRepos", "builds", "workloads", "services", "projects", "netpols"}}
    \cup {MapOf(p, "item", TRUE, p, FALSE) :
            p \in {"workloadValues", "sealedsecrets", "knowledgebases", "agents"}}
    \cup {MapOf(p, "one", TRUE, ".", TRUE) : p \in {"settings", "apps of a team"}}
    \cup {MapOf("policies", "key", TRUE, "policies", TRUE)}

FileMaps == {m \in PlatformMaps \cup TeamMaps : m.path \in Paths}

ASSUME FilesAssumption ==
    /\ Paths \subseteq {m.path : m \in PlatformMaps \cup TeamMaps}
    /\ LastKey \in Nat /\ MaxNodes \in Nat /\ MaxSaves \in Nat
    /\ Faults \subseteq FaultKinds

RangeOf(s) == {s[i] : i \in DOMAIN s}

NoTeam == "no team"
Keys == 1..LastKey
NoKey == 0
Unknown == LastKey + 1

\* The nodes of values that an entry selects: keys name themselves, an item of a list
\* has a name, an id or neither of them; one of code repositories may have a label.
NodesOf(m) ==
    {[map |-> m, team |-> t, key |-> k, by |-> b] :
       t \in IF m.team THEN Teams ELSE {NoTeam},
       k \in IF m.each = "one" THEN {NoKey} ELSE Keys,
       b \in IF m.each # "item" THEN {"key"}
             ELSE {"name", "id", "none"} \cup IF m.path = "codeRepos" THEN {"label"} ELSE {}}

Nodes == UNION {NodesOf(m) : m \in FileMaps}

\* An item is named by its name, else by its id; a label becomes the name first.
ResourceName(n) ==
    IF n.by = "none" THEN Unknown ELSE n.key

FilePath(n) == [map |-> n.map, team |-> n.team, name |-> ResourceName(n)]

Files == {FilePath(n) : n \in Nodes}

\* A name is taken once.
Wellformed(values) ==
    \A n1, n2 \in values : n1 # n2 => FilePath(n1) # FilePath(n2)

Values == {v \in SUBSET Nodes : Cardinality(v) <= MaxNodes /\ Wellformed(v)}

\* What a file holds: the number of the save it is from, or nothing, when a write was
\* cut off.
NoFile == -1
Empty == 0
Contents == NoFile..MaxSaves

VARIABLES
    files,    \* the tree
    head,     \* the tree at HEAD
    remote,   \* the tree on the git server
    saved,    \* the values of the last save, and its number
    writing,  \* writes that have not ended, of the last save or of one that failed
    reading,  \* files a load has still to read
    lists,    \* the lists a load has built so far
    maps,     \* the other parts of the values it has set
    found,    \* the tree the load found; read by properties only
    disturbed, \* a write failed or was cut off, one of an earlier save ended late, or
               \* the tree was reset; read by properties only
    pc

vars == <<files, head, remote, saved, writing, reading, lists, maps, found, disturbed, pc>>
values == <<lists, maps>>

Lists == {f \in [map : FileMaps, team : Teams] : f.map.each = "item" /\ f.map.load}

Written == 1..MaxSaves
Item == [name : Keys \cup {Unknown}, content : Written]

TypeOK ==
    /\ files \in [Files -> Contents] /\ head \in [Files -> Contents]
    /\ remote \in [Files -> Contents]
    /\ saved.nodes \subseteq Nodes /\ saved.number \in Nat
    /\ \A w \in writing : w.file \in Files /\ w.content \in Written
    /\ reading \subseteq Files
    /\ DOMAIN lists = Lists
    /\ \A l \in Lists : RangeOf(lists[l]) \subseteq Item
    /\ \A e \in maps : e.file \in Files /\ e.content \in Written
    /\ found \in [Files -> Contents]
    /\ disturbed \in BOOLEAN
    /\ pc \in {"idle", "saving", "loading", "loaded"}

EmptyLists == [l \in Lists |-> << >>]

Init ==
    /\ files = [f \in Files |-> NoFile]
    /\ head = files /\ remote = files /\ found = files
    /\ saved = [nodes |-> {}, number |-> 0]
    /\ writing = {} /\ reading = {}
    /\ lists = EmptyLists /\ maps = {}
    /\ disturbed = FALSE
    /\ pc = "idle"

-----------------------------------------------------------------------------
(* saveValues: every node that has a file and is part of the values is     *)
(* written; files of nodes that are gone stay.                             *)

SavedNodes(nodes) == {n \in nodes : n.map.load}

SaveValues(nodes) ==
    /\ pc \in {"idle", "loaded"}
    /\ saved.number < MaxSaves
    /\ saved' = [nodes |-> SavedNodes(nodes), number |-> saved.number + 1]
    /\ writing' = writing \cup
         {[file |-> FilePath(n), content |-> saved'.number] : n \in saved'.nodes}
    /\ disturbed' = (writing # {})
    /\ pc' = "saving"
    /\ UNCHANGED <<files, head, remote, reading, values, found>>

WriteFile ==
    /\ \E w \in writing :
         /\ files' = [files EXCEPT ![w.file] = w.content]
         /\ writing' = writing \ {w}
    /\ disturbed' = (disturbed \/ pc = "loading")
    /\ UNCHANGED <<head, remote, saved, reading, values, found, pc>>

BrokenOutstanding == {}

Outstanding == {w \in writing : w.content = saved.number}

SaveEnds ==
    /\ pc = "saving"
    /\ Outstanding = {}
    /\ pc' = "idle"
    /\ UNCHANGED <<files, head, remote, saved, writing, reading, values, found, disturbed>>

\* One write fails: saveValues ends at once, and the others go on.
WriteFails ==
    /\ "write" \in Faults
    /\ pc = "saving"
    /\ \E w \in Outstanding : writing' = writing \ {w}
    /\ disturbed' = TRUE
    /\ pc' = "idle"
    /\ UNCHANGED <<files, head, remote, saved, reading, values, found>>

-----------------------------------------------------------------------------
(* loadValues.                                                             *)

Present(tree) == {f \in Files : tree[f] # NoFile /\ f.map.load}

\* All lists are emptied before the first file is read.
LoadValues ==
    /\ pc \in {"idle", "loaded"}
    /\ reading' = Present(files)
    /\ lists' = EmptyLists /\ maps' = {}
    /\ found' = files
    /\ pc' = "loading"
    /\ UNCHANGED <<files, head, remote, saved, writing, disturbed>>

ListOf(f) == [map |-> f.map, team |-> f.team]

BrokenUnreadable(f) == files[f] = Empty /\ f.map.each = "item"

\* The file that an item of a list is in cannot be used without content.
Unreadable(f) ==
    \/ files[f] = NoFile
    \/ files[f] = Empty /\ f.map.each = "item"

\* The name of an item is the one in the file's metadata.
LoadFile ==
    /\ pc = "loading"
    /\ \E f \in reading :
         /\ ~Unreadable(f)
         /\ reading' = reading \ {f}
         /\ lists' =
              IF f.map.each = "item"
              THEN [lists EXCEPT ![ListOf(f)] =
                      Append(@, [name |-> f.name, content |-> files[f]])]
              ELSE lists
         /\ maps' =
              IF f.map.each = "item" \/ files[f] = Empty THEN maps
              ELSE maps \cup {[file |-> f, content |-> files[f]]}
    /\ UNCHANGED <<files, head, remote, saved, writing, found, disturbed, pc>>

LoadFails ==
    /\ pc = "loading"
    /\ \E f \in reading : Unreadable(f)
    /\ reading' = {}
    /\ pc' = "idle"
    /\ UNCHANGED <<files, head, remote, saved, writing, values, found, disturbed>>

BrokenSorted(items) == items

\* The items in the order of their names.
Sorted(items) ==
    [i \in DOMAIN items |->
       CHOOSE it \in RangeOf(items) :
         Cardinality({o \in RangeOf(items) : o.name < it.name}) = i - 1]

LoadEnds ==
    /\ pc = "loading" /\ reading = {}
    /\ lists' = [l \in Lists |-> Sorted(lists[l])]
    /\ pc' = "loaded"
    /\ UNCHANGED <<files, head, remote, saved, writing, reading, maps, found, disturbed>>

-----------------------------------------------------------------------------
(* Git and the process.                                                    *)

\* The operator commits the tree, and pushes it or fails to.
Commit ==
    /\ pc \in {"idle", "loaded"}
    /\ head # files \/ remote # files
    /\ head' = files
    /\ remote' \in {remote, files}
    /\ UNCHANGED <<files, saved, writing, reading, values, found, disturbed, pc>>

\* A user removes a part of the values.
UserRemoves ==
    /\ \E f \in Files :
         /\ remote[f] # NoFile
         /\ remote' = [remote EXCEPT ![f] = NoFile]
    /\ UNCHANGED <<files, head, saved, writing, reading, values, found, disturbed, pc>>

\* The poll loop may reset the tree at any moment; untracked files stay.
Reset ==
    /\ "reset" \in Faults
    /\ files' = [f \in Files |-> IF head[f] = NoFile /\ remote[f] = NoFile
                                 THEN files[f] ELSE remote[f]]
    /\ head' = remote
    /\ <<files, head>>' # <<files, head>>
    /\ disturbed' = TRUE
    /\ UNCHANGED <<remote, saved, writing, reading, values, found, pc>>

\* Writes that were under way are lost, and may leave files without content.
Crash ==
    /\ "crash" \in Faults
    /\ pc \in {"saving", "loading"} \/ writing # {}
    /\ \E cut \in SUBSET {w.file : w \in writing} :
         files' = [f \in Files |-> IF f \in cut THEN Empty ELSE files[f]]
    /\ writing' = {} /\ reading' = {}
    /\ lists' = EmptyLists /\ maps' = {}
    /\ disturbed' = (disturbed \/ pc = "saving" \/ files' # files)
    /\ pc' = "idle"
    /\ UNCHANGED <<head, remote, saved, found>>

Next ==
    \/ \E nodes \in Values : SaveValues(nodes)
    \/ WriteFile \/ SaveEnds \/ WriteFails
    \/ LoadValues \/ LoadFile \/ LoadFails \/ LoadEnds
    \/ Commit \/ UserRemoves \/ Reset \/ Crash

Spec == Init /\ [][Next]_vars

-----------------------------------------------------------------------------
(* Properties.                                                             *)

Loaded ==
    maps \cup UNION {{[file |-> [map |-> l.map, team |-> l.team, name |-> it.name],
                       content |-> it.content] : it \in RangeOf(lists[l])} : l \in Lists}

\* Whatever the order in which files are read, the values are those of the files that
\* were found, every file once, and lists come out in the order of their names: two
\* loads of a tree never differ.
LoadIsDeterministic ==
    pc = "loaded" /\ ~disturbed =>
      /\ Loaded = {[file |-> f, content |-> found[f]] :
                     f \in {g \in Present(found) : found[g] # Empty}}
      /\ \A l \in Lists :
           \A i \in 1..Len(lists[l]) - 1 :
             lists[l][i].name < lists[l][i + 1].name

\* What was saved last is loaded again, whole and none of it in an older form, also
\* after saves that failed or were cut off and whatever files of earlier saves there
\* are, provided nothing of an earlier save was still being written.
SavedIsLoaded ==
    pc = "loaded" /\ ~disturbed =>
      \A n \in saved.nodes :
        \E e \in Loaded :
          /\ e.file.map = n.map /\ e.file.team = n.team
          /\ n.by # "none" /\ n.map.each # "one" => e.file.name = n.key
          /\ e.content = saved.number
=============================================================================
