------------------------- MODULE ConsumerScopeProofs -------------------------
(***************************************************************************)
(* What the verification of a workstation's consumers reports, for any     *)
(* projects, Skills and changes: the validators take what the builders     *)
(* make (PackFits), and ready is said only of what was read as released    *)
(* (ProjectsFit).                                                          *)
(*                                                                         *)
(* Every action is one of nine kinds of steps; each invariant is shown to  *)
(* be kept by each kind.                                                   *)
(***************************************************************************)
EXTENDS ConsumerScope, FiniteSetTheorems, TLAPS

-----------------------------------------------------------------------------
(* The helpers.                                                            *)

LEMMA TotalOfNone == Total(<<>>) = 0
  <1>1. DOMAIN <<>> = {}
    OBVIOUS
  <1> QED
    BY <1>1 DEF Total, FoldLeft, MapThenFoldSet

\* The entries a project's catalog lists are those it sees.
LEMMA InventoryIs ==
  /\ Inventory \in Seq(Project) /\ Len(Inventory) \in Nat
  /\ DOMAIN Inventory = 1 .. Len(Inventory)
  /\ \A k \in 1 .. Len(Inventory) : Inventory[k] \in Project
  /\ \A p \in Project : \E k \in 1 .. Len(Inventory) : Inventory[k] = p
  /\ \A p \in Project : Sees[p] \in Seq(Skill)
  <1>1. Inventory \in Seq(Project) /\ Range(Inventory) = Project
    BY InventoryAssumption
  <1>2. \A p \in Project : \E k \in DOMAIN Inventory : Inventory[k] = p
    BY <1>1 DEF Range
  <1> QED
    BY <1>1, <1>2, InventoryAssumption

LEMMA ScanIs ==
  ASSUME TypeOK
  PROVE  /\ scan \in Scans /\ scan.i \in Nat /\ scan.j \in Nat /\ scan.scanned \in Nat
         /\ scan.skills \in Seq(Rows) /\ Len(scan.skills) \in Nat
         /\ scan.projects \in Seq(Reads) /\ Len(scan.projects) \in Nat
  BY DEF TypeOK, Scans

LEMMA CurrentIs ==
  ASSUME TypeOK, CursorFits, scan.pc \in Within \union {"root"}
  PROVE  /\ Project1 \in Project /\ scan.catalog \in Catalogs
         /\ Listed \in Seq(Seq(Entries)) /\ Len(Listed) <= 1
  <1>1. scan.i \in 1 .. Len(Inventory) /\ scan.catalog \in Catalogs
    BY ScanIs, InventoryIs DEF TypeOK, CursorFits, Before, Within
  <1> QED
    BY <1>1, InventoryIs DEF Project1, Listed, Catalogs

LEMMA ListedIs ==
  ASSUME TypeOK, CursorFits, scan.pc \in Within
  PROVE  /\ Len(Listed) = 1 /\ Head(Listed) = Listed[1] /\ Head(Listed) \in Seq(Entries)
         /\ Len(Head(Listed)) \in Nat
         /\ More => /\ scan.j \in 1 .. Len(Head(Listed))
                    /\ Entry \in Entries
  <1>1. Listed \in Seq(Seq(Entries)) /\ Len(Listed) <= 1 /\ Listed # <<>>
    BY CurrentIs DEF CursorFits
  <1>2. Len(Listed) = 1 /\ Head(Listed) = Listed[1] /\ Head(Listed) \in Seq(Entries)
    <2>1. \A S : \A c \in Seq(S) : c # <<>> =>
            Len(c) \in Nat \ {0} /\ Head(c) = c[1] /\ c[1] \in S
      OBVIOUS
    <2>2. Len(Listed) \in Nat \ {0} /\ Head(Listed) = Listed[1] /\ Listed[1] \in Seq(Entries)
      BY <1>1, <2>1
    <2>3. \A n \in Nat \ {0} : n <= 1 => n = 1
      OBVIOUS
    <2>4. Len(Listed) = 1
      BY <1>1, <2>2, <2>3
    <2> QED
      BY <2>2, <2>4
  <1>3. scan.j = Len(scan.skills) + 1
    BY DEF CursorFits
  <1>4. scan.j \in Nat /\ scan.j >= 1
    BY <1>3, ScanIs
  <1>5. More => scan.j \in 1 .. Len(Head(Listed))
    BY <1>2, <1>4 DEF More
  <1> QED
    BY <1>2, <1>5 DEF Entry

-----------------------------------------------------------------------------
(* The kinds of steps.                                                     *)

Still == /\ content' = content /\ enabled' = enabled /\ open' = open /\ listing' = listing
         /\ exact' = exact /\ changes' = changes /\ held' = held
Here == /\ scan' \in Scans /\ scan'.catalog = scan.catalog /\ scan'.projects = scan.projects
        /\ scan'.i = scan.i
Counts == scan'.j = scan.j /\ scan'.skills = scan.skills /\ scan'.scanned = scan.scanned

\* Nothing of the scan and the host changes.
Rests == scan' = scan /\ Still
\* A scan begins, or is put away.
Begins == /\ UNCHANGED world
          /\ scan' \in Scans /\ scan'.pc \in Before /\ scan'.projects = <<>>
          /\ scan'.scanned = 0 /\ scan'.skills = <<>>
          /\ changes' \in Nat /\ held' \subseteq Skill
          /\ scan'.pc = "catalog" =>
               \A s \in Skill : content[s] = Desired => s \in held'
\* The catalog comes.
Lists == /\ Still /\ scan.pc = "catalog" /\ scan' \in Scans /\ Counts
         /\ scan'.projects = scan.projects /\ scan'.i = 1
         /\ scan'.pc = IF Inventory = <<>> THEN "build" ELSE "root"
         /\ scan'.catalog \in Catalogs /\ CatalogFits'
\* A project is opened.
Opens == /\ Still /\ Here /\ scan.pc = "root" /\ scan'.pc = "entry" /\ scan'.j = 1
         /\ scan'.skills = scan.skills /\ scan'.scanned = scan.scanned + 1
         /\ Project1 \in open /\ Listed # <<>>
\* An entry is read to the end, or a part of it.
Adds(row) == /\ Still /\ Here /\ scan.pc \in Within /\ scan'.pc = "entry" /\ More
             /\ scan'.j = scan.j + 1 /\ scan'.skills = Append(scan.skills, row)
             /\ scan'.scanned = scan.scanned
             /\ row \in Rows /\ RowFits(row, Entry)
Notes == /\ Still /\ Here /\ Counts /\ scan.pc \in Within /\ scan'.pc \in {"version", "again"}
         /\ More /\ Entry.enabled
\* A project ends.
Ends(read) == /\ Still /\ scan.pc \in Within \union {"root"} /\ scan' \in Scans
              /\ scan'.pc = (IF scan.i < Len(Inventory) THEN "root" ELSE "build")
              /\ scan'.i = scan.i + 1 /\ scan'.j = 0 /\ scan'.skills = <<>>
              /\ scan'.catalog = scan.catalog
              /\ scan'.projects = Append(scan.projects, read) /\ read \in Reads
              /\ ProjectValid(read) /\ scan'.scanned \in Nat /\ scan'.scanned <= scan.i
              /\ read.status # "bounded" =>
                   scan'.scanned = scan.scanned /\ scan.pc \in Within /\ ProjectFits(read, Project1)
\* The pack is built.
Finishes == /\ Still /\ Here /\ Counts /\ scan.pc = "build" /\ scan'.pc = "done"
\* The host changes.
Disturbs == /\ scan' = scan /\ scan.pc \notin {"idle", "done"} /\ changes' = changes + 1
            /\ listing' = listing /\ exact' = exact
            /\ content' \in [Skill -> Contents] /\ enabled' \in [Skill -> BOOLEAN]
            /\ open' \subseteq Project /\ held \subseteq held' /\ held' \subseteq Skill
            /\ \A s \in Skill : content'[s] = Desired => content[s] = Desired \/ s \in held'

Steps == \/ Rests \/ Begins \/ Lists \/ Opens \/ (\E row : Adds(row)) \/ Notes
         \/ (\E read : Ends(read)) \/ Finishes \/ Disturbs

\* What the rows of a project add up to.
LEMMA DisambiguatedIs ==
  ASSUME NEW s \in Seq(Rows)
  PROVE  /\ Disambiguated(s) \in Seq(Rows) /\ Len(Disambiguated(s)) = Len(s)
         /\ \A k \in 1 .. Len(s) :
              /\ Disambiguated(s)[k].name = s[k].name
              /\ Disambiguated(s)[k].enabled = s[k].enabled
              /\ \/ Disambiguated(s)[k].relation = s[k].relation
                 \/ s[k].enabled /\ Disambiguated(s)[k].relation = "drifted"
              /\ s[k].enabled /\ Cardinality(Enabled(s, s[k].name)) > 1 =>
                   Disambiguated(s)[k].relation \in {"unreadable", "drifted"}
  <1>1. PICK d : d = Disambiguated(s)
    OBVIOUS
  <1>2. DOMAIN s = 1 .. Len(s) /\ Len(s) \in Nat /\ \A k \in 1 .. Len(s) : s[k] \in Rows
    OBVIOUS
  <1>3. d = [k \in 1 .. Len(s) |->
               IF /\ s[k].enabled /\ s[k].relation # "unreadable"
                  /\ Cardinality(Enabled(s, s[k].name)) > 1
                 THEN [s[k] EXCEPT !.relation = "drifted"] ELSE s[k]]
    BY <1>1, <1>2 DEF Disambiguated
  <1>4. \A r \in Rows : /\ [r EXCEPT !.relation = "drifted"] \in Rows
                        /\ [r EXCEPT !.relation = "drifted"].name = r.name
                        /\ [r EXCEPT !.relation = "drifted"].enabled = r.enabled
                        /\ [r EXCEPT !.relation = "drifted"].relation = "drifted"
    BY DEF Rows
  <1>5. \A k \in 1 .. Len(s) : d[k] \in Rows
    BY <1>2, <1>3, <1>4
  <1>6. d \in Seq(Rows) /\ Len(d) = Len(s)
    BY <1>2, <1>3, <1>5
  <1>7. \A k \in 1 .. Len(s) :
              /\ d[k].name = s[k].name /\ d[k].enabled = s[k].enabled
              /\ \/ d[k].relation = s[k].relation
                 \/ s[k].enabled /\ d[k].relation = "drifted"
              /\ s[k].enabled /\ Cardinality(Enabled(s, s[k].name)) > 1 =>
                   d[k].relation \in {"unreadable", "drifted"}
    BY <1>2, <1>3, <1>4
  <1> QED
    BY <1>1, <1>6, <1>7

LEMMA EnabledIs ==
  ASSUME NEW s \in Seq(Rows), NEW name
  PROVE  /\ Enabled(s, name) \subseteq 1 .. Len(s) /\ IsFiniteSet(Enabled(s, name))
         /\ Cardinality(Enabled(s, name)) \in Nat
         /\ Enabled(Disambiguated(s), name) = Enabled(s, name)
  <1>1. Enabled(s, name) \subseteq 1 .. Len(s)
    BY DEF Enabled
  <1>2. Len(s) \in Nat
    OBVIOUS
  <1>3. IsFiniteSet(1 .. Len(s))
    BY <1>2, FS_Interval
  <1>4. IsFiniteSet(Enabled(s, name)) /\ Cardinality(Enabled(s, name)) \in Nat
    BY <1>1, <1>3, FS_Subset, FS_CardinalityType
  <1>5. DOMAIN Disambiguated(s) = 1 .. Len(s) /\ DOMAIN s = 1 .. Len(s)
    BY DisambiguatedIs
  <1>6. Enabled(Disambiguated(s), name) = Enabled(s, name)
    BY <1>5, DisambiguatedIs DEF Enabled
  <1> QED
    BY <1>1, <1>4, <1>6

\* The rows a project that is not bounded ends with.
LEMMA ClosesValid ==
  ASSUME NEW s \in Seq(Rows), \A k \in 1 .. Len(s) : s[k].relation = "disabled" <=> ~s[k].enabled,
         \A name \in Capability : Enabled(s, name) # {},
         NEW read, read = [status |-> ProjectStatus(Disambiguated(s)), skills |-> Disambiguated(s)]
  PROVE  read \in Reads /\ ProjectValid(read)
  <1>1. PICK d : d = Disambiguated(s)
    OBVIOUS
  <1>2. d \in Seq(Rows) /\ Len(d) = Len(s) /\ DOMAIN d = 1 .. Len(s)
    BY <1>1, DisambiguatedIs
  <1>3. \A k \in 1 .. Len(s) : s[k] \in Rows /\ d[k] \in Rows
    BY <1>2
  <1>4. \A k \in 1 .. Len(s) : d[k].relation = "disabled" <=> ~d[k].enabled
    BY <1>1, DisambiguatedIs
  <1>5. ProjectStatus(d) \in {"exact", "drifted", "bounded"}
    BY DEF ProjectStatus
  <1>6. \A name \in Capability : Enabled(d, name) # {}
    BY <1>1, EnabledIs
  <1>7. ASSUME ProjectStatus(d) = "exact", NEW name \in Capability
        PROVE  /\ Cardinality(Enabled(d, name)) = 1
               /\ \A k \in Enabled(d, name) : d[k].relation = "exact"
    <2>1. "unreadable" \notin Relations(d) /\ "drifted" \notin Relations(d)
      BY <1>7 DEF ProjectStatus
    <2>2. \A k \in 1 .. Len(s) : d[k].relation \notin {"unreadable", "drifted"}
      BY <1>2, <2>1 DEF Relations
    <2>3. \A k \in 1 .. Len(s) : d[k].enabled => d[k].relation = "exact"
      BY <1>3, <1>4, <2>2 DEF Rows
    <2>4. \A k \in Enabled(d, name) : k \in 1 .. Len(s) /\ d[k].enabled /\ d[k].name = name
      BY <1>2 DEF Enabled
    <2>5. PICK k \in 1 .. Len(s) : s[k].enabled /\ s[k].name = name
      BY <1>1, <1>6, <2>4, DisambiguatedIs
    <2>6. ~(Cardinality(Enabled(s, name)) > 1)
      BY <1>1, <2>2, <2>5, DisambiguatedIs
    <2>7. Enabled(d, name) = Enabled(s, name) /\ Cardinality(Enabled(s, name)) \in Nat
          /\ IsFiniteSet(Enabled(s, name))
      BY <1>1, EnabledIs
    <2>8. Cardinality(Enabled(s, name)) # 0
      BY <1>6, <2>7, FS_EmptySet
    <2> QED
      BY <2>3, <2>4, <2>6, <2>7, <2>8
  <1>8. read.status = ProjectStatus(d) /\ read.skills = d
    BY <1>1
  <1>9. read \in Reads
    BY <1>1, <1>2, <1>5 DEF Reads
  <1>10. \A k \in DOMAIN d : (d[k].relation = "disabled") = ~d[k].enabled
    BY <1>2, <1>3, <1>4 DEF Rows
  <1> QED
    BY <1>6, <1>7, <1>8, <1>9, <1>10 DEF ProjectValid

LEMMA InspectBegins ==
  ASSUME TypeOK, Inspect
  PROVE  Begins
  <1>1. Idle \in Scans
    BY DEF Idle, Scans, Contents
  <1>2. /\ scan' \in Scans /\ scan'.pc = "catalog" /\ scan'.projects = <<>>
        /\ scan'.scanned = 0 /\ scan'.skills = <<>>
    BY <1>1 DEF Inspect, Idle, Scans
  <1>3. held' = {s \in Skill : content[s] = Desired} /\ changes' = 0
    BY DEF Inspect
  <1> QED
    BY <1>2, <1>3 DEF Inspect, Begins, Before

LEMMA AgainBegins ==
  ASSUME TypeOK, Again
  PROVE  Begins
  <1>1. /\ Idle \in Scans /\ Idle.pc = "idle" /\ Idle.projects = <<>> /\ Idle.scanned = 0
        /\ Idle.skills = <<>>
    BY DEF Idle, Scans, Contents
  <1> QED
    BY <1>1 DEF Again, To, TypeOK, Begins, Before, world

LEMMA CatalogLists ==
  ASSUME TypeOK, Catalog
  PROVE  Lists
  <1>1. PICK failed \in SUBSET Project :
          To([scan EXCEPT !.pc = IF Inventory = <<>> THEN "build" ELSE "root", !.i = 1,
                !.catalog = [p \in Project |->
                   IF p \in failed THEN <<>>
                   ELSE <<[k \in DOMAIN Sees[p] |->
                           [skill |-> Sees[p][k], enabled |-> enabled[Sees[p][k]]]]>>]])
    BY DEF Catalog
  <1>2. PICK c : c = [p \in Project |->
                   IF p \in failed THEN <<>>
                   ELSE <<[k \in DOMAIN Sees[p] |->
                           [skill |-> Sees[p][k], enabled |-> enabled[Sees[p][k]]]]>>]
    OBVIOUS
  <1>3. ASSUME NEW p \in Project
        PROVE  /\ c[p] \in Seq(Seq(Entries)) /\ Len(c[p]) <= 1
               /\ c[p] # <<>> =>
                    /\ Len(c[p][1]) = Len(Sees[p])
                    /\ \A k \in DOMAIN Sees[p] :
                         /\ c[p][1][k].skill = Sees[p][k]
                         /\ c[p][1][k].enabled = enabled[Sees[p][k]]
    <2>1. Sees[p] \in Seq(Skill) /\ DOMAIN Sees[p] = 1 .. Len(Sees[p])
      BY InventoryIs
    <2>2. PICK l : l = [k \in DOMAIN Sees[p] |->
                          [skill |-> Sees[p][k], enabled |-> enabled[Sees[p][k]]]]
      OBVIOUS
    <2>3. \A k \in DOMAIN Sees[p] : /\ l[k] \in Entries /\ l[k].skill = Sees[p][k]
                                    /\ l[k].enabled = enabled[Sees[p][k]]
      BY <2>1, <2>2 DEF Entries, TypeOK
    <2>4. l \in Seq(Entries) /\ Len(l) = Len(Sees[p])
      <3>1. Len(Sees[p]) \in Nat /\ DOMAIN l = 1 .. Len(Sees[p])
        BY <2>1, <2>2
      <3>2. l \in [1 .. Len(Sees[p]) -> Entries]
        BY <2>1, <2>2, <2>3
      <3> QED
        BY <3>1, <3>2
    <2>5. c[p] = IF p \in failed THEN <<>> ELSE <<l>>
      BY <1>2, <2>2
    <2>6. <<l>> \in Seq(Seq(Entries)) /\ Len(<<l>>) = 1 /\ <<l>>[1] = l
      BY <2>4
    <2>7. <<>> \in Seq(Seq(Entries)) /\ Len(<<>>) = 0
      OBVIOUS
    <2> QED
      BY <2>3, <2>4, <2>5, <2>6, <2>7
  <1>4. c \in Catalogs
    BY <1>2, <1>3 DEF Catalogs
  <1>5. PICK r : r = [scan EXCEPT !.pc = IF Inventory = <<>> THEN "build" ELSE "root",
                                  !.i = 1, !.catalog = c]
    OBVIOUS
  <1>6. /\ r \in Scans /\ r.pc = (IF Inventory = <<>> THEN "build" ELSE "root") /\ r.i = 1
        /\ r.catalog = c /\ r.j = scan.j /\ r.skills = scan.skills
        /\ r.scanned = scan.scanned /\ r.projects = scan.projects
    BY <1>4, <1>5, ScanIs DEF Scans
  <1>7. scan' = r /\ Still
    BY <1>1, <1>2, <1>5 DEF To, Still
  <1>8. CatalogFits'
    BY <1>3, <1>6, <1>7 DEF CatalogFits, Still
  <1> QED
    BY <1>4, <1>6, <1>7, <1>8 DEF Lists, Counts, Catalog, Reading

LEMMA ClosedIs ==
  ASSUME NEW s \in Scans, NEW status \in {"exact", "drifted", "bounded"},
         NEW skills \in Seq(Rows), skills # <<>> \/ status = "bounded"
  PROVE  /\ Closed(s, status, skills) \in Scans
         /\ Closed(s, status, skills).pc = IF s.i < Len(Inventory) THEN "root" ELSE "build"
         /\ Closed(s, status, skills).i = s.i + 1 /\ Closed(s, status, skills).j = 0
         /\ Closed(s, status, skills).skills = <<>>
         /\ Closed(s, status, skills).catalog = s.catalog
         /\ Closed(s, status, skills).projects =
              Append(s.projects, [status |-> status, skills |-> skills])
         /\ Closed(s, status, skills).scanned = s.scanned
  <1> DEFINE read == [status |-> status, skills |-> skills]
             r == Closed(s, status, skills)
  <1>1. s.i \in Nat /\ s.projects \in Seq(Reads)
    BY DEF Scans
  <1>2. read \in Reads
    BY DEF Reads
  <1>3. PICK pc : pc = (IF s.i < Len(Inventory) THEN "root" ELSE "build")
    OBVIOUS
  <1>4. PICK i : i = s.i + 1
    OBVIOUS
  <1>5. PICK ps : ps = Append(s.projects, read)
    OBVIOUS
  <1>6. pc \in {"root", "build"} /\ i \in Nat /\ ps \in Seq(Reads) /\ <<>> \in Seq(Rows)
    BY <1>1, <1>2, <1>3, <1>4, <1>5
  <1>7. r = [s EXCEPT !.pc = pc, !.i = i, !.j = 0, !.skills = <<>>, !.projects = ps]
    BY <1>3, <1>4, <1>5 DEF Closed
  <1>8. /\ r.pc = pc /\ r.i = i /\ r.j = 0 /\ r.skills = <<>>
        /\ r.catalog = s.catalog /\ r.projects = ps /\ r.scanned = s.scanned
    BY <1>7 DEF Scans
  <1>9. r \in Scans
    <2>1. PICK q : q = [s EXCEPT !.pc = pc, !.i = i, !.j = 0]
      OBVIOUS
    <2>2. q \in Scans
      BY <1>6, <2>1 DEF Scans
    <2>3. r = [q EXCEPT !.skills = <<>>, !.projects = ps]
      BY <1>7, <2>1
    <2> QED
      BY <1>6, <2>2, <2>3 DEF Scans
  <1> QED
    BY <1>2, <1>3, <1>4, <1>5, <1>8, <1>9

LEMMA BoundedEnds ==
  ASSUME TypeOK, CursorFits, NEW s \in Scans, To(Bounded(s)),
         scan.pc \in Within \union {"root"},
         s.i = scan.i, s.catalog = scan.catalog, s.projects = scan.projects,
         s.scanned <= scan.i,
         \A k \in DOMAIN s.skills : s.skills[k].relation = "disabled" <=> ~s.skills[k].enabled
  PROVE  \E read : Ends(read)
  <1>1. PICK read : read = [status |-> "bounded", skills |-> s.skills]
    OBVIOUS
  <1>2. s.skills \in Seq(Rows) /\ s.i \in Nat /\ s.projects \in Seq(Reads) /\ s.scanned \in Nat
        /\ s.catalog \in Catalogs \union {<<>>}
    BY DEF Scans
  <1>3. read \in Reads /\ read.status = "bounded" /\ read.skills = s.skills
    BY <1>1, <1>2 DEF Reads
  <1>4. PICK r : r = Closed(s, "bounded", s.skills)
    OBVIOUS
  <1>5. /\ r \in Scans /\ r.pc = (IF s.i < Len(Inventory) THEN "root" ELSE "build")
        /\ r.i = s.i + 1 /\ r.j = 0 /\ r.skills = <<>> /\ r.catalog = s.catalog
        /\ r.projects = Append(s.projects, read) /\ r.scanned = s.scanned
    <2>1. "bounded" \in {"exact", "drifted", "bounded"}
      OBVIOUS
    <2> QED
      BY <1>1, <1>2, <1>4, <2>1, ClosedIs
  <1>6. Bounded(s) = r
    BY <1>4 DEF Bounded
  <1>7. DOMAIN s.skills = 1 .. Len(s.skills) /\ \A k \in DOMAIN s.skills : s.skills[k] \in Rows
    BY <1>2
  <1>8. \A k \in DOMAIN s.skills :
          (s.skills[k].relation = "disabled") = ~s.skills[k].enabled
    BY <1>7 DEF Rows
  <1>9. ProjectValid(read)
    BY <1>3, <1>8 DEF ProjectValid
  <1>10. Ends(read)
    BY <1>2, <1>3, <1>5, <1>6, <1>9 DEF Ends, To, Still
  <1> QED
    BY <1>10

LEMMA OpenProjectStep ==
  ASSUME TypeOK, CursorFits, ProjectsFit, OpenProject
  PROVE  Opens \/ \E read : Ends(read)
  <1>1. /\ scan.pc = "root" /\ scan.skills = <<>> /\ scan.i \in Nat /\ scan.scanned \in Nat
        /\ scan \in Scans
    BY ScanIs DEF OpenProject, Reading, CursorFits
  <1>2. scan.scanned <= scan.i - 1
    BY <1>1 DEF ProjectsFit, Begun, Before, Within
  <1>3. PICK found : found = (IF Project1 \in open
                                THEN [scan EXCEPT !.scanned = @ + 1] ELSE scan)
    OBVIOUS
  <1>4. To(IF Project1 \notin open \/ Listed = <<>> THEN Bounded(found)
           ELSE [found EXCEPT !.pc = "entry", !.j = 1])
    BY <1>3 DEF OpenProject
  <1>5. PICK n : n = scan.scanned + 1
    OBVIOUS
  <1>6. n \in Nat /\ n <= scan.i /\ scan.scanned <= scan.i
    BY <1>1, <1>2, <1>5
  <1>7. /\ found \in Scans /\ found.i = scan.i /\ found.catalog = scan.catalog
        /\ found.projects = scan.projects /\ found.skills = scan.skills
        /\ found.scanned = IF Project1 \in open THEN n ELSE scan.scanned
    BY <1>1, <1>3, <1>5, <1>6 DEF Scans
  <1>8. CASE Project1 \notin open \/ Listed = <<>>
    <2>1. To(Bounded(found)) /\ found.scanned <= scan.i
      BY <1>4, <1>6, <1>7, <1>8
    <2>2. \A k \in DOMAIN found.skills :
            found.skills[k].relation = "disabled" <=> ~found.skills[k].enabled
      BY <1>1, <1>7
    <2> QED
      BY <1>1, <1>7, <2>1, <2>2, BoundedEnds
  <1>9. CASE Project1 \in open /\ Listed # <<>>
    <2>1. PICK r : r = [found EXCEPT !.pc = "entry", !.j = 1]
      OBVIOUS
    <2>2. /\ r \in Scans /\ r.pc = "entry" /\ r.j = 1 /\ r.i = found.i
          /\ r.catalog = found.catalog /\ r.projects = found.projects
          /\ r.skills = found.skills /\ r.scanned = found.scanned
      BY <1>7, <2>1 DEF Scans, Within
    <2> QED
      BY <1>1, <1>4, <1>5, <1>7, <1>9, <2>1, <2>2 DEF Opens, To, Still, Here
  <1> QED
    BY <1>8, <1>9

\* A row that agrees with the entry it was read for is added.
LEMMA ReadAdds ==
  ASSUME TypeOK, CursorFits, HeldFits, scan.pc \in Within, More,
         NEW relation \in {"disabled", "unreadable", "exact", "drifted"}, To(Read(relation)),
         relation = "disabled" <=> ~Entry.enabled,
         relation = "exact" => content[Entry.skill] = Desired
  PROVE  Adds(Row(relation))
  <1>1. Entry \in Entries
    BY ListedIs
  <1>2. Entry.skill \in Skill /\ Entry.enabled \in BOOLEAN
    BY <1>1 DEF Entries
  <1>3. PICK row : row = Row(relation)
    OBVIOUS
  <1>4. NameOf[Entry.skill] \in Capability
    BY <1>2, InventoryAssumption
  <1>5. /\ row \in Rows /\ row.name = NameOf[Entry.skill] /\ row.enabled = Entry.enabled
        /\ row.relation = relation
    BY <1>2, <1>3, <1>4 DEF Row, Rows
  <1>6. relation = "exact" => Entry.skill \in held
    BY <1>2 DEF HeldFits, Within
  <1>7. RowFits(row, Entry)
    BY <1>5, <1>6 DEF RowFits
  <1>8. PICK j : j = scan.j + 1
    OBVIOUS
  <1>9. PICK rows : rows = Append(scan.skills, row)
    OBVIOUS
  <1>10. j \in Nat /\ rows \in Seq(Rows)
    BY <1>5, <1>8, <1>9, ScanIs
  <1>11. PICK r : r = [scan EXCEPT !.pc = "entry", !.j = j, !.skills = rows]
    OBVIOUS
  <1>12. /\ r \in Scans /\ r.pc = "entry" /\ r.j = j /\ r.skills = rows /\ r.i = scan.i
         /\ r.catalog = scan.catalog /\ r.projects = scan.projects /\ r.scanned = scan.scanned
    BY <1>10, <1>11, ScanIs DEF Scans, Within
  <1>13. scan' = r /\ Still
    BY <1>3, <1>8, <1>9, <1>11 DEF To, Read, Still
  <1> QED
    BY <1>3, <1>5, <1>7, <1>8, <1>9, <1>12, <1>13 DEF Adds, Here

LEMMA HashStep ==
  ASSUME TypeOK, CursorFits, HeldFits, Hash
  PROVE  Notes \/ \E row : Adds(row)
  <1>1. scan.pc = "entry" /\ More /\ scan.pc \in Within /\ Entry \in Entries
    BY ListedIs DEF Hash, Reading, Within
  <1>2. CASE ~Entry.enabled
    <2>1. To(Read("disabled"))
      BY <1>2 DEF Hash
    <2> QED
      BY <1>1, <1>2, <2>1, ReadAdds
  <1>3. CASE Entry.enabled /\ content[Entry.skill] = Unreadable
    <2>1. To(Read("unreadable"))
      BY <1>3 DEF Hash
    <2> QED
      BY <1>1, <1>3, <2>1, ReadAdds
  <1>4. CASE Entry.enabled /\ content[Entry.skill] # Unreadable
    <2>1. PICK r : r = [scan EXCEPT !.pc = "version", !.hash = content[Entry.skill]]
      OBVIOUS
    <2>2. content[Entry.skill] \in Contents
      BY <1>1 DEF Entries, TypeOK
    <2>3. /\ r \in Scans /\ r.pc = "version" /\ r.i = scan.i /\ r.j = scan.j
          /\ r.skills = scan.skills /\ r.catalog = scan.catalog
          /\ r.projects = scan.projects /\ r.scanned = scan.scanned
      BY <2>1, <2>2, ScanIs DEF Scans, Within
    <2>4. scan' = r /\ Still
      BY <1>4, <2>1 DEF Hash, To, Still
    <2> QED
      BY <1>1, <1>4, <2>3, <2>4 DEF Notes, Here, Counts
  <1> QED
    BY <1>2, <1>3, <1>4

LEMMA ReadVersionStep ==
  ASSUME TypeOK, CursorFits, HeldFits, ReadVersion
  PROVE  Notes \/ \E row : Adds(row)
  <1>1. scan.pc = "version" /\ More /\ scan.pc \in Within /\ Entry.enabled
    BY DEF ReadVersion, Reading, Within, CursorFits
  <1>2. CASE content[Entry.skill] = Unreadable
    <2>1. To(Read("unreadable"))
      BY <1>2 DEF ReadVersion
    <2> QED
      BY <1>1, <2>1, ReadAdds
  <1>3. CASE content[Entry.skill] # Unreadable
    <2>1. PICK v : v = VersionOf(content[Entry.skill])
      OBVIOUS
    <2>2. v \in {"old", "released"}
      BY <2>1 DEF VersionOf
    <2>3. PICK r : r = [scan EXCEPT !.pc = "again", !.version = v]
      OBVIOUS
    <2>4. /\ r \in Scans /\ r.pc = "again" /\ r.i = scan.i /\ r.j = scan.j
          /\ r.skills = scan.skills /\ r.catalog = scan.catalog
          /\ r.projects = scan.projects /\ r.scanned = scan.scanned
      BY <2>2, <2>3, ScanIs DEF Scans, Within
    <2>5. scan' = r /\ Still
      BY <1>3, <2>1, <2>3 DEF ReadVersion, To, Still
    <2> QED
      BY <1>1, <2>4, <2>5 DEF Notes, Here, Counts
  <1> QED
    BY <1>2, <1>3

LEMMA HashAgainStep ==
  ASSUME TypeOK, CursorFits, HeldFits, HashAgain
  PROVE  \E row : Adds(row)
  <1>1. scan.pc = "again" /\ More /\ scan.pc \in Within /\ Entry.enabled
    BY DEF HashAgain, Reading, Within, CursorFits
  <1>2. PICK relation \in {"unreadable", "exact", "drifted"} :
          /\ To(Read(relation))
          /\ relation = "exact" => content[Entry.skill] = Desired
    BY DEF HashAgain
  <1> QED
    BY <1>1, <1>2, ReadAdds

\* The rows read so far agree with themselves.
LEMMA RowsAre ==
  ASSUME TypeOK, RowsFit, scan.pc \in Within
  PROVE  /\ DOMAIN scan.skills = 1 .. Len(scan.skills)
         /\ \A k \in 1 .. Len(scan.skills) :
              /\ RowFits(scan.skills[k], Head(Listed)[k])
              /\ scan.skills[k].relation = "disabled" <=> ~scan.skills[k].enabled
  <1>1. DOMAIN scan.skills = 1 .. Len(scan.skills)
    BY ScanIs
  <1> QED
    BY <1>1 DEF RowsFit, RowFits

LEMMA BoundedNow ==
  ASSUME TypeOK, CursorFits, RowsFit, ProjectsFit, scan.pc \in Within, To(Bounded(scan))
  PROVE  \E read : Ends(read)
  <1>1. scan.scanned <= scan.i
    BY DEF ProjectsFit, Begun, Before, Within
  <1> QED
    BY <1>1, ScanIs, RowsAre, BoundedEnds

LEMMA CloseProjectStep ==
  ASSUME TypeOK, CursorFits, RowsFit, ProjectsFit, CloseProject
  PROVE  \E read : Ends(read)
  <1>1. scan.pc = "entry" /\ ~More /\ scan.pc \in Within
    BY DEF CloseProject, Reading, Within
  <1>2. CASE \E name \in Capability : Enabled(scan.skills, name) = {}
    <2>1. To(Bounded(scan))
      BY <1>2 DEF CloseProject
    <2> QED
      BY <1>1, <2>1, BoundedNow
  <1>3. CASE \A name \in Capability : Enabled(scan.skills, name) # {}
    <2>1. PICK d : d = Disambiguated(scan.skills)
      OBVIOUS
    <2>2. PICK read : read = [status |-> ProjectStatus(d), skills |-> d]
      OBVIOUS
    <2>3. To(Closed(scan, ProjectStatus(d), d))
      BY <1>3, <2>1 DEF CloseProject
    <2>4. scan.skills \in Seq(Rows) /\ Len(scan.skills) \in Nat
      BY ScanIs
    <2>5. read \in Reads /\ ProjectValid(read)
      BY <1>1, <1>3, <2>1, <2>2, <2>4, RowsAre, ClosesValid
    <2>6. d \in Seq(Rows) /\ Len(d) = Len(scan.skills)
      BY <2>1, <2>4, DisambiguatedIs
    <2>7. ProjectStatus(d) \in {"exact", "drifted", "bounded"}
      BY DEF ProjectStatus
    <2>8. PICK name \in Capability : Enabled(scan.skills, name) # {}
      BY <1>3, InventoryAssumption
    <2>9. Len(scan.skills) # 0
      BY <2>4, <2>8, EnabledIs
    <2>10. d # <<>>
      BY <2>6, <2>9
    <2>11. PICK r : r = Closed(scan, ProjectStatus(d), d)
      OBVIOUS
    <2>12. /\ r \in Scans /\ r.pc = (IF scan.i < Len(Inventory) THEN "root" ELSE "build")
           /\ r.i = scan.i + 1 /\ r.j = 0 /\ r.skills = <<>> /\ r.catalog = scan.catalog
           /\ r.projects = Append(scan.projects, read) /\ r.scanned = scan.scanned
      BY <2>2, <2>6, <2>7, <2>10, <2>11, ScanIs, ClosedIs
    <2>13. scan.scanned \in Nat /\ scan.scanned <= scan.i
      BY <1>1, ScanIs DEF ProjectsFit, Begun, Before, Within
    <2>14. ProjectFits(read, Project1)
      <3>1. Listed = scan.catalog[Project1] /\ Head(Listed) = Listed[1] /\ Listed # <<>>
            /\ Len(Head(Listed)) \in Nat
        BY <1>1, ListedIs DEF Listed, CursorFits
      <3>2. scan.j = Len(scan.skills) + 1 /\ scan.j <= Len(Head(Listed)) + 1
            /\ ~(scan.j <= Len(Head(Listed)))
        BY <1>1 DEF CursorFits, More
      <3>3. Len(scan.skills) = Len(Head(Listed))
        BY <2>4, <3>1, <3>2
      <3>4. read.skills = d /\ DOMAIN d = 1 .. Len(scan.skills)
        BY <2>2, <2>4, <2>6
      <3>5. ASSUME NEW k \in 1 .. Len(scan.skills)
            PROVE  RowFits(d[k], Head(Listed)[k])
        <4>1. RowFits(scan.skills[k], Head(Listed)[k])
          BY <1>1, RowsAre
        <4>2. /\ d[k].name = scan.skills[k].name /\ d[k].enabled = scan.skills[k].enabled
              /\ \/ d[k].relation = scan.skills[k].relation
                 \/ scan.skills[k].enabled /\ d[k].relation = "drifted"
          BY <2>1, <2>4, DisambiguatedIs
        <4> QED
          BY <4>1, <4>2 DEF RowFits
      <3>6. changes = 0 => Project1 \in open
        BY <1>1 DEF ProjectsFit
      <3> QED
        BY <2>6, <3>1, <3>3, <3>4, <3>5, <3>6 DEF ProjectFits
    <2>15. Ends(read)
      BY <1>1, <2>3, <2>5, <2>11, <2>12, <2>13, <2>14 DEF Ends, To, Still
    <2> QED
      BY <2>15
  <1> QED
    BY <1>2, <1>3

LEMMA BuildFinishes ==
  ASSUME TypeOK, Build
  PROVE  Finishes
  <1>1. PICK r : r = [scan EXCEPT !.pc = "done"]
    OBVIOUS
  <1>2. /\ r \in Scans /\ r.pc = "done" /\ r.i = scan.i /\ r.j = scan.j
        /\ r.skills = scan.skills /\ r.catalog = scan.catalog
        /\ r.projects = scan.projects /\ r.scanned = scan.scanned
    BY <1>1, ScanIs DEF Scans
  <1> QED
    BY <1>1, <1>2 DEF Build, Finishes, Still, Here, Counts

LEMMA ChangeDisturbs ==
  ASSUME TypeOK, Rewrite \/ Toggle \/ Move
  PROVE  Disturbs
  <1>1. CASE Rewrite
    <2>1. PICK s \in Skill, c \in Contents :
            /\ content' = [content EXCEPT ![s] = c]
            /\ held' = IF c = Desired THEN held \union {s} ELSE held
      BY <1>1 DEF Rewrite
    <2>2. content' \in [Skill -> Contents] /\ held \subseteq held' /\ held' \subseteq Skill
      BY <2>1 DEF TypeOK
    <2>3. \A q \in Skill : content'[q] = Desired => content[q] = Desired \/ q \in held'
      BY <2>1 DEF TypeOK
    <2> QED
      BY <1>1, <2>2, <2>3 DEF Rewrite, Change, Scanning, Disturbs, TypeOK
  <1>2. CASE Toggle
    <2>1. enabled' \in [Skill -> BOOLEAN]
      BY <1>2 DEF Toggle, TypeOK
    <2> QED
      BY <1>2, <2>1 DEF Toggle, Change, Scanning, Disturbs, TypeOK
  <1>3. CASE Move
    <2>1. open' \subseteq Project
      BY <1>3 DEF Move, TypeOK
    <2> QED
      BY <1>3, <2>1 DEF Move, Change, Scanning, Disturbs, TypeOK
  <1> QED
    BY <1>1, <1>2, <1>3

\* Every step is of one of the kinds.
LEMMA StepKinds ==
  ASSUME TypeOK, CursorFits, HeldFits, RowsFit, ProjectsFit, [Next]_vars
  PROVE  Steps
  <1>1. CASE UNCHANGED vars
    BY <1>1 DEF vars, Steps, Rests, Still
  <1>2. CASE Reconciled
    BY <1>2 DEF Reconciled, Steps, Rests, Still
  <1>3. CASE Malformed
    BY <1>3, BoundedNow DEF Malformed, Reading, Within, Steps
  <1> QED
    BY <1>1, <1>2, <1>3, InspectBegins, AgainBegins, CatalogLists, OpenProjectStep, HashStep,
       ReadVersionStep, HashAgainStep, CloseProjectStep, BuildFinishes, ChangeDisturbs
       DEF Next, Steps

-----------------------------------------------------------------------------
(* Types, and where the scan stands.                                       *)

LEMMA PackTyped ==
  ASSUME TypeOK, [Next]_vars
  PROVE  pack'.status \in {"none", "reload_required", "consumer_scope_drift",
                           "consumer_scope_bounded", "ready"}
  <1>1. \A c : \A a, b \in BOOLEAN : BuildPack(a, b, c).status = PackStatus(a, b, c)
    BY DEF BuildPack
  <1>2. \A c : \A a, b \in BOOLEAN : PackStatus(a, b, c) \in
          {"reload_required", "consumer_scope_drift", "consumer_scope_bounded", "ready"}
    BY DEF PackStatus
  <1>3. CASE pack' = pack
    BY <1>3 DEF TypeOK
  <1>4. CASE Reconciled
    <2>1. PICK reload \in BOOLEAN : pack' = BuildPack(reload, FALSE, NotObserved)
      BY <1>4 DEF Reconciled
    <2>2. BuildPack(reload, FALSE, NotObserved).status \in
            {"reload_required", "consumer_scope_drift", "consumer_scope_bounded", "ready"}
      BY <1>1, <1>2
    <2> QED
      BY <2>1, <2>2
  <1>5. CASE Inspect
    BY <1>5 DEF Inspect, NoPack
  <1>6. CASE Build
    BY <1>1, <1>2, <1>6 DEF Build
  <1>7. Next => Reconciled \/ Inspect \/ Build \/ pack' = pack
    BY DEF Next, Catalog, OpenProject, Hash, Malformed, ReadVersion, HashAgain, CloseProject,
           Again, Rewrite, Toggle, Move, Change, Reading
  <1> QED
    BY <1>3, <1>4, <1>5, <1>6, <1>7 DEF vars

LEMMA TypeKept ==
  ASSUME TypeOK, Steps, pack'.status \in {"none", "reload_required", "consumer_scope_drift",
                                          "consumer_scope_bounded", "ready"}
  PROVE  TypeOK'
  <1>1. CASE Rests
    BY <1>1 DEF TypeOK, Rests, Still
  <1>2. CASE Begins
    BY <1>2 DEF TypeOK, Begins, world
  <1>3. CASE Lists
    BY <1>3 DEF TypeOK, Lists, Still
  <1>4. CASE Opens
    BY <1>4 DEF TypeOK, Opens, Still, Here, Before
  <1>5. CASE \E row : Adds(row)
    BY <1>5 DEF TypeOK, Adds, Still, Here, Before, Within
  <1>6. CASE Notes
    BY <1>6 DEF TypeOK, Notes, Still, Here, Before, Within
  <1>7. CASE \E read : Ends(read)
    BY <1>7 DEF TypeOK, Ends, Still, Before, Within
  <1>8. CASE Finishes
    BY <1>8 DEF TypeOK, Finishes, Still, Here, Before
  <1>9. CASE Disturbs
    BY <1>9 DEF TypeOK, Disturbs
  <1> QED
    BY <1>1, <1>2, <1>3, <1>4, <1>5, <1>6, <1>7, <1>8, <1>9 DEF Steps

\* A step within a project leaves the entries it reads alone.
LEMMA ListedStays ==
  ASSUME scan'.catalog = scan.catalog, scan'.i = scan.i
  PROVE  Listed' = Listed /\ Project1' = Project1
  BY DEF Listed, Project1

LEMMA CursorKept ==
  ASSUME TypeOK, CursorFits, Steps
  PROVE  CursorFits'
  <1>1. CASE Rests \/ Disturbs
    BY <1>1 DEF Rests, Disturbs, CursorFits, Listed, Project1, More, Entry
  <1>2. CASE Begins
    BY <1>2 DEF Begins, CursorFits, Before, Within
  <1>3. CASE Lists
    <2>1. Inventory = <<>> => Len(Inventory) = 0
      OBVIOUS
    <2>2. Inventory # <<>> => Len(Inventory) >= 1
      BY InventoryIs
    <2>3. scan.skills = <<>>
      BY <1>3 DEF Lists, CursorFits, Before
    <2> QED
      BY <1>3, <2>1, <2>2, <2>3, InventoryIs DEF Lists, Counts, CursorFits, Before, Within
  <1>4. CASE Opens
    <2>1. Listed' = Listed
      BY <1>4, ListedStays DEF Opens, Here
    <2>2. scan.skills = <<>> /\ scan.i <= Len(Inventory) /\ scan.i \in 1 .. Len(Inventory) + 1
      BY <1>4 DEF Opens, CursorFits, Before
    <2>3. Len(scan.skills) = 0
      BY <2>2
    <2>4. Listed # <<>> /\ Len(Head(Listed)) \in Nat
      <3>1. Listed \in Seq(Seq(Entries)) /\ Listed # <<>>
        BY <1>4, CurrentIs DEF Opens
      <3>2. Head(Listed) \in Seq(Entries)
        BY <3>1
      <3> QED
        BY <3>1, <3>2
    <2> QED
      BY <1>4, <2>1, <2>2, <2>3, <2>4 DEF Opens, Here, CursorFits, Before, Within
  <1>5. ASSUME NEW row, Adds(row) PROVE CursorFits'
    <2>1. Listed' = Listed
      BY <1>5, ListedStays DEF Adds, Here
    <2>2. scan.i <= Len(Inventory) /\ scan.i \in 1 .. Len(Inventory) + 1
          /\ Listed # <<>> /\ scan.j = Len(scan.skills) + 1
      BY <1>5 DEF Adds, CursorFits, Before, Within
    <2>3. Len(scan'.skills) = Len(scan.skills) + 1
      BY <1>5, ScanIs DEF Adds
    <2>4. scan.j <= Len(Head(Listed)) /\ Len(Head(Listed)) \in Nat /\ scan.j \in Nat
      BY <1>5, ListedIs, ScanIs DEF Adds, More
    <2>5. scan'.j = Len(scan'.skills) + 1 /\ scan'.j <= Len(Head(Listed)) + 1
      BY <1>5, <2>2, <2>3, <2>4 DEF Adds
    <2> QED
      BY <1>5, <2>1, <2>2, <2>5 DEF Adds, Here, CursorFits, Before, Within
  <1>6. CASE Notes
    <2>1. Listed' = Listed
      BY <1>6, ListedStays DEF Notes, Here
    <2>2. More' = More /\ Entry' = Entry
      BY <1>6, <2>1 DEF Notes, Counts, More, Entry
    <2> QED
      BY <1>6, <2>1, <2>2 DEF Notes, Here, Counts, CursorFits, Before, Within
  <1>7. ASSUME NEW read, Ends(read) PROVE CursorFits'
    <2>1. scan.i <= Len(Inventory) /\ scan.i \in 1 .. Len(Inventory) + 1
      BY <1>7 DEF Ends, CursorFits, Before, Within
    <2>2. scan'.i \in 1 .. Len(Inventory) + 1 /\ scan'.i = scan.i + 1
          /\ (scan.i < Len(Inventory) => scan'.i <= Len(Inventory))
          /\ (~(scan.i < Len(Inventory)) => scan'.i = Len(Inventory) + 1)
      BY <1>7, <2>1, InventoryIs DEF Ends
    <2> QED
      BY <1>7, <2>2 DEF Ends, CursorFits, Before, Within
  <1>8. CASE Finishes
    BY <1>8 DEF Finishes, Here, Counts, CursorFits, Before, Within
  <1> QED
    BY <1>1, <1>2, <1>3, <1>4, <1>5, <1>6, <1>7, <1>8 DEF Steps

LEMMA CatalogKept ==
  ASSUME TypeOK, CatalogFits, Steps
  PROVE  CatalogFits'
  <1>1. CASE Rests
    BY <1>1 DEF Rests, Still, CatalogFits
  <1>2. CASE Begins
    BY <1>2 DEF Begins, CatalogFits
  <1>3. CASE Lists
    BY <1>3 DEF Lists
  <1>4. CASE /\ Still /\ scan'.catalog = scan.catalog /\ scan.pc \notin Before
    BY <1>4 DEF Still, CatalogFits
  <1>5. CASE Disturbs
    <2>1. changes' # 0
      BY <1>5 DEF Disturbs, TypeOK
    <2> QED
      BY <1>5, <2>1 DEF Disturbs, CatalogFits
  <1>6. Opens \/ Notes \/ Finishes \/ (\E row : Adds(row)) \/ (\E read : Ends(read))
          => Still /\ scan'.catalog = scan.catalog /\ scan.pc \notin Before
    BY DEF Opens, Notes, Finishes, Adds, Ends, Here, Before, Within
  <1> QED
    BY <1>1, <1>2, <1>3, <1>4, <1>5, <1>6 DEF Steps

LEMMA HeldKept ==
  ASSUME TypeOK, HeldFits, Steps
  PROVE  HeldFits'
  <1>1. CASE Rests
    BY <1>1 DEF Rests, Still, HeldFits
  <1>2. CASE Begins
    BY <1>2 DEF Begins, world, Before, HeldFits
  <1>3. CASE Still /\ scan.pc # "idle"
    BY <1>3 DEF Still, HeldFits
  <1>4. CASE Disturbs
    BY <1>4 DEF Disturbs, HeldFits
  <1>5. Lists \/ Opens \/ Notes \/ Finishes \/ (\E row : Adds(row)) \/ (\E read : Ends(read))
          => Still /\ scan.pc # "idle"
    BY DEF Lists, Opens, Notes, Finishes, Adds, Ends, Within
  <1> QED
    BY <1>1, <1>2, <1>3, <1>4, <1>5 DEF Steps

-----------------------------------------------------------------------------
(* The rows, and what the projects were read as.                           *)

LEMMA RowsKept ==
  ASSUME TypeOK, CursorFits, RowsFit, Steps
  PROVE  RowsFit'
  <1>1. CASE scan'.pc \notin Within
    BY <1>1 DEF RowsFit
  <1>2. CASE Rests
    BY <1>2 DEF Rests, Still, RowsFit, RowFits, Listed, Project1
  <1>3. CASE Opens
    <2>1. scan'.skills = <<>>
      BY <1>3 DEF Opens, CursorFits
    <2>2. DOMAIN scan'.skills = {}
      BY <2>1
    <2> QED
      BY <2>2 DEF RowsFit
  <1>4. ASSUME NEW row, Adds(row) PROVE RowsFit'
    <2>1. Listed' = Listed /\ scan.pc \in Within /\ More
      BY <1>4, ListedStays DEF Adds, Here
    <2>2. PICK n : n = Len(scan.skills)
      OBVIOUS
    <2>3. n \in Nat /\ scan.j = n + 1 /\ DOMAIN scan.skills = 1 .. n
      BY <2>1, <2>2, ScanIs DEF CursorFits
    <2>4. /\ DOMAIN scan'.skills = 1 .. n + 1 /\ scan'.skills[n + 1] = row
          /\ \A k \in 1 .. n : scan'.skills[k] = scan.skills[k]
      BY <1>4, <2>2, <2>3, ScanIs DEF Adds
    <2>5. Head(Listed)[n + 1] = Entry
      BY <2>3 DEF Entry
    <2>6. \A k \in 1 .. n : RowFits(scan.skills[k], Head(Listed)[k])
      BY <2>1, <2>3 DEF RowsFit
    <2>7. RowFits(row, Entry)
      BY <1>4 DEF Adds
    <2>8. \A k \in 1 .. n + 1 : k \in 1 .. n \/ k = n + 1
      BY <2>3
    <2>9. held' = held /\ changes' = changes /\ content' = content
      BY <1>4 DEF Adds, Still
    <2> QED
      BY <2>1, <2>4, <2>5, <2>6, <2>7, <2>8, <2>9 DEF RowsFit, RowFits
  <1>5. CASE Notes
    <2>1. Listed' = Listed
      BY <1>5, ListedStays DEF Notes, Here
    <2> QED
      BY <1>5, <2>1 DEF Notes, Still, Counts, RowsFit, RowFits
  <1>6. CASE Disturbs
    <2>1. changes' # 0
      BY <1>6 DEF Disturbs, TypeOK
    <2>2. Listed' = Listed
      BY <1>6, ListedStays DEF Disturbs
    <2> QED
      BY <1>6, <2>1, <2>2 DEF Disturbs, RowsFit, RowFits
  <1>7. Begins \/ Lists \/ (\E read : Ends(read)) \/ Finishes => scan'.pc \notin Within
    BY DEF Begins, Lists, Ends, Finishes, Before, Within
  <1> QED
    BY <1>1, <1>2, <1>3, <1>4, <1>5, <1>6, <1>7 DEF Steps

\* What was read of a project keeps fitting while its catalog stays and nothing is
\* forgotten.
LEMMA ProjectStays ==
  ASSUME NEW read, NEW p, ProjectFits(read, p), scan'.catalog = scan.catalog,
         held \subseteq held',
         changes' = 0 => changes = 0 /\ content' = content /\ open' = open
  PROVE  ProjectFits(read, p)'
  BY DEF ProjectFits, RowFits

\* The projects that are there stay as they are.
LEMMA ProjectsStay ==
  ASSUME ProjectsFit, scan.pc \notin Before, scan'.pc \notin Before,
         scan'.catalog = scan.catalog, scan'.projects = scan.projects, scan'.i = scan.i,
         held \subseteq held',
         changes' = 0 => changes = 0 /\ content' = content /\ open' = open,
         scan'.scanned - scan.scanned = Begun' - Begun,
         scan.scanned \in Nat, scan'.scanned \in Nat, scan.i \in Nat,
         scan'.pc \in Within /\ changes' = 0 => Project1' \in open'
  PROVE  ProjectsFit'
  <1>1. PICK ps : ps = scan.projects /\ scan'.projects = ps
    OBVIOUS
  <1>2. PICK n : n = scan.i /\ scan'.i = n
    OBVIOUS
  <1>3. Begun \in Int /\ Begun' \in Int
    BY DEF Begun
  <1>4. scan'.scanned <= Begun' /\ (scan.scanned = Begun => scan'.scanned = Begun')
    BY <1>3 DEF ProjectsFit
  <1>5. \A k \in DOMAIN ps : ProjectValid(ps[k])
    BY <1>1 DEF ProjectsFit
  <1>6. "bounded" \notin Statuses(ps) =>
          /\ scan.scanned = Begun /\ Len(ps) = n - 1
          /\ \A k \in DOMAIN ps : ProjectFits(ps[k], Inventory[k])
    BY <1>1, <1>2 DEF ProjectsFit
  <1>7. "bounded" \notin Statuses(ps) =>
          \A k \in DOMAIN ps : ProjectFits(ps[k], Inventory[k])'
    BY <1>6, ProjectStays
  <1> QED
    BY <1>1, <1>2, <1>4, <1>5, <1>6, <1>7 DEF ProjectsFit

\* A project that ends is one more of them.
LEMMA ProjectsEnd ==
  ASSUME TypeOK, CursorFits, ProjectsFit, NEW read, Ends(read)
  PROVE  ProjectsFit'
  <1>1. /\ Still /\ scan.pc \in Within \union {"root"} /\ scan'.pc \in {"root", "build"}
        /\ scan'.catalog = scan.catalog /\ read \in Reads /\ ProjectValid(read)
        /\ scan'.scanned \in Nat /\ scan'.scanned <= scan.i /\ scan'.i = scan.i + 1
        /\ scan'.projects = Append(scan.projects, read)
        /\ read.status # "bounded" =>
             scan'.scanned = scan.scanned /\ scan.pc \in Within /\ ProjectFits(read, Project1)
    BY DEF Ends
  <1>2. scan.pc \notin Before /\ scan'.pc \notin Before /\ scan'.pc \notin Within
    BY <1>1 DEF Before, Within
  <1>3. PICK ps : ps = scan.projects
    OBVIOUS
  <1>4. PICK n : n = Len(ps)
    OBVIOUS
  <1>5. PICK qs : qs = Append(ps, read)
    OBVIOUS
  <1>6. scan'.projects = qs
    BY <1>1, <1>3, <1>5
  <1>7. ps \in Seq(Reads) /\ n \in Nat /\ DOMAIN ps = 1 .. n
    BY <1>3, <1>4, ScanIs
  <1>8. /\ Len(qs) = n + 1 /\ DOMAIN qs = 1 .. n + 1 /\ qs[n + 1] = read
        /\ \A k \in 1 .. n : qs[k] = ps[k]
    BY <1>1, <1>4, <1>5, <1>7
  <1>9. \A k \in 1 .. n + 1 : k \in 1 .. n \/ k = n + 1
    BY <1>7
  <1>10. \A k \in DOMAIN qs : ProjectValid(qs[k])
    <2>1. \A k \in 1 .. n : ProjectValid(ps[k])
      BY <1>3, <1>7 DEF ProjectsFit
    <2> QED
      BY <1>1, <1>8, <1>9, <2>1
  <1>11. Begun' = scan.i
    BY <1>1, <1>2, ScanIs DEF Begun
  <1>12. ASSUME "bounded" \notin Statuses(qs)
         PROVE  /\ scan'.scanned = Begun' /\ Len(qs) = scan'.i - 1
                /\ \A k \in DOMAIN qs : ProjectFits(qs[k], Inventory[k])'
    <2>1. read.status # "bounded"
      BY <1>7, <1>8, <1>12 DEF Statuses
    <2>2. "bounded" \notin Statuses(ps)
      BY <1>7, <1>8, <1>9, <1>12 DEF Statuses
    <2>3. /\ scan.scanned = Begun /\ n = scan.i - 1
          /\ \A k \in 1 .. n : ProjectFits(ps[k], Inventory[k])
      BY <1>2, <1>3, <1>4, <1>7, <2>2 DEF ProjectsFit
    <2>4. scan.scanned = scan.i
      BY <1>1, <2>1, <2>3 DEF Begun
    <2>5. n + 1 = scan.i
      BY <2>3, ScanIs
    <2>6. ProjectFits(read, Inventory[n + 1])
      BY <1>1, <2>1, <2>5 DEF Project1
    <2>7. \A k \in DOMAIN qs : ProjectFits(qs[k], Inventory[k])
      BY <1>8, <1>9, <2>3, <2>6
    <2>8. held \subseteq held'
          /\ (changes' = 0 => changes = 0 /\ content' = content /\ open' = open)
      BY <1>1 DEF Still
    <2>9. \A k \in DOMAIN qs : ProjectFits(qs[k], Inventory[k])'
      BY <1>1, <2>7, <2>8, ProjectStays
    <2> QED
      BY <1>1, <1>8, <1>11, <2>1, <2>4, <2>5, <2>9, ScanIs
  <1>13. scan'.scanned <= Begun'
    BY <1>1, <1>11
  <1> QED
    BY <1>2, <1>6, <1>10, <1>12, <1>13 DEF ProjectsFit

LEMMA ProjectsKept ==
  ASSUME TypeOK, CursorFits, ProjectsFit, TypeOK', Steps
  PROVE  ProjectsFit'
  <1>1. /\ scan.i \in Nat /\ scan.scanned \in Nat /\ scan'.scanned \in Nat /\ changes \in Nat
    BY ScanIs DEF TypeOK, Scans
  <1>2. CASE scan'.pc \in Before /\ scan'.projects = <<>> /\ scan'.scanned = 0
    <2>1. DOMAIN <<>> = {}
      OBVIOUS
    <2> QED
      BY <1>2, <2>1 DEF ProjectsFit, Before, Within
  <1>3. CASE Rests
    <2>1. scan' = scan /\ Still
      BY <1>3 DEF Rests
    <2>2. CASE scan.pc \in Before
      BY <1>2, <2>1, <2>2 DEF ProjectsFit
    <2>3. CASE scan.pc \notin Before
      <3>1. Begun' = Begun /\ Project1' = Project1
        BY <2>1 DEF Begun, Project1
      <3>2. Begun \in Int
        BY <1>1 DEF Begun
      <3>3. scan.pc \in Within /\ changes = 0 => Project1 \in open
        BY DEF ProjectsFit
      <3> QED
        BY <1>1, <2>1, <2>3, <3>1, <3>2, <3>3, ProjectsStay DEF Still
    <2> QED
      BY <2>2, <2>3
  <1>4. CASE Begins
    BY <1>2, <1>4 DEF Begins
  <1>5. CASE Lists
    <2>1. scan.projects = <<>> /\ scan.scanned = 0
      BY <1>5 DEF Lists, ProjectsFit, Before
    <2>2. /\ scan'.projects = <<>> /\ scan'.scanned = 0 /\ scan'.i = 1
          /\ scan'.pc \in {"root", "build"}
      BY <1>5, <2>1 DEF Lists, Counts
    <2>3. Begun' = 0
      BY <2>2 DEF Begun, Within
    <2>4. DOMAIN <<>> = {} /\ Len(<<>>) = 0
      OBVIOUS
    <2> QED
      BY <2>2, <2>3, <2>4 DEF ProjectsFit, Before, Within
  <1>6. CASE Opens
    <2>1. /\ Still /\ Here /\ scan.pc = "root" /\ scan'.pc = "entry"
          /\ scan'.scanned = scan.scanned + 1 /\ Project1 \in open
      BY <1>6 DEF Opens
    <2>2. Begun = scan.i - 1 /\ Begun' = scan.i /\ Project1' = Project1
      BY <2>1 DEF Begun, Within, Here, Project1
    <2>3. scan'.scanned - scan.scanned = Begun' - Begun
      BY <1>1, <2>1, <2>2
    <2> QED
      BY <1>1, <2>1, <2>2, <2>3, ProjectsStay DEF Still, Here, Before
  <1>7. CASE (\E row : Adds(row)) \/ Notes \/ Finishes
    <2>1. /\ Still /\ Here /\ scan'.scanned = scan.scanned /\ scan.pc \notin Before
          /\ scan'.pc \notin Before
          /\ \/ scan.pc \in Within /\ scan'.pc \in Within
             \/ scan.pc \notin Within /\ scan'.pc \notin Within
      BY <1>7 DEF Adds, Notes, Finishes, Counts, Before, Within
    <2>2. Begun' = Begun /\ Project1' = Project1 /\ Begun \in Int
      BY <1>1, <2>1 DEF Begun, Here, Project1
    <2>3. scan.pc \in Within /\ changes = 0 => Project1 \in open
      BY DEF ProjectsFit
    <2> QED
      BY <1>1, <2>1, <2>2, <2>3, ProjectsStay DEF Still, Here
  <1>8. CASE \E read : Ends(read)
    BY <1>8, ProjectsEnd
  <1>9. CASE Disturbs
    <2>1. scan' = scan /\ changes' # 0 /\ held \subseteq held'
      BY <1>1, <1>9 DEF Disturbs
    <2>2. CASE scan.pc \in Before
      BY <1>2, <2>1, <2>2 DEF ProjectsFit
    <2>3. CASE scan.pc \notin Before
      <3>1. Begun' = Begun /\ Begun \in Int
        BY <1>1, <2>1 DEF Begun
      <3> QED
        BY <1>1, <2>1, <2>3, <3>1, ProjectsStay
    <2> QED
      BY <2>2, <2>3
  <1> QED
    BY <1>3, <1>4, <1>5, <1>6, <1>7, <1>8, <1>9 DEF Steps

-----------------------------------------------------------------------------
(* The validators take what the builders make.                             *)

LEMMA ScopeIs ==
  ASSUME NEW s
  PROVE  /\ Scope(s).status = ScopeStatus(s.projects) /\ Scope(s).inventory = listing
         /\ Scope(s).count = Len(Inventory) /\ Scope(s).scanned = s.scanned
         /\ Scope(s).matching = Total(s.projects) /\ Scope(s).projects = s.projects
  BY DEF Scope

LEMMA StatusesAre ==
  ASSUME NEW ps \in Seq(Reads), \A k \in DOMAIN ps : ProjectValid(ps[k]),
         "bounded" \notin Statuses(ps)
  PROVE  "drifted" \in Statuses(ps) <=>
           \E k \in DOMAIN ps : "drifted" \in Relations(ps[k].skills)
  <1>1. \A k \in DOMAIN ps : ps[k].status # "bounded"
    BY DEF Statuses
  <1>2. \A k \in DOMAIN ps : ps[k].status = ProjectStatus(ps[k].skills)
    BY <1>1 DEF ProjectValid
  <1>3. \A k \in DOMAIN ps :
          ps[k].status = "drifted" <=> "drifted" \in Relations(ps[k].skills)
    BY <1>1, <1>2 DEF ProjectStatus
  <1> QED
    BY <1>3 DEF Statuses

LEMMA ScopeAccepted ==
  ASSUME TypeOK, CursorFits, ProjectsFit, scan.pc \in {"build", "done"}
  PROVE  ScopeValid(Scope(scan)) /\ Scope(scan).status \in {"exact", "drifted", "bounded"}
  <1>1. PICK ps : ps = scan.projects
    OBVIOUS
  <1>2. ps \in Seq(Reads) /\ \A k \in DOMAIN ps : ProjectValid(ps[k])
    BY <1>1, ScanIs DEF ProjectsFit
  <1>3. Begun = Len(Inventory) /\ scan.i - 1 = Len(Inventory)
    BY InventoryIs DEF CursorFits, Begun, Within
  <1>4. /\ scan.scanned <= Len(Inventory)
        /\ "bounded" \notin Statuses(ps) =>
             scan.scanned = Len(Inventory) /\ Len(ps) = Len(Inventory)
    BY <1>1, <1>3 DEF ProjectsFit, Before
  <1>5. PICK c : c = Scope(scan)
    OBVIOUS
  <1>6. /\ c.status = ScopeStatus(ps) /\ c.inventory = listing /\ c.count = Len(Inventory)
        /\ c.scanned = scan.scanned /\ c.matching = Total(ps) /\ c.projects = ps
    BY <1>1, <1>5, ScopeIs
  <1>7. c.status \in {"exact", "drifted", "bounded"}
    BY <1>6 DEF ScopeStatus
  <1>8. CASE listing = "bounded" \/ "bounded" \in Statuses(ps)
    <2>1. c.status = "bounded"
      BY <1>6, <1>8 DEF ScopeStatus
    <2>2. ScopeValid(c)
      BY <1>2, <1>4, <1>6, <1>8, <2>1 DEF ScopeValid
    <2> QED
      BY <1>5, <1>7, <2>2
  <1>9. CASE listing # "bounded" /\ "bounded" \notin Statuses(ps)
    <2>1. c.status = IF \E k \in DOMAIN ps : "drifted" \in Relations(ps[k].skills)
                       THEN "drifted" ELSE "exact"
      BY <1>2, <1>6, <1>9, StatusesAre DEF ScopeStatus
    <2>2. listing = "complete"
      BY <1>9 DEF TypeOK
    <2>3. ScopeValid(c)
      BY <1>2, <1>4, <1>6, <1>9, <2>1, <2>2 DEF ScopeValid
    <2> QED
      BY <1>5, <1>7, <2>3
  <1> QED
    BY <1>8, <1>9

LEMMA NothingObserved == ScopeValid(NotObserved) /\ NotObserved.status = "not_observed"
  <1>1. /\ NotObserved.status = "not_observed" /\ NotObserved.count = 0
        /\ NotObserved.scanned = 0 /\ NotObserved.matching = 0 /\ NotObserved.projects = <<>>
    BY DEF NotObserved
  <1>2. DOMAIN <<>> = {}
    OBVIOUS
  <1> QED
    BY <1>1, <1>2, TotalOfNone DEF ScopeValid

LEMMA BuiltIs ==
  ASSUME NEW reload \in BOOLEAN, NEW verified \in BOOLEAN, NEW c, ScopeValid(c),
         verified => c.status \in {"exact", "drifted", "bounded"}
  PROVE  PackValid(BuildPack(reload, verified, c))
  <1>1. PICK p : p = BuildPack(reload, verified, c)
    OBVIOUS
  <1>2. /\ p.status = PackStatus(reload, verified, c) /\ p.scope = c
        /\ p.reload = IF reload \/ ~verified THEN "required" ELSE "not_required"
        /\ p.entry = CASE reload \/ ~verified                  -> "available_next_task"
                       [] p.status = "consumer_scope_drift"    -> "ambiguous"
                       [] p.status = "consumer_scope_bounded"  -> "unproven"
                       [] OTHER                                -> "verified"
    BY <1>1 DEF BuildPack
  <1>3. CASE reload \/ ~verified
    <2>1. p.status = "reload_required" /\ p.reload = "required"
      BY <1>2, <1>3 DEF PackStatus
    <2>2. p.entry = "available_next_task"
      BY <1>2, <1>3, <2>1
    <2> QED
      BY <1>1, <1>2, <2>1, <2>2 DEF PackValid
  <1>4. CASE ~reload /\ verified
    <2>1. p.reload = "not_required"
      BY <1>2, <1>4
    <2>2. CASE c.status = "drifted"
      <3>1. p.status = "consumer_scope_drift"
        BY <1>2, <1>4, <2>2 DEF PackStatus
      <3>2. p.entry = "ambiguous"
        BY <1>2, <1>4, <3>1
      <3> QED
        BY <1>1, <1>2, <2>1, <2>2, <3>1, <3>2 DEF PackValid
    <2>3. CASE c.status = "bounded"
      <3>1. p.status = "consumer_scope_bounded"
        BY <1>2, <1>4, <2>3 DEF PackStatus
      <3>2. p.entry = "unproven"
        BY <1>2, <1>4, <3>1
      <3> QED
        BY <1>1, <1>2, <2>1, <2>3, <3>1, <3>2 DEF PackValid
    <2>4. CASE c.status = "exact"
      <3>1. p.status = "ready"
        BY <1>2, <1>4, <2>4 DEF PackStatus
      <3>2. p.entry = "verified"
        BY <1>2, <1>4, <3>1
      <3> QED
        BY <1>1, <1>2, <2>1, <2>4, <3>1, <3>2 DEF PackValid
    <2> QED
      BY <1>4, <2>2, <2>3, <2>4
  <1> QED
    BY <1>3, <1>4

LEMMA PackKept ==
  ASSUME TypeOK, CursorFits, HeldFits, RowsFit, ProjectsFit, PackFits, [Next]_vars
  PROVE  PackFits'
  <1>1. CASE Inspect
    <2>1. pack' = NoPack /\ scan'.pc = "catalog"
      BY <1>1 DEF Inspect, Idle
    <2> QED
      BY <2>1 DEF PackFits, NoPack
  <1>2. CASE Reconciled
    <2>1. PICK reload \in BOOLEAN : pack' = BuildPack(reload, FALSE, NotObserved)
      BY <1>2 DEF Reconciled
    <2>2. scan' = Idle
      BY <1>2 DEF Reconciled
    <2>3. PackValid(BuildPack(reload, FALSE, NotObserved))
      BY NothingObserved, BuiltIs
    <2>4. scan'.pc # "done"
      BY <2>2 DEF Idle
    <2> QED
      BY <2>1, <2>3, <2>4 DEF PackFits, PackValid, NoPack
  <1>3. CASE Build
    <2>1. pack' = BuildPack(FALSE, TRUE, Scope(scan)) /\ listing' = listing /\ scan.pc = "build"
      BY <1>3 DEF Build
    <2>2. scan'.projects = scan.projects /\ scan'.scanned = scan.scanned
      BY <1>3, BuildFinishes DEF Finishes, Here, Counts
    <2>3. Scope(scan)' = Scope(scan)
      BY <2>1, <2>2 DEF Scope, ScopeStatus
    <2>4. PackValid(BuildPack(FALSE, TRUE, Scope(scan)))
      BY <2>1, ScopeAccepted, BuiltIs
    <2> QED
      BY <2>1, <2>3, <2>4 DEF PackFits, PackValid
  <1>4. CASE pack' = pack /\ scan'.pc # "done"
    BY <1>4 DEF PackFits, PackValid, NoPack
  <1>5. CASE pack' = pack /\ scan' = scan /\ listing' = listing
    <2>1. Scope(scan)' = Scope(scan)
      BY <1>5 DEF Scope, ScopeStatus
    <2> QED
      BY <1>5, <2>1 DEF PackFits
  <1>6. CASE Catalog \/ OpenProject \/ Hash \/ Malformed \/ ReadVersion \/ HashAgain
             \/ CloseProject
    <2>1. pack' = pack /\ scan.pc \in {"catalog", "root"} \union Within
      BY <1>6 DEF Catalog, OpenProject, Hash, Malformed, ReadVersion, HashAgain, CloseProject,
         Reading, Within
    <2>2. Still
      BY <1>6 DEF Catalog, OpenProject, Hash, Malformed, ReadVersion, HashAgain, CloseProject,
         To, Still
    <2>3. CASE Rests
      BY <1>5, <2>1, <2>3 DEF Rests, Still
    <2>4. CASE Begins \/ Lists \/ Opens \/ (\E row : Adds(row)) \/ Notes \/ (\E read : Ends(read))
      <3>1. scan'.pc # "done"
        BY <2>4 DEF Begins, Lists, Opens, Adds, Notes, Ends, Before
      <3> QED
        BY <1>4, <2>1, <3>1
    <2>5. CASE Finishes \/ Disturbs
      <3>1. listing' = listing /\ (scan' = scan \/ scan.pc = "build")
        BY <2>2, <2>5 DEF Finishes, Disturbs, Still
      <3> QED
        BY <1>5, <2>1, <3>1 DEF Within
    <2> QED
      BY <2>3, <2>4, <2>5, StepKinds DEF Steps
  <1>7. CASE Again
    BY <1>4, <1>7 DEF Again, To, Idle
  <1>8. CASE Rewrite \/ Toggle \/ Move
    BY <1>5, <1>8 DEF Rewrite, Toggle, Move, Change
  <1>9. CASE UNCHANGED vars
    BY <1>5, <1>9 DEF vars
  <1> QED
    BY <1>1, <1>2, <1>3, <1>6, <1>7, <1>8, <1>9 DEF Next

-----------------------------------------------------------------------------
(* What ready says.                                                        *)

ConsumerInvariant ==
  /\ TypeOK /\ CursorFits /\ CatalogFits /\ HeldFits
  /\ RowsFit /\ ProjectsFit /\ PackFits

LEMMA ConsumerStarts == Init => ConsumerInvariant
  <1> SUFFICES ASSUME Init PROVE ConsumerInvariant
    OBVIOUS
  <1>1. scan \in Scans /\ scan.pc = "idle" /\ scan.skills = <<>> /\ scan.projects = <<>>
        /\ scan.scanned = 0
    BY DEF Init, Idle, Scans, Contents
  <1>2. pack = NoPack /\ pack.status = "none"
    BY DEF Init, NoPack
  <1>3. TypeOK
    BY <1>1, <1>2 DEF Init, TypeOK, Before
  <1>4. CursorFits /\ CatalogFits /\ HeldFits /\ RowsFit
    BY <1>1 DEF CursorFits, CatalogFits, HeldFits, RowsFit, Before, Within
  <1>5. ProjectsFit
    BY <1>1 DEF ProjectsFit, Before, Within
  <1>6. PackFits
    BY <1>1, <1>2 DEF PackFits
  <1> QED
    BY <1>3, <1>4, <1>5, <1>6 DEF ConsumerInvariant

LEMMA ConsumerKept == ConsumerInvariant /\ [Next]_vars => ConsumerInvariant'
  <1> SUFFICES ASSUME ConsumerInvariant, [Next]_vars PROVE ConsumerInvariant'
    OBVIOUS
  <1>1. TypeOK /\ CursorFits /\ CatalogFits /\ HeldFits /\ RowsFit /\ ProjectsFit /\ PackFits
    BY DEF ConsumerInvariant
  <1>2. Steps
    BY <1>1, StepKinds
  <1>3. TypeOK'
    BY <1>1, <1>2, PackTyped, TypeKept
  <1>4. CursorFits' /\ CatalogFits' /\ HeldFits'
    BY <1>1, <1>2, CursorKept, CatalogKept, HeldKept
  <1>5. RowsFit' /\ ProjectsFit'
    BY <1>1, <1>2, <1>3, RowsKept, ProjectsKept
  <1>6. PackFits'
    BY <1>1, PackKept
  <1> QED
    BY <1>3, <1>4, <1>5, <1>6 DEF ConsumerInvariant

LEMMA ConsumerInvariantHolds == Spec => []ConsumerInvariant
  BY ConsumerStarts, ConsumerKept, PTL DEF Spec

\* Ready is said only when every project of a complete inventory was read as exact.
LEMMA ReadyReads ==
  ASSUME ConsumerInvariant, scan.pc = "done", pack.status = "ready"
  PROVE  /\ listing = "complete"
         /\ DOMAIN scan.projects = 1 .. Len(Inventory)
         /\ \A k \in 1 .. Len(Inventory) :
              /\ scan.projects[k] \in Reads /\ scan.projects[k].status = "exact"
              /\ ProjectValid(scan.projects[k]) /\ ProjectFits(scan.projects[k], Inventory[k])
  <1>1. TypeOK /\ CursorFits /\ ProjectsFit /\ PackFits
    BY DEF ConsumerInvariant
  <1>2. PICK ps : ps = scan.projects
    OBVIOUS
  <1>3. ps \in Seq(Reads) /\ \A k \in DOMAIN ps : ProjectValid(ps[k])
    BY <1>1, <1>2, ScanIs DEF ProjectsFit
  <1>4. BuildPack(FALSE, TRUE, Scope(scan)).status = "ready"
    BY <1>1 DEF PackFits
  <1>5. PackStatus(FALSE, TRUE, Scope(scan)) = "ready"
    BY <1>4 DEF BuildPack
  <1>6. Scope(scan).status = "exact"
    BY <1>5 DEF PackStatus
  <1>7. ScopeStatus(ps) = "exact"
    BY <1>2, <1>6, ScopeIs
  <1>8. listing # "bounded" /\ "bounded" \notin Statuses(ps) /\ "drifted" \notin Statuses(ps)
    BY <1>7 DEF ScopeStatus
  <1>9. Begun = Len(Inventory) /\ scan.i - 1 = Len(Inventory)
    BY <1>1, InventoryIs DEF CursorFits, Begun, Within
  <1>10. /\ Len(ps) = Len(Inventory)
         /\ \A k \in DOMAIN ps : ProjectFits(ps[k], Inventory[k])
    BY <1>1, <1>2, <1>8, <1>9 DEF ProjectsFit, Before
  <1>11. DOMAIN ps = 1 .. Len(Inventory) /\ \A k \in DOMAIN ps : ps[k] \in Reads
    BY <1>3, <1>10
  <1>12. \A k \in DOMAIN ps : ps[k].status = "exact"
    BY <1>8, <1>11 DEF Statuses, Reads
  <1> QED
    BY <1>1, <1>2, <1>3, <1>8, <1>10, <1>11, <1>12 DEF TypeOK

\* Each entry a task was told to load was then read as the release's, once for its name.
LEMMA ReadyRows ==
  ASSUME ConsumerInvariant, scan.pc = "done", pack.status = "ready", NEW p \in Project
  PROVE  /\ scan.catalog[p] # <<>> /\ DOMAIN scan.catalog[p][1] = DOMAIN Sees[p]
         /\ changes = 0 => p \in open
         /\ \A k \in DOMAIN Sees[p] : scan.catalog[p][1][k].enabled =>
              /\ scan.catalog[p][1][k].skill \in held
              /\ changes = 0 => content[scan.catalog[p][1][k].skill] = Desired
         /\ \A name \in Capability : \E k \in DOMAIN Sees[p] :
              {l \in DOMAIN Sees[p] : /\ scan.catalog[p][1][l].enabled
                                      /\ NameOf[scan.catalog[p][1][l].skill] = name} = {k}
  <1>1. PICK n \in 1 .. Len(Inventory) : Inventory[n] = p
    BY InventoryIs
  <1>2. PICK read : read = scan.projects[n]
    OBVIOUS
  <1>3. read \in Reads /\ read.status = "exact" /\ ProjectValid(read) /\ ProjectFits(read, p)
    BY <1>1, <1>2, ReadyReads
  <1>4. PICK skills : skills = read.skills
    OBVIOUS
  <1>5. skills \in Seq(Rows)
    BY <1>3, <1>4 DEF Reads
  <1>6. PICK entries : entries = scan.catalog[p][1]
    OBVIOUS
  <1>7. /\ scan.catalog[p] # <<>> /\ Len(skills) = Len(entries)
        /\ \A k \in DOMAIN skills : RowFits(skills[k], entries[k])
        /\ changes = 0 => p \in open
    BY <1>3, <1>4, <1>6 DEF ProjectFits
  <1>8. entries \in Seq(Entries) /\ Len(entries) = Len(Sees[p])
    <2>1. scan.catalog \in Catalogs /\ CatalogFits
      BY DEF ConsumerInvariant, TypeOK, Before
    <2>2. scan.catalog[p] \in Seq(Seq(Entries))
      BY <2>1 DEF Catalogs
    <2>3. scan.catalog[p][1] \in Seq(Entries)
      BY <1>7, <2>2
    <2> QED
      BY <1>6, <1>7, <2>1, <2>3 DEF CatalogFits, Before
  <1>9. DOMAIN skills = DOMAIN entries /\ DOMAIN entries = DOMAIN Sees[p]
    BY <1>5, <1>7, <1>8, InventoryIs
  <1>10. \A k \in DOMAIN skills : /\ skills[k].name = NameOf[entries[k].skill]
                                  /\ skills[k].enabled = entries[k].enabled
    BY <1>7 DEF RowFits
  <1>11. \A name \in Capability : /\ Cardinality(Enabled(skills, name)) = 1
                                  /\ \A k \in Enabled(skills, name) : skills[k].relation = "exact"
    BY <1>3, <1>4 DEF ProjectValid
  <1>12. \A k \in DOMAIN skills : skills[k].enabled => skills[k].relation = "exact"
    <2>1. ASSUME NEW k \in DOMAIN skills, skills[k].enabled
          PROVE  skills[k].relation = "exact"
      <3>0. skills[k] \in Rows
        BY <1>5
      <3>1. skills[k].name \in Capability
        BY <3>0 DEF Rows
      <3>2. k \in Enabled(skills, skills[k].name)
        BY <2>1 DEF Enabled
      <3> QED
        BY <1>11, <3>1, <3>2
    <2> QED
      BY <2>1
  <1>13. \A k \in DOMAIN skills : entries[k].enabled =>
           entries[k].skill \in held /\ (changes = 0 => content[entries[k].skill] = Desired)
    BY <1>7, <1>10, <1>12 DEF RowFits
  <1>14. ASSUME NEW name \in Capability
         PROVE  \E k \in DOMAIN Sees[p] :
                  {l \in DOMAIN Sees[p] :
                     entries[l].enabled /\ NameOf[entries[l].skill] = name} = {k}
    <2>1. IsFiniteSet(Enabled(skills, name)) /\ Cardinality(Enabled(skills, name)) = 1
      BY <1>5, <1>11, EnabledIs
    <2>2. PICK k : Enabled(skills, name) = {k}
      BY <2>1, FS_Singleton
    <2>3. Enabled(skills, name) =
            {l \in DOMAIN Sees[p] : entries[l].enabled /\ NameOf[entries[l].skill] = name}
      BY <1>9, <1>10 DEF Enabled
    <2> QED
      BY <2>2, <2>3
  <1> QED
    BY <1>6, <1>7, <1>9, <1>13, <1>14

\* The released Skill of a name is the one a task of the project loads.
LEMMA ReadySound ==
  ASSUME ConsumerInvariant, scan.pc = "done", pack.status = "ready", changes = 0,
         NEW p \in Project, NEW name \in Capability
  PROVE  Sound(p, name)
  <1>1. PICK entries : entries = scan.catalog[p][1]
    OBVIOUS
  <1>2. scan.catalog[p] # <<>>
    BY ReadyRows
  <1>3. \A k \in DOMAIN Sees[p] : /\ entries[k].skill = Sees[p][k]
                                  /\ entries[k].enabled = enabled[Sees[p][k]]
    BY <1>1, <1>2 DEF ConsumerInvariant, CatalogFits, Before
  <1>4. PICK k \in DOMAIN Sees[p] :
          {l \in DOMAIN Sees[p] : entries[l].enabled /\ NameOf[entries[l].skill] = name} = {k}
    BY <1>1, ReadyRows
  <1>5. {l \in DOMAIN Sees[p] : enabled[Sees[p][l]] /\ NameOf[Sees[p][l]] = name} = {k}
    BY <1>3, <1>4
  <1>6. PICK found : found = {s \in Range(Sees[p]) : NameOf[s] = name /\ enabled[s]}
    OBVIOUS
  <1>7. found = {Sees[p][k]}
    <2>1. \A s : s \in found <=> \E l \in DOMAIN Sees[p] :
                                   s = Sees[p][l] /\ NameOf[s] = name /\ enabled[s]
      BY <1>6 DEF Range
    <2>2. \A l \in DOMAIN Sees[p] :
            enabled[Sees[p][l]] /\ NameOf[Sees[p][l]] = name <=> l = k
      BY <1>5
    <2> QED
      BY <2>1, <2>2
  <1>8. enabled[Sees[p][k]]
    BY <1>5
  <1>9. content[Sees[p][k]] = Desired
    <2>1. entries[k].enabled /\ entries[k].skill = Sees[p][k]
      BY <1>3, <1>4
    <2>2. content[entries[k].skill] = Desired
      BY <1>1, <2>1, ReadyRows
    <2> QED
      BY <2>1, <2>2
  <1>10. Cardinality(found) = 1
    BY <1>7, FS_Singleton
  <1> QED
    BY <1>6, <1>7, <1>9, <1>10 DEF Sound

-----------------------------------------------------------------------------

\* The scan, its catalog, the rows and projects it has read and the pack keep their
\* types (_inspect_consumer_scope and verify_workstation_consumer).
THEOREM ConsumerTypeCorrect == Spec => []TypeOK
  <1>1. ConsumerInvariant => TypeOK
    BY DEF ConsumerInvariant
  <1> QED
    BY <1>1, ConsumerInvariantHolds, PTL

\* Whatever the host answers and whoever changes it meanwhile, the scope a scan ends with
\* satisfies validate_consumer_scope and each pack satisfies validate_pack.
THEOREM PacksAreAccepted == Spec => []PackAccepted
  <1>1. ConsumerInvariant => PackAccepted
    <2> SUFFICES ASSUME ConsumerInvariant PROVE PackAccepted
      OBVIOUS
    <2>1. scan.pc = "build" => ScopeValid(Scope(scan))
      BY ScopeAccepted DEF ConsumerInvariant
    <2>2. pack # NoPack => PackValid(pack)
      BY DEF ConsumerInvariant, PackFits
    <2> QED
      BY <2>1, <2>2 DEF PackAccepted
  <1> QED
    BY <1>1, ConsumerInvariantHolds, PTL

\* A pack of a scan nothing disturbed says ready only if the inventory is complete, every
\* project is there, and each would load exactly one enabled Skill of each name, with the
\* released bytes.
THEOREM ReadyIsSo == Spec => []ReadyIsTrue
  <1>1. ConsumerInvariant => ReadyIsTrue
    <2> SUFFICES ASSUME ConsumerInvariant, scan.pc = "done", changes = 0, pack.status = "ready"
                 PROVE  /\ listing = "complete" /\ open = Project
                        /\ \A p \in Project, n \in Capability : Sound(p, n)
      BY DEF ReadyIsTrue
    <2>1. listing = "complete"
      BY ReadyReads
    <2>2. open \subseteq Project
      BY DEF ConsumerInvariant, TypeOK
    <2>3. \A p \in Project : p \in open
      BY ReadyRows
    <2>4. \A p \in Project, n \in Capability : Sound(p, n)
      BY ReadySound
    <2> QED
      BY <2>1, <2>2, <2>3, <2>4
  <1> QED
    BY <1>1, ConsumerInvariantHolds, PTL

\* A pack of any scan says ready only if each Skill a project was told to load held the
\* released bytes at some moment of the scan.
THEOREM ReadyWasSo == Spec => []ReadyWasTrue
  <1>1. ConsumerInvariant => ReadyWasTrue
    <2> SUFFICES ASSUME ConsumerInvariant, scan.pc = "done", pack.status = "ready",
                        NEW p \in Project, NEW k \in DOMAIN scan.catalog[p][1],
                        scan.catalog[p][1][k].enabled
                 PROVE  scan.catalog[p][1][k].skill \in held
      BY DEF ReadyWasTrue
    <2> QED
      BY ReadyRows
  <1> QED
    BY <1>1, ConsumerInvariantHolds, PTL
=============================================================================
