------------------------------ MODULE Archives ------------------------------
(***************************************************************************)
(* Reading the archives of projects (application/importer): a group or lab *)
(* archive with its manifest (archive.go), and the plain ZIP of a student  *)
(* or of GitHub, rewritten as a lab archive (student_archive.go).          *)
(*                                                                         *)
(* An archive is a sequence of entries.  A name is the sequence of its     *)
(* parts; an entry has a size, a packed size, the size Deflate would give  *)
(* it, its data, and marks: a directory, an irregular file, an unsafe name.*)
(* The archive is as long as its packed entries together.  What is no ZIP  *)
(* never gets here.                                                        *)
(***************************************************************************)
EXTENDS Naturals, Sequences, SequencesExt, FiniteSets, FiniteSetsExt

CONSTANTS MaxCompressed, MaxFiles, MaxBytes, MaxRatio, MaxManifest, Lower(_)

ASSUME ArchivesAssumption ==
    {MaxCompressed, MaxFiles, MaxBytes, MaxRatio, MaxManifest} \subseteq Nat

ManifestName == <<"cppdefense-manifest.json">>
CMake == "CMakeLists.txt"
Refused == [refused |-> TRUE]

Folded(name) == [i \in DOMAIN name |-> Lower(name[i])]
Under(root, name) == IsStrictPrefix(root, name)
Below(root, name) == SubSeq(name, Len(root) + 1, Len(name))

FilesOf(entries) == {i \in DOMAIN entries : ~entries[i].dir}

(* Two names that a file system without case would take for one.           *)
Collide(entries, among) ==
    \E i, j \in among : /\ entries[i].name # entries[j].name
                        /\ Folded(entries[i].name) = Folded(entries[j].name)

Ratio(e) == e.size \div (IF e.packed = 0 THEN 1 ELSE e.packed)

(* What both readers ask of the archive and its entries; they look for     *)
(* collisions among different entries.                                     *)
Acceptable(entries, compared) ==
    /\ MapThenSumSet(LAMBDA i : entries[i].packed, DOMAIN entries) <= MaxCompressed
    /\ Len(entries) \in 1 .. MaxFiles
    /\ \A i \in DOMAIN entries : ~entries[i].unsafe
    /\ ~Collide(entries, compared)
    /\ \A i \in FilesOf(entries) :
          LET e == entries[i] IN
          ~e.irregular /\ Last(e.name) # "nested.zip" /\ Ratio(e) <= MaxRatio
    /\ MapThenSumSet(LAMBDA i : entries[i].size, FilesOf(entries)) <= MaxBytes

(* The files by their names; of entries with one name, the last.           *)
Contents(entries) ==
    [name \in {entries[i].name : i \in FilesOf(entries)} |->
        entries[Max({i \in FilesOf(entries) : entries[i].name = name})]]

IsSource(name) == Last(name) = "source.cpp"

(* The files of a project, by their names in it.                           *)
normalizeProject(files, root) ==
    LET names == {n \in DOMAIN files : Under(root, n)} IN
    IF root \o <<CMake>> \notin names \/ ~\E n \in names : IsSource(n) THEN Refused
    ELSE [rel \in {Below(root, n) : n \in names} |-> files[root \o rel].data]

Overlap(a, b) == IsPrefix(Folded(a.root), Folded(b.root))
                 \/ IsPrefix(Folded(b.root), Folded(a.root))
SameAssignment(a, b) == Lower(a.student) = Lower(b.student) /\ a.lab = b.lab

AnalyzeMutant(entries, items) ==
    LET files == Contents(entries)
        projects == [k \in DOMAIN items |-> normalizeProject(files, items[k].root)]
    IN
    IF \/ ~Acceptable(entries, DOMAIN entries)
       \/ ManifestName \notin DOMAIN files \/ files[ManifestName].size > MaxManifest
       \/ items = <<>>
       \/ \E k \in DOMAIN items : ~items[k].valid
       \/ \E j, k \in DOMAIN items : j < k /\ (Folded(items[j].root) = Folded(items[k].root)
                                               \/ SameAssignment(items[j], items[k]))
       \/ \E k \in DOMAIN items : projects[k] = Refused
    THEN Refused ELSE [refused |-> FALSE, projects |-> projects]

(* items: what the manifest lists, empty if it cannot be used.             *)
Analyze(entries, items) ==
    LET files == Contents(entries)
        projects == [k \in DOMAIN items |-> normalizeProject(files, items[k].root)]
    IN
    IF \/ ~Acceptable(entries, DOMAIN entries)
       \/ ManifestName \notin DOMAIN files \/ files[ManifestName].size > MaxManifest
       \/ items = <<>>
       \/ \E k \in DOMAIN items : ~items[k].valid
       \/ \E j, k \in DOMAIN items : j < k /\ (Overlap(items[j], items[k])
                                               \/ SameAssignment(items[j], items[k]))
       \/ \E k \in DOMAIN items : projects[k] = Refused
    THEN Refused ELSE [refused |-> FALSE, projects |-> projects]

-----------------------------------------------------------------------------

Regular(name, data) == [name |-> name, data |-> data, size |-> 1, packed |-> 1,
                        deflated |-> 1, dir |-> FALSE, irregular |-> FALSE,
                        unsafe |-> FALSE]

Metadata == {".git", "__MACOSX"}

(* The entries of the project below prefix, compressed anew.               *)
Rewritten(entries, prefix) ==
    LET files == Contents(entries)
        Kept(e) == /\ ~e.dir /\ files[e.name] = e
                   /\ Under(prefix, e.name) /\ e.name # ManifestName
                   /\ ~(Len(e.name) > Len(prefix) + 1 /\ e.name[Len(prefix) + 1] \in Metadata)
        kept == SelectSeq(entries, Kept)
    IN [k \in DOMAIN kept |->
           [kept[k] EXCEPT !.name = <<"project">> \o Below(prefix, kept[k].name),
                           !.packed = kept[k].deflated]]

CandidateRoots(entries) == {i \in FilesOf(entries) : Last(entries[i].name) = CMake}

Shallowest(entries) ==
    {i \in CandidateRoots(entries) : \A j \in CandidateRoots(entries) :
        Len(entries[i].name) <= Len(entries[j].name)}

prepareProjectArchiveMutant(entries, item) ==
    IF ~Acceptable(entries, FilesOf(entries)) \/ Shallowest(entries) = {} THEN Refused
    ELSE LET root == CHOOSE i \in Shallowest(entries) : TRUE IN
         Analyze(<<Regular(ManifestName, 0)>> \o Rewritten(entries, Front(entries[root].name)),
                 <<[item EXCEPT !.root = <<"project">>]>>)

(* The project is the directory of the one CMakeLists.txt that is nearest  *)
(* to the top; it becomes a lab archive, which is then read like any other.*)
prepareProjectArchive(entries, item) ==
    IF ~Acceptable(entries, FilesOf(entries)) THEN Refused
    ELSE IF Cardinality(Shallowest(entries)) # 1 THEN Refused
    ELSE LET root == CHOOSE i \in Shallowest(entries) : TRUE IN
         Analyze(<<Regular(ManifestName, 0)>> \o Rewritten(entries, Front(entries[root].name)),
                 <<[item EXCEPT !.root = <<"project">>]>>)
=============================================================================
