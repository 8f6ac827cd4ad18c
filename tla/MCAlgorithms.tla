---------------------------- MODULE MCAlgorithms ----------------------------
(***************************************************************************)
(* The pure algorithms of the system against what they should compute, for *)
(* every input of small sets: a behaviour takes one input, and gives the   *)
(* output of the algorithm for it.                                         *)
(***************************************************************************)
EXTENDS Wheel, HideSeek, Archives, SandboxReport

VARIABLES input, output

vars == <<input, output>>

Start == [algorithm |-> "none"]

Init == input = Start /\ output = Start

Answer(in, out) == input' = in /\ output' = out

-----------------------------------------------------------------------------
(* Wheels: up to five candidates, two orders for each digest.              *)

Candidates == 1 .. 5
Orders == {<<1, 2, 3, 4, 5>>, <<3, 5, 4, 2, 1>>}

RunWheel ==
    /\ input = Start
    /\ \E lines \in [Candidates -> 1 .. 2], test \in [Candidates -> BOOLEAN],
          n \in 2 .. 5, manual \in 0 .. 5, size \in 2 .. 5, score, spin \in Orders :
          LET catalog == [i \in 1 .. n |-> [id |-> i, rank |-> i, lines |-> lines[i],
                                            test |-> test[i]]] IN
          /\ \A i \in n + 1 .. 5 : lines[i] = 1 /\ ~test[i]
          /\ Answer([algorithm |-> "wheel", catalog |-> catalog, manual |-> manual,
                     size |-> size, score |-> score, spin |-> spin],
                    buildWheel(catalog, manual, size, score, spin))

Needed == IF input.manual = 0 THEN input.size ELSE input.size - 1
OnWheel(c) == \E i \in DOMAIN output.wheel : output.wheel[i] = c
Eligible == {c \in ToSet(input.catalog) : ~c.test /\ c.id # input.manual}

(* Two thirds of what is needed, to the nearest whole number.              *)
Share == CHOOSE n \in 0 .. Needed : 3 * n \in 2 * Needed - 1 .. 2 * Needed + 1

(* A wheel is refused exactly when there are too few candidates or the one *)
(* the teacher named is unknown.  Else it has the size asked for, without  *)
(* repetition and without a test file but the teacher's own choice; the    *)
(* answer is on it; two thirds are as large as any other candidate, and    *)
(* the seed puts the remaining third before every one it leaves out; and   *)
(* the order of the catalog does not matter, so a repeated configuration   *)
(* with the seed gives the same wheel.                                     *)
WheelMixed ==
    input.algorithm = "wheel" =>
        IF output = NoWheel
        THEN \/ Cardinality(Eligible) < Needed
             \/ input.manual # 0 /\ \A c \in ToSet(input.catalog) : c.id # input.manual
        ELSE LET wheel == ToSet(output.wheel) IN
             /\ Len(output.wheel) = input.size /\ Cardinality(wheel) = input.size
             /\ \A c \in wheel : c \in Eligible \/ c.id = input.manual
             /\ \E c \in wheel : c.id = output.selected
             /\ input.manual # 0 => output.selected = input.manual
             /\ \E largest \in SUBSET (wheel \cap Eligible) :
                   /\ Cardinality(largest) = Share
                   /\ \A c \in largest, d \in Eligible \ largest : d.lines <= c.lines
                   /\ \A c \in (wheel \cap Eligible) \ largest, d \in Eligible \ wheel :
                         input.score[c.id] < input.score[d.id]
             /\ output = buildWheel(Reverse(input.catalog), input.manual, input.size,
                                    input.score, input.spin)

-----------------------------------------------------------------------------
(* Mutations: one or two, of a text of three characters and of a test.     *)

Texts == [1 .. 3 -> {"a", "b"}]
Fragments == {<<"a">>, <<"b">>, <<"a", "b">>, <<"b", "b">>}
MCEditable == {1, 2}
Mutations == [path : {1}, start : 0 .. 2, before : Fragments,
              after : {<<>>, <<"b">>, <<"a", "a">>, <<"a", "a", "a">>}]
             \cup [path : {2, 3, 4}, start : {0}, before : {<<"a">>, <<>>}, after : {<<"b">>}]

RunApply ==
    /\ input = Start
    /\ \E text \in Texts, first \in Mutations,
          others \in {<<>>} \cup {<<m>> : m \in Mutations} :
          LET files == <<text, <<"a">>, <<"a">>>>
              mutations == <<first>> \o others
          IN Answer([algorithm |-> "apply", files |-> files, mutations |-> mutations],
                    Apply(mutations, files))

Covers(m, i) == m.start < i /\ i <= Stop(m)

(* Character by character: what a fragment covers gives way to its         *)
(* replacement, the rest stays.                                            *)
Edited(text, mutations) ==
    FlattenSeq([i \in DOMAIN text |->
        IF \E m \in mutations : m.start + 1 = i
        THEN (CHOOSE m \in mutations : m.start + 1 = i).after
        ELSE IF \E m \in mutations : Covers(m, i) THEN <<>> ELSE <<text[i]>>])

(* Mutations are accepted exactly when each stands in its file and no two  *)
(* of a file share a character; then every file is what editing it         *)
(* character by character gives, in whatever order the mutations came.     *)
EditsApplied ==
    input.algorithm = "apply" =>
        LET mutations == ToSet(input.mutations)
            apart == \A j, k \in DOMAIN input.mutations :
                        LET m == input.mutations[j]  n == input.mutations[k] IN
                        j # k /\ m.path = n.path =>
                            ~\E i \in 1 .. 5 : Covers(m, i) /\ Covers(n, i)
        IN
        /\ output # Invalid <=> apart /\ \A m \in mutations : Matches(m, input.files)
        /\ output # Invalid =>
              \A p \in DOMAIN input.files :
                 output[p] = Edited(input.files[p], {m \in mutations : m.path = p})

-----------------------------------------------------------------------------
(* Masking: sources of up to six characters, a marker of two.              *)

MaskMarker == <<"T", "D">>

RunMask ==
    /\ input = Start
    /\ \E n \in 2 .. 6 : \E source \in [1 .. n -> {"{", "}", "x", Newline}],
          begin \in 0 .. n - 1, end \in 1 .. n + 1 :
          Answer([algorithm |-> "mask", source |-> source, begin |-> begin, end |-> end],
                 maskRepositoryBody(source, begin, end, MaskMarker))

(* The masked file shows nothing of the body: it has the length and the    *)
(* lines of the source, is the source outside the body, and between the    *)
(* braces has blanks and at most one marker, which is there whenever a     *)
(* line has room for it.                                                   *)
MaskHides ==
    input.algorithm = "mask" /\ output # Invalid =>
        LET body == input.begin + 2 .. input.end - 1
            marked == {i \in body : output[i] \in ToSet(MaskMarker)}
        IN
        /\ DOMAIN output = DOMAIN input.source
        /\ \A i \in DOMAIN output :
              /\ output[i] = Newline <=> input.source[i] = Newline
              /\ i \notin body => output[i] = input.source[i]
              /\ i \in body \ marked => output[i] \in {Blank, Newline}
        /\ marked # {} => \E i \in body : /\ marked = {i, i + 1}
                                          /\ SubSeq(output, i, i + 1) = MaskMarker
        /\ marked = {} => \A i \in body : i + 1 \in body
                                             => Newline \in {output[i], output[i + 1]}

-----------------------------------------------------------------------------
(* Archives: any of a list of names, one of the entries out of the         *)
(* ordinary.                                                               *)

MCLower(part) == IF part = "A" THEN "a" ELSE IF part = "S" THEN "s" ELSE part

GroupNames == <<ManifestName, <<"a", CMake>>, <<"a", "source.cpp">>, <<"a", "b", CMake>>,
                <<"a", "b", "source.cpp">>, <<"A", "source.cpp">>, <<"c", CMake>>,
                <<"c", "source.cpp">>>>
PlainNames == <<<<CMake>>, <<"source.cpp">>, <<"a", CMake>>, <<"a", "source.cpp">>,
                <<"a", ".git", "source.cpp">>, <<"b", CMake>>, ManifestName,
                <<"A", "source.cpp">>, <<"c", "source.cpp">>>>

EntriesOf(names, present) ==
    LET at == SelectSeq([i \in DOMAIN names |-> i], LAMBDA i : i \in present)
    IN [k \in DOMAIN at |-> Regular(names[at[k]], at[k])]

(* Entry k made a directory, a link, an unsafe name, a file that was       *)
(* stored and shrinks when compressed, one that another tool has packed    *)
(* better, or one that comes twice.                                        *)
Variants(entries) ==
    {entries} \cup UNION {
        {[entries EXCEPT ![k].dir = TRUE], [entries EXCEPT ![k].irregular = TRUE],
         [entries EXCEPT ![k].unsafe = TRUE],
         [entries EXCEPT ![k].size = 3, ![k].packed = 3],
         [entries EXCEPT ![k].size = 2, ![k].deflated = 3],
         Append(entries, [entries[k] EXCEPT !.data = 10])} : k \in DOMAIN entries}

Item(root, student) == [root |-> root, student |-> student, lab |-> 1, valid |-> TRUE]
Items == {Item(root, student) : root \in {<<"a">>, <<"A">>, <<"a", "b">>, <<"c">>},
                                student \in {"s", "S", "t"}}

RunAnalyze ==
    /\ input = Start
    /\ \E present \in SUBSET DOMAIN GroupNames, one \in Items,
          others \in {<<>>} \cup {<<i>> : i \in Items} :
          LET entries == EntriesOf(GroupNames, present)
              items == <<one>> \o others
          IN /\ one.student = "s"
             /\ Answer([algorithm |-> "analyze", entries |-> entries, items |-> items],
                       Analyze(entries, items))

RunPrepare ==
    /\ input = Start
    /\ \E present \in SUBSET DOMAIN PlainNames :
          \E entries \in Variants(EntriesOf(PlainNames, present)) :
             Answer([algorithm |-> "prepare", entries |-> entries],
                    prepareProjectArchive(entries, Item(<<>>, "s")))

(* The data of an accepted archive that project k was made of.             *)
DataOf(k) == {output.projects[k][rel] : rel \in DOMAIN output.projects[k]}

(* The projects of an accepted archive are apart: no file is in two of     *)
(* them, no student has two of one lab, whatever the case of the names;    *)
(* and each is whole: all the files below its root, among them a           *)
(* CMakeLists.txt at the top and a source.                                 *)
ProjectsApart ==
    input.algorithm = "analyze" /\ output # Refused =>
        /\ \A j, k \in DOMAIN input.items : j # k =>
              /\ DataOf(j) \cap DataOf(k) = {}
              /\ MCLower(input.items[j].student) # MCLower(input.items[k].student)
        /\ \A k \in DOMAIN input.items :
              /\ DataOf(k) = {e.data : e \in {f \in ToSet(input.entries) :
                                 Under(input.items[k].root, f.name)}}
              /\ <<CMake>> \in DOMAIN output.projects[k]
              /\ \E rel \in DOMAIN output.projects[k] : IsSource(rel)

(* The directories with a CMakeLists.txt of their own.                     *)
Roots(entries) == {i \in FilesOf(entries) : Last(entries[i].name) = CMake}

(* A plain ZIP is accepted exactly when it passes the checks, one          *)
(* CMakeLists.txt is nearer to the top than any other, and the rewritten   *)
(* archive, one manifest longer and compressed anew, passes them too; the  *)
(* project is then all of that directory but the metadata at its top, each *)
(* file under its own name and with its own data.                          *)
ProjectPrepared ==
    input.algorithm = "prepare" =>
        LET entries == input.entries
            top == {i \in Roots(entries) : \A j \in Roots(entries) \ {i} :
                       Len(entries[i].name) < Len(entries[j].name)}
            dir == Front(entries[CHOOSE i \in top : TRUE].name)
            mine == {i \in FilesOf(entries) :
                        /\ SubSeq(entries[i].name, 1, Len(dir)) = dir
                        /\ entries[i].name # ManifestName
                        /\ ~IsPrefix(Append(dir, ".git"), entries[i].name)
                        /\ \A j \in FilesOf(entries) :
                              entries[j].name = entries[i].name => j <= i}
        IN
        /\ output # Refused <=>
              /\ Acceptable(entries, FilesOf(entries))
              /\ top # {}
              /\ \E i \in mine : IsSource(entries[i].name)
              /\ Cardinality(mine) < MaxFiles
              /\ 1 + MapThenSumSet(LAMBDA i : entries[i].deflated, mine) <= MaxCompressed
              /\ 1 + MapThenSumSet(LAMBDA i : entries[i].size, mine) <= MaxBytes
              /\ \A i \in mine : entries[i].size \div entries[i].deflated <= MaxRatio
        /\ output # Refused =>
              output.projects = <<[rel \in {Below(dir, entries[i].name) : i \in mine} |->
                  entries[CHOOSE i \in mine : Below(dir, entries[i].name) = rel].data]>>

-----------------------------------------------------------------------------
(* Sandbox runs: killed after any token, read in chunks of any size with a *)
(* first chunk of any size, with room for the archive or too little.  The  *)
(* archive has the marker in it once more.                                 *)

MCTar == <<<<"t1">>, Break, <<"snapshot">>, <<"t2">>>>
Codes == [Stages -> 0 .. 1]
Phases == {"all", "build", "reuse", "test"}

Chunks(s, first, size) ==
    <<SubSeq(s, 1, IF first < Len(s) THEN first ELSE Len(s))>> \o
    [k \in 1 .. (Len(s) + size - 1) \div size |->
        SubSeq(s, first + (k - 1) * size + 1,
               IF first + k * size < Len(s) THEN first + k * size ELSE Len(s))]

RunSandbox ==
    /\ input = Start
    /\ \E phase \in Phases, codes \in Codes, first \in 0 .. 3, size \in 1 .. 4,
          room \in {2, MaxArtifact}, failed, timedOut \in BOOLEAN :
          LET whole == sandboxScript(phase, codes) IN
          \E cut \in 0 .. Len(whole) :
             LET ended == cut = Len(whole) /\ ~failed
                 printed == SubSeq(whole, 1, cut)
             IN /\ failed => cut = Len(whole)
                /\ phase # "build" => room = MaxArtifact
                /\ Answer([algorithm |-> "sandbox", phase |-> phase, codes |-> codes,
                           printed |-> printed, room |-> room, ended |-> ended,
                           timedOut |-> timedOut],
                          runSandboxOptions(Chunks(printed, first, size), phase = "build",
                                            room, ended, timedOut))

Completed(s, code) ==
    \E i \in DOMAIN input.printed : /\ input.printed[i] = <<"stage", s, code>>
                                    /\ i + 3 <= Len(input.printed)

(* However the output is cut into chunks and wherever the run was killed,  *)
(* a stage is reported to have passed exactly if it did and its whole      *)
(* block was printed, and to have failed likewise; a run is blamed on the  *)
(* infrastructure exactly if it was in time and no stage has come to its   *)
(* end, so a container that dies after its first stage counts against the  *)
(* student; and an archive is said to be exported exactly if the run ended *)
(* well and all of it could be written, with the archive whole and nothing *)
(* of it in the log.                                                       *)
ReportFaithful ==
    input.algorithm = "sandbox" =>
        /\ \A s \in Stages :
              /\ output.stages[s] = "ok" <=> Completed(s, 0)
              /\ output.stages[s] = "failed" <=> Completed(s, 1)
        /\ output.InfrastructureError <=>
              ~input.timedOut /\ ~\E s \in Stages : Completed(s, 0) \/ Completed(s, 1)
        /\ output.SnapshotExportOK <=>
              /\ input.phase = "build" /\ input.ended /\ input.room >= Len(MCTar)
              /\ input.codes["configure"] = 0 /\ input.codes["build"] = 0
        /\ output.SnapshotExportOK =>
              /\ output.artifact = MCTar
              /\ ToSet(output.log) \cap {<<"t1">>, <<"t2">>, <<"snapshot">>} = {}

-----------------------------------------------------------------------------

Next == RunWheel \/ RunApply \/ RunMask \/ RunAnalyze \/ RunPrepare \/ RunSandbox

Spec == Init /\ [][Next]_vars
=============================================================================
