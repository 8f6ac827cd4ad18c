------------------------------ MODULE HideSeek ------------------------------
(***************************************************************************)
(* The errors a teacher hides in a project, and what a student is shown of *)
(* it (application/hideseek/project.go, httpapi/defense.go).               *)
(*                                                                         *)
(* A text is a sequence of characters, files give the text of every path.  *)
(* Offsets count from 0, as in the code, and paths are numbers, so that    *)
(* they have an order.                                                     *)
(***************************************************************************)
EXTENDS Naturals, Sequences, SequencesExt

CONSTANTS
    Editable,      \* the paths of sources that are neither tests nor foreign
    MaxFragment    \* the longest text of a mutation

ASSUME HideSeekAssumption == MaxFragment \in Nat

Invalid == [invalid |-> TRUE]

Stop(m) == m.start + Len(m.before)

(* The text with a fragment replaced.                                      *)
Replaced(text, m) ==
    SubSeq(text, 1, m.start) \o m.after \o SubSeq(text, Stop(m) + 1, Len(text))

(* The fragment is in the file, and is changed.                            *)
Matches(m, files) ==
    /\ m.path \in DOMAIN files /\ m.path \in Editable
    /\ Stop(m) <= Len(files[m.path])
    /\ m.before # <<>> /\ m.before # m.after
    /\ Len(m.before) <= MaxFragment /\ Len(m.after) <= MaxFragment
    /\ SubSeq(files[m.path], m.start + 1, Stop(m)) = m.before

Validate(mutations, files) ==
    LET ordered == SortSeq(mutations, LAMBDA a, b : a.path < b.path
                                       \/ (a.path = b.path /\ a.start < b.start))
    IN
    /\ Len(mutations) \in 1 .. 5
    /\ \A i \in DOMAIN ordered :
          /\ Matches(ordered[i], files)
          /\ i > 1 /\ ordered[i - 1].path = ordered[i].path
                 => Stop(ordered[i - 1]) <= ordered[i].start

ApplyMutant(mutations, files) ==
    IF ~Validate(mutations, files) THEN Invalid
    ELSE FoldLeft(LAMBDA result, m : [result EXCEPT ![m.path] = Replaced(@, m)],
                  files, mutations)

(* From the last fragment to the first, so that the offsets of those still *)
(* to come stay right.                                                     *)
Apply(mutations, files) ==
    IF ~Validate(mutations, files) THEN Invalid
    ELSE FoldLeft(LAMBDA result, m : [result EXCEPT ![m.path] = Replaced(@, m)],
                  files, SortSeq(mutations, LAMBDA a, b : a.start > b.start))

-----------------------------------------------------------------------------

Newline == "newline"
Blank == "blank"

maskRepositoryBodyMutant(source, begin, end, marker) ==
    IF end <= begin + 1 \/ end > Len(source)
       \/ source[begin + 1] # "{" \/ source[end] # "}"
    THEN Invalid
    ELSE [i \in DOMAIN source |->
             IF i \in begin + 2 .. end - 1 /\ source[i] # Newline
             THEN IF i < begin + 2 + Len(marker) THEN marker[i - begin - 1] ELSE Blank
             ELSE source[i]]

(* The body from { to } is blanked, line breaks excepted, and a marker is  *)
(* put in the first place with room for it in a line.                      *)
maskRepositoryBody(source, begin, end, marker) ==
    LET masked == [i \in DOMAIN source |->
                      IF i \in begin + 2 .. end - 1 /\ source[i] # Newline
                      THEN Blank ELSE source[i]]
        room == {i \in begin + 2 .. end - Len(marker) :
                    \A j \in 0 .. Len(marker) - 1 : masked[i + j] # Newline}
        at == CHOOSE i \in room : \A k \in room : i <= k
    IN
    IF end <= begin + 1 \/ end > Len(source)
       \/ source[begin + 1] # "{" \/ source[end] # "}"
    THEN Invalid
    ELSE IF room = {} THEN masked
    ELSE [i \in DOMAIN source |-> IF i \in at .. at + Len(marker) - 1
                                  THEN marker[i - at + 1] ELSE masked[i]]
=============================================================================
