--------------------------- MODULE SandboxReport ----------------------------
(***************************************************************************)
(* What a run of the sandbox reports (runner/sandbox.go): the script       *)
(* prints a block for every stage and, in the build phase, the archive of  *)
(* the build after a marker; the output comes in chunks, is split into log *)
(* and archive as it comes, and the log is parsed when the run is over.    *)
(*                                                                         *)
(* The output is a sequence of tokens.  The marker of the archive is two,  *)
(* so that a chunk can end inside it, and its first one, a line break, is  *)
(* also printed elsewhere.  A run that is killed ends after any token, as  *)
(* does one whose script cannot copy the seed (after the first).  What the *)
(* container writes to its standard error comes after the log and has none *)
(* of the lines the parser looks for; the log of a stage whose end is read *)
(* is the script's own base64, so it can be decoded.                       *)
(***************************************************************************)
EXTENDS Naturals, Sequences, SequencesExt

CONSTANTS
    Tar,           \* the tokens of the archive of a build
    MaxLog,        \* workerOutputLimit
    MaxArtifact    \* the 800 MiB of an archive

Stages == {"configure", "build", "ctest"}
Ready == <<"ready">>
Break == <<"break">>
End == <<"end">>
Times == <<"times">>
Marker == <<Break, <<"snapshot">>>>

emit_stage(name, code) ==
    <<<<"stage", name, code>>, <<"log">>, Break, End, Times>>

(* The script: codes gives the exit code of each stage's command.          *)
sandboxScript(phase, codes) ==
    LET first == IF phase = "reuse" THEN 0 ELSE codes["configure"]
        configure == emit_stage("configure", first)
        build == emit_stage("build", codes["build"]) \o <<Times>>
        ctest == emit_stage("ctest", codes["ctest"])
    IN <<Ready>> \o
       IF phase = "test" THEN ctest
       ELSE IF first # 0 THEN configure \o <<Times>>
       ELSE IF codes["build"] # 0 THEN configure \o build
       ELSE IF phase = "build" THEN configure \o build \o Marker \o Tar
       ELSE configure \o build \o ctest

-----------------------------------------------------------------------------
(* sandboxOutput: receives tells whether an archive is wanted, room how    *)
(* much of it can be written before a write fails.                         *)

NoOutput(receives, room) ==
    [receives |-> receives, room |-> room, log |-> <<>>, pending |-> <<>>,
     exporting |-> FALSE, artifact |-> <<>>, cancelled |-> FALSE]

writeLog(o, data) ==
    LET all == o.log \o data IN
    [o EXCEPT !.log = SubSeq(all, 1, IF Len(all) < MaxLog THEN Len(all) ELSE MaxLog)]

writeArtifact(o, data) ==
    LET all == o.artifact \o data IN
    IF Len(all) > MaxArtifact THEN [o EXCEPT !.cancelled = TRUE]
    ELSE IF Len(all) > o.room
    THEN [o EXCEPT !.cancelled = TRUE, !.artifact = SubSeq(all, 1, o.room)]
    ELSE [o EXCEPT !.artifact = all]

WriteMutant(o, data) ==
    LET at == {i \in 1 .. Len(data) - 1 : SubSeq(data, i, i + 1) = Marker} IN
    IF o.cancelled THEN o
    ELSE IF ~o.receives THEN writeLog(o, data)
    ELSE IF o.exporting THEN writeArtifact(o, data)
    ELSE IF at = {} THEN writeLog(o, data)
    ELSE LET i == CHOOSE i \in at : \A j \in at : i <= j IN
         writeArtifact([writeLog(o, SubSeq(data, 1, i - 1)) EXCEPT !.exporting = TRUE],
                       SubSeq(data, i + 2, Len(data)))

(* The end of the output may be the beginning of the marker: as much as    *)
(* the marker is long is held back.  Once cancelled, nothing is read.      *)
Write(o, data) ==
    LET pending == o.pending \o data
        at == {i \in 1 .. Len(pending) - 1 : SubSeq(pending, i, i + 1) = Marker}
        held == IF Len(pending) > Len(Marker) THEN Len(pending) - Len(Marker) ELSE 0
    IN
    IF o.cancelled THEN o
    ELSE IF ~o.receives THEN writeLog(o, data)
    ELSE IF o.exporting THEN writeArtifact(o, data)
    ELSE IF at = {}
    THEN [writeLog(o, SubSeq(pending, 1, held)) EXCEPT
             !.pending = SubSeq(pending, held + 1, Len(pending))]
    ELSE LET i == CHOOSE i \in at : \A j \in at : i <= j IN
         writeArtifact([writeLog(o, SubSeq(pending, 1, i - 1)) EXCEPT
                           !.exporting = TRUE, !.pending = <<>>],
                       SubSeq(pending, i + 2, Len(pending)))

finish(o) == [writeLog(o, o.pending) EXCEPT !.pending = <<>>]

-----------------------------------------------------------------------------

Unparsed == [stage |-> "", code |-> 0, parsed |-> [s \in Stages |-> "missing"]]

(* One line of the log.  A block counts when its end has been read.        *)
Line(state, line) ==
    CASE line[1] = "stage" -> [state EXCEPT !.stage = line[2], !.code = line[3]]
      [] line = End /\ state.stage # "" ->
            [state EXCEPT !.stage = "",
                          !.parsed[state.stage] = IF state.code = 0 THEN "ok" ELSE "failed"]
      [] OTHER -> state

(* A stage without a block has not run, or not to its end.                 *)
parseSandboxResults(log, timedOut) ==
    LET parsed == FoldLeft(Line, Unparsed, log).parsed IN
    [InfrastructureError |-> ~timedOut /\ \A s \in Stages : parsed[s] = "missing",
     stages |-> [s \in Stages |-> IF parsed[s] # "missing" THEN parsed[s]
                                  ELSE IF timedOut THEN "timed_out" ELSE "skipped"]]

(* A run: the chunks read, the room for the archive, whether the container *)
(* ended well (err = nil), and whether the time of the job was over.       *)
runSandboxOptions(chunks, receives, room, ended, timedOut) ==
    LET output == finish(FoldLeft(Write, NoOutput(receives, room), chunks))
        result == parseSandboxResults(output.log, timedOut)
    IN [InfrastructureError |-> result.InfrastructureError,
        stages |-> result.stages,
        log |-> output.log,
        artifact |-> output.artifact,
        SnapshotExportOK |-> /\ receives /\ ended /\ ~output.cancelled
                             /\ output.exporting /\ output.artifact # <<>>]
=============================================================================
