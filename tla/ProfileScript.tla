--------------------------- MODULE ProfileScript ---------------------------
(***************************************************************************)
(* The scripts profile-<workload>, run by the viewer or by hand, several   *)
(* one after the other or at the same time.  All of them work in the       *)
(* directory temp under the tool's; each copies it to an output directory  *)
(* of its workload's.  No command's failure stops a script, and the        *)
(* directory a later command works in is what the cd commands before it    *)
(* made of it.                                                             *)
(*                                                                         *)
(* What the profiler writes is two files: cfgs, at path temp/CFGs while    *)
(* the program runs, and graphs, at path temp when it exits.  A file is    *)
(* known by the run that wrote it.                                         *)
(***************************************************************************)
EXTENDS Integers, FiniteSets, SequencesExt

CONSTANTS
    Runs,               \* runs of the scripts
    Workload,           \* the workload each of them profiles
    Removing,           \* workloads whose script removes temp at the end
    WithSource,         \* workloads whose script writes nm.dump
    MaxTogether,        \* bound on the runs that go on at a time
    Nobody, NoDir

\* Files with the run each is of, and the directory temp
Files == UNION {[F -> Runs \cup {Nobody}] :
                   F \in SUBSET {"cfgs", "graphs", "nm", "tool"}}
TempDirs == [by : Runs, cfgs : BOOLEAN, files : Files]

ASSUME ScriptAssumption ==
    /\ Nobody \notin Runs
    /\ NoDir \notin Files /\ NoDir \notin TempDirs
    /\ DOMAIN Workload = Runs
    /\ MaxTogether \in Nat
    /\ Removing \cup WithSource \subseteq {Workload[r] : r \in Runs}

VARIABLES
    pc,                 \* the next command of each run
    cwd, inTemp,        \* its working directory; whose temp, if it is in one
    temp,               \* temp: the run that made it, whether it has the
                        \* directory CFGs, and its files
    output,             \* the files of each output directory
    started,            \* the runs in the order they were started
    alone,              \* no other run was going on during this one
    failed              \* Pin or the profiled program failed

vars == <<pc, cwd, inTemp, temp, output, started, alone, failed>>

Workloads == {Workload[r] : r \in Runs}
Empty == [f \in {} |-> Nobody]
Wrote(files, f, r) ==
    [g \in DOMAIN files \cup {f} |-> IF g = f THEN r ELSE files[g]]
Copied(from, to) ==
    [f \in DOMAIN from \cup DOMAIN to |->
        IF f \in DOMAIN from THEN from[f] ELSE to[f]]

Idle(r) == pc[r] \in {"ready", "done", "killed"}
Others(r) == {q \in Runs \ {r} : ~ Idle(q)}

Init ==
    /\ pc = [r \in Runs |-> "ready"]
    /\ cwd = [r \in Runs |-> "scripts"]
    /\ inTemp = [r \in Runs |-> Nobody]
    /\ temp = NoDir
    /\ output = [w \in Workloads |-> NoDir]
    /\ started = <<>>
    /\ alone = [r \in Runs |-> TRUE]
    /\ failed = [r \in Runs |-> FALSE]

-----------------------------------------------------------------------------
\* The commands

Ended(r) ==
    /\ cwd' = [cwd EXCEPT ![r] = "scripts"]
    /\ inTemp' = [inTemp EXCEPT ![r] = Nobody]

Goto(r, from, to) == pc[r] = from /\ pc' = [pc EXCEPT ![r] = to]

\* rm -rf ${OUTPUT_DIR}; cd ${PIN_TOOL_DIR}, which is always there
Start(r) ==
    /\ Cardinality(Others(r)) < MaxTogether
    /\ Goto(r, "ready", "rm temp")
    /\ output' = [output EXCEPT ![Workload[r]] = NoDir]
    /\ cwd' = [cwd EXCEPT ![r] = "tool"]
    /\ started' = Append(started, r)
    /\ alone' = [q \in Runs |->
          alone[q] /\ (q \in Others(r) \cup {r} => Others(r) = {})]
    /\ UNCHANGED <<inTemp, temp, failed>>

RemoveOldTemp_Kept(r) ==
    /\ Goto(r, "rm temp", "mkdir temp")
    /\ UNCHANGED <<cwd, inTemp, temp, output, started, alone, failed>>
RemoveOldTemp(r) ==
    /\ Goto(r, "rm temp", "mkdir temp")
    /\ temp' = NoDir
    /\ UNCHANGED <<cwd, inTemp, output, started, alone, failed>>

MakeTemp(r) ==
    /\ Goto(r, "mkdir temp", "cd temp")
    /\ temp' = IF temp = NoDir THEN [by |-> r, cfgs |-> FALSE, files |-> Empty]
               ELSE temp
    /\ UNCHANGED <<cwd, inTemp, output, started, alone, failed>>

\* cd temp stays where it is if there is no temp here.
EnterTemp(r) ==
    IF cwd[r] = "tool" /\ temp # NoDir
       THEN /\ cwd' = [cwd EXCEPT ![r] = "temp"]
            /\ inTemp' = [inTemp EXCEPT ![r] = temp.by]
       ELSE UNCHANGED <<cwd, inTemp>>

\* cd .. goes by the path, also out of a directory that was removed.
GoUp_Not(r) == UNCHANGED <<cwd, inTemp>>
GoUp(r) ==
    /\ cwd' = [cwd EXCEPT ![r] = CASE cwd[r] = "temp" -> "tool"
                                   [] cwd[r] = "tool" -> "above"
                                   [] OTHER -> "far above"]
    /\ inTemp' = [inTemp EXCEPT ![r] = Nobody]

\* The run is in the directory that is temp now, not in one removed since.
InTemp(r) == cwd[r] = "temp" /\ temp # NoDir /\ temp.by = inTemp[r]

CdTemp(r) ==
    /\ Goto(r, "cd temp", "mkdir CFGs")
    /\ EnterTemp(r)
    /\ UNCHANGED <<temp, output, started, alone, failed>>

\* mkdir CFGs; mkdir LoadsProfile.  Outside temp they are not the ones Pin uses.
MakeCFGs(r) ==
    /\ Goto(r, "mkdir CFGs", "cd ..")
    /\ temp' = IF InTemp(r) THEN [temp EXCEPT !.cfgs = TRUE] ELSE temp
    /\ UNCHANGED <<cwd, inTemp, output, started, alone, failed>>

CdUp(r) ==
    /\ Goto(r, "cd ..", "pin")
    /\ GoUp(r)
    /\ UNCHANGED <<temp, output, started, alone, failed>>

\* Pin finds obj-intel64/calltrace.so only from the tool's directory.  A file
\* whose directory is missing is not written, and nothing is said.
Instrument(r) ==
    /\ Goto(r, "pin", "fini") /\ cwd[r] = "tool"
    /\ temp' = IF temp # NoDir /\ temp.cfgs
               THEN [temp EXCEPT !.files = Wrote(@, "cfgs", r)] ELSE temp
    /\ UNCHANGED <<cwd, inTemp, output, started, alone, failed>>

PinFails(r) ==
    /\ \/ Goto(r, "pin", "mkdir output")
       \/ Goto(r, "fini", "mkdir output")
    /\ failed' = [failed EXCEPT ![r] = TRUE]
    /\ UNCHANGED <<cwd, inTemp, temp, output, started, alone>>

Fini(r) ==
    /\ Goto(r, "fini", "mkdir output")
    /\ temp' = IF temp # NoDir THEN [temp EXCEPT !.files = Wrote(@, "graphs", r)]
               ELSE temp
    /\ UNCHANGED <<cwd, inTemp, output, started, alone, failed>>

MakeOutput(r) ==
    /\ Goto(r, "mkdir output", "cd temp again")
    /\ output' = [output EXCEPT ![Workload[r]] = IF @ = NoDir THEN Empty ELSE @]
    /\ UNCHANGED <<cwd, inTemp, temp, started, alone, failed>>

CdTempAgain(r) ==
    /\ Goto(r, "cd temp again", "cp")
    /\ EnterTemp(r)
    /\ UNCHANGED <<temp, output, started, alone, failed>>

\* cp -rf ./* ${OUTPUT_DIR}: from anywhere but temp, all of the tool's files
Here(r) ==
    CASE InTemp(r) -> temp.files
      [] cwd[r] = "temp" /\ ~ InTemp(r) -> Empty
      [] OTHER -> [f \in {"tool"} |-> Nobody]

Copy_Flat(r) ==
    /\ Goto(r, "cp", "cd .. again")
    /\ output' = [output EXCEPT ![Workload[r]] =
          IF @ = NoDir THEN @
          ELSE Copied([f \in DOMAIN Here(r) \ {"cfgs"} |-> Here(r)[f]], @)]
    /\ UNCHANGED <<cwd, inTemp, temp, started, alone, failed>>
Copy(r) ==
    /\ Goto(r, "cp", "cd .. again")
    /\ output' = [output EXCEPT ![Workload[r]] =
          IF @ = NoDir THEN @ ELSE Copied(Here(r), @)]
    /\ UNCHANGED <<cwd, inTemp, temp, started, alone, failed>>

CdUpAgain(r) ==
    /\ Goto(r, "cd .. again", "rm temp again")
    /\ GoUp(r)
    /\ UNCHANGED <<temp, output, started, alone, failed>>

RemoveTemp(r) ==
    /\ Goto(r, "rm temp again", "nm")
    /\ temp' = IF Workload[r] \in Removing /\ cwd[r] = "tool" THEN NoDir ELSE temp
    /\ UNCHANGED <<cwd, inTemp, output, started, alone, failed>>

\* dot, gcc, and nm > ${OUTPUT_DIR}/nm.dump; the script exits with 0.
Finish(r) ==
    /\ Goto(r, "nm", "done")
    /\ output' = [output EXCEPT ![Workload[r]] =
          IF @ # NoDir /\ Workload[r] \in WithSource THEN Wrote(@, "nm", r) ELSE @]
    /\ Ended(r)
    /\ UNCHANGED <<temp, started, alone, failed>>

\* The terminal is closed.
Kill(r) ==
    /\ ~ Idle(r)
    /\ pc' = [pc EXCEPT ![r] = "killed"]
    /\ Ended(r)
    /\ UNCHANGED <<temp, output, started, alone, failed>>

Next == \E r \in Runs :
    \/ Start(r) \/ RemoveOldTemp(r) \/ MakeTemp(r)
    \/ CdTemp(r) \/ MakeCFGs(r) \/ CdUp(r) \/ Instrument(r) \/ PinFails(r)
    \/ Fini(r) \/ MakeOutput(r) \/ CdTempAgain(r) \/ Copy(r) \/ CdUpAgain(r)
    \/ RemoveTemp(r) \/ Finish(r) \/ Kill(r)

Spec == Init /\ [][Next]_vars

-----------------------------------------------------------------------------
\* Properties

\* The last run of each workload
LastOf(w) ==
    {r \in Runs : \E i \in DOMAIN started :
        /\ started[i] = r /\ Workload[r] = w
        /\ \A j \in DOMAIN started : j > i => Workload[started[j]] # w}

\* What a run leaves in the output directory, whether it ends, fails or is
\* killed at any command, was written by that run, whatever runs that were
\* killed, failed or mixed up with each other have left in temp before it; and
\* so it stays whatever runs of other workloads come after it.  The run has to
\* have been alone.
OutputOfLastRun ==
    \A w \in Workloads : \A r \in LastOf(w) :
        alone[r] /\ output[w] # NoDir =>
            \A f \in DOMAIN output[w] : output[w][f] = r

\* If Pin did not fail either, all of its files are there: no command worked in
\* the wrong directory.
OutputComplete ==
    \A w \in Workloads : \A r \in LastOf(w) :
        alone[r] /\ pc[r] = "done" /\ ~ failed[r] =>
            DOMAIN output[w] = {"cfgs", "graphs"} \cup
                               (IF w \in WithSource THEN {"nm"} ELSE {})

\* Until the next run is started, temp is gone if the script removes it.
TempRemoved ==
    started # <<>> =>
        LET r == Last(started) IN
        alone[r] /\ pc[r] = "done" /\ Workload[r] \in Removing => temp = NoDir

\* The inductive invariant: types, which runs went on together, where a run that
\* is alone is and what it has made, and what those that ended have left.
ScriptTypeOK ==
    /\ pc \in [Runs -> {"ready", "rm temp", "mkdir temp", "cd temp", "mkdir CFGs",
                        "cd ..", "pin", "fini", "mkdir output", "cd temp again",
                        "cp", "cd .. again", "rm temp again", "nm", "done", "killed"}]
    /\ cwd \in [Runs -> {"scripts", "tool", "temp", "above", "far above"}]
    /\ inTemp \in [Runs -> Runs \cup {Nobody}]
    /\ temp \in TempDirs \cup {NoDir}
    /\ output \in [Workloads -> Files \cup {NoDir}]
    /\ started \in Seq(Runs) /\ IsInjective(started)
    /\ ToSet(started) = {r \in Runs : pc[r] # "ready"}
    /\ alone \in [Runs -> BOOLEAN]
    /\ failed \in [Runs -> BOOLEAN]

\* The runs before one that was alone had ended; while it goes on, none follows.
AloneOrder ==
    \A i \in DOMAIN started : alone[started[i]] =>
        /\ \A j \in 1 .. i - 1 : Idle(started[j])
        /\ ~ Idle(started[i]) => i = Len(started)

OwnFiles(files, r) == \A f \in DOMAIN files : files[f] = r

AloneOK(r) ==
    LET p == pc[r]
        mine == output[Workload[r]]
        all == {"cfgs", "graphs"}
    IN  alone[r] /\ ~ Idle(r) =>
        /\ IF p \in {"mkdir CFGs", "cd ..", "cp", "cd .. again"}
           THEN cwd[r] = "temp" /\ inTemp[r] = r ELSE cwd[r] = "tool"
        /\ p = "mkdir temp" => temp = NoDir
        /\ p \notin {"rm temp", "mkdir temp", "nm"} =>
              temp # NoDir /\ temp.by = r /\ OwnFiles(temp.files, r)
        /\ p \in {"cd temp", "mkdir CFGs", "cd ..", "pin"} => DOMAIN temp.files = {}
        /\ p \in {"cd ..", "pin"} => temp.cfgs
        /\ p = "fini" => DOMAIN temp.files = {"cfgs"}
        /\ p \in {"mkdir output", "cd temp again", "cp"} /\ ~ failed[r] =>
              DOMAIN temp.files = all
        /\ p = "nm" /\ Workload[r] \in Removing => temp = NoDir
        /\ CASE p \in {"cd temp again", "cp"} -> mine = Empty
             [] p \in {"cd .. again", "rm temp again", "nm"} ->
                  mine # NoDir /\ OwnFiles(mine, r) /\ (~ failed[r] => DOMAIN mine = all)
             [] OTHER -> mine = NoDir

ScriptInv ==
    /\ ScriptTypeOK /\ AloneOrder /\ \A r \in Runs : AloneOK(r)
    /\ OutputOfLastRun /\ OutputComplete /\ TempRemoved
=============================================================================
