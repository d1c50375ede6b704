------------------------ MODULE ProfileScript_proofs ------------------------
(***************************************************************************)
(* Proofs about the profile scripts: a run that is alone leaves what it    *)
(* wrote itself, all of it, and no temp, for any runs of any workloads     *)
(* before, after and beside each other.                                    *)
(***************************************************************************)
EXTENDS ProfileScript, TLAPS

Commands == {"rm temp", "mkdir temp", "cd temp", "mkdir CFGs", "cd ..", "pin", "fini",
             "mkdir output", "cd temp again", "cp", "cd .. again", "rm temp again", "nm"}

LEMMA InvParts ==
  ScriptInv => /\ ScriptTypeOK /\ AloneOrder /\ \A r \in Runs : AloneOK(r)
               /\ OutputOfLastRun /\ OutputComplete /\ TempRemoved
BY DEF ScriptInv

----------------------------------------------------------------------------
(* Files.                                                                  *)

LEMMA EmptyFiles == Empty \in Files /\ DOMAIN Empty = {} /\ Empty # NoDir
<1>1. Empty \in [{} -> Runs \cup {Nobody}]
  BY DEF Empty
<1>2. Empty \in Files
  BY <1>1 DEF Files
<1> QED BY <1>2, ScriptAssumption DEF Empty

\* A directory of files: the files that are there, and who wrote each.
LEMMA FilesOf ==
  ASSUME NEW a \in Files
  PROVE  /\ DOMAIN a \subseteq {"cfgs", "graphs", "nm", "tool"}
         /\ a \in [DOMAIN a -> Runs \cup {Nobody}] /\ a # NoDir
BY ScriptAssumption DEF Files

LEMMA CopiedFiles ==
  ASSUME NEW a \in Files, NEW b \in Files
  PROVE  /\ Copied(a, b) \in Files /\ DOMAIN Copied(a, b) = DOMAIN a \cup DOMAIN b
         /\ \A r : OwnFiles(a, r) /\ OwnFiles(b, r) => OwnFiles(Copied(a, b), r)
<1> DEFINE F == DOMAIN a \cup DOMAIN b
<1>1. F \in SUBSET {"cfgs", "graphs", "nm", "tool"}
  BY FilesOf
<1>2. Copied(a, b) \in [F -> Runs \cup {Nobody}]
  BY FilesOf DEF Copied
<1>3. Copied(a, b) \in Files
  BY <1>1, <1>2 DEF Files
<1> QED BY <1>2, <1>3 DEF OwnFiles, Copied

LEMMA WrittenFile ==
  ASSUME NEW a \in Files, NEW f \in {"cfgs", "graphs", "nm", "tool"}, NEW r \in Runs \cup {Nobody}
  PROVE  /\ Wrote(a, f, r) \in Files /\ DOMAIN Wrote(a, f, r) = DOMAIN a \cup {f}
         /\ OwnFiles(a, r) => OwnFiles(Wrote(a, f, r), r)
<1> DEFINE F == DOMAIN a \cup {f}
<1>1. F \in SUBSET {"cfgs", "graphs", "nm", "tool"}
  BY FilesOf
<1>2. Wrote(a, f, r) \in [F -> Runs \cup {Nobody}]
  BY FilesOf DEF Wrote
<1>3. Wrote(a, f, r) \in Files
  BY <1>1, <1>2 DEF Files
<1> QED BY <1>2, <1>3 DEF OwnFiles, Wrote

LEMMA TempOf ==
  ASSUME ScriptTypeOK, temp # NoDir
  PROVE  temp \in TempDirs /\ temp.by \in Runs /\ temp.cfgs \in BOOLEAN /\ temp.files \in Files
BY DEF ScriptTypeOK, TempDirs

LEMMA HereFiles ==
  ASSUME ScriptTypeOK, NEW r \in Runs
  PROVE  Here(r) \in Files
<1>1. CASE InTemp(r)
  BY <1>1, TempOf DEF Here, InTemp
<1>2. CASE ~ InTemp(r) /\ cwd[r] = "temp"
  BY <1>2, EmptyFiles DEF Here
<1>3. CASE ~ InTemp(r) /\ cwd[r] # "temp"
  <2>1. Here(r) = [f \in {"tool"} |-> Nobody]
    BY <1>3 DEF Here
  <2>2. [f \in {"tool"} |-> Nobody] \in [{"tool"} -> Runs \cup {Nobody}]
    OBVIOUS
  <2> QED BY <2>1, <2>2 DEF Files
<1> QED BY <1>1, <1>2, <1>3

----------------------------------------------------------------------------
(* Which runs a command of one of them concerns.                           *)

LEMMA StartedFacts ==
  ASSUME ScriptTypeOK
  PROVE  /\ Len(started) \in Nat /\ DOMAIN started = 1 .. Len(started)
         /\ \A i \in 1 .. Len(started) : started[i] \in Runs /\ pc[started[i]] # "ready"
         /\ \A i, j \in 1 .. Len(started) : started[i] = started[j] => i = j
         /\ \A r \in Runs : pc[r] # "ready" => \E i \in 1 .. Len(started) : started[i] = r
<1>1. Len(started) \in Nat /\ DOMAIN started = 1 .. Len(started)
  <2>1. started \in Seq(Runs)
    BY DEF ScriptTypeOK
  <2> QED BY <2>1
<1>2. ToSet(started) = {started[i] : i \in 1 .. Len(started)}
  BY <1>1 DEF ToSet
<1>3. ToSet(started) = {r \in Runs : pc[r] # "ready"}
  BY DEF ScriptTypeOK
<1>4. \A i, j \in 1 .. Len(started) : started[i] = started[j] => i = j
  BY <1>1 DEF ScriptTypeOK, IsInjective
<1> QED BY <1>1, <1>2, <1>3, <1>4

LEMMA LastStarted == Last(started) = started[Len(started)]
BY DEF Last

\* While q goes on, another run that was alone has ended, before q was started.
LEMMA WhileRunning ==
  ASSUME ScriptInv, NEW q \in Runs, ~ Idle(q)
  PROVE  \E n \in 1 .. Len(started) :
            /\ started[n] = q
            /\ \A i \in 1 .. Len(started) :
                  alone[started[i]] /\ started[i] # q => i < n /\ Idle(started[i])
<1>1. ScriptTypeOK /\ AloneOrder
  BY InvParts
<1>2. PICK n \in 1 .. Len(started) : started[n] = q
  BY <1>1, StartedFacts DEF Idle
<1>3. ASSUME NEW i \in 1 .. Len(started), alone[started[i]], started[i] # q
      PROVE  i < n /\ Idle(started[i])
  <2>1. Len(started) \in Nat
    BY <1>1, StartedFacts
  <2>2. /\ \A j \in 1 .. i - 1 : Idle(started[j])
        /\ ~ Idle(started[i]) => i = Len(started)
    <3>1. DOMAIN started = 1 .. Len(started)
      BY <1>1, StartedFacts
    <3> QED BY <1>1, <1>3, <3>1 DEF AloneOrder
  <2>3. ~ (n < i)
    BY <1>2, <2>1, <2>2
  <2>4. i < n
    BY <1>2, <1>3, <2>1, <2>3
  <2> QED BY <2>1, <2>2, <2>4
<1> QED BY <1>2, <1>3

\* A command of a run that goes on keeps the invariant if it is right for that
\* run: no other one is concerned.
LEMMA StepOfOne ==
  ASSUME ScriptInv, NEW q \in Runs, ~ Idle(q), NEW to \in Commands \cup {"done", "killed"},
         pc' = [pc EXCEPT ![q] = to], started' = started, alone' = alone,
         cwd' \in [Runs -> {"scripts", "tool", "temp", "above", "far above"}],
         inTemp' \in [Runs -> Runs \cup {Nobody}],
         temp' \in TempDirs \cup {NoDir},
         output' \in [Workloads -> Files \cup {NoDir}],
         failed' \in [Runs -> BOOLEAN],
         \A r \in Runs \ {q} : failed'[r] = failed[r],
         \A w \in Workloads \ {Workload[q]} : output'[w] = output[w],
         AloneOK(q)',
         to \in {"done", "killed"} /\ alone[q] /\ output'[Workload[q]] # NoDir =>
            OwnFiles(output'[Workload[q]], q),
         to = "done" /\ alone[q] /\ ~ failed'[q] =>
            DOMAIN output'[Workload[q]] = {"cfgs", "graphs"} \cup
                               (IF Workload[q] \in WithSource THEN {"nm"} ELSE {}),
         to = "done" /\ alone[q] /\ Workload[q] \in Removing => temp' = NoDir
  PROVE  ScriptInv'
<1>1. /\ ScriptTypeOK /\ AloneOrder /\ OutputOfLastRun /\ OutputComplete /\ TempRemoved
  BY InvParts
<1>2. DOMAIN started = 1 .. Len(started)
  BY <1>1, StartedFacts
<1>3. /\ pc'[q] = to /\ \A r \in Runs : r # q => pc'[r] = pc[r]
      /\ pc[q] # "ready" /\ to # "ready"
  BY <1>1 DEF ScriptTypeOK, Idle, Commands
<1>0. Len(started) \in Nat /\ \A i \in 1 .. Len(started) : started[i] \in Runs
  BY <1>1, StartedFacts
<1>4. ScriptTypeOK'
  <2>1. {r \in Runs : pc'[r] # "ready"} = {r \in Runs : pc[r] # "ready"}
    BY <1>3
  <2>2. pc' \in [Runs -> {"ready", "rm temp", "mkdir temp", "cd temp", "mkdir CFGs",
                        "cd ..", "pin", "fini", "mkdir output", "cd temp again",
                        "cp", "cd .. again", "rm temp again", "nm", "done", "killed"}]
    BY <1>1 DEF ScriptTypeOK, Commands
  <2> QED BY <1>1, <2>1, <2>2 DEF ScriptTypeOK
<1>5. PICK n \in 1 .. Len(started) :
        /\ started[n] = q
        /\ \A i \in 1 .. Len(started) :
              alone[started[i]] /\ started[i] # q => i < n /\ Idle(started[i])
  BY WhileRunning
<1>6. \A r \in Runs : Idle(r) => Idle(r)'
  BY <1>3 DEF Idle
<1>7. AloneOrder'
  <2> SUFFICES ASSUME NEW i \in 1 .. Len(started), alone[started[i]]
               PROVE  /\ \A j \in 1 .. i - 1 : Idle(started[j])'
                      /\ ~ Idle(started[i])' => i = Len(started)
    BY <1>2 DEF AloneOrder
  <2>1. /\ \A j \in 1 .. i - 1 : Idle(started[j])
        /\ ~ Idle(started[i]) => i = Len(started)
    BY <1>1, <1>2 DEF AloneOrder
  <2>2. \A j \in 1 .. Len(started) : Idle(started[j]) => Idle(started[j])'
    <3> TAKE j \in 1 .. Len(started)
    <3>1. started[j] \in Runs /\ (Idle(started[j]) => started[j] # q)
      BY <1>0
    <3>2. started[j] # q => pc'[started[j]] = pc[started[j]]
      BY <1>3, <3>1
    <3> QED BY <3>1, <3>2 DEF Idle
  <2>3. \A j \in 1 .. i - 1 : j \in 1 .. Len(started)
    <3>1. Len(started) \in Nat
      BY <1>0
    <3> QED BY ONLY <3>1, i \in 1 .. Len(started)
  <2>4. ~ Idle(started[i])' => ~ Idle(started[i])
    BY <2>2
  <2> QED BY <2>1, <2>2, <2>3, <2>4
<1>8. \A r \in Runs : AloneOK(r)'
  <2> TAKE r \in Runs
  <2>1. CASE r = q
    BY <2>1
  <2>2. CASE r # q
    <3>1. alone[r] => Idle(r)
      <4>1. CASE pc[r] = "ready"
        BY <4>1 DEF Idle
      <4>2. CASE pc[r] # "ready"
        <5>1. PICK i \in 1 .. Len(started) : started[i] = r
          BY <1>1, <4>2, StartedFacts
        <5> QED BY <1>5, <2>2, <5>1
      <4> QED BY <4>1, <4>2
    <3>2. alone'[r] => Idle(r)'
      BY <1>3, <2>2, <3>1 DEF Idle
    <3> QED BY <3>2 DEF AloneOK
  <2> QED BY <2>1, <2>2
\* Another run that is the last of its workload is of another one than q.
<1>9. ASSUME NEW w \in Workloads, NEW r \in LastOf(w), alone[r], r # q
      PROVE  w # Workload[q] /\ output'[w] = output[w] /\ failed'[r] = failed[r] /\ pc'[r] = pc[r]
  <2>1. PICK i \in 1 .. Len(started) :
          /\ started[i] = r /\ Workload[r] = w /\ r \in Runs
          /\ \A j \in 1 .. Len(started) : j > i => Workload[started[j]] # w
    BY <1>2 DEF LastOf
  <2>2. i < n
    BY <1>5, <1>9, <2>1
  <2>3. Workload[q] # w
    BY <1>2, <1>5, <2>1, <2>2
  <2> QED BY <1>3, <1>9, <2>1, <2>3
<1>10. \A w : LastOf(w)' = LastOf(w)
  BY ZenonT(30) DEF LastOf
<1>11. \A w \in Workloads : \A r \in LastOf(w) : r \in Runs /\ Workload[r] = w
  BY DEF LastOf
<1>12. ~ Idle(q)' /\ alone[q] /\ output'[Workload[q]] # NoDir => OwnFiles(output'[Workload[q]], q)
  <2> SUFFICES ASSUME ~ Idle(q)', alone[q], output'[Workload[q]] # NoDir
               PROVE  OwnFiles(output'[Workload[q]], q)
    OBVIOUS
  <2>1. output'[Workload[q]] = Empty \/ OwnFiles(output'[Workload[q]], q)
    BY DEF AloneOK
  <2> QED BY <2>1, EmptyFiles DEF OwnFiles
<1>13. OutputOfLastRun'
  <2> SUFFICES ASSUME NEW w \in Workloads, NEW r \in LastOf(w), alone[r], output'[w] # NoDir
               PROVE  OwnFiles(output'[w], r)
    BY <1>10 DEF OutputOfLastRun, OwnFiles
  <2>1. CASE r = q
    <3>1. w = Workload[q]
      BY <1>11, <2>1
    <3>2. to \in {"done", "killed"} \/ ~ Idle(q)'
      BY <1>3 DEF Idle
    <3>3. CASE to \in {"done", "killed"}
      BY <2>1, <3>1, <3>3
    <3>4. CASE ~ Idle(q)'
      BY <1>12, <2>1, <3>1, <3>4
    <3> QED BY <3>2, <3>3, <3>4
  <2>2. CASE r # q
    <3>1. output'[w] = output[w] /\ output[w] # NoDir
      BY <1>9, <2>2
    <3>2. output[w] # NoDir => OwnFiles(output[w], r)
      BY <1>1 DEF OutputOfLastRun, OwnFiles
    <3> QED BY <3>1, <3>2
  <2> QED BY <2>1, <2>2
<1>14. OutputComplete'
  <2> SUFFICES ASSUME NEW w \in Workloads, NEW r \in LastOf(w), alone[r], pc'[r] = "done",
                      ~ failed'[r]
               PROVE  DOMAIN output'[w] = {"cfgs", "graphs"} \cup
                               (IF w \in WithSource THEN {"nm"} ELSE {})
    BY <1>10 DEF OutputComplete
  <2>1. CASE r = q
    <3>1. w = Workload[q] /\ to = "done"
      BY <1>3, <1>11, <2>1
    <3> QED BY <2>1, <3>1
  <2>2. CASE r # q
    <3>1. output'[w] = output[w] /\ failed'[r] = failed[r] /\ pc'[r] = pc[r]
      BY <1>9, <2>2
    <3>2. pc[r] = "done" /\ ~ failed[r]
      BY <3>1
    <3>3. DOMAIN output[w] = {"cfgs", "graphs"} \cup
                               (IF w \in WithSource THEN {"nm"} ELSE {})
      BY <1>1, <3>2 DEF OutputComplete
    <3> QED BY <3>1, <3>3
  <2> QED BY <2>1, <2>2
<1>15. TempRemoved'
  <2> DEFINE r == Last(started)
  <2> SUFFICES ASSUME started # <<>>, alone[r], pc'[r] = "done", Workload[r] \in Removing
               PROVE  temp' = NoDir
    BY DEF TempRemoved
  <2>1. r = started[Len(started)] /\ Len(started) \in 1 .. Len(started)
    <3>1. r = started[Len(started)]
      BY LastStarted
    <3>2. Len(started) \in 1 .. Len(started)
      <4>1. Len(started) \in Nat
        BY <1>0
      <4> QED BY ONLY <4>1, n \in 1 .. Len(started)
    <3> QED BY <3>1, <3>2
  <2>2. r = q
    <3>1. ~ (Len(started) < n)
      <4>1. Len(started) \in Nat
        BY <1>0
      <4> QED BY ONLY <4>1, n \in 1 .. Len(started)
    <3> QED BY <1>5, <2>1, <3>1
  <2> QED BY <1>3, <2>2
<1> QED BY <1>4, <1>7, <1>8, <1>13, <1>14, <1>15 DEF ScriptInv

LEMMA StepOn ==
  ASSUME ScriptInv, NEW q \in Runs, ~ Idle(q), NEW to \in Commands,
         pc' = [pc EXCEPT ![q] = to], started' = started, alone' = alone,
         cwd' \in [Runs -> {"scripts", "tool", "temp", "above", "far above"}],
         inTemp' \in [Runs -> Runs \cup {Nobody}],
         temp' \in TempDirs \cup {NoDir},
         output' \in [Workloads -> Files \cup {NoDir}],
         failed' \in [Runs -> BOOLEAN],
         \A r \in Runs \ {q} : failed'[r] = failed[r],
         \A w \in Workloads \ {Workload[q]} : output'[w] = output[w],
         AloneOK(q)'
  PROVE  ScriptInv'
<1>1. to \notin {"done", "killed"} /\ to # "done"
  BY DEF Commands
<1>2. to \in Commands \cup {"done", "killed"}
  OBVIOUS
<1> QED BY <1>1, <1>2, StepOfOne

----------------------------------------------------------------------------
(* The commands.                                                           *)

LEMMA Types ==
  ASSUME ScriptInv
  PROVE  /\ cwd \in [Runs -> {"scripts", "tool", "temp", "above", "far above"}]
         /\ inTemp \in [Runs -> Runs \cup {Nobody}]
         /\ temp \in TempDirs \cup {NoDir}
         /\ output \in [Workloads -> Files \cup {NoDir}]
         /\ failed \in [Runs -> BOOLEAN]
         /\ \A r \in Runs : Workload[r] \in Workloads
BY InvParts DEF ScriptTypeOK, Workloads

\* Every command but the first is one of a run that goes on.
LEMMA GotoFacts ==
  ASSUME ScriptInv, NEW q \in Runs, NEW from \in Commands, NEW to \in Commands \cup {"done"},
         Goto(q, from, to)
  PROVE  /\ ~ Idle(q) /\ pc[q] = from /\ pc' = [pc EXCEPT ![q] = to] /\ pc'[q] = to
         /\ AloneOK(q)
BY InvParts DEF Goto, Idle, Commands, ScriptTypeOK

LEMMA RemoveOldTempInv ==
  ASSUME ScriptInv, NEW q \in Runs, RemoveOldTemp(q)
  PROVE  ScriptInv'
<1>1. "rm temp" \in Commands /\ "mkdir temp" \in Commands /\ Goto(q, "rm temp", "mkdir temp")
  BY DEF Commands, RemoveOldTemp
<1>2. /\ ~ Idle(q) /\ pc[q] = "rm temp" /\ pc' = [pc EXCEPT ![q] = "mkdir temp"]
      /\ pc'[q] = "mkdir temp" /\ AloneOK(q)
  BY <1>1, GotoFacts
<1>3. /\ temp' = NoDir /\ cwd' = cwd /\ inTemp' = inTemp /\ output' = output
      /\ started' = started /\ alone' = alone /\ failed' = failed
  BY DEF RemoveOldTemp
<1>4. AloneOK(q)'
  BY <1>2, <1>3 DEF AloneOK, Idle
<1>5. temp' \in TempDirs \cup {NoDir}
  BY <1>3
<1> QED BY <1>1, <1>2, <1>3, <1>4, <1>5, Types, StepOn

LEMMA MakeTempInv ==
  ASSUME ScriptInv, NEW q \in Runs, MakeTemp(q)
  PROVE  ScriptInv'
<1>1. "mkdir temp" \in Commands /\ "cd temp" \in Commands /\ Goto(q, "mkdir temp", "cd temp")
  BY DEF Commands, MakeTemp
<1>2. /\ ~ Idle(q) /\ pc[q] = "mkdir temp" /\ pc' = [pc EXCEPT ![q] = "cd temp"]
      /\ pc'[q] = "cd temp" /\ AloneOK(q)
  BY <1>1, GotoFacts
<1> DEFINE new == [by |-> q, cfgs |-> FALSE, files |-> Empty]
<1>3. /\ temp' = IF temp = NoDir THEN new ELSE temp
      /\ cwd' = cwd /\ inTemp' = inTemp /\ output' = output
      /\ started' = started /\ alone' = alone /\ failed' = failed
  BY DEF MakeTemp
<1>4. new \in TempDirs /\ new # NoDir
  <2>1. Empty \in Files
    BY EmptyFiles
  <2>2. new \in TempDirs
    BY <2>1 DEF TempDirs
  <2> QED BY <2>2, ScriptAssumption
<1>5. temp' \in TempDirs \cup {NoDir}
  BY <1>3, <1>4, Types
<1>6. alone[q] => /\ temp' # NoDir /\ temp'.by = q /\ DOMAIN temp'.files = {}
                  /\ OwnFiles(temp'.files, q)
  <2> SUFFICES ASSUME alone[q]
               PROVE  /\ temp' # NoDir /\ temp'.by = q /\ DOMAIN temp'.files = {}
                      /\ OwnFiles(temp'.files, q)
    OBVIOUS
  <2>1. temp = NoDir
    BY <1>2 DEF AloneOK
  <2>2. temp' = new
    BY <1>3, <2>1
  <2> QED BY <1>4, <2>2, EmptyFiles DEF OwnFiles
<1>7. AloneOK(q)'
  BY <1>2, <1>3, <1>6 DEF AloneOK, Idle
<1> QED BY <1>1, <1>2, <1>3, <1>5, <1>7, Types, StepOn

\* cd temp, and cd .., of a run that has its directories types as before.
LEMMA EnterTempTypes ==
  ASSUME ScriptInv, NEW q \in Runs, EnterTemp(q)
  PROVE  /\ cwd' \in [Runs -> {"scripts", "tool", "temp", "above", "far above"}]
         /\ inTemp' \in [Runs -> Runs \cup {Nobody}]
         /\ cwd[q] = "tool" /\ temp # NoDir => cwd'[q] = "temp" /\ inTemp'[q] = temp.by
<1>1. temp # NoDir => temp.by \in Runs
  BY InvParts, TempOf
<1>2. CASE cwd[q] = "tool" /\ temp # NoDir
  <2>1. cwd' = [cwd EXCEPT ![q] = "temp"] /\ inTemp' = [inTemp EXCEPT ![q] = temp.by]
    BY <1>2 DEF EnterTemp
  <2> QED BY <1>1, <1>2, <2>1, Types
<1>3. CASE ~ (cwd[q] = "tool" /\ temp # NoDir)
  <2>1. cwd' = cwd /\ inTemp' = inTemp
    BY <1>3 DEF EnterTemp
  <2> QED BY <1>3, <2>1, Types
<1> QED BY <1>2, <1>3

LEMMA GoUpTypes ==
  ASSUME ScriptInv, NEW q \in Runs, GoUp(q)
  PROVE  /\ cwd' \in [Runs -> {"scripts", "tool", "temp", "above", "far above"}]
         /\ inTemp' \in [Runs -> Runs \cup {Nobody}]
         /\ cwd[q] = "temp" => cwd'[q] = "tool"
<1> DEFINE d == CASE cwd[q] = "temp" -> "tool"
                  [] cwd[q] = "tool" -> "above"
                  [] OTHER -> "far above"
<1>1. cwd' = [cwd EXCEPT ![q] = d] /\ inTemp' = [inTemp EXCEPT ![q] = Nobody]
  BY DEF GoUp
<1>2. d \in {"tool", "above", "far above"} /\ (cwd[q] = "temp" => d = "tool")
  OBVIOUS
<1> HIDE DEF d
<1> QED BY <1>1, <1>2, Types

LEMMA CdTempInv ==
  ASSUME ScriptInv, NEW q \in Runs, CdTemp(q)
  PROVE  ScriptInv'
<1>1. "cd temp" \in Commands /\ "mkdir CFGs" \in Commands /\ Goto(q, "cd temp", "mkdir CFGs")
  BY DEF Commands, CdTemp
<1>2. /\ ~ Idle(q) /\ pc[q] = "cd temp" /\ pc' = [pc EXCEPT ![q] = "mkdir CFGs"]
      /\ pc'[q] = "mkdir CFGs" /\ AloneOK(q)
  BY <1>1, GotoFacts
<1>3. /\ temp' = temp /\ output' = output
      /\ started' = started /\ alone' = alone /\ failed' = failed
  BY DEF CdTemp
<1>4. /\ cwd' \in [Runs -> {"scripts", "tool", "temp", "above", "far above"}]
      /\ inTemp' \in [Runs -> Runs \cup {Nobody}]
      /\ cwd[q] = "tool" /\ temp # NoDir => cwd'[q] = "temp" /\ inTemp'[q] = temp.by
  BY EnterTempTypes DEF CdTemp
<1>5. AloneOK(q)'
  BY <1>2, <1>3, <1>4 DEF AloneOK, Idle
<1>6. temp' \in TempDirs \cup {NoDir}
  BY <1>3, Types
<1> QED BY <1>1, <1>2, <1>3, <1>4, <1>5, <1>6, Types, StepOn

LEMMA MakeCFGsInv ==
  ASSUME ScriptInv, NEW q \in Runs, MakeCFGs(q)
  PROVE  ScriptInv'
<1>1. "mkdir CFGs" \in Commands /\ "cd .." \in Commands /\ Goto(q, "mkdir CFGs", "cd ..")
  BY DEF Commands, MakeCFGs
<1>2. /\ ~ Idle(q) /\ pc[q] = "mkdir CFGs" /\ pc' = [pc EXCEPT ![q] = "cd .."]
      /\ pc'[q] = "cd .." /\ AloneOK(q)
  BY <1>1, GotoFacts
<1> DEFINE new == [temp EXCEPT !.cfgs = TRUE]
<1>3. /\ temp' = IF InTemp(q) THEN new ELSE temp
      /\ cwd' = cwd /\ inTemp' = inTemp /\ output' = output
      /\ started' = started /\ alone' = alone /\ failed' = failed
  BY DEF MakeCFGs
<1>4. temp # NoDir => /\ new \in TempDirs /\ new.by = temp.by /\ new.files = temp.files
                      /\ new.cfgs = TRUE /\ new # NoDir
  BY InvParts, TempOf, ScriptAssumption DEF TempDirs
<1>5. temp' \in TempDirs \cup {NoDir}
  BY <1>3, <1>4, Types DEF InTemp
<1>6. alone[q] => /\ temp # NoDir /\ InTemp(q) /\ temp' = new
  BY <1>2, <1>3 DEF AloneOK, InTemp
<1> HIDE DEF new
<1>7. AloneOK(q)'
  BY <1>2, <1>3, <1>4, <1>6 DEF AloneOK, Idle
<1> QED BY <1>1, <1>2, <1>3, <1>5, <1>7, Types, StepOn

LEMMA CdUpInv ==
  ASSUME ScriptInv, NEW q \in Runs, CdUp(q)
  PROVE  ScriptInv'
<1>1. "cd .." \in Commands /\ "pin" \in Commands /\ Goto(q, "cd ..", "pin")
  BY DEF Commands, CdUp
<1>2. /\ ~ Idle(q) /\ pc[q] = "cd .." /\ pc' = [pc EXCEPT ![q] = "pin"]
      /\ pc'[q] = "pin" /\ AloneOK(q)
  BY <1>1, GotoFacts
<1>3. /\ temp' = temp /\ output' = output
      /\ started' = started /\ alone' = alone /\ failed' = failed
  BY DEF CdUp
<1>4. /\ cwd' \in [Runs -> {"scripts", "tool", "temp", "above", "far above"}]
      /\ inTemp' \in [Runs -> Runs \cup {Nobody}]
      /\ cwd[q] = "temp" => cwd'[q] = "tool"
  BY GoUpTypes DEF CdUp
<1>5. AloneOK(q)'
  BY <1>2, <1>3, <1>4 DEF AloneOK, Idle
<1>6. temp' \in TempDirs \cup {NoDir}
  BY <1>3, Types
<1> QED BY <1>1, <1>2, <1>3, <1>4, <1>5, <1>6, Types, StepOn

LEMMA InstrumentInv ==
  ASSUME ScriptInv, NEW q \in Runs, Instrument(q)
  PROVE  ScriptInv'
<1>1. "pin" \in Commands /\ "fini" \in Commands /\ Goto(q, "pin", "fini")
  BY DEF Commands, Instrument
<1>2. /\ ~ Idle(q) /\ pc[q] = "pin" /\ pc' = [pc EXCEPT ![q] = "fini"]
      /\ pc'[q] = "fini" /\ AloneOK(q)
  BY <1>1, GotoFacts
<1> DEFINE new == [temp EXCEPT !.files = Wrote(temp.files, "cfgs", q)]
<1>3. /\ temp' = IF temp # NoDir /\ temp.cfgs THEN new ELSE temp
      /\ cwd' = cwd /\ inTemp' = inTemp /\ output' = output
      /\ started' = started /\ alone' = alone /\ failed' = failed
  BY DEF Instrument
<1>4. temp # NoDir => /\ new \in TempDirs /\ new.by = temp.by /\ new # NoDir
                      /\ DOMAIN new.files = DOMAIN temp.files \cup {"cfgs"}
                      /\ OwnFiles(temp.files, q) => OwnFiles(new.files, q)
  <2> SUFFICES ASSUME temp # NoDir
               PROVE  /\ new \in TempDirs /\ new.by = temp.by /\ new # NoDir
                      /\ DOMAIN new.files = DOMAIN temp.files \cup {"cfgs"}
                      /\ OwnFiles(temp.files, q) => OwnFiles(new.files, q)
    OBVIOUS
  <2> DEFINE f == Wrote(temp.files, "cfgs", q)
  <2>1. temp \in TempDirs /\ temp.files \in Files
    BY InvParts, TempOf
  <2>2. /\ f \in Files /\ DOMAIN f = DOMAIN temp.files \cup {"cfgs"}
        /\ OwnFiles(temp.files, q) => OwnFiles(f, q)
    BY <2>1, WrittenFile
  <2>3. new \in TempDirs /\ new.by = temp.by /\ new.files = f
    <3> HIDE DEF f
    <3> QED BY <2>1, <2>2 DEF TempDirs, f
  <2> QED BY <2>2, <2>3, ScriptAssumption
<1>5. temp' \in TempDirs \cup {NoDir}
  BY <1>3, <1>4, Types
<1>6. alone[q] => /\ temp # NoDir /\ temp' = new
  BY <1>2, <1>3 DEF AloneOK
<1> HIDE DEF new
<1>7. AloneOK(q)'
  BY <1>2, <1>3, <1>4, <1>6 DEF AloneOK, Idle
<1> QED BY <1>1, <1>2, <1>3, <1>5, <1>7, Types, StepOn

LEMMA PinFailsInv ==
  ASSUME ScriptInv, NEW q \in Runs, PinFails(q)
  PROVE  ScriptInv'
<1>1. /\ "pin" \in Commands /\ "fini" \in Commands /\ "mkdir output" \in Commands
      /\ Goto(q, "pin", "mkdir output") \/ Goto(q, "fini", "mkdir output")
  BY DEF Commands, PinFails
<1>2. /\ ~ Idle(q) /\ pc[q] \in {"pin", "fini"} /\ pc' = [pc EXCEPT ![q] = "mkdir output"]
      /\ pc'[q] = "mkdir output" /\ AloneOK(q)
  BY <1>1, GotoFacts
<1>3. /\ temp' = temp /\ cwd' = cwd /\ inTemp' = inTemp /\ output' = output
      /\ started' = started /\ alone' = alone /\ failed' = [failed EXCEPT ![q] = TRUE]
  BY DEF PinFails
<1>4. /\ failed' \in [Runs -> BOOLEAN] /\ failed'[q] = TRUE
      /\ \A r \in Runs \ {q} : failed'[r] = failed[r]
  BY <1>3, Types
<1>5. AloneOK(q)'
  BY <1>2, <1>3, <1>4 DEF AloneOK, Idle
<1> QED BY <1>1, <1>2, <1>3, <1>4, <1>5, Types, StepOn

LEMMA FiniInv ==
  ASSUME ScriptInv, NEW q \in Runs, Fini(q)
  PROVE  ScriptInv'
<1>1. "fini" \in Commands /\ "mkdir output" \in Commands /\ Goto(q, "fini", "mkdir output")
  BY DEF Commands, Fini
<1>2. /\ ~ Idle(q) /\ pc[q] = "fini" /\ pc' = [pc EXCEPT ![q] = "mkdir output"]
      /\ pc'[q] = "mkdir output" /\ AloneOK(q)
  BY <1>1, GotoFacts
<1> DEFINE new == [temp EXCEPT !.files = Wrote(temp.files, "graphs", q)]
<1>3. /\ temp' = IF temp # NoDir THEN new ELSE temp
      /\ cwd' = cwd /\ inTemp' = inTemp /\ output' = output
      /\ started' = started /\ alone' = alone /\ failed' = failed
  BY DEF Fini
<1>4. temp # NoDir => /\ new \in TempDirs /\ new.by = temp.by /\ new # NoDir
                      /\ DOMAIN new.files = DOMAIN temp.files \cup {"graphs"}
                      /\ OwnFiles(temp.files, q) => OwnFiles(new.files, q)
  <2> SUFFICES ASSUME temp # NoDir
               PROVE  /\ new \in TempDirs /\ new.by = temp.by /\ new # NoDir
                      /\ DOMAIN new.files = DOMAIN temp.files \cup {"graphs"}
                      /\ OwnFiles(temp.files, q) => OwnFiles(new.files, q)
    OBVIOUS
  <2> DEFINE f == Wrote(temp.files, "graphs", q)
  <2>1. temp \in TempDirs /\ temp.files \in Files
    BY InvParts, TempOf
  <2>2. /\ f \in Files /\ DOMAIN f = DOMAIN temp.files \cup {"graphs"}
        /\ OwnFiles(temp.files, q) => OwnFiles(f, q)
    BY <2>1, WrittenFile
  <2>3. new \in TempDirs /\ new.by = temp.by /\ new.files = f
    <3> HIDE DEF f
    <3> QED BY <2>1, <2>2 DEF TempDirs, f
  <2> QED BY <2>2, <2>3, ScriptAssumption
<1>5. temp' \in TempDirs \cup {NoDir}
  BY <1>3, <1>4, Types
<1>6. alone[q] => /\ temp # NoDir /\ temp' = new /\ DOMAIN temp.files = {"cfgs"}
  BY <1>2, <1>3 DEF AloneOK
<1> HIDE DEF new
<1>7. alone[q] => DOMAIN temp'.files = {"cfgs", "graphs"}
  BY <1>4, <1>6
<1>8. AloneOK(q)'
  BY <1>2, <1>3, <1>4, <1>6, <1>7 DEF AloneOK, Idle
<1> QED BY <1>1, <1>2, <1>3, <1>5, <1>8, Types, StepOn

LEMMA MakeOutputInv ==
  ASSUME ScriptInv, NEW q \in Runs, MakeOutput(q)
  PROVE  ScriptInv'
<1>1. /\ "mkdir output" \in Commands /\ "cd temp again" \in Commands
      /\ Goto(q, "mkdir output", "cd temp again")
  BY DEF Commands, MakeOutput
<1>2. /\ ~ Idle(q) /\ pc[q] = "mkdir output" /\ pc' = [pc EXCEPT ![q] = "cd temp again"]
      /\ pc'[q] = "cd temp again" /\ AloneOK(q)
  BY <1>1, GotoFacts
<1> DEFINE w == Workload[q]  new == IF output[w] = NoDir THEN Empty ELSE output[w]
<1>3. /\ temp' = temp /\ cwd' = cwd /\ inTemp' = inTemp
      /\ output' = [output EXCEPT ![w] = new]
      /\ started' = started /\ alone' = alone /\ failed' = failed
  BY DEF MakeOutput
<1>4. new \in Files /\ w \in Workloads
  BY Types, EmptyFiles
<1> HIDE DEF new
<1>5. /\ output' \in [Workloads -> Files \cup {NoDir}] /\ output'[w] = new
      /\ \A u \in Workloads \ {w} : output'[u] = output[u]
  BY <1>3, <1>4, Types
<1>6. alone[q] => new = Empty
  BY <1>2 DEF AloneOK, new
<1>7. AloneOK(q)'
  BY <1>2, <1>3, <1>5, <1>6 DEF AloneOK, Idle
<1> QED BY <1>1, <1>2, <1>3, <1>5, <1>7, Types, StepOn

LEMMA CdTempAgainInv ==
  ASSUME ScriptInv, NEW q \in Runs, CdTempAgain(q)
  PROVE  ScriptInv'
<1>1. "cd temp again" \in Commands /\ "cp" \in Commands /\ Goto(q, "cd temp again", "cp")
  BY DEF Commands, CdTempAgain
<1>2. /\ ~ Idle(q) /\ pc[q] = "cd temp again" /\ pc' = [pc EXCEPT ![q] = "cp"]
      /\ pc'[q] = "cp" /\ AloneOK(q)
  BY <1>1, GotoFacts
<1>3. /\ temp' = temp /\ output' = output
      /\ started' = started /\ alone' = alone /\ failed' = failed
  BY DEF CdTempAgain
<1>4. /\ cwd' \in [Runs -> {"scripts", "tool", "temp", "above", "far above"}]
      /\ inTemp' \in [Runs -> Runs \cup {Nobody}]
      /\ cwd[q] = "tool" /\ temp # NoDir => cwd'[q] = "temp" /\ inTemp'[q] = temp.by
  BY EnterTempTypes DEF CdTempAgain
<1>5. AloneOK(q)'
  BY <1>2, <1>3, <1>4 DEF AloneOK, Idle
<1>6. temp' \in TempDirs \cup {NoDir}
  BY <1>3, Types
<1> QED BY <1>1, <1>2, <1>3, <1>4, <1>5, <1>6, Types, StepOn

LEMMA CopyInv ==
  ASSUME ScriptInv, NEW q \in Runs, Copy(q)
  PROVE  ScriptInv'
<1>1. "cp" \in Commands /\ "cd .. again" \in Commands /\ Goto(q, "cp", "cd .. again")
  BY DEF Commands, Copy
<1>2. /\ ~ Idle(q) /\ pc[q] = "cp" /\ pc' = [pc EXCEPT ![q] = "cd .. again"]
      /\ pc'[q] = "cd .. again" /\ AloneOK(q)
  BY <1>1, GotoFacts
<1> DEFINE w == Workload[q]
           new == IF output[w] = NoDir THEN output[w] ELSE Copied(Here(q), output[w])
<1>3. /\ temp' = temp /\ cwd' = cwd /\ inTemp' = inTemp
      /\ output' = [output EXCEPT ![w] = new]
      /\ started' = started /\ alone' = alone /\ failed' = failed
  BY DEF Copy
<1>4. w \in Workloads /\ Here(q) \in Files
  BY InvParts, Types, HereFiles
<1>5. new \in Files \cup {NoDir}
  BY <1>4, Types, CopiedFiles
<1>6. ASSUME alone[q]
      PROVE  /\ new # NoDir /\ OwnFiles(new, q)
             /\ ~ failed[q] => DOMAIN new = {"cfgs", "graphs"}
  <2>1. /\ cwd[q] = "temp" /\ inTemp[q] = q /\ temp # NoDir /\ temp.by = q
        /\ OwnFiles(temp.files, q) /\ output[w] = Empty
        /\ ~ failed[q] => DOMAIN temp.files = {"cfgs", "graphs"}
    BY <1>2, <1>6 DEF AloneOK
  <2>2. Here(q) = temp.files
    BY <2>1 DEF Here, InTemp
  <2>3. Copied(Here(q), Empty) \in Files /\ OwnFiles(Empty, q)
        /\ DOMAIN Copied(Here(q), Empty) = DOMAIN Here(q)
        /\ (OwnFiles(Here(q), q) => OwnFiles(Copied(Here(q), Empty), q))
    <3>1. OwnFiles(Empty, q)
      BY EmptyFiles DEF OwnFiles
    <3> QED BY <1>4, <3>1, EmptyFiles, CopiedFiles
  <2>4. new = Copied(Here(q), Empty)
    BY <2>1, EmptyFiles
  <2>5. Copied(Here(q), Empty) # NoDir
    BY <2>3, FilesOf
  <2> QED BY <2>1, <2>2, <2>3, <2>4, <2>5
<1> HIDE DEF new
<1>7. /\ output' \in [Workloads -> Files \cup {NoDir}] /\ output'[w] = new
      /\ \A u \in Workloads \ {w} : output'[u] = output[u]
  BY <1>3, <1>4, <1>5, Types
<1>8. AloneOK(q)'
  BY <1>2, <1>3, <1>6, <1>7 DEF AloneOK, Idle
<1> QED BY <1>1, <1>2, <1>3, <1>7, <1>8, Types, StepOn

LEMMA CdUpAgainInv ==
  ASSUME ScriptInv, NEW q \in Runs, CdUpAgain(q)
  PROVE  ScriptInv'
<1>1. /\ "cd .. again" \in Commands /\ "rm temp again" \in Commands
      /\ Goto(q, "cd .. again", "rm temp again")
  BY DEF Commands, CdUpAgain
<1>2. /\ ~ Idle(q) /\ pc[q] = "cd .. again" /\ pc' = [pc EXCEPT ![q] = "rm temp again"]
      /\ pc'[q] = "rm temp again" /\ AloneOK(q)
  BY <1>1, GotoFacts
<1>3. /\ temp' = temp /\ output' = output
      /\ started' = started /\ alone' = alone /\ failed' = failed
  BY DEF CdUpAgain
<1>4. /\ cwd' \in [Runs -> {"scripts", "tool", "temp", "above", "far above"}]
      /\ inTemp' \in [Runs -> Runs \cup {Nobody}]
      /\ cwd[q] = "temp" => cwd'[q] = "tool"
  BY GoUpTypes DEF CdUpAgain
<1>5. AloneOK(q)'
  BY <1>2, <1>3, <1>4 DEF AloneOK, Idle
<1>6. temp' \in TempDirs \cup {NoDir}
  BY <1>3, Types
<1> QED BY <1>1, <1>2, <1>3, <1>4, <1>5, <1>6, Types, StepOn

LEMMA RemoveTempInv ==
  ASSUME ScriptInv, NEW q \in Runs, RemoveTemp(q)
  PROVE  ScriptInv'
<1>1. "rm temp again" \in Commands /\ "nm" \in Commands /\ Goto(q, "rm temp again", "nm")
  BY DEF Commands, RemoveTemp
<1>2. /\ ~ Idle(q) /\ pc[q] = "rm temp again" /\ pc' = [pc EXCEPT ![q] = "nm"]
      /\ pc'[q] = "nm" /\ AloneOK(q)
  BY <1>1, GotoFacts
<1>3. /\ temp' = IF Workload[q] \in Removing /\ cwd[q] = "tool" THEN NoDir ELSE temp
      /\ cwd' = cwd /\ inTemp' = inTemp /\ output' = output
      /\ started' = started /\ alone' = alone /\ failed' = failed
  BY DEF RemoveTemp
<1>4. AloneOK(q)'
  BY <1>2, <1>3 DEF AloneOK, Idle
<1>5. temp' \in TempDirs \cup {NoDir}
  BY <1>3, Types
<1> QED BY <1>1, <1>2, <1>3, <1>4, <1>5, Types, StepOn

LEMMA EndedTypes ==
  ASSUME ScriptInv, NEW q \in Runs, Ended(q)
  PROVE  /\ cwd' \in [Runs -> {"scripts", "tool", "temp", "above", "far above"}]
         /\ inTemp' \in [Runs -> Runs \cup {Nobody}]
BY Types DEF Ended

\* What a run that is alone has put into its output directory is its own.
LEMMA OwnOutput ==
  ASSUME NEW q, AloneOK(q), ~ Idle(q), alone[q], output[Workload[q]] # NoDir
  PROVE  OwnFiles(output[Workload[q]], q)
BY EmptyFiles DEF AloneOK, OwnFiles

LEMMA FinishInv ==
  ASSUME ScriptInv, NEW q \in Runs, Finish(q)
  PROVE  ScriptInv'
<1>1. /\ "nm" \in Commands /\ "done" \in Commands \cup {"done", "killed"}
      /\ "done" \in Commands \cup {"done"} /\ Goto(q, "nm", "done")
  BY DEF Commands, Finish
<1>2. /\ ~ Idle(q) /\ pc[q] = "nm" /\ pc' = [pc EXCEPT ![q] = "done"]
      /\ pc'[q] = "done" /\ AloneOK(q)
  BY <1>1, GotoFacts
<1> DEFINE w == Workload[q]
           new == IF output[w] # NoDir /\ w \in WithSource
                  THEN Wrote(output[w], "nm", q) ELSE output[w]
<1>3. /\ temp' = temp /\ output' = [output EXCEPT ![w] = new] /\ Ended(q)
      /\ started' = started /\ alone' = alone /\ failed' = failed
  BY DEF Finish
<1>4. w \in Workloads /\ output[w] \in Files \cup {NoDir}
  BY Types
<1>5. output[w] # NoDir =>
        /\ Wrote(output[w], "nm", q) \in Files
        /\ DOMAIN Wrote(output[w], "nm", q) = DOMAIN output[w] \cup {"nm"}
        /\ OwnFiles(output[w], q) => OwnFiles(Wrote(output[w], "nm", q), q)
  BY <1>4, WrittenFile
<1>6. new \in Files \cup {NoDir}
  BY <1>4, <1>5
<1>7. ASSUME alone[q]
      PROVE  /\ OwnFiles(new, q)
             /\ ~ failed[q] => DOMAIN new = {"cfgs", "graphs"} \cup
                                  (IF w \in WithSource THEN {"nm"} ELSE {})
             /\ w \in Removing => temp = NoDir
  <2>1. /\ output[w] # NoDir /\ OwnFiles(output[w], q)
        /\ ~ failed[q] => DOMAIN output[w] = {"cfgs", "graphs"}
        /\ w \in Removing => temp = NoDir
    BY <1>2, <1>7 DEF AloneOK
  <2> QED BY <1>5, <2>1
<1> HIDE DEF new
<1>8. /\ output' \in [Workloads -> Files \cup {NoDir}] /\ output'[w] = new
      /\ \A u \in Workloads \ {w} : output'[u] = output[u]
  BY <1>3, <1>4, <1>6, Types
<1>9. AloneOK(q)'
  BY <1>2 DEF AloneOK, Idle
<1>10. /\ temp' \in TempDirs \cup {NoDir} /\ failed' \in [Runs -> BOOLEAN]
       /\ \A r \in Runs \ {q} : failed'[r] = failed[r]
       /\ cwd' \in [Runs -> {"scripts", "tool", "temp", "above", "far above"}]
       /\ inTemp' \in [Runs -> Runs \cup {Nobody}]
  BY <1>3, Types, EndedTypes
<1>11. "done" = "done" /\ alone[q] /\ ~ failed'[q] =>
         DOMAIN output'[w] = {"cfgs", "graphs"} \cup
                               (IF w \in WithSource THEN {"nm"} ELSE {})
  BY <1>3, <1>7, <1>8
<1>12. /\ "done" \in {"done", "killed"} /\ alone[q] /\ output'[w] # NoDir =>
            OwnFiles(output'[w], q)
       /\ "done" = "done" /\ alone[q] /\ w \in Removing => temp' = NoDir
  BY <1>3, <1>7, <1>8
<1> QED BY <1>1, <1>2, <1>3, <1>8, <1>9, <1>10, <1>11, <1>12, StepOfOne

LEMMA KillInv ==
  ASSUME ScriptInv, NEW q \in Runs, Kill(q)
  PROVE  ScriptInv'
<1>1. /\ ~ Idle(q) /\ pc' = [pc EXCEPT ![q] = "killed"] /\ AloneOK(q)
      /\ "killed" \in Commands \cup {"done", "killed"} /\ pc'[q] = "killed"
  BY InvParts DEF Kill, ScriptTypeOK
<1>2. /\ temp' = temp /\ output' = output /\ Ended(q)
      /\ started' = started /\ alone' = alone /\ failed' = failed
  BY DEF Kill
<1>3. AloneOK(q)'
  BY <1>1 DEF AloneOK, Idle
<1>4. /\ temp' \in TempDirs \cup {NoDir} /\ failed' \in [Runs -> BOOLEAN]
      /\ \A r \in Runs \ {q} : failed'[r] = failed[r]
      /\ \A w \in Workloads \ {Workload[q]} : output'[w] = output[w]
      /\ output' \in [Workloads -> Files \cup {NoDir}]
      /\ cwd' \in [Runs -> {"scripts", "tool", "temp", "above", "far above"}]
      /\ inTemp' \in [Runs -> Runs \cup {Nobody}]
  BY <1>2, Types, EndedTypes
<1>5. alone[q] /\ output'[Workload[q]] # NoDir => OwnFiles(output'[Workload[q]], q)
  BY <1>1, <1>2, OwnOutput
<1>6. "killed" # "done"
  OBVIOUS
<1> QED BY <1>1, <1>2, <1>3, <1>4, <1>5, <1>6, StepOfOne

\* A new run: those that go on are not alone any more, and what others have left
\* of the same workload is removed.
LEMMA StartInv ==
  ASSUME ScriptInv, NEW q \in Runs, Start(q)
  PROVE  ScriptInv'
<1> DEFINE w == Workload[q]  L == Len(started)
<1>1. /\ ScriptTypeOK /\ AloneOrder /\ OutputOfLastRun /\ OutputComplete /\ w \in Workloads
      /\ \A r \in Runs : AloneOK(r)
  BY InvParts, Types
<1>2. /\ pc[q] = "ready" /\ pc' = [pc EXCEPT ![q] = "rm temp"]
      /\ output' = [output EXCEPT ![w] = NoDir] /\ cwd' = [cwd EXCEPT ![q] = "tool"]
      /\ started' = Append(started, q)
      /\ alone' = [x \in Runs |-> alone[x] /\ (x \in Others(q) \cup {q} => Others(q) = {})]
      /\ inTemp' = inTemp /\ temp' = temp /\ failed' = failed
  BY DEF Start, Goto
<1>3. /\ L \in Nat /\ \A i \in 1 .. L : started[i] \in Runs /\ started[i] # q
      /\ \A i, j \in 1 .. L : started[i] = started[j] => i = j
  BY <1>1, <1>2, StartedFacts
<1>4. DOMAIN started = 1 .. L
  BY <1>1, StartedFacts
<1>5. /\ started' \in Seq(Runs) /\ Len(started') = L + 1 /\ DOMAIN started' = 1 .. L + 1
      /\ started'[L + 1] = q /\ \A i \in 1 .. L : started'[i] = started[i]
  <2>1. started \in Seq(Runs)
    BY <1>1 DEF ScriptTypeOK
  <2>2. \A s \in Seq(Runs) : /\ Append(s, q) \in Seq(Runs) /\ Len(Append(s, q)) = Len(s) + 1
                              /\ Append(s, q)[Len(s) + 1] = q
                              /\ \A i \in 1 .. Len(s) : Append(s, q)[i] = s[i]
    OBVIOUS
  <2>3. \A s \in Seq(Runs) : DOMAIN s = 1 .. Len(s)
    OBVIOUS
  <2>4. /\ Append(started, q) \in Seq(Runs) /\ Len(Append(started, q)) = L + 1
        /\ Append(started, q)[L + 1] = q
        /\ \A i \in 1 .. L : Append(started, q)[i] = started[i]
    BY <2>1, <2>2
  <2>5. DOMAIN Append(started, q) = 1 .. Len(Append(started, q))
    BY <2>3, <2>4
  <2> HIDE DEF L
  <2> QED BY <1>2, <2>4, <2>5
<1> HIDE DEF L
<1>6. /\ pc'[q] = "rm temp" /\ \A r \in Runs : r # q => pc'[r] = pc[r]
      /\ output'[w] = NoDir /\ \A u \in Workloads : u # w => output'[u] = output[u]
      /\ cwd'[q] = "tool"
  BY <1>1, <1>2 DEF ScriptTypeOK
<1>7. \A i \in 1 .. L + 1 : i \in 1 .. L \/ i = L + 1
  BY <1>3
<1>8. ScriptTypeOK'
  <2>1. ToSet(started') = {r \in Runs : pc'[r] # "ready"}
    <3>1. ToSet(started') = {started'[i] : i \in 1 .. L + 1}
      BY <1>5 DEF ToSet
    <3>2. ToSet(started) = {started[i] : i \in 1 .. L}
      BY <1>4 DEF ToSet
    <3>3. ToSet(started') = ToSet(started) \cup {q}
      <4>1. \A i \in 1 .. L : i \in 1 .. L + 1
        BY <1>3
      <4>2. L + 1 \in 1 .. L + 1
        BY <1>3
      <4> QED BY <1>5, <1>7, <3>1, <3>2, <4>1, <4>2
    <3>4. ToSet(started) = {r \in Runs : pc[r] # "ready"}
      BY <1>1 DEF ScriptTypeOK
    <3> QED BY <1>2, <1>6, <3>3, <3>4
  <2>2. IsInjective(started')
    <3>1. \A i, j \in 1 .. L + 1 : started'[i] = started'[j] => i = j
      BY <1>3, <1>5, <1>7
    <3> QED BY <1>5, <3>1 DEF IsInjective
  <2>3. pc' \in [Runs -> {"ready", "rm temp", "mkdir temp", "cd temp", "mkdir CFGs",
                        "cd ..", "pin", "fini", "mkdir output", "cd temp again",
                        "cp", "cd .. again", "rm temp again", "nm", "done", "killed"}]
    BY <1>1, <1>2 DEF ScriptTypeOK
  <2>4. alone' \in [Runs -> BOOLEAN]
    BY <1>1, <1>2 DEF ScriptTypeOK
  <2>5. /\ output' \in [Workloads -> Files \cup {NoDir}]
        /\ cwd' \in [Runs -> {"scripts", "tool", "temp", "above", "far above"}]
    BY <1>2, Types
  <2> QED BY <1>1, <1>2, <1>5, <2>1, <2>2, <2>3, <2>4, <2>5 DEF ScriptTypeOK
<1>9. \A r \in Runs : alone'[r] => alone[r] /\ (r # q => Idle(r))
                                    /\ (r = q => \A x \in Runs : x # q => Idle(x))
  BY <1>2 DEF Others
<1>10. \A r \in Runs : r # q => (Idle(r)' <=> Idle(r))
  BY <1>6 DEF Idle
<1>11. AloneOrder'
  <2> SUFFICES ASSUME NEW i \in 1 .. L + 1, alone'[started'[i]]
               PROVE  /\ \A j \in 1 .. i - 1 : Idle(started[j])'
                      /\ ~ Idle(started[i])' => i = Len(started')
    BY <1>5 DEF AloneOrder
  <2>1. \A j \in 1 .. L : Idle(started[j])' <=> Idle(started[j])
    <3> TAKE j \in 1 .. L
    <3>1. started'[j] = started[j] /\ started[j] \in Runs /\ started[j] # q
      BY <1>3, <1>5
    <3> QED BY <1>6, <3>1 DEF Idle
  <2>2. CASE i \in 1 .. L
    <3>1. /\ started'[i] = started[i] /\ started[i] \in Runs /\ started[i] # q
          /\ alone[started[i]] /\ Idle(started[i])
      BY <1>3, <1>5, <1>9, <2>2
    <3>2. \A j \in 1 .. i - 1 : Idle(started[j]) /\ j \in 1 .. L
      <4>1. \A j \in 1 .. i - 1 : Idle(started[j])
        BY <1>1, <1>4, <2>2, <3>1 DEF AloneOrder
      <4>2. \A j \in 1 .. i - 1 : j \in 1 .. L
        <5>1. L \in Nat
          BY <1>3
        <5> QED BY ONLY <2>2, <5>1
      <4> QED BY <4>1, <4>2
    <3> QED BY <2>1, <2>2, <3>1, <3>2
  <2>3. CASE i = L + 1
    <3>1. \A x \in Runs : x # q => Idle(x)
      BY <1>5, <1>9, <2>3
    <3>2. \A j \in 1 .. i - 1 : j \in 1 .. L
      <4>1. L \in Nat
        BY <1>3
      <4> QED BY ONLY <2>3, <4>1
    <3> QED BY <1>3, <1>5, <2>1, <2>3, <3>1, <3>2
  <2> QED BY <1>7, <2>2, <2>3
<1>12. \A r \in Runs : AloneOK(r)'
  <2> TAKE r \in Runs
  <2>1. CASE r = q
    BY <1>2, <1>6, <2>1 DEF AloneOK, Idle
  <2>2. CASE r # q
    <3>1. alone'[r] => Idle(r)'
      BY <1>9, <1>10, <2>2
    <3> QED BY <3>1 DEF AloneOK
  <2> QED BY <2>1, <2>2
\* The last run of another workload is still the last of it.
<1>13. ASSUME NEW u \in Workloads, NEW r \in LastOf(u)', alone'[r], r # q
       PROVE  /\ r \in LastOf(u) /\ alone[r] /\ output'[u] = output[u] /\ pc'[r] = pc[r]
              /\ failed'[r] = failed[r]
  <2>1. PICK i \in 1 .. L + 1 :
          /\ started'[i] = r /\ Workload[r] = u /\ r \in Runs
          /\ \A j \in 1 .. L + 1 : j > i => Workload[started'[j]] # u
    BY <1>5 DEF LastOf
  <2>2. i \in 1 .. L /\ L + 1 > i /\ L + 1 \in 1 .. L + 1
    BY <1>3, <1>5, <1>7, <1>13, <2>1
  <2>3. u # w
    BY <1>5, <2>1, <2>2
  <2>4. \A j \in 1 .. L : j > i => Workload[started[j]] # u
    <3>1. \A j \in 1 .. L : j \in 1 .. L + 1
      BY <1>3
    <3> QED BY <1>5, <2>1, <3>1
  <2>5. r \in LastOf(u)
    BY <1>4, <1>5, <2>1, <2>2, <2>4 DEF LastOf
  <2> QED BY <1>2, <1>6, <1>9, <1>13, <2>1, <2>3, <2>5
<1>14. \A u \in Workloads : \A r \in LastOf(u)' : r \in Runs /\ Workload[r] = u
  BY DEF LastOf
<1>15. OutputOfLastRun'
  <2> SUFFICES ASSUME NEW u \in Workloads, NEW r \in LastOf(u)', alone'[r], output'[u] # NoDir
               PROVE  OwnFiles(output'[u], r)
    BY DEF OutputOfLastRun, OwnFiles
  <2>1. r # q
    BY <1>6, <1>14
  <2>2. /\ r \in LastOf(u) /\ alone[r] /\ output'[u] = output[u]
    BY <1>13, <2>1
  <2>3. output[u] # NoDir => OwnFiles(output[u], r)
    BY <1>1, <2>2 DEF OutputOfLastRun, OwnFiles
  <2> QED BY <2>2, <2>3
<1>16. OutputComplete'
  <2> SUFFICES ASSUME NEW u \in Workloads, NEW r \in LastOf(u)', alone'[r], pc'[r] = "done",
                      ~ failed'[r]
               PROVE  DOMAIN output'[u] = {"cfgs", "graphs"} \cup
                               (IF u \in WithSource THEN {"nm"} ELSE {})
    BY DEF OutputComplete
  <2>1. r # q
    BY <1>6
  <2>2. /\ r \in LastOf(u) /\ alone[r] /\ output'[u] = output[u] /\ pc[r] = "done"
        /\ ~ failed[r]
    BY <1>13, <2>1
  <2>3. DOMAIN output[u] = {"cfgs", "graphs"} \cup (IF u \in WithSource THEN {"nm"} ELSE {})
    BY <1>1, <2>2 DEF OutputComplete
  <2> QED BY <2>2, <2>3
<1>17. TempRemoved'
  <2>1. Last(started)' = q
    BY <1>5 DEF Last
  <2> QED BY <1>6, <2>1 DEF TempRemoved
<1> QED BY <1>8, <1>11, <1>12, <1>15, <1>16, <1>17 DEF ScriptInv

----------------------------------------------------------------------------
(* The specification.                                                      *)

LEMMA ScriptInitial == Init => ScriptInv
<1> SUFFICES ASSUME Init PROVE ScriptInv
  OBVIOUS
<1>1. /\ pc = [r \in Runs |-> "ready"] /\ cwd = [r \in Runs |-> "scripts"]
      /\ inTemp = [r \in Runs |-> Nobody] /\ temp = NoDir
      /\ output = [w \in Workloads |-> NoDir] /\ started = <<>>
      /\ alone = [r \in Runs |-> TRUE] /\ failed = [r \in Runs |-> FALSE]
  BY DEF Init
<1>2. started \in Seq(Runs) /\ DOMAIN started = {}
  BY <1>1
<1>3. ToSet(started) = {} /\ IsInjective(started)
  BY <1>2 DEF ToSet, IsInjective
<1>4. {r \in Runs : pc[r] # "ready"} = {}
  BY <1>1
<1>5. ScriptTypeOK
  BY <1>1, <1>2, <1>3, <1>4 DEF ScriptTypeOK
<1>6. AloneOrder /\ \A w : LastOf(w) = {}
  BY <1>2 DEF AloneOrder, LastOf
<1>7. \A r \in Runs : AloneOK(r)
  BY <1>1 DEF AloneOK, Idle
<1>8. OutputOfLastRun /\ OutputComplete /\ TempRemoved
  BY <1>1, <1>6 DEF OutputOfLastRun, OutputComplete, TempRemoved
<1> QED BY <1>5, <1>6, <1>7, <1>8 DEF ScriptInv

LEMMA ScriptStep == ScriptInv /\ [Next]_vars => ScriptInv'
<1> SUFFICES ASSUME ScriptInv, [Next]_vars PROVE ScriptInv'
  OBVIOUS
<1>1. ASSUME NEW r \in Runs,
             \/ Start(r) \/ RemoveOldTemp(r) \/ MakeTemp(r)
             \/ CdTemp(r) \/ MakeCFGs(r) \/ CdUp(r) \/ Instrument(r) \/ PinFails(r)
             \/ Fini(r) \/ MakeOutput(r) \/ CdTempAgain(r) \/ Copy(r) \/ CdUpAgain(r)
             \/ RemoveTemp(r) \/ Finish(r) \/ Kill(r)
      PROVE  ScriptInv'
  BY <1>1, StartInv, RemoveOldTempInv, MakeTempInv, CdTempInv, MakeCFGsInv, CdUpInv,
     InstrumentInv, PinFailsInv, FiniInv, MakeOutputInv, CdTempAgainInv, CopyInv,
     CdUpAgainInv, RemoveTempInv, FinishInv, KillInv
<1>2. CASE UNCHANGED vars
  <2>1. /\ pc' = pc /\ cwd' = cwd /\ inTemp' = inTemp /\ temp' = temp /\ output' = output
        /\ started' = started /\ alone' = alone /\ failed' = failed
    BY <1>2 DEF vars
  <2>2. ScriptTypeOK' /\ AloneOrder' /\ \A r \in Runs : AloneOK(r)'
    BY ZenonT(30), <2>1, InvParts DEF ScriptTypeOK, AloneOrder, AloneOK, Idle
  <2>3. OutputOfLastRun' /\ OutputComplete' /\ TempRemoved'
    BY <2>1, InvParts DEF OutputOfLastRun, OutputComplete, TempRemoved, LastOf
  <2> QED BY <2>2, <2>3 DEF ScriptInv
<1> QED BY <1>1, <1>2 DEF Next

\* The inductive invariant of the scripts: which runs went on together, and for a
\* run that is alone, where each of its commands works and on what.
THEOREM ScriptsSafe == Spec => []ScriptInv
<1>1. Init => ScriptInv
  BY ScriptInitial
<1>2. ScriptInv /\ [Next]_vars => ScriptInv'
  BY ScriptStep
<1> QED BY <1>1, <1>2, PTL DEF Spec

\* What the last run of a workload leaves is its own if it was alone, however it
\* ended and whatever was left in temp before it.
THEOREM OutputOwn == Spec => []OutputOfLastRun
<1>1. ScriptInv => OutputOfLastRun
  BY InvParts
<1> QED BY <1>1, ScriptsSafe, PTL

\* And if neither it nor Pin failed it is all of its files: no cd left a command
\* in the wrong directory.
THEOREM OutputAll == Spec => []OutputComplete
<1>1. ScriptInv => OutputComplete
  BY InvParts
<1> QED BY <1>1, ScriptsSafe, PTL

\* A run that was alone and removes temp has removed it until the next one starts.
THEOREM TempIsRemoved == Spec => []TempRemoved
<1>1. ScriptInv => TempRemoved
  BY InvParts
<1> QED BY <1>1, ScriptsSafe, PTL

=============================================================================
