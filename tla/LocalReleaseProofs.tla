------------------------- MODULE LocalReleaseProofs -------------------------
(***************************************************************************)
(* What LocalRelease promises of the scripts, for any number of commits,   *)
(* patches, targets, environments, runs and edits.                         *)
(***************************************************************************)
EXTENDS LocalRelease, TLAPS

-----------------------------------------------------------------------------
(* The invariant: what holds between the steps of a run.                   *)

Patching == run.at = "apply"
Patched == run.at \in {"test", "build", "compile"}
Collecting == run.at \in {"sums", "manifest", "done"}
Default == run.env.build = "default"

\* The checkout under a run: what it set out to apply is applied or still to come,
\* and on a clean checkout nothing else is applied.
TreeInv == /\ Patching => /\ run.queue \subseteq run.left \cup tree.patches
                          /\ run.clean => tree.patches \cup run.left = run.queue
           /\ Patched => /\ run.queue \subseteq tree.patches
                         /\ run.clean => tree.patches = run.queue
           /\ Patching \/ Patched => run.head = tree.commit
\* The edits since the run began.
EditInv == /\ run.edits <= edits
           /\ run.at # "none" /\ Undisturbed => queue = run.queue
\* What the current run compiled.
OwnV8 == ~run.env.tests \/ TestTarget = run.target => run.v8 = run.target
MadeInv == /\ run.at = "build" => run.v8 = IF run.env.tests THEN TestTarget ELSE NoTarget
           /\ run.at = "test" => run.v8 = NoTarget
           /\ Patching => run.v8 = NoTarget
           /\ run.at # "none" => runs # 0
           /\ run.at = "compile" => /\ Default
                                    /\ run.target \in Targets
                                    /\ OwnV8
                                    /\ \A b \in BinariesOf[run.target] \cap Digested : cargo[run.target][b] = runs
           /\ Default /\ (run.at = "collect" \/ Collecting) =>
                 /\ run.target \in Targets
                 /\ made[runs].commit = run.head
                 /\ run.clean => made[runs].patches = run.queue
                 /\ OwnV8 /\ made[runs].v8 = run.v8
                 /\ \A b \in BinariesOf[run.target] : b \in Digested => made[runs].bwrap = runs
           /\ Default /\ run.at = "collect" =>
                 \A b \in BinariesOf[run.target] : cargo[run.target][b] = runs
\* What is in the output directory.
DistInv == /\ Default /\ Collecting /\ Undisturbed => \A b \in BinariesOf[run.target] : dist[b] = runs
           /\ run.fresh /\ (Patching \/ Patched \/ run.at = "collect") /\ Undisturbed =>
                 \A f \in Files : dist[f] = Absent
           /\ run.fresh /\ run.at \in {"sums", "manifest"} /\ Undisturbed => dist["manifest"] = Absent
           /\ run.fresh /\ run.at = "sums" /\ Undisturbed => dist["SHA256SUMS"] = Absent
           /\ run.fresh /\ run.at = "manifest" /\ Undisturbed => ChecksumsMatch /\ sums["manifest"] = Absent
           /\ run.at = "done" /\ Undisturbed => /\ manifest.commit = run.head
                                                /\ manifest.patches = run.queue \cup StrayPatches
IInv == /\ TypeOK /\ TreeInv /\ EditInv /\ MadeInv /\ DistInv
        /\ HalfPatchedIsNotBuilt /\ FreshReleaseVerifies

-----------------------------------------------------------------------------
(* Its parts, one lemma each.                                              *)

LEMMA Names == /\ \A t \in Targets : BinariesOf[t] \subseteq Binaries
               /\ Binaries \subseteq Files
               /\ "manifest" \in Files /\ "SHA256SUMS" \in Files
               /\ "manifest" \notin Binaries /\ "SHA256SUMS" \notin Binaries
  BY SettingsAssumption DEF Binaries, Files, Targets

\* Every step keeps the types.
LEMMA TypeStep ==
  ASSUME IInv, [Next]_vars
  PROVE  TypeOK'
  <1>1. ASSUME NEW env \in Environments, Begin(env) PROVE TypeOK'
    <2>1. env.target \in Targets \cup {NoTarget}
      BY SettingsAssumption DEF Settings
    <2>2. run' \in Running
      BY <1>1, <2>1 DEF Begin, Running, Stages, IInv, TypeOK, Commits
    <2>3. runs' \in 0..MaxRuns
      BY <1>1, SettingsAssumption DEF Begin, IInv, TypeOK
    <2> QED BY <1>1, <2>2, <2>3 DEF Begin, IInv, TypeOK
  <1>2. CASE ApplyPatch
    <2>1. PICK p \in run.left : /\ tree' = [tree EXCEPT !.patches = @ \cup {p}]
                                /\ run' = [run EXCEPT !.left = @ \ {p}]
      BY <1>2 DEF ApplyPatch, NextPatch
    <2>2. run' \in Running /\ p \in Patches
      BY <2>1 DEF Running, IInv, TypeOK
    <2>3. tree' \in [commit : Commits, patches : SUBSET Patches]
      BY <2>1, <2>2 DEF IInv, TypeOK
    <2> QED BY <1>2, <2>2, <2>3 DEF ApplyPatch, IInv, TypeOK
  <1>3. CASE PatchesApplied
    BY <1>3, SettingsAssumption, Names DEF PatchesApplied, IInv, TypeOK, Running, Stages
  <1>4. CASE Test
    BY <1>4, SettingsAssumption, Names DEF Test, TestTarget, V8After, Settings, IInv, TypeOK, Running, Stages
  <1>5. CASE PrepareBuild
    <2>1. BuildTarget \in Targets
      BY SettingsAssumption DEF BuildTarget, Settings, Running, IInv, TypeOK
    <2>2. V8After(BuildTarget) \in Targets
      BY <2>1 DEF V8After, Running, IInv, TypeOK
    <2>3. run' \in Running
      BY <1>5, <2>1, <2>2 DEF PrepareBuild, Running, Stages, IInv, TypeOK
    <2>4. runs \in 0..MaxRuns /\ cargo \in [Targets -> [Binaries -> 0..MaxRuns]]
      BY DEF IInv, TypeOK
    <2>5. cargo' = [cargo EXCEPT ![BuildTarget] =
                [b \in Binaries |-> IF b \in BinariesOf[BuildTarget] \cap Digested
                                     THEN runs ELSE cargo[BuildTarget][b]]]
      BY <1>5, <2>1, <2>4 DEF PrepareBuild
    <2>6. cargo' \in [Targets -> [Binaries -> 0..MaxRuns]]
      BY <2>1, <2>4, <2>5
    <2> QED BY <1>5, <2>3, <2>6 DEF PrepareBuild, IInv, TypeOK
  <1>6. CASE Build
    <2>1. run' \in Running
      BY <1>6 DEF Build, Running, Stages, IInv, TypeOK
    <2>2. runs \in 0..MaxRuns /\ cargo \in [Targets -> [Binaries -> 0..MaxRuns]]
      BY DEF IInv, TypeOK
    <2>3. runs \in 1..MaxRuns /\ run.target \in Targets
      BY <1>6, <2>2, SettingsAssumption DEF Build, IInv, MadeInv
    <2>4. cargo' = [cargo EXCEPT ![run.target] =
                [b \in Binaries |-> IF b \in BinariesOf[run.target] \ Digested
                                     THEN runs ELSE cargo[run.target][b]]]
      BY <1>6, <2>2, <2>3 DEF Build
    <2>5. cargo' \in [Targets -> [Binaries -> 0..MaxRuns]]
      BY <2>2, <2>3, <2>4
    <2>6. made'[runs] \in Built /\ made' \in [1..MaxRuns -> Built]
      BY <1>6, <2>2, <2>3, SettingsAssumption DEF Build, Built, Running, IInv, TypeOK, Commits, Absent
    <2> QED BY <1>6, <2>1, <2>5, <2>6 DEF Build, IInv, TypeOK
  <1>7. CASE SkipBuild
    BY <1>7, SettingsAssumption, Names DEF SkipBuild, IInv, TypeOK, Running, Stages
  <1>8. CASE Collect
    <2>1. run' \in Running /\ run.target \in Targets
      BY <1>8 DEF Collect, Running, Stages, IInv, TypeOK
    <2>2. \A b \in BinariesOf[run.target] : cargo[run.target][b] \in 0..MaxRuns
      BY <2>1, Names DEF IInv, TypeOK
    <2>3. dist' \in [Files -> 0..MaxRuns]
      BY <1>8, <2>1, <2>2 DEF Collect, IInv, TypeOK
    <2> QED BY <1>8, <2>1, <2>3 DEF Collect, IInv, TypeOK
  <1>9. CASE SkipCollection
    BY <1>9, SettingsAssumption, Names DEF SkipCollection, IInv, TypeOK, Running, Stages
  <1>10. CASE WriteSums
    <2>1. run' \in Running
      BY <1>10 DEF WriteSums, Running, Stages, IInv, TypeOK
    <2>2. sums' \in [Files -> 0..MaxRuns + 1]
      BY <1>10, SettingsAssumption DEF WriteSums, Emptied, IInv, TypeOK
    <2>3. dist' \in [Files -> 0..MaxRuns]
      BY <1>10 DEF WriteSums, IInv, TypeOK
    <2> QED BY <1>10, <2>1, <2>2, <2>3 DEF WriteSums, IInv, TypeOK
  <1>11. CASE WriteManifest
    <2>1. run' \in Running
      BY <1>11 DEF WriteManifest, Running, Stages, IInv, TypeOK
    <2>2. manifest' \in Manifests
      BY <1>11, SettingsAssumption DEF WriteManifest, Manifests, Running, Absent, IInv, TypeOK
    <2>3. dist' \in [Files -> 0..MaxRuns]
      BY <1>11 DEF WriteManifest, IInv, TypeOK
    <2> QED BY <1>11, <2>1, <2>2, <2>3 DEF WriteManifest, IInv, TypeOK
  <1>12. CASE Stop
    BY <1>12, SettingsAssumption, Names DEF Stop, IInv, TypeOK, Running, Stages
  <1>13. ASSUME NEW patches \in SUBSET Patches, EditQueue(patches) PROVE TypeOK'
    BY <1>13, SettingsAssumption, Names DEF EditQueue, IInv, TypeOK, Running, Stages
  <1>14. ASSUME NEW commit \in Commits, ResetCheckout(commit) PROVE TypeOK'
    <2>1. tree' \in [commit : Commits, patches : SUBSET Patches]
      BY <1>14 DEF ResetCheckout
    <2> QED BY <1>14, <2>1, SettingsAssumption DEF ResetCheckout, IInv, TypeOK
  <1>15. CASE EmptyOutput
    <2>1. manifest' \in Manifests
      BY <1>15, SettingsAssumption DEF EmptyOutput, NoManifest, Manifests, Absent
    <2>2. dist' \in [Files -> 0..MaxRuns] /\ sums' \in [Files -> 0..MaxRuns + 1]
      BY <1>15, SettingsAssumption DEF EmptyOutput, Absent
    <2> QED BY <1>15, <2>1, <2>2, SettingsAssumption DEF EmptyOutput, IInv, TypeOK
  <1>16. CASE UNCHANGED vars
    BY <1>16 DEF vars, IInv, TypeOK, Running, Stages
  <1> QED BY <1>1, <1>2, <1>3, <1>4, <1>5, <1>6, <1>7, <1>8, <1>9, <1>10, <1>11, <1>12, <1>13,
      <1>14, <1>15, <1>16 DEF Next

\* A run ends with the checkout it began with and the patches on top.
LEMMA TreeStep ==
  ASSUME IInv, [Next]_vars
  PROVE  TreeInv'
  <1> USE DEF IInv, TypeOK, TreeInv, Patching, Patched, Running
  <1>1. ASSUME NEW env \in Environments, Begin(env) PROVE TreeInv'
    BY <1>1 DEF Begin, Stopped
  <1>2. CASE ApplyPatch
    BY <1>2 DEF ApplyPatch, NextPatch
  <1>3. CASE PatchesApplied
    BY <1>3 DEF PatchesApplied
  <1>4. CASE Test
    BY <1>4 DEF Test
  <1>5. CASE PrepareBuild
    BY <1>5 DEF PrepareBuild
  <1>6. CASE Build
    BY <1>6 DEF Build
  <1>7. CASE SkipBuild
    BY <1>7 DEF SkipBuild
  <1>8. CASE Collect
    BY <1>8 DEF Collect
  <1>9. CASE SkipCollection
    BY <1>9 DEF SkipCollection
  <1>10. CASE WriteSums
    BY <1>10 DEF WriteSums
  <1>11. CASE WriteManifest
    BY <1>11 DEF WriteManifest
  <1>12. CASE Stop
    BY <1>12 DEF Stop, Stopped
  <1>13. ASSUME NEW patches \in SUBSET Patches, EditQueue(patches) PROVE TreeInv'
    BY <1>13 DEF EditQueue
  <1>14. ASSUME NEW commit \in Commits, ResetCheckout(commit) PROVE TreeInv'
    BY <1>14 DEF ResetCheckout, Stopped
  <1>15. CASE EmptyOutput
    BY <1>15 DEF EmptyOutput, Stopped
  <1>16. CASE UNCHANGED vars
    BY <1>16 DEF vars
  <1> QED BY <1>1, <1>2, <1>3, <1>4, <1>5, <1>6, <1>7, <1>8, <1>9, <1>10, <1>11, <1>12, <1>13,
      <1>14, <1>15, <1>16 DEF Next

\* Edits are counted, and a queue that has not been edited is the run's.
LEMMA EditStep ==
  ASSUME IInv, [Next]_vars
  PROVE  EditInv'
  <1> USE DEF IInv, TypeOK, EditInv, Undisturbed, Running
  <1>1. ASSUME NEW env \in Environments, Begin(env) PROVE EditInv'
    BY <1>1 DEF Begin, Stopped
  <1>2. CASE ApplyPatch
    BY <1>2 DEF ApplyPatch
  <1>3. CASE PatchesApplied
    BY <1>3 DEF PatchesApplied
  <1>4. CASE Test
    BY <1>4 DEF Test
  <1>5. CASE PrepareBuild
    BY <1>5 DEF PrepareBuild
  <1>6. CASE Build
    BY <1>6 DEF Build
  <1>7. CASE SkipBuild
    BY <1>7 DEF SkipBuild
  <1>8. CASE Collect
    BY <1>8 DEF Collect
  <1>9. CASE SkipCollection
    BY <1>9 DEF SkipCollection
  <1>10. CASE WriteSums
    BY <1>10 DEF WriteSums
  <1>11. CASE WriteManifest
    BY <1>11 DEF WriteManifest
  <1>12. CASE Stop
    BY <1>12 DEF Stop, Stopped
  <1>13. ASSUME NEW patches \in SUBSET Patches, EditQueue(patches) PROVE EditInv'
    BY <1>13 DEF EditQueue
  <1>14. ASSUME NEW commit \in Commits, ResetCheckout(commit) PROVE EditInv'
    BY <1>14 DEF ResetCheckout
  <1>15. CASE EmptyOutput
    BY <1>15 DEF EmptyOutput
  <1>16. CASE UNCHANGED vars
    BY <1>16 DEF vars
  <1> QED BY <1>1, <1>2, <1>3, <1>4, <1>5, <1>6, <1>7, <1>8, <1>9, <1>10, <1>11, <1>12, <1>13,
      <1>14, <1>15, <1>16 DEF Next

\* Nothing is compiled from a half-patched checkout.
LEMMA HalfPatchedStep ==
  ASSUME IInv, [Next]_vars
  PROVE  HalfPatchedIsNotBuilt'
  <1> USE DEF IInv, TypeOK, TreeInv, Patched, HalfPatchedIsNotBuilt, Built, Running
  <1>1. ASSUME NEW env \in Environments, Begin(env) PROVE HalfPatchedIsNotBuilt'
    BY <1>1 DEF Begin
  <1>2. CASE ApplyPatch
    BY <1>2 DEF ApplyPatch
  <1>3. CASE PatchesApplied
    BY <1>3 DEF PatchesApplied
  <1>4. CASE Test
    BY <1>4 DEF Test
  <1>5. CASE PrepareBuild
    BY <1>5 DEF PrepareBuild
  <1>6. CASE Build
    BY <1>6 DEF Build
  <1>7. CASE SkipBuild
    BY <1>7 DEF SkipBuild
  <1>8. CASE Collect
    BY <1>8 DEF Collect
  <1>9. CASE SkipCollection
    BY <1>9 DEF SkipCollection
  <1>10. CASE WriteSums
    BY <1>10 DEF WriteSums
  <1>11. CASE WriteManifest
    BY <1>11 DEF WriteManifest
  <1>12. CASE Stop
    BY <1>12 DEF Stop
  <1>13. ASSUME NEW patches \in SUBSET Patches, EditQueue(patches) PROVE HalfPatchedIsNotBuilt'
    BY <1>13 DEF EditQueue
  <1>14. ASSUME NEW commit \in Commits, ResetCheckout(commit) PROVE HalfPatchedIsNotBuilt'
    BY <1>14 DEF ResetCheckout
  <1>15. CASE EmptyOutput
    BY <1>15 DEF EmptyOutput
  <1>16. CASE UNCHANGED vars
    BY <1>16 DEF vars
  <1> QED BY <1>1, <1>2, <1>3, <1>4, <1>5, <1>6, <1>7, <1>8, <1>9, <1>10, <1>11, <1>12, <1>13,
      <1>14, <1>15, <1>16 DEF Next

\* What a run compiles is made from its own tree.
LEMMA MadeStep ==
  ASSUME IInv, [Next]_vars
  PROVE  MadeInv'
  <1> USE SettingsAssumption, Names DEF IInv, TypeOK, MadeInv, TreeInv, Patching, Patched,
      Collecting, Default, OwnV8, TestTarget, Built, Running
  <1>1. ASSUME NEW env \in Environments, Begin(env) PROVE MadeInv'
    BY <1>1 DEF Begin, Stopped
  <1>2. CASE ApplyPatch
    BY <1>2 DEF ApplyPatch
  <1>3. CASE PatchesApplied
    BY <1>3 DEF PatchesApplied
  <1>4. CASE Test
    BY <1>4 DEF Test, V8After
  <1>5. CASE PrepareBuild
    <2>1. BuildTarget \in Targets /\ run'.target = BuildTarget /\ run'.v8 = V8After(BuildTarget)
          /\ run'.at = "compile" /\ run'.env = run.env
      BY <1>5, SettingsAssumption DEF PrepareBuild, BuildTarget, Settings, Running, IInv, TypeOK
    <2>2. OwnV8'
      <3>1. TestTarget' = TestTarget
        BY <2>1 DEF TestTarget
      <3>2. run.v8 = IF run.env.tests THEN TestTarget ELSE NoTarget
        BY <1>5 DEF PrepareBuild, IInv, MadeInv
      <3> QED BY <2>1, <3>1, <3>2 DEF OwnV8, V8After
    <2>3. cargo' = [cargo EXCEPT ![BuildTarget] =
                [b \in Binaries |-> IF b \in BinariesOf[BuildTarget] \cap Digested
                                     THEN runs ELSE cargo[BuildTarget][b]]]
      BY <1>5, <2>1 DEF PrepareBuild, IInv, TypeOK
    <2>4. \A b \in BinariesOf[BuildTarget] \cap Digested : cargo'[BuildTarget][b] = runs
      BY <2>1, <2>3, Names DEF IInv, TypeOK
    <2>5. run.at = "build" /\ Default /\ runs' = runs /\ runs # 0
      BY <1>5 DEF PrepareBuild, Default, IInv, MadeInv
    <2> QED BY <2>1, <2>2, <2>4, <2>5 DEF MadeInv, Default, Collecting, Patching
  <1>6. CASE Build
    BY <1>6 DEF Build, Absent
  <1>7. CASE SkipBuild
    BY <1>7 DEF SkipBuild
  <1>8. CASE Collect
    BY <1>8 DEF Collect
  <1>9. CASE SkipCollection
    BY <1>9 DEF SkipCollection
  <1>10. CASE WriteSums
    BY <1>10 DEF WriteSums
  <1>11. CASE WriteManifest
    BY <1>11 DEF WriteManifest
  <1>12. CASE Stop
    BY <1>12 DEF Stop, Stopped
  <1>13. ASSUME NEW patches \in SUBSET Patches, EditQueue(patches) PROVE MadeInv'
    BY <1>13 DEF EditQueue
  <1>14. ASSUME NEW commit \in Commits, ResetCheckout(commit) PROVE MadeInv'
    BY <1>14 DEF ResetCheckout, Stopped
  <1>15. CASE EmptyOutput
    BY <1>15 DEF EmptyOutput, Stopped
  <1>16. CASE UNCHANGED vars
    BY <1>16 DEF vars
  <1> QED BY <1>1, <1>2, <1>3, <1>4, <1>5, <1>6, <1>7, <1>8, <1>9, <1>10, <1>11, <1>12, <1>13,
      <1>14, <1>15, <1>16 DEF Next

\* The output directory follows the run.
LEMMA DistStep ==
  ASSUME IInv, [Next]_vars
  PROVE  DistInv'
  <1> USE SettingsAssumption, Names DEF IInv, TypeOK, DistInv, MadeInv, EditInv, Undisturbed,
      Patching, Patched, Collecting, Default, ChecksumsMatch, Running
  <1>1. ASSUME NEW env \in Environments, Begin(env) PROVE DistInv'
    BY <1>1 DEF Begin, Stopped
  <1>2. CASE ApplyPatch
    BY <1>2 DEF ApplyPatch
  <1>3. CASE PatchesApplied
    BY <1>3 DEF PatchesApplied
  <1>4. CASE Test
    BY <1>4 DEF Test
  <1>5. CASE PrepareBuild
    BY <1>5 DEF PrepareBuild
  <1>6. CASE Build
    BY <1>6 DEF Build
  <1>7. CASE SkipBuild
    BY <1>7 DEF SkipBuild
  <1>8. CASE Collect
    BY <1>8 DEF Collect, Absent
  <1>9. CASE SkipCollection
    BY <1>9 DEF SkipCollection
  <1>10. CASE WriteSums
    BY <1>10 DEF WriteSums, Absent
  <1>11. CASE WriteManifest
    BY <1>11 DEF WriteManifest
  <1>12. CASE Stop
    BY <1>12 DEF Stop
  <1>13. ASSUME NEW patches \in SUBSET Patches, EditQueue(patches) PROVE DistInv'
    BY <1>13 DEF EditQueue
  <1>14. ASSUME NEW commit \in Commits, ResetCheckout(commit) PROVE DistInv'
    BY <1>14 DEF ResetCheckout
  <1>15. CASE EmptyOutput
    BY <1>15 DEF EmptyOutput, Stopped
  <1>16. CASE UNCHANGED vars
    BY <1>16 DEF vars
  <1> QED BY <1>1, <1>2, <1>3, <1>4, <1>5, <1>6, <1>7, <1>8, <1>9, <1>10, <1>11, <1>12, <1>13,
      <1>14, <1>15, <1>16 DEF Next

\* A fresh release verifies.
LEMMA FreshStep ==
  ASSUME IInv, [Next]_vars
  PROVE  FreshReleaseVerifies'
  <1> USE SettingsAssumption, Names DEF IInv, TypeOK, FreshReleaseVerifies, Finished, Undisturbed,
      Verifies, ManifestMatches, PatchesMatch, ChecksumsMatch, DistInv, MadeInv, EditInv, Running
  <1>1. ASSUME NEW env \in Environments, Begin(env) PROVE FreshReleaseVerifies'
    BY <1>1 DEF Begin, Stopped
  <1>2. CASE ApplyPatch
    BY <1>2 DEF ApplyPatch
  <1>3. CASE PatchesApplied
    BY <1>3 DEF PatchesApplied
  <1>4. CASE Test
    BY <1>4 DEF Test
  <1>5. CASE PrepareBuild
    BY <1>5 DEF PrepareBuild
  <1>6. CASE Build
    BY <1>6 DEF Build
  <1>7. CASE SkipBuild
    BY <1>7 DEF SkipBuild
  <1>8. CASE Collect
    BY <1>8 DEF Collect
  <1>9. CASE SkipCollection
    BY <1>9 DEF SkipCollection
  <1>10. CASE WriteSums
    BY <1>10 DEF WriteSums
  <1>11. CASE WriteManifest
    BY <1>11 DEF WriteManifest, Absent
  <1>12. CASE Stop
    BY <1>12 DEF Stop
  <1>13. ASSUME NEW patches \in SUBSET Patches, EditQueue(patches) PROVE FreshReleaseVerifies'
    BY <1>13 DEF EditQueue
  <1>14. ASSUME NEW commit \in Commits, ResetCheckout(commit) PROVE FreshReleaseVerifies'
    BY <1>14 DEF ResetCheckout
  <1>15. CASE EmptyOutput
    BY <1>15 DEF EmptyOutput, Stopped
  <1>16. CASE UNCHANGED vars
    BY <1>16 DEF vars
  <1> QED BY <1>1, <1>2, <1>3, <1>4, <1>5, <1>6, <1>7, <1>8, <1>9, <1>10, <1>11, <1>12, <1>13,
      <1>14, <1>15, <1>16 DEF Next

-----------------------------------------------------------------------------
(* The theorems.                                                           *)

LEMMA InitIInv == Init => IInv
  <1> SUFFICES ASSUME Init PROVE IInv
    OBVIOUS
  <1>1. NoRun \in Running /\ NoRun.at = "none"
    BY SettingsAssumption DEF NoRun, Running, Stages
  <1>2. made \in [1..MaxRuns -> Built] /\ manifest \in Manifests
    BY SettingsAssumption DEF Init, NoBuild, Built, NoManifest, Manifests, Absent
  <1>3. TypeOK
    BY <1>1, <1>2, SettingsAssumption DEF Init, TypeOK, Commits, Absent
  <1>4. TreeInv /\ EditInv /\ MadeInv /\ DistInv
    BY <1>1, SettingsAssumption
    DEF Init, NoRun, TreeInv, EditInv, MadeInv, DistInv, Patching, Patched, Collecting
  <1>5. HalfPatchedIsNotBuilt /\ FreshReleaseVerifies
    BY <1>1 DEF Init, NoBuild, HalfPatchedIsNotBuilt, FreshReleaseVerifies, Finished
  <1> QED BY <1>3, <1>4, <1>5 DEF IInv

\* The invariant holds in every reachable state.
THEOREM Invariant == Spec => []IInv
  <1>1. IInv /\ [Next]_vars => IInv'
    BY TypeStep, TreeStep, EditStep, MadeStep, DistStep, HalfPatchedStep, FreshStep DEF IInv
  <1> QED BY InitIInv, <1>1, PTL DEF Spec

\* Every variable keeps its type through runs, stops and edits.
THEOREM TypeCorrect == Spec => []TypeOK
  <1>1. IInv => TypeOK
    BY DEF IInv
  <1> QED BY Invariant, <1>1, PTL

\* No run compiles a checkout that lacks a patch it set out to apply.
THEOREM NothingHalfPatched == Spec => []HalfPatchedIsNotBuilt
  <1>1. IInv => HalfPatchedIsNotBuilt
    BY DEF IInv
  <1> QED BY Invariant, <1>1, PTL

\* A release built into an empty directory passes verify-release.sh.
THEOREM FreshVerifies == Spec => []FreshReleaseVerifies
  <1>1. IInv => FreshReleaseVerifies
    BY DEF IInv
  <1> QED BY Invariant, <1>1, PTL

\* The binaries of a release compiled from a clean checkout are made from the commit
\* and the patches of its manifest.
THEOREM SourceIsTold == Spec => []ReleaseIsWhatItSays
  <1>1. IInv => ReleaseIsWhatItSays
    <2> SUFFICES ASSUME IInv, Finished, run.clean, Default, Undisturbed,
                        NEW b \in BinariesOf[run.target]
                 PROVE  /\ dist[b] = runs
                        /\ made[runs].commit = manifest.commit
                        /\ made[runs].patches = manifest.patches \ StrayPatches
                        /\ b \in Digested => made[runs].bwrap = dist[b]
                        /\ ~run.env.tests \/ TestTarget = run.target => made[runs].v8 = run.target
      BY DEF ReleaseIsWhatItSays, Default
    <2>1. run.at = "done" /\ Collecting
      BY DEF Finished, Collecting
    <2>2. dist[b] = runs
      BY <2>1 DEF IInv, DistInv
    <2>3. manifest.commit = run.head /\ manifest.patches = run.queue \cup StrayPatches
      BY <2>1 DEF IInv, DistInv
    <2>4. run.queue \cap StrayPatches = {}
      BY SettingsAssumption DEF IInv, TypeOK, Running
    <2>5. /\ made[runs].commit = run.head /\ made[runs].patches = run.queue
          /\ OwnV8 /\ made[runs].v8 = run.v8
          /\ b \in Digested => made[runs].bwrap = runs
      BY <2>1 DEF IInv, MadeInv
    <2> QED BY <2>2, <2>3, <2>4, <2>5 DEF OwnV8
  <1> QED BY Invariant, <1>1, PTL
=============================================================================
