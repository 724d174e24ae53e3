---------------------------- MODULE LocalRelease ----------------------------
(***************************************************************************)
(* A maintainer's own builds: scripts/build-release.sh, with the scripts   *)
(* it calls (apply-patches.sh, generate-release-manifest.py) and the one   *)
(* that audits its output (verify-release.sh).  The script keeps nothing   *)
(* in memory between two runs, but everything it works on survives a run:  *)
(* the upstream checkout with the patches applied so far, the cargo        *)
(* target directory, and the output directory, by default always the same  *)
(* one.  A run may stop after any step, and the maintainer may edit the    *)
(* patch queue, reset the checkout or empty the output directory.          *)
(*                                                                         *)
(* The contents of a file are stood for by the number of the run that      *)
(* wrote it; a checksum is the number it was computed from.                *)
(***************************************************************************)
EXTENDS Naturals, FiniteSets

CONSTANTS MaxCommit,      \* upstream commits 1..MaxCommit
          MaxPatch,       \* patch files 1..MaxPatch, in the order of their names
          StrayPatches,   \* *.patch files in the repository but outside patches/
          Environments,   \* the settings the script is run with
          HostTarget,     \* infer_host_target
          ReleaseTarget,  \* infer_default_release_target
          BinariesOf,     \* default_release_binaries, per target
          Digested,       \* bwrap, whose digest the other binaries are compiled with
          NoTarget,
          MaxRuns, MaxEdits

Commits == 1..MaxCommit
Patches == 1..MaxPatch
Targets == DOMAIN BinariesOf
Binaries == UNION {BinariesOf[t] : t \in Targets}
Files == Binaries \cup {"SHA256SUMS", "manifest"}
Absent == 0
Emptied == MaxRuns + 1   \* a file the shell has just truncated

Settings == [target : Targets \cup {NoTarget}, testTarget : Targets \cup {NoTarget},
             tests : BOOLEAN, build : {"skip", "default"}, collect : {"skip", "default"}]
ASSUME SettingsAssumption == /\ Environments \subseteq Settings /\ Environments # {}
                             /\ {HostTarget, ReleaseTarget} \subseteq Targets
                             /\ NoTarget \notin Targets
                             /\ MaxRuns \in Nat /\ MaxPatch \in Nat /\ MaxCommit \in Nat \ {0}
                             /\ MaxEdits \in Nat
                             /\ {"SHA256SUMS", "manifest"} \cap Binaries = {}
                             /\ StrayPatches \cap Patches = {}

VARIABLES queue,     \* patches/: the patch files there now
          tree,      \* the upstream checkout: its HEAD and the patches applied on top
          cargo,     \* per target and binary, the run that last compiled it
          made,      \* per run, what it compiled: the tree, the V8 pair and the bwrap it was given
          dist,      \* the output directory: per file, the run that wrote it
          sums,      \* SHA256SUMS: per file listed, what its checksum was computed from
          manifest,  \* release-manifest.json
          run,       \* the current or last run of the script
          runs,      \* runs so far
          edits      \* steps of the maintainer so far
vars == <<queue, tree, cargo, made, dist, sums, manifest, run, runs, edits>>

NoBuild == [commit |-> 0, patches |-> {}, wanted |-> {}, v8 |-> NoTarget, target |-> NoTarget,
            bwrap |-> Absent]
NoManifest == [commit |-> 0, patches |-> {}, artifacts |-> [f \in Files |-> Absent]]
NoRun == [at |-> "none", env |-> CHOOSE e \in Environments : TRUE, left |-> {}, head |-> 0,
          v8 |-> NoTarget, target |-> NoTarget, queue |-> {}, edits |-> 0,
          clean |-> FALSE, fresh |-> FALSE]

Init == /\ queue = Patches
        /\ tree = [commit |-> 1, patches |-> {}]
        /\ cargo = [t \in Targets |-> [b \in Binaries |-> Absent]]
        /\ made = [n \in 1..MaxRuns |-> NoBuild]
        /\ dist = [f \in Files |-> Absent]
        /\ sums = [f \in Files |-> Absent]
        /\ manifest = NoManifest
        /\ run = NoRun
        /\ runs = 0
        /\ edits = 0

Stopped == run.at \in {"none", "done", "skipped", "failed"}

-----------------------------------------------------------------------------
(* build-release.sh.                                                       *)

\* The script notes HEAD and the names of the patches to apply; "clean" and
\* "fresh" remember what it found.
Begin(env) ==
    /\ Stopped
    /\ runs < MaxRuns
    /\ runs' = runs + 1
    /\ run' = [at |-> "apply", env |-> env, left |-> queue, head |-> tree.commit,
               v8 |-> NoTarget, target |-> env.target, queue |-> queue, edits |-> edits,
               clean |-> tree.patches = {}, fresh |-> \A f \in Files : dist[f] = Absent]
    /\ UNCHANGED <<queue, tree, cargo, made, dist, sums, manifest, edits>>

NextPatch == {p \in run.left : \A q \in run.left : p <= q}

\* Faulty: a patch that does not apply is passed over.
PassOverPatch ==
    /\ run.at = "apply"
    /\ \E p \in NextPatch :
          /\ tree' = [tree EXCEPT !.patches = @ \cup ({p} \cap queue)]
          /\ run' = [run EXCEPT !.left = @ \ {p}]
    /\ UNCHANGED <<queue, cargo, made, dist, sums, manifest, runs, edits>>
\* apply-patches.sh applies one patch after the other to the working tree, in
\* the order of their names, and commits nothing: a patch that is applied
\* already, or whose file has gone, does not apply.
ApplyPatch ==
    /\ run.at = "apply"
    /\ \E p \in NextPatch :
          /\ p \in queue
          /\ p \notin tree.patches
          /\ tree' = [tree EXCEPT !.patches = @ \cup {p}]
          /\ run' = [run EXCEPT !.left = @ \ {p}]
    /\ UNCHANGED <<queue, cargo, made, dist, sums, manifest, runs, edits>>
PatchesApplied ==
    /\ run.at = "apply"
    /\ run.left = {}
    /\ run' = [run EXCEPT !.at = "test"]
    /\ UNCHANGED <<queue, tree, cargo, made, dist, sums, manifest, runs, edits>>

\* configure_rusty_v8_overrides exports the pair of one target, and is called
\* only while nothing is exported.
V8After(target) == IF run.v8 = NoTarget THEN target ELSE run.v8
TestTarget == IF run.env.testTarget # NoTarget THEN run.env.testTarget
              ELSE IF run.env.target # NoTarget THEN run.env.target ELSE HostTarget
Test ==
    /\ run.at = "test"
    /\ run' = [run EXCEPT !.at = "build", !.v8 = IF run.env.tests THEN V8After(TestTarget) ELSE @]
    /\ UNCHANGED <<queue, tree, cargo, made, dist, sums, manifest, runs, edits>>

\* On Linux bwrap is compiled first, and its digest is exported to the compilation
\* of the other binaries.
BuildTarget == IF run.env.target # NoTarget THEN run.env.target ELSE ReleaseTarget
PrepareBuild ==
    /\ run.at = "build"
    /\ run.env.build = "default"
    /\ run' = [run EXCEPT !.at = "compile", !.target = BuildTarget, !.v8 = V8After(BuildTarget)]
    /\ cargo' = [cargo EXCEPT ![BuildTarget] =
                   [b \in Binaries |-> IF b \in BinariesOf[BuildTarget] \cap Digested THEN runs ELSE @[b]]]
    /\ UNCHANGED <<queue, tree, made, dist, sums, manifest, runs, edits>>
Build ==
    /\ run.at = "compile"
    /\ run' = [run EXCEPT !.at = "collect"]
    /\ cargo' = [cargo EXCEPT ![run.target] =
                   [b \in Binaries |-> IF b \in BinariesOf[run.target] \ Digested THEN runs ELSE @[b]]]
    /\ made' = [made EXCEPT ![runs] = [commit |-> tree.commit, patches |-> tree.patches,
                                       wanted |-> run.queue, v8 |-> run.v8, target |-> run.target,
                                       bwrap |-> IF BinariesOf[run.target] \cap Digested = {} THEN Absent ELSE runs]]
    /\ UNCHANGED <<queue, tree, dist, sums, manifest, runs, edits>>
SkipBuild ==
    /\ run.at = "build"
    /\ run.env.build = "skip"
    /\ run' = [run EXCEPT !.at = "collect"]
    /\ UNCHANGED <<queue, tree, cargo, made, dist, sums, manifest, runs, edits>>

\* Faulty: a binary that is in the output directory already is kept.
CollectMissing ==
    /\ run.at = "collect"
    /\ run.env.collect = "default"
    /\ run.target # NoTarget
    /\ \A b \in BinariesOf[run.target] : cargo[run.target][b] # Absent
    /\ dist' = [f \in Files |-> IF f \in BinariesOf[run.target] /\ dist[f] = Absent
                                  THEN cargo[run.target][f] ELSE dist[f]]
    /\ run' = [run EXCEPT !.at = "sums"]
    /\ UNCHANGED <<queue, tree, cargo, made, sums, manifest, runs, edits>>
\* The binaries of the target are copied over what the output directory holds;
\* without a target, or without a binary to copy, the script stops (Stop below).
Collect ==
    /\ run.at = "collect"
    /\ run.env.collect = "default"
    /\ run.target # NoTarget
    /\ \A b \in BinariesOf[run.target] : cargo[run.target][b] # Absent
    /\ dist' = [f \in Files |-> IF f \in BinariesOf[run.target] THEN cargo[run.target][f] ELSE dist[f]]
    /\ run' = [run EXCEPT !.at = "sums"]
    /\ UNCHANGED <<queue, tree, cargo, made, sums, manifest, runs, edits>>
SkipCollection ==
    /\ run.at = "collect"
    /\ run.env.collect = "skip"
    /\ run' = [run EXCEPT !.at = "skipped"]
    /\ UNCHANGED <<queue, tree, cargo, made, dist, sums, manifest, runs, edits>>

\* Faulty: SHA256SUMS is created before the names are expanded.
SumsOfThemselves ==
    /\ run.at = "sums"
    /\ sums' = [f \in Files |-> IF f = "SHA256SUMS" THEN Emptied ELSE dist[f]]
    /\ dist' = [dist EXCEPT !["SHA256SUMS"] = runs]
    /\ run' = [run EXCEPT !.at = "manifest"]
    /\ UNCHANGED <<queue, tree, cargo, made, manifest, runs, edits>>
\* Faulty: the checksums go to the terminal and leave an emptied file.
SumsLost ==
    /\ run.at = "sums"
    /\ dist' = [dist EXCEPT !["SHA256SUMS"] = Emptied]
    /\ run' = [run EXCEPT !.at = "manifest"]
    /\ UNCHANGED <<queue, tree, cargo, made, sums, manifest, runs, edits>>
\* sha256sum ./* > SHA256SUMS: the shell expands the names, then truncates
\* SHA256SUMS, then runs sha256sum, which reads an emptied file if one was there.
WriteSums ==
    /\ run.at = "sums"
    /\ sums' = [f \in Files |-> IF f = "SHA256SUMS" /\ dist[f] # Absent THEN Emptied ELSE dist[f]]
    /\ dist' = [dist EXCEPT !["SHA256SUMS"] = runs]
    /\ run' = [run EXCEPT !.at = "manifest"]
    /\ UNCHANGED <<queue, tree, cargo, made, manifest, runs, edits>>

\* generate-release-manifest.py lists every file but the manifest itself, and
\* every *.patch file below the repository at this moment.
WriteManifest ==
    /\ run.at = "manifest"
    /\ manifest' = [commit |-> run.head, patches |-> queue \cup StrayPatches,
                    artifacts |-> [f \in Files |-> IF f = "manifest" THEN Absent ELSE dist[f]]]
    /\ dist' = [dist EXCEPT !["manifest"] = runs]
    /\ run' = [run EXCEPT !.at = "done"]
    /\ UNCHANGED <<queue, tree, cargo, made, sums, runs, edits>>

\* set -e: any command of the script may fail, and the script may be interrupted.
Stop ==
    /\ ~Stopped
    /\ run' = [run EXCEPT !.at = "failed"]
    /\ UNCHANGED <<queue, tree, cargo, made, dist, sums, manifest, runs, edits>>

-----------------------------------------------------------------------------
(* The maintainer, between runs and during them.                           *)

EditQueue(patches) ==
    /\ edits < MaxEdits
    /\ edits' = edits + 1
    /\ queue' = patches
    /\ UNCHANGED <<tree, cargo, made, dist, sums, manifest, run, runs>>
ResetCheckout(commit) ==
    /\ Stopped
    /\ edits < MaxEdits
    /\ edits' = edits + 1
    /\ tree' = [commit |-> commit, patches |-> {}]
    /\ UNCHANGED <<queue, cargo, made, dist, sums, manifest, run, runs>>
EmptyOutput ==
    /\ Stopped
    /\ edits < MaxEdits
    /\ edits' = edits + 1
    /\ dist' = [f \in Files |-> Absent]
    /\ sums' = [f \in Files |-> Absent]
    /\ manifest' = NoManifest
    /\ UNCHANGED <<queue, tree, cargo, made, run, runs>>

Next == \/ \E env \in Environments : Begin(env)
        \/ ApplyPatch \/ PatchesApplied \/ Test \/ PrepareBuild \/ Build \/ SkipBuild \/ Collect \/ SkipCollection
        \/ WriteSums \/ WriteManifest \/ Stop
        \/ \E patches \in SUBSET Patches : EditQueue(patches)
        \/ \E commit \in Commits : ResetCheckout(commit)
        \/ EmptyOutput
Spec == Init /\ [][Next]_vars

-----------------------------------------------------------------------------
(* verify-release.sh, run in the repository as it is now.                  *)

ChecksumsMatch == /\ dist["SHA256SUMS"] # Absent
                  /\ \A f \in Files : sums[f] # Absent => dist[f] = sums[f]
ManifestMatches == \A f \in Files : manifest.artifacts[f] # Absent => dist[f] = manifest.artifacts[f]
PatchesMatch == manifest.patches \subseteq queue \cup StrayPatches
Verifies == dist["manifest"] # Absent /\ ChecksumsMatch /\ ManifestMatches /\ PatchesMatch

-----------------------------------------------------------------------------
(* Properties.                                                             *)

Stages == {"none", "apply", "test", "build", "compile", "collect", "sums", "manifest",
           "done", "skipped", "failed"}
Built == [commit : 0..MaxCommit, patches : SUBSET Patches, wanted : SUBSET Patches,
          v8 : Targets \cup {NoTarget}, target : Targets \cup {NoTarget}, bwrap : 0..MaxRuns]
Manifests == [commit : 0..MaxCommit, patches : SUBSET (Patches \cup StrayPatches),
              artifacts : [Files -> 0..MaxRuns]]
Running == [at : Stages, env : Environments, left : SUBSET Patches, head : 0..MaxCommit,
            v8 : Targets \cup {NoTarget}, target : Targets \cup {NoTarget},
            queue : SUBSET Patches, edits : 0..MaxEdits, clean : BOOLEAN, fresh : BOOLEAN]
\* Every variable holds a value of its type.
TypeOK == /\ queue \subseteq Patches
          /\ tree \in [commit : Commits, patches : SUBSET Patches]
          /\ cargo \in [Targets -> [Binaries -> 0..MaxRuns]]
          /\ made \in [1..MaxRuns -> Built]
          /\ dist \in [Files -> 0..MaxRuns]
          /\ sums \in [Files -> 0..MaxRuns + 1]
          /\ manifest \in Manifests
          /\ run \in Running
          /\ runs \in 0..MaxRuns
          /\ edits \in 0..MaxEdits

Finished == run.at = "done"
Undisturbed == edits = run.edits   \* the maintainer has touched nothing since the run began

\* A release built into an empty output directory verifies, whatever earlier runs
\* left in the checkout and in cargo's directory: the checksums are taken after the
\* last binary is in place, and the manifest after the checksums.
FreshReleaseVerifies == Finished /\ run.fresh /\ Undisturbed => Verifies

\* The manifest of a release compiled from a clean checkout tells its source: every
\* binary of the target was compiled by this run, from the commit and exactly the
\* patches of patches/ it lists, and the bwrap beside them is the one whose digest
\* they hold.  The V8 they link is the target's own, unless the tests ran for another
\* target first.  Neither an earlier run that stopped half-way nor an output directory
\* in use shows in it.
ReleaseIsWhatItSays ==
    Finished /\ run.clean /\ run.env.build = "default" /\ Undisturbed =>
        \A b \in BinariesOf[run.target] :
            /\ dist[b] = runs
            /\ made[runs].commit = manifest.commit
            /\ made[runs].patches = manifest.patches \ StrayPatches
            /\ b \in Digested => made[runs].bwrap = dist[b]
            /\ ~run.env.tests \/ TestTarget = run.target => made[runs].v8 = run.target

\* Nothing is compiled from a half-patched checkout: whatever compiles holds every
\* patch the run set out to apply, even when it began on the checkout of a run that
\* stopped half-way, or the queue was edited while it was being applied.
HalfPatchedIsNotBuilt ==
    \A n \in 1..MaxRuns : made[n].wanted \subseteq made[n].patches

\* docs/RELEASE_MANIFEST.md says to verify a release directory against its manifest
\* with verify-release.sh.  Not every release just written stands it: one built into a
\* directory that holds a release has a SHA256SUMS that lists itself (README,
\* section 5).
FinishedReleaseVerifies == Finished /\ Undisturbed => Verifies
=============================================================================
