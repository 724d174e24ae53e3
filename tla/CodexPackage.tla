----------------------------- MODULE CodexPackage -----------------------------
(***************************************************************************)
(* scripts/build_codex_package.py: packagers that fetch the V8 pair, rg    *)
(* and zsh through caches under $TMPDIR/codex-package, run cargo, and make *)
(* a package directory and its archive.  The caches have fixed file names  *)
(* and no lock, so packagers of one target meet in them; a packager may    *)
(* die at any step, and the next one finds what it left.                   *)
(*                                                                         *)
(* A file is "right" when it is what the manifest or the checksums ask     *)
(* for, "other" when it is intact but of another version, else "broken".   *)
(* It is identified by its name until it is unlinked or replaced; an open  *)
(* handle follows it.  The V8 archive and its binding, fetched alike one   *)
(* after the other, are one item.  External: the network, cargo, and       *)
(* whoever kills a packager.                                               *)
(***************************************************************************)
EXTENDS Naturals, Sequences

CONSTANTS Packagers,
          Systems,      \* of the targets: "linux", "mac", "windows"
          Jobs,         \* the options packagers are called with
          MaxRuns,      \* calls of the packager
          MaxFaults     \* kills, failures of the network and of cargo, new manifests

Parts == {"host", "bwrap", "runner", "setup"}
Variants == {"codex", "codex-app-server"}
ASSUME Options == /\ Systems \subseteq {"linux", "mac", "windows"}
                  /\ Jobs \subseteq [variant : Variants, force : BOOLEAN, archive : BOOLEAN,
                                     given : SUBSET (Parts \cup {"entrypoint"})]
                  /\ Jobs # {}
                  /\ MaxRuns \in Nat /\ MaxFaults \in Nat

V8 == {"sums", "v8"}
DotSlash == {"rg", "zsh"}
Items == V8 \cup DotSlash
Names == (Items \X {"file", "tmp"}) \cup (DotSlash \X {"dest"})
Gone == <<"gone", "gone">>   \* no file, or none with a name any more
Held(content) == <<"held", content>>
Entries == Variants \cup Parts \cup {"rg", "zsh", "json"}

VARIABLES system,    \* of the target all of them package
          data,      \* per name in the caches: "none", "broken", "other", "right"
          task,      \* per packager, where it is
          dir,       \* per packager, its package directory
          archive,   \* per packager, the entries of its archive
          runs, faults
vars == <<system, data, task, dir, archive, runs, faults>>
outputs == <<dir, archive>>

Off == [at |-> "off", plan |-> <<>>, job |-> CHOOSE j \in Jobs : TRUE, out |-> Gone, torn |-> FALSE,
        src |-> Gone, built |-> "right", alone |-> TRUE, trouble |-> FALSE]
Empty == [e \in Entries |-> "none"]
HalfWritten == [e \in Entries |-> "broken"]
Init == /\ system \in Systems
        /\ data = [n \in Names |-> "none"]
        /\ task = [p \in Packagers |-> Off]
        /\ dir = [p \in Packagers |-> Empty]
        /\ archive = [p \in Packagers |-> Empty]
        /\ runs = 0 /\ faults = 0

Ended == {"off", "killed", "failed", "refused", "done"}
Running(p) == task[p].at \notin Ended
Item(p) == Head(task[p].plan)
Name(p, slot) == <<Item(p), slot>>
To(p, where) == task' = [task EXCEPT ![p].at = where]
NextItem(p) == task' = [task EXCEPT ![p].at = "check", ![p].plan = Tail(@), ![p].src = Gone]
Fault == faults < MaxFaults /\ faults' = faults + 1
Troubled(p) == [task[p] EXCEPT !.trouble = TRUE, !.out = Gone, !.torn = FALSE]
Trouble(p, where) == task' = [task EXCEPT ![p] = [Troubled(p) EXCEPT !.at = where]]
Quiet == UNCHANGED <<system, outputs, runs>>
Aside == Quiet /\ UNCHANGED faults

-----------------------------------------------------------------------------
(* Files: what a handle refers to when its file is renamed or unlinked.    *)

\* Faulty: a handle stays with the name.
FollowNothing(t, x, y) == t
Follow(t, x, y) == [t EXCEPT !.out = IF @ = x THEN y ELSE IF @ = y THEN Gone ELSE @,
                             !.src = IF @ \in {x, y} \cap Names THEN Held(data[@]) ELSE @]
Rename(p, x, y, where) ==
    /\ data' = [n \in Names |-> IF n = y THEN data[x] ELSE IF n = x THEN "none" ELSE data[n]]
    /\ task' = [q \in Packagers |-> [Follow(task[q], x, y) EXCEPT !.at = IF q = p THEN where ELSE @]]
Unlink(p, x, where) == Rename(p, x, Gone, where)
\* open(x, "wb") empties a file that is there, also for those that are writing it.
Truncate(p, x, where) ==
    /\ data' = [data EXCEPT ![x] = "broken"]
    /\ task' = [q \in Packagers |-> IF q = p
                  THEN [task[p] EXCEPT !.at = where, !.out = x, !.torn = FALSE]
                  ELSE [task[q] EXCEPT !.torn = @ \/ (task[q].out = x)]]
\* What p writes is whole unless somebody has truncated it in between.  Then the
\* handle is closed.
Put(p, content, t, where) ==
    LET x == task[p].out
    IN /\ IF x = Gone THEN UNCHANGED data
          ELSE \E c \in {content} \cup (IF task[p].torn /\ data[x] = "broken" THEN {"broken"} ELSE {}) :
                  data' = [data EXCEPT ![x] = c]
       /\ task' = [task EXCEPT ![p] = [t EXCEPT !.at = where, !.out = Gone, !.torn = FALSE]]

-----------------------------------------------------------------------------
(* main: the options, and what they make it do.                            *)

\* validate_prebuilt_resource_inputs.
Unsupported(job) == \/ "bwrap" \in job.given /\ system # "linux"
                    \/ job.given \cap {"runner", "setup"} # {} /\ system # "windows"
\* source_binaries_for_target.
Sources(job) == ({"entrypoint", "host"} \cup (IF system = "linux" THEN {"bwrap"} ELSE {})
                    \cup (IF system = "windows" THEN {"runner", "setup"} ELSE {})) \ job.given
FetchesV8(job) == system # "windows" /\ Sources(job) \cap {"entrypoint", "host"} # {}
\* The zsh manifest has no Windows platforms.
HasZsh == system # "windows"
Plan(job) == (IF FetchesV8(job) THEN <<"sums", "v8">> ELSE <<>>)
             \o (IF Sources(job) # {} THEN <<"cargo">> ELSE <<>>)
             \o <<"rg">> \o (IF HasZsh THEN <<"zsh">> ELSE <<>>)

Begin(p, job) ==
    /\ ~Running(p)
    /\ runs < MaxRuns
    /\ runs' = runs + 1
    /\ task' = [q \in Packagers |->
                  IF q = p THEN [Off EXCEPT !.at = IF Unsupported(job) THEN "refused" ELSE "check",
                                            !.plan = Plan(job), !.job = job,
                                            !.alone = \A r \in Packagers \ {p} : ~Running(r)]
                  ELSE [task[q] EXCEPT !.alone = @ /\ ~Running(q)]]
    /\ UNCHANGED <<system, data, outputs, faults>>

\* cargo build reads the V8 pair it was given the paths of.
Cargo(p) ==
    /\ task[p].at = "check" /\ task[p].plan # <<>> /\ Item(p) = "cargo"
    /\ \/ /\ LET content == IF FetchesV8(task[p].job) THEN data[<<"v8", "file">>] ELSE "right"
             IN IF content \in {"none", "broken"} THEN To(p, "failed")
                ELSE task' = [task EXCEPT ![p].at = "check", ![p].plan = Tail(@), ![p].built = content]
          /\ UNCHANGED faults
       \/ Fault /\ Trouble(p, "failed")
    /\ Quiet /\ UNCHANGED data

-----------------------------------------------------------------------------
(* fetch_dotslash_executable and fetch_codex_v8_artifacts.                 *)

AtItem(p, where) == task[p].at = where /\ task[p].plan # <<>> /\ Item(p) \in Items
\* Faulty: an archive that is there is taken without a look at its digest.
CheckExists(p) ==
    /\ AtItem(p, "check")
    /\ To(p, IF Item(p) = "sums" THEN "clear"
             ELSE IF data[Name(p, "file")] # "none" THEN "fetched" ELSE "discard")
    /\ Aside /\ UNCHANGED data
\* Faulty: a cached archive that does not verify is an error.
CheckRaises(p) ==
    /\ AtItem(p, "check")
    /\ To(p, IF Item(p) = "sums" THEN "clear"
             ELSE CASE data[Name(p, "file")] = "right" -> "fetched"
                    [] data[Name(p, "file")] = "none" -> "clear"
                    [] OTHER -> "failed")
    /\ Aside /\ UNCHANGED data
\* archive_is_valid and has_checksum.  The checksums are always downloaded; an
\* archive that is not there is not unlinked, a V8 file is all the same.
Check(p) ==
    /\ AtItem(p, "check")
    /\ To(p, IF Item(p) = "sums" THEN "clear"
             ELSE CASE data[Name(p, "file")] = "right" -> "fetched"
                    [] data[Name(p, "file")] = "none" /\ Item(p) \in DotSlash -> "clear"
                    [] OTHER -> "discard")
    /\ Aside /\ UNCHANGED data
Discard(p) == AtItem(p, "discard") /\ Unlink(p, Name(p, "file"), "clear") /\ Aside

\* download_archive and download_file: unlink, open, write, replace, unlink.
ClearTmp(p) == AtItem(p, "clear") /\ Unlink(p, Name(p, "tmp"), "open") /\ Aside
OpenTmp(p) ==
    /\ AtItem(p, "open")
    /\ \/ Truncate(p, Name(p, "tmp"), "write") /\ UNCHANGED faults
       \/ Fault /\ Trouble(p, "abort") /\ UNCHANGED data
    /\ Quiet
Download(p) ==
    /\ AtItem(p, "write")
    /\ \/ Put(p, "right", task[p], "replace") /\ UNCHANGED faults
       \/ /\ Fault
          /\ \E content \in {"broken", "other"} : Put(p, content, [task[p] EXCEPT !.trouble = TRUE], "replace")
       \/ Fault /\ Trouble(p, "abort") /\ UNCHANGED data
    /\ Quiet
Replace(p) ==
    /\ AtItem(p, "replace")
    /\ IF data[Name(p, "tmp")] = "none" THEN To(p, "abort") /\ UNCHANGED data
       ELSE Rename(p, Name(p, "tmp"), Name(p, "file"), "cleanup")
    /\ Aside
\* finally: whatever has the temporary name.
Cleanup(p) ==
    /\ AtItem(p, "cleanup") \/ AtItem(p, "abort")
    /\ Unlink(p, Name(p, "tmp"), IF task[p].at = "abort" THEN "failed" ELSE "verify")
    /\ Aside
\* verify_archive, has_checksum again, load_checksums.  (Checksums of another version
\* are refused here; in the code the two files checked against them are, just after.)
Verify(p) ==
    /\ AtItem(p, "verify")
    /\ To(p, IF data[Name(p, "file")] = "right" THEN "fetched"
             ELSE IF Item(p) = "sums" \/ (data[Name(p, "file")] = "none" /\ Item(p) \in DotSlash) THEN "failed"
             ELSE "reject")
    /\ Aside /\ UNCHANGED data
Reject(p) == AtItem(p, "reject") /\ Unlink(p, Name(p, "file"), "failed") /\ Aside
Fetched(p) ==
    /\ AtItem(p, "fetched")
    /\ IF Item(p) \in V8 THEN NextItem(p) /\ UNCHANGED data
       ELSE Unlink(p, Name(p, "dest"), "source")
    /\ Aside

\* extract_archive_member opens the archive anew, by its name, and dest.stat
\* follows, which for a Windows target nobody calls.
OpenArchive(p) ==
    /\ AtItem(p, "source")
    /\ IF data[Name(p, "file")] \in {"right", "other"}
       THEN task' = [task EXCEPT ![p].at = "dest", ![p].src = Name(p, "file")]
       ELSE To(p, "failed")
    /\ Aside /\ UNCHANGED data
OpenDest(p) == AtItem(p, "dest") /\ Truncate(p, Name(p, "dest"), "extract") /\ Aside
Extract(p) ==
    /\ AtItem(p, "extract")
    /\ LET content == IF task[p].src \in Names THEN data[task[p].src] ELSE task[p].src[2]
       IN Put(p, content, task[p], IF content = "broken" THEN "failed" ELSE "chmod")
    /\ Aside
Chmod(p) ==
    /\ AtItem(p, "chmod")
    /\ IF system # "windows" /\ data[Name(p, "dest")] = "none" THEN To(p, "failed") ELSE NextItem(p)
    /\ Aside /\ UNCHANGED data

-----------------------------------------------------------------------------
(* The package directory and the archive.                                  *)

AtPlace(p, where) == task[p].at = where /\ UNCHANGED <<system, data, runs, faults>>
\* build_package_dir, in its order.
Copies(job) == <<job.variant, "host", "rg">> \o (IF HasZsh THEN <<"zsh">> ELSE <<>>)
                 \o (IF system = "linux" THEN <<"bwrap">> ELSE <<>>)
                 \o (IF system = "windows" THEN <<"runner", "setup">> ELSE <<>>) \o <<"json">>
Prepare(p) ==
    /\ AtPlace(p, "check") /\ task[p].plan = <<>>
    /\ IF dir[p] # Empty /\ ~task[p].job.force
       THEN To(p, "refused") /\ UNCHANGED dir
       ELSE /\ dir' = [dir EXCEPT ![p] = Empty]
            /\ task' = [task EXCEPT ![p].at = "copy", ![p].plan = Copies(task[p].job)]
    /\ UNCHANGED archive
Copy(p) ==
    /\ AtPlace(p, "copy") /\ task[p].plan # <<>>
    /\ LET content == CASE Item(p) \in DotSlash -> data[Name(p, "dest")]
                         [] Item(p) = task[p].job.variant /\ "entrypoint" \notin task[p].job.given -> task[p].built
                         [] Item(p) = "host" /\ "host" \notin task[p].job.given -> task[p].built
                         [] OTHER -> "right"
       IN IF content = "none" THEN To(p, "failed") /\ UNCHANGED dir
          ELSE /\ dir' = [dir EXCEPT ![p][Item(p)] = content]
               /\ task' = [task EXCEPT ![p].plan = Tail(@)]
    /\ UNCHANGED archive
\* validate_package_dir.
Required(job) == {job.variant, "host", "rg", "json"} \cup (IF HasZsh THEN {"zsh"} ELSE {})
                   \cup (IF system = "linux" THEN {"bwrap"} ELSE {})
                   \cup (IF system = "windows" THEN {"runner", "setup"} ELSE {})
Validate(p) ==
    /\ AtPlace(p, "copy") /\ task[p].plan = <<>>
    /\ To(p, IF \E e \in Required(task[p].job) : dir[p][e] = "none" THEN "failed"
             ELSE IF task[p].job.archive THEN "pack" ELSE "done")
    /\ UNCHANGED outputs
\* Faulty: --force writes into the archive that is there.
PackOver(p) ==
    /\ AtPlace(p, "pack")
    /\ IF archive[p] # Empty
       THEN To(p, IF task[p].job.force THEN "done" ELSE "refused") /\ UNCHANGED archive
       ELSE archive' = [archive EXCEPT ![p] = HalfWritten] /\ To(p, "compress")
    /\ UNCHANGED dir
\* write_archive writes under the final name.
Pack(p) ==
    /\ AtPlace(p, "pack")
    /\ IF archive[p] # Empty /\ ~task[p].job.force
       THEN To(p, "refused") /\ UNCHANGED archive
       ELSE archive' = [archive EXCEPT ![p] = HalfWritten] /\ To(p, "compress")
    /\ UNCHANGED dir
Compress(p) ==
    /\ AtPlace(p, "compress")
    /\ archive' = [archive EXCEPT ![p] = dir[p]]
    /\ To(p, "done")
    /\ UNCHANGED dir

-----------------------------------------------------------------------------
Kill(p) ==
    /\ Running(p)
    /\ Fault
    /\ task' = [task EXCEPT ![p] = [Off EXCEPT !.at = "killed"]]
    /\ UNCHANGED <<system, data, outputs, runs>>
\* A new manifest or V8 version: what is cached is what the old one asked for.
NewManifest ==
    /\ \A p \in Packagers : ~Running(p)
    /\ Fault
    /\ data' = [n \in Names |-> IF data[n] = "right" THEN "other" ELSE data[n]]
    /\ UNCHANGED <<system, task, outputs, runs>>

Step(p) == \/ Cargo(p) \/ Check(p) \/ Discard(p) \/ ClearTmp(p) \/ OpenTmp(p) \/ Download(p) \/ Replace(p)
           \/ Cleanup(p) \/ Verify(p) \/ Reject(p) \/ Fetched(p)
           \/ OpenArchive(p) \/ OpenDest(p) \/ Extract(p) \/ Chmod(p)
           \/ Prepare(p) \/ Copy(p) \/ Validate(p) \/ Pack(p) \/ Compress(p)
Next == \/ \E p \in Packagers : (\E job \in Jobs : Begin(p, job)) \/ Step(p) \/ Kill(p)
        \/ NewManifest
Spec == Init /\ [][Next]_vars

-----------------------------------------------------------------------------
(* Properties.                                                             *)

Content == {"none", "broken", "other", "right"}
\* Every variable holds a value of its type; a handle is open while it is written to,
\* and what it refers to by name is there.
TypeOK ==
    /\ system \in Systems
    /\ data \in [Names -> Content]
    /\ \A p \in Packagers :
          /\ task[p].job \in Jobs
          /\ \/ task[p].out = Gone
             \/ /\ task[p].at \in {"write", "extract"} /\ task[p].out \in Names
                /\ data[task[p].out] # "none"
          /\ task[p].built \in Content \ {"none", "broken"}
          /\ task[p].src \in Names \cup {Gone} \cup {Held(c) : c \in Content}
          /\ {task[p].torn, task[p].alone, task[p].trouble} \subseteq BOOLEAN
          /\ {dir[p], archive[p]} \subseteq [Entries -> Content]
    /\ runs \in 0..MaxRuns /\ faults \in 0..MaxFaults

\* A packager that had the caches to itself ends with exactly the package it was asked
\* for, each file whole and verified, and no file of an earlier one, whatever killed
\* packagers, older manifests and packagers that got in each other's way have left in
\* the caches, the directory and the archive.
LonePackageIsRight == \A p \in Packagers :
    task[p].at = "done" /\ task[p].alone =>
        /\ dir[p] = [e \in Entries |-> IF e \in Required(task[p].job) THEN "right" ELSE "none"]
        /\ task[p].job.archive => archive[p] = dir[p]

\* Such a packager fails only when the network or cargo does: nothing that is left in
\* the caches makes it fail, nor does it refuse what it has built.
LoneFailureHasACause == \A p \in Packagers :
    task[p].at = "failed" /\ task[p].alone => task[p].trouble

\* _validate_codex_package_layout and bundled_codex_path of the runtime wheel.
StagesAsRuntime(entries) == \A e \in {"json", "codex", "host"} : entries[e] # "none"
\* The archive of a packager that has finished a codex package can be staged as the
\* runtime wheel, also when packagers overlapped.
RuntimeTakesThePackage == \A p \in Packagers :
    /\ task[p].at = "done" /\ task[p].job.variant = "codex" /\ task[p].job.archive
    => archive[p] # HalfWritten /\ StagesAsRuntime(archive[p])
=============================================================================
