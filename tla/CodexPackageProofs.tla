-------------------------- MODULE CodexPackageProofs --------------------------
(***************************************************************************)
(* What CodexPackage promises of packagers, for any number of them, any    *)
(* options and targets, and any number of calls and faults.                *)
(***************************************************************************)
EXTENDS CodexPackage, TLAPS

-----------------------------------------------------------------------------
(* Types, and what open files refer to.                                    *)

FetchPlaces == {"check", "discard", "clear", "open", "write", "replace", "cleanup", "abort", "verify",
                "reject", "fetched", "source", "dest", "extract", "chmod"}
PackPlaces == {"copy", "pack", "compress"}
Places == Ended \cup FetchPlaces \cup PackPlaces
Sourced == {Held(c) : c \in Content \ {"none"}}
Steps == Items \cup {"cargo"} \cup Entries
Tasks == [at : Places, plan : Seq(Steps), job : Jobs, out : Names \cup {Gone}, torn : BOOLEAN,
          src : Names \cup {Gone} \cup Sourced, built : {"other", "right"}, alone : BOOLEAN, trouble : BOOLEAN]
Typed == /\ system \in Systems
         /\ data \in [Names -> Content]
         /\ task \in [Packagers -> Tasks]
         /\ dir \in [Packagers -> [Entries -> Content]]
         /\ archive \in [Packagers -> [Entries -> Content]]
         /\ runs \in 0..MaxRuns /\ faults \in 0..MaxFaults
\* What a task has open is there; only what it extracts is open for reading.
Holding(d, t) == /\ t.out # Gone => t.at \in {"write", "extract"} /\ d[t.out] # "none"
                 /\ t.src \in Names => d[t.src] # "none"
                 /\ t.at \in {"dest", "extract"} => t.src # Gone
                 /\ t.at \in {"source", "dest", "extract", "chmod"} => t.plan # <<>> /\ Head(t.plan) \in DotSlash
Handles == \A p \in Packagers : Holding(data, task[p])
Types == Typed /\ Handles

-----------------------------------------------------------------------------
(* The outputs: what a packager has written itself, whoever else runs.     *)

Complete(p) == \A e \in Required(task[p].job) : dir[p][e] # "none"
WrittenBy(p) == /\ dir[p]["json"] \in {"none", "right"}
                /\ task[p].at \in {"pack", "compress"} => task[p].job.archive /\ Complete(p)
                /\ task[p].at = "done" /\ task[p].job.archive => archive[p] = dir[p] /\ Complete(p)
Written == \A p \in Packagers : WrittenBy(p)

-----------------------------------------------------------------------------
(* A packager that has the caches to itself.                               *)

Lone(p) == task[p].alone /\ Running(p)
\* How much of plan s task t has done, and that the rest is what is left of it.
Past(s, t) == Len(s) - Len(t.plan)
OnPlan(s, t) == /\ Past(s, t) \in Nat
                /\ \A j \in 1..Len(t.plan) : t.plan[j] = s[Past(s, t) + j]
\* What has been fetched is right.
Ready(d, item) == /\ item = "v8" => d[<<"v8", "file">>] = "right"
                  /\ item \in DotSlash => d[<<item, "dest">>] = "right"
PastIsReady(d, s, t) == \A i \in 1..Past(s, t) : Ready(d, s[i])
\* What the step that follows finds in the caches.
Fetching(d, t) ==
    LET Own(slot) == <<Head(t.plan), slot>>
    IN /\ t.at # "check" => t.plan # <<>> /\ Head(t.plan) \in Items
       /\ t.at \in {"abort", "reject"} => t.trouble
       /\ t.at = "write" => t.out = Own("tmp")
       /\ t.at = "replace" => d[Own("tmp")] # "none" /\ (d[Own("tmp")] = "right" \/ t.trouble)
       /\ t.at \in {"cleanup", "verify"} => d[Own("file")] = "right" \/ t.trouble
       /\ t.at \in {"fetched", "source", "dest", "extract"} => d[Own("file")] = "right"
       /\ t.at \in {"dest", "extract"} => t.src = Own("file")
       /\ t.at = "extract" => t.out = Own("dest")
       /\ t.at = "chmod" => d[Own("dest")] = "right"
\* The package directory holds what has been copied.
Packing(c, s, t) ==
    /\ \A e \in Entries : c[e] = IF \E i \in 1..Past(s, t) : s[i] = e THEN "right" ELSE "none"
    /\ t.at # "copy" => t.plan = <<>>
Undisturbed(p) == Lone(p) =>
    /\ \A q \in Packagers \ {p} : ~Running(q)
    /\ ~task[p].torn /\ task[p].built = "right"
    /\ task[p].at \in FetchPlaces => /\ OnPlan(Plan(task[p].job), task[p])
                                     /\ PastIsReady(data, Plan(task[p].job), task[p])
                                     /\ Fetching(data, task[p])
    /\ task[p].at \in PackPlaces => /\ OnPlan(Copies(task[p].job), task[p])
                                    /\ Packing(dir[p], Copies(task[p].job), task[p])
                                    /\ Ready(data, "rg") /\ (HasZsh => Ready(data, "zsh"))
IInv == /\ Types /\ Written /\ \A p \in Packagers : Undisturbed(p)
        /\ LonePackageIsRight /\ LoneFailureHasACause

-----------------------------------------------------------------------------
(* Names, options and plans.                                               *)

LEMMA Distinct ==
  /\ Gone \notin Names /\ Gone \notin Sourced
  /\ \A h \in Sourced : h \notin Names /\ h[2] \in Content \ {"none"}
  /\ \A item \in Items : <<item, "file">> \in Names /\ <<item, "tmp">> \in Names
  /\ \A item \in DotSlash : <<item, "dest">> \in Names /\ item \in Items
  BY DEF Gone, Names, Items, V8, DotSlash, Sourced, Held, Content

LEMMA JobTypes ==
  /\ \A job \in Jobs : /\ job.variant \in Variants /\ job.archive \in BOOLEAN /\ job.force \in BOOLEAN
                       /\ job.given \subseteq Parts \cup {"entrypoint"}
  /\ Off.job \in Jobs
  BY Options DEF Off

\* What the checksums, the caches and cargo are asked for, in this order and once.
Once(s) == \A i, j \in 1..Len(s) : s[i] = s[j] => i = j
LEMMA Plans ==
  ASSUME NEW job \in Jobs
  PROVE  /\ Plan(job) \in Seq(Items \cup {"cargo"})
         /\ Once(Plan(job))
         /\ \A i \in 1..Len(Plan(job)) :
               Plan(job)[i] = "cargo" /\ FetchesV8(job) => \E j \in 1..(i - 1) : Plan(job)[j] = "v8"
         /\ \E i \in 1..Len(Plan(job)) : Plan(job)[i] = "rg"
         /\ HasZsh => \E i \in 1..Len(Plan(job)) : Plan(job)[i] = "zsh"
  <1> DEFINE s == Plan(job)
  <1>1. CASE FetchesV8(job) /\ Sources(job) # {} /\ HasZsh
    <2>1. /\ s \in Seq(Items \cup {"cargo"}) /\ Len(s) = 5
          /\ s[1] = "sums" /\ s[2] = "v8" /\ s[3] = "cargo" /\ s[4] = "rg" /\ s[5] = "zsh"
      BY <1>1 DEF Plan, Items, V8, DotSlash
    <2> QED BY <1>1, <2>1 DEF Items, V8, DotSlash, Once
  <1>2. CASE ~FetchesV8(job) /\ Sources(job) # {} /\ HasZsh
    <2>1. /\ s \in Seq(Items \cup {"cargo"}) /\ Len(s) = 3
          /\ s[1] = "cargo" /\ s[2] = "rg" /\ s[3] = "zsh"
      BY <1>2 DEF Plan, Items, V8, DotSlash
    <2> QED BY <1>2, <2>1 DEF Items, V8, DotSlash, Once
  <1>3. CASE ~FetchesV8(job) /\ Sources(job) # {} /\ ~HasZsh
    <2>1. /\ s \in Seq(Items \cup {"cargo"}) /\ Len(s) = 2
          /\ s[1] = "cargo" /\ s[2] = "rg"
      BY <1>3 DEF Plan, Items, V8, DotSlash
    <2> QED BY <1>3, <2>1 DEF Items, V8, DotSlash, Once
  <1>4. CASE ~FetchesV8(job) /\ Sources(job) = {} /\ HasZsh
    <2>1. /\ s \in Seq(Items \cup {"cargo"}) /\ Len(s) = 2
          /\ s[1] = "rg" /\ s[2] = "zsh"
      BY <1>4 DEF Plan, Items, V8, DotSlash
    <2> QED BY <1>4, <2>1 DEF Items, V8, DotSlash, Once
  <1>5. CASE ~FetchesV8(job) /\ Sources(job) = {} /\ ~HasZsh
    <2>1. /\ s \in Seq(Items \cup {"cargo"}) /\ Len(s) = 1
          /\ s[1] = "rg"
      BY <1>5 DEF Plan, Items, V8, DotSlash
    <2> QED BY <1>5, <2>1 DEF Items, V8, DotSlash, Once
  <1>6. FetchesV8(job) => Sources(job) # {} /\ HasZsh
    BY DEF FetchesV8, HasZsh
  <1> QED BY <1>1, <1>2, <1>3, <1>4, <1>5, <1>6

\* The entries of a package are copied in an order that has each of those required.
LEMMA Copied ==
  ASSUME NEW job \in Jobs
  PROVE  /\ Copies(job) \in Seq(Entries)
         /\ \A e \in Entries : (\E i \in 1..Len(Copies(job)) : Copies(job)[i] = e) <=> e \in Required(job)
  <1> DEFINE s == Copies(job)
  <1>0. job.variant \in Entries
    BY JobTypes DEF Entries
  <1>1. CASE system = "linux"
    <2>1. /\ s \in Seq(Entries) /\ Len(s) = 6
          /\ s[1] = job.variant /\ s[2] = "host" /\ s[3] = "rg" /\ s[4] = "zsh" /\ s[5] = "bwrap" /\ s[6] = "json"
      BY <1>0, <1>1 DEF Copies, HasZsh, Entries, Parts
    <2>2. Required(job) = {job.variant, "host", "rg", "json", "zsh", "bwrap"}
      BY <1>1 DEF Required, HasZsh
    <2> QED BY <1>0, <2>1, <2>2 DEF Entries, Parts
  <1>2. CASE system = "windows"
    <2>1. /\ s \in Seq(Entries) /\ Len(s) = 6
          /\ s[1] = job.variant /\ s[2] = "host" /\ s[3] = "rg" /\ s[4] = "runner" /\ s[5] = "setup" /\ s[6] = "json"
      BY <1>0, <1>2 DEF Copies, HasZsh, Entries, Parts
    <2>2. Required(job) = {job.variant, "host", "rg", "json", "runner", "setup"}
      BY <1>2 DEF Required, HasZsh
    <2> QED BY <1>0, <2>1, <2>2 DEF Entries, Parts
  <1>3. CASE system # "linux" /\ system # "windows"
    <2>1. /\ s \in Seq(Entries) /\ Len(s) = 5
          /\ s[1] = job.variant /\ s[2] = "host" /\ s[3] = "rg" /\ s[4] = "zsh" /\ s[5] = "json"
      BY <1>0, <1>3 DEF Copies, HasZsh, Entries, Parts
    <2>2. Required(job) = {job.variant, "host", "rg", "json", "zsh"}
      BY <1>3 DEF Required, HasZsh
    <2> QED BY <1>0, <2>1, <2>2 DEF Entries, Parts
  <1> QED BY <1>1, <1>2, <1>3

-----------------------------------------------------------------------------
(* What the file operations do to the tasks.                               *)

\* All that does not change when files are renamed, emptied or written.
Kept(t, u) == /\ u.plan = t.plan /\ u.job = t.job /\ u.built = t.built /\ u.alone = t.alone

LEMMA FollowTypes ==
  ASSUME Types, NEW t \in Tasks, Holding(data, t), NEW x \in Names, NEW y \in Names \cup {Gone}, NEW where \in Places
  PROVE  LET u == [Follow(t, x, y) EXCEPT !.at = where]
         IN /\ u \in Tasks /\ Kept(t, u) /\ u.at = where /\ u.torn = t.torn /\ u.trouble = t.trouble
            /\ u.out = IF t.out = x THEN y ELSE IF t.out = y THEN Gone ELSE t.out
            /\ u.src = IF t.src \in {x, y} \cap Names THEN Held(data[t.src]) ELSE t.src
  <1>1. PICK o \in Names \cup {Gone} : o = IF t.out = x THEN y ELSE IF t.out = y THEN Gone ELSE t.out
    BY DEF Tasks
  <1>2. PICK r \in Names \cup {Gone} \cup Sourced :
           r = IF t.src \in {x, y} \cap Names THEN Held(data[t.src]) ELSE t.src
    <2>1. t.src \in Names => data[t.src] \in Content \ {"none"}
      BY DEF Types, Typed, Holding
    <2>2. t.src \in Names => Held(data[t.src]) \in Sourced
      BY <2>1 DEF Sourced
    <2> QED BY <2>2 DEF Tasks
  <1>3. [Follow(t, x, y) EXCEPT !.at = where] = [t EXCEPT !.out = o, !.src = r, !.at = where]
    BY <1>1, <1>2 DEF Follow, Tasks
  <1> DEFINE u == [t EXCEPT !.out = o, !.src = r, !.at = where]
  <1>4. u \in Tasks
    BY DEF Tasks
  <1>5. /\ Kept(t, u) /\ u.at = where /\ u.torn = t.torn /\ u.trouble = t.trouble
        /\ u.out = o /\ u.src = r
    BY DEF Tasks, Kept
  <1> QED BY <1>1, <1>2, <1>3, <1>4, <1>5

LEMMA Renaming ==
  ASSUME Types, NEW p \in Packagers, NEW x \in Names, NEW y \in Names \cup {Gone}, NEW where \in Places,
         Rename(p, x, y, where)
  PROVE  /\ data' \in [Names -> Content]
         /\ \A n \in Names : data'[n] = IF n = y THEN data[x] ELSE IF n = x THEN "none" ELSE data[n]
         /\ task' \in [Packagers -> Tasks]
         /\ \A q \in Packagers :
               /\ Kept(task[q], task'[q]) /\ task'[q].torn = task[q].torn /\ task'[q].trouble = task[q].trouble
               /\ task'[q].at = IF q = p THEN where ELSE task[q].at
               /\ task'[q].out = IF task[q].out = x THEN y ELSE IF task[q].out = y THEN Gone ELSE task[q].out
               /\ task'[q].src = IF task[q].src \in {x, y} \cap Names THEN Held(data[task[q].src]) ELSE task[q].src
  <1>1. /\ data' \in [Names -> Content]
        /\ \A n \in Names : data'[n] = IF n = y THEN data[x] ELSE IF n = x THEN "none" ELSE data[n]
    BY DEF Rename, Types, Typed, Content
  <1>2. ASSUME NEW q \in Packagers
        PROVE  /\ task'[q] \in Tasks
               /\ Kept(task[q], task'[q]) /\ task'[q].torn = task[q].torn /\ task'[q].trouble = task[q].trouble
               /\ task'[q].at = IF q = p THEN where ELSE task[q].at
               /\ task'[q].out = IF task[q].out = x THEN y ELSE IF task[q].out = y THEN Gone ELSE task[q].out
               /\ task'[q].src = IF task[q].src \in {x, y} \cap Names THEN Held(data[task[q].src]) ELSE task[q].src
    <2>1. task[q] \in Tasks /\ Holding(data, task[q])
      BY DEF Types, Typed, Handles
    <2>2. PICK w \in Places : w = IF q = p THEN where ELSE task[q].at
      BY <2>1 DEF Tasks
    <2>3. Follow(task[q], x, y).at = task[q].at
      BY <2>1 DEF Follow, Tasks
    <2>4. task'[q] = [Follow(task[q], x, y) EXCEPT !.at = w]
      BY <2>2, <2>3 DEF Rename
    <2> QED BY <2>1, <2>2, <2>4, FollowTypes
  <1>3. task' \in [Packagers -> Tasks]
    BY <1>2 DEF Rename
  <1> QED BY <1>1, <1>2, <1>3

LEMMA RenameTypes ==
  ASSUME Types, NEW p \in Packagers, NEW x \in Names, NEW y \in Names \cup {Gone},
         NEW where \in Places \ {"write", "extract", "dest", "chmod"}, Rename(p, x, y, where),
         task[p].at \notin {"write", "extract"}, x # y,
         y \in Names => data[x] # "none",
         where = "source" => task[p].plan # <<>> /\ Head(task[p].plan) \in DotSlash,
         Quiet, faults' \in 0..MaxFaults
  PROVE  Types'
  <1>1. data' \in [Names -> Content] /\ task' \in [Packagers -> Tasks]
    BY Renaming
  <1>2. Typed'
    BY <1>1 DEF Quiet, outputs, Types, Typed
  <1>3. ASSUME NEW q \in Packagers PROVE Holding(data', task'[q])
    <2>1. task[q] \in Tasks /\ Holding(data, task[q]) /\ Holding(data, task[p])
      BY DEF Types, Typed, Handles
    <2>2. task[q].out \in Names \cup {Gone} /\ task[q].src \in Names \cup {Gone} \cup Sourced
      BY <2>1 DEF Tasks
    <2>3. \A n \in Names : data'[n] = IF n = y THEN data[x] ELSE IF n = x THEN "none" ELSE data[n]
      BY Renaming
    <2>4. task'[q].out = IF task[q].out = x THEN y ELSE IF task[q].out = y THEN Gone ELSE task[q].out
      BY Renaming
    <2>5. task'[q].src = IF task[q].src \in {x, y} \cap Names THEN Held(data[task[q].src]) ELSE task[q].src
      BY Renaming
    <2>6. task'[q].at = (IF q = p THEN where ELSE task[q].at) /\ task'[q].plan = task[q].plan
      BY Renaming DEF Kept
    <2>7. task'[q].out # Gone => task'[q].at \in {"write", "extract"} /\ data'[task'[q].out] # "none"
      BY <2>1, <2>2, <2>3, <2>4, <2>6, Distinct DEF Holding
    <2>8. Held(data[task[q].src]) \notin Names \cup {Gone}
      BY DEF Held, Names, Gone, Items, V8, DotSlash
    <2>9. task'[q].src \in Names => data'[task'[q].src] # "none"
      BY <2>1, <2>2, <2>3, <2>5, <2>8, Distinct DEF Holding
    <2>10. task'[q].at \in {"dest", "extract"} => task'[q].src # Gone
      BY <2>1, <2>5, <2>6, <2>8 DEF Holding
    <2>11. task'[q].at \in {"source", "dest", "extract", "chmod"} => task'[q].plan # <<>> /\ Head(task'[q].plan) \in DotSlash
      BY <2>1, <2>6 DEF Holding
    <2> QED BY <2>7, <2>9, <2>10, <2>11 DEF Holding
  <1> QED BY <1>2, <1>3 DEF Types, Handles

LEMMA Truncating ==
  ASSUME Types, NEW p \in Packagers, NEW x \in Names, NEW where \in Places, Truncate(p, x, where)
  PROVE  /\ data' \in [Names -> Content]
         /\ \A n \in Names : data'[n] = IF n = x THEN "broken" ELSE data[n]
         /\ task' \in [Packagers -> Tasks]
         /\ \A q \in Packagers :
               /\ Kept(task[q], task'[q]) /\ task'[q].src = task[q].src /\ task'[q].trouble = task[q].trouble
               /\ task'[q].at = IF q = p THEN where ELSE task[q].at
               /\ task'[q].out = IF q = p THEN x ELSE task[q].out
               /\ q = p => ~task'[q].torn
  <1>1. /\ data' \in [Names -> Content]
        /\ \A n \in Names : data'[n] = IF n = x THEN "broken" ELSE data[n]
    BY DEF Truncate, Types, Typed, Content
  <1>2. ASSUME NEW q \in Packagers
        PROVE  /\ task'[q] \in Tasks
               /\ Kept(task[q], task'[q]) /\ task'[q].src = task[q].src /\ task'[q].trouble = task[q].trouble
               /\ task'[q].at = IF q = p THEN where ELSE task[q].at
               /\ task'[q].out = IF q = p THEN x ELSE task[q].out
               /\ q = p => ~task'[q].torn
    <2>1. PICK t \in Tasks : t = task[q]
      BY DEF Types, Typed
    <2>2. CASE q = p
      <3>1. task'[q] = [t EXCEPT !.at = where, !.out = x, !.torn = FALSE]
        BY <2>1, <2>2 DEF Truncate
      <3> QED BY <2>1, <2>2, <3>1 DEF Tasks, Kept
    <2>3. CASE q # p
      <3>1. PICK b \in BOOLEAN : b = (t.torn \/ t.out = x)
        BY DEF Tasks
      <3>2. task'[q] = [t EXCEPT !.torn = b]
        BY <2>1, <2>3, <3>1 DEF Truncate
      <3> QED BY <2>1, <2>3, <3>2 DEF Tasks, Kept
    <2> QED BY <2>2, <2>3
  <1>3. task' \in [Packagers -> Tasks]
    BY <1>2 DEF Truncate
  <1> QED BY <1>1, <1>2, <1>3

LEMMA TruncateTypes ==
  ASSUME Types, NEW p \in Packagers, NEW x \in Names, NEW where \in {"write", "extract"}, Truncate(p, x, where),
         where = "extract" => /\ task[p].src # Gone
                              /\ task[p].plan # <<>> /\ Head(task[p].plan) \in DotSlash,
         Quiet, faults' \in 0..MaxFaults
  PROVE  Types'
  <1>1. where \in Places
    BY DEF Places, FetchPlaces
  <1>2. Typed'
    BY <1>1, Truncating DEF Quiet, outputs, Types, Typed
  <1>3. ASSUME NEW q \in Packagers PROVE Holding(data', task'[q])
    <2>1. Holding(data, task[q]) /\ task[q].out \in Names \cup {Gone}
      BY DEF Types, Typed, Handles, Tasks
    <2>2. \A n \in Names : data'[n] = IF n = x THEN "broken" ELSE data[n]
      BY <1>1, Truncating
    <2>3. /\ Kept(task[q], task'[q]) /\ task'[q].src = task[q].src
          /\ task'[q].at = IF q = p THEN where ELSE task[q].at
          /\ task'[q].out = IF q = p THEN x ELSE task[q].out
      BY <1>1, Truncating
    <2> QED BY <2>1, <2>2, <2>3 DEF Holding, Kept
  <1> QED BY <1>2, <1>3 DEF Types, Handles

\* A step that only changes its own task, and no file except those that it writes.
LEMMA OwnTypes ==
  ASSUME Types, NEW p \in Packagers, NEW u \in Tasks, task' = [task EXCEPT ![p] = u],
         data' \in [Names -> Content], \A n \in Names : data[n] # "none" => data'[n] # "none",
         Holding(data', u),
         system' = system, runs' \in 0..MaxRuns, faults' \in 0..MaxFaults,
         dir' \in [Packagers -> [Entries -> Content]], archive' \in [Packagers -> [Entries -> Content]]
  PROVE  Types'
  <1>1. Typed'
    BY DEF Types, Typed
  <1>2. ASSUME NEW q \in Packagers PROVE Holding(data', task'[q])
    <2>1. CASE q = p
      BY <2>1 DEF Types, Typed
    <2>2. CASE q # p
      <3>1. task'[q] = task[q] /\ Holding(data, task[q]) /\ task[q].out \in Names \cup {Gone}
        BY <2>2 DEF Types, Typed, Handles, Tasks
      <3> QED BY <3>1 DEF Holding
    <2> QED BY <2>1, <2>2
  <1> QED BY <1>1, <1>2 DEF Types, Handles

LEMMA Going ==
  ASSUME Types, NEW p \in Packagers, NEW where \in Places, To(p, where)
  PROVE  \E u \in Tasks : /\ task' = [task EXCEPT ![p] = u]
                          /\ Kept(task[p], u) /\ u.at = where /\ u.out = task[p].out /\ u.src = task[p].src
                          /\ u.torn = task[p].torn /\ u.trouble = task[p].trouble
  <1>1. PICK t \in Tasks : t = task[p]
    BY DEF Types, Typed
  <1> DEFINE u == [t EXCEPT !.at = where]
  <1>2. u \in Tasks /\ Kept(t, u) /\ u.at = where /\ u.out = t.out /\ u.src = t.src /\ u.torn = t.torn
        /\ u.trouble = t.trouble
    BY DEF Tasks, Kept
  <1>3. task' = [task EXCEPT ![p] = u]
    BY <1>1 DEF To
  <1> QED BY <1>1, <1>2, <1>3

LEMMA Advancing ==
  ASSUME Types, NEW p \in Packagers, task[p].plan # <<>>, NextItem(p)
  PROVE  \E u \in Tasks : /\ task' = [task EXCEPT ![p] = u]
                          /\ u.plan = Tail(task[p].plan) /\ u.job = task[p].job /\ u.built = task[p].built
                          /\ u.alone = task[p].alone /\ u.at = "check" /\ u.out = task[p].out /\ u.src = Gone
                          /\ u.torn = task[p].torn /\ u.trouble = task[p].trouble
  <1>1. PICK t \in Tasks : t = task[p]
    BY DEF Types, Typed
  <1>2. Tail(t.plan) \in Seq(Steps)
    BY <1>1 DEF Tasks
  <1> DEFINE u == [t EXCEPT !.at = "check", !.plan = Tail(t.plan), !.src = Gone]
  <1>3. u \in Tasks
    BY <1>2 DEF Tasks, Places, FetchPlaces
  <1>4. /\ u.plan = Tail(t.plan) /\ u.job = t.job /\ u.built = t.built /\ u.alone = t.alone /\ u.at = "check"
        /\ u.out = t.out /\ u.src = Gone /\ u.torn = t.torn /\ u.trouble = t.trouble
    BY DEF Tasks
  <1>5. task' = [task EXCEPT ![p] = u]
    BY <1>1 DEF NextItem
  <1> QED BY <1>1, <1>3, <1>4, <1>5

LEMMA Failing ==
  ASSUME Types, NEW p \in Packagers, NEW where \in Places, Trouble(p, where)
  PROVE  \E u \in Tasks : /\ task' = [task EXCEPT ![p] = u]
                          /\ Kept(task[p], u) /\ u.at = where /\ u.out = Gone /\ u.src = task[p].src
                          /\ ~u.torn /\ u.trouble
  <1>1. PICK t \in Tasks : t = task[p]
    BY DEF Types, Typed
  <1> DEFINE u == [t EXCEPT !.trouble = TRUE, !.out = Gone, !.torn = FALSE, !.at = where]
  <1>2. u \in Tasks /\ Kept(t, u) /\ u.at = where /\ u.out = Gone /\ u.src = t.src /\ ~u.torn /\ u.trouble
    BY DEF Tasks, Kept
  <1>3. task' = [task EXCEPT ![p] = u]
    BY <1>1 DEF Trouble, Troubled
  <1> QED BY <1>1, <1>2, <1>3

LEMMA Putting ==
  ASSUME Types, NEW p \in Packagers, NEW content \in Content \ {"none"}, NEW where \in Places, NEW b \in BOOLEAN,
         NEW t \in Tasks, Kept(task[p], t), t.src = task[p].src, t.trouble = b, Put(p, content, t, where)
  PROVE  /\ data' \in [Names -> Content]
         /\ \A n \in Names : data[n] # "none" => data'[n] # "none"
         /\ \A n \in Names : n # task[p].out => data'[n] = data[n]
         /\ task[p].out \in Names => data'[task[p].out] # "none" /\ (~task[p].torn => data'[task[p].out] = content)
         /\ \E u \in Tasks : /\ task' = [task EXCEPT ![p] = u]
                             /\ Kept(task[p], u) /\ u.at = where /\ u.out = Gone /\ u.src = task[p].src
                             /\ ~u.torn /\ u.trouble = b
  <1> DEFINE x == task[p].out
  <1>1. x \in Names \cup {Gone} /\ data \in [Names -> Content]
    BY DEF Types, Typed, Tasks
  <1>2. \/ x = Gone /\ data' = data
        \/ \E c \in {content, "broken"} : (~task[p].torn => c = content) /\ data' = [data EXCEPT ![x] = c]
    BY DEF Put
  <1>3. /\ data' \in [Names -> Content]
        /\ \A n \in Names : data[n] # "none" => data'[n] # "none"
        /\ \A n \in Names : n # x => data'[n] = data[n]
        /\ x \in Names => data'[x] # "none" /\ (~task[p].torn => data'[x] = content)
    BY <1>1, <1>2, Distinct DEF Content
  <1> DEFINE u == [t EXCEPT !.at = where, !.out = Gone, !.torn = FALSE]
  <1>4. u \in Tasks /\ Kept(t, u) /\ u.at = where /\ u.out = Gone /\ u.src = t.src /\ ~u.torn /\ u.trouble = t.trouble
    BY DEF Tasks, Kept
  <1>5. task' = [task EXCEPT ![p] = u]
    BY DEF Put
  <1> HIDE DEF u
  <1>6. Kept(task[p], u)
    BY <1>4 DEF Kept
  <1> QED BY <1>3, <1>4, <1>5, <1>6

-----------------------------------------------------------------------------
(* Each step keeps the types.                                              *)

LEMMA OwnNames ==
  ASSUME Types, NEW p \in Packagers, task[p].plan # <<>>, Item(p) \in Items
  PROVE  /\ Name(p, "file") \in Names /\ Name(p, "tmp") \in Names /\ Name(p, "file") # Name(p, "tmp")
         /\ Item(p) \in DotSlash => Name(p, "dest") \in Names
  BY DEF Names, Name

LEMMA FetchTypes ==
  ASSUME Types, NEW p \in Packagers,
         \/ Cargo(p) \/ Check(p) \/ Discard(p) \/ ClearTmp(p) \/ OpenTmp(p) \/ Download(p) \/ Replace(p)
         \/ Cleanup(p) \/ Verify(p) \/ Reject(p) \/ Fetched(p)
         \/ OpenArchive(p) \/ OpenDest(p) \/ Extract(p) \/ Chmod(p)
  PROVE  Types'
  <1>0. /\ task[p] \in Tasks /\ Holding(data, task[p]) /\ faults \in 0..MaxFaults
        /\ Gone \notin Names
    BY Distinct DEF Types, Typed, Handles
  <1> DEFINE Still == UNCHANGED <<system, outputs, runs>> /\ faults' \in 0..MaxFaults
  <1>1. Still
    <2>1. Quiet /\ (faults' = faults \/ Fault)
      BY DEF Cargo, Check, Discard, ClearTmp, OpenTmp, Download, Replace, Cleanup, Verify, Reject, Fetched,
             OpenArchive, OpenDest, Extract, Chmod, Aside
    <2> QED BY <1>0, <2>1, Options DEF Fault, Quiet
  <1>2. dir' \in [Packagers -> [Entries -> Content]] /\ archive' \in [Packagers -> [Entries -> Content]]
        /\ runs' \in 0..MaxRuns /\ system' = system
    BY <1>1 DEF outputs, Types, Typed
  \* A step that goes elsewhere, with nothing open.
  <1>3. ASSUME NEW where \in Places \ {"dest", "extract", "source", "chmod"}, To(p, where) \/ Trouble(p, where),
               data' = data, task[p].at \notin {"write", "extract"} \/ Trouble(p, where)
        PROVE  Types'
    <2>1. PICK u \in Tasks : /\ task' = [task EXCEPT ![p] = u] /\ Kept(task[p], u) /\ u.at = where
                             /\ u.src = task[p].src /\ u.out = Gone
      BY <1>0, <1>3, Going, Failing DEF Holding
    <2>2. Holding(data, u)
      BY <1>0, <1>3, <2>1 DEF Holding
    <2> QED BY <1>1, <1>2, <1>3, <2>1, <2>2, OwnTypes DEF Types, Typed
  <1>4. ASSUME NextItem(p), data' = data, task[p].at \notin {"write", "extract"}, task[p].plan # <<>> PROVE Types'
    <2>1. PICK u \in Tasks : task' = [task EXCEPT ![p] = u] /\ u.at = "check" /\ u.src = Gone /\ u.out = Gone
      BY <1>0, <1>4, Advancing DEF Holding
    <2>2. Holding(data, u)
      BY <1>0, <2>1 DEF Holding
    <2> QED BY <1>1, <1>2, <1>4, <2>1, <2>2, OwnTypes DEF Types, Typed
  <1>5. ASSUME NEW content \in Content \ {"none"}, NEW where \in Places \ {"dest", "extract", "source", "write"},
               where = "chmod" => task[p].plan # <<>> /\ Head(task[p].plan) \in DotSlash,
               NEW b \in BOOLEAN, NEW t \in Tasks, Kept(task[p], t), t.src = task[p].src, t.trouble = b,
               Put(p, content, t, where)
        PROVE  Types'
    <2>1. /\ data' \in [Names -> Content]
          /\ \A n \in Names : data[n] # "none" => data'[n] # "none"
      BY <1>5, Putting
    <2>2. PICK u \in Tasks : /\ task' = [task EXCEPT ![p] = u] /\ Kept(task[p], u) /\ u.at = where
                             /\ u.out = Gone /\ u.src = task[p].src
      BY <1>5, Putting
    <2>3. u.src \in Names => data'[u.src] # "none"
      BY <1>0, <2>1, <2>2 DEF Holding
    <2>4. Holding(data', u)
      BY <1>5, <2>2, <2>3 DEF Holding, Kept
    <2> QED BY <1>1, <1>2, <2>1, <2>2, <2>4, OwnTypes
  <1>6. CASE Cargo(p)
    <2>1. CASE To(p, "failed") \/ Trouble(p, "failed")
      BY <1>3, <1>6, <2>1 DEF Cargo, Places, Ended
    <2>2. ASSUME NEW content \in {"other", "right"},
                 task' = [task EXCEPT ![p].at = "check", ![p].plan = Tail(@), ![p].built = content]
          PROVE  Types'
      <3>1. PICK t \in Tasks : t = task[p]
        BY <1>0
      <3>2. Tail(t.plan) \in Seq(Steps) /\ t.at = "check" /\ t.out = Gone
        BY <1>0, <1>6, <3>1 DEF Cargo, Tasks, Holding
      <3> DEFINE u == [t EXCEPT !.at = "check", !.plan = Tail(t.plan), !.built = content]
      <3>3. u \in Tasks /\ u.at = "check" /\ u.out = Gone /\ u.src = t.src
        BY <3>2 DEF Tasks, Places, FetchPlaces
      <3>4. task' = [task EXCEPT ![p] = u]
        BY <2>2, <3>1
      <3> HIDE DEF u
      <3>5. Holding(data, u) /\ data' = data
        BY <1>0, <1>6, <3>1, <3>3 DEF Holding, Cargo
      <3> QED BY <1>1, <1>2, <3>3, <3>4, <3>5, OwnTypes DEF Types, Typed
    <2>3. FetchesV8(task[p].job) => <<"v8", "file">> \in Names
      BY DEF Names, Items, V8
    <2>4. (IF FetchesV8(task[p].job) THEN data[<<"v8", "file">>] ELSE "right") \in Content
      BY <2>3 DEF Types, Typed, Content
    <2> QED BY <1>6, <2>1, <2>2, <2>4 DEF Cargo, Content
  <1>7. CASE Check(p) \/ Verify(p)
    <2>1. \E where \in {"clear", "fetched", "discard", "failed", "reject"} : To(p, where)
      BY <1>7 DEF Check, Verify
    <2>2. data' = data /\ task[p].at \in {"check", "verify"}
      BY <1>7 DEF Check, Verify, AtItem
    <2> QED BY <1>3, <2>1, <2>2 DEF Places, FetchPlaces, Ended
  <1>8. CASE Discard(p) \/ Reject(p)
    <2>1. /\ Name(p, "file") \in Names /\ task[p].at \in {"discard", "reject"}
          /\ \E where \in {"clear", "failed"} : Rename(p, Name(p, "file"), Gone, where)
      BY <1>8, OwnNames DEF Discard, Reject, AtItem, Unlink
    <2> QED BY <1>0, <1>1, <2>1, RenameTypes DEF Quiet, Places, FetchPlaces, Ended
  <1>9. CASE ClearTmp(p) \/ Cleanup(p)
    <2>1. /\ Name(p, "tmp") \in Names /\ task[p].at \in {"clear", "abort", "cleanup"}
          /\ \E where \in {"open", "failed", "verify"} : Rename(p, Name(p, "tmp"), Gone, where)
      BY <1>9, OwnNames DEF ClearTmp, Cleanup, AtItem, Unlink
    <2> QED BY <1>0, <1>1, <2>1, RenameTypes DEF Quiet, Places, FetchPlaces, Ended
  <1>10. CASE OpenTmp(p)
    <2>1. Name(p, "tmp") \in Names
      BY <1>10, OwnNames DEF OpenTmp, AtItem
    <2>2. CASE Truncate(p, Name(p, "tmp"), "write")
      BY <1>1, <2>1, <2>2, TruncateTypes DEF Quiet
    <2>3. CASE Trouble(p, "abort") /\ UNCHANGED data
      BY <1>3, <2>3 DEF Places, FetchPlaces
    <2> QED BY <1>10, <2>2, <2>3 DEF OpenTmp
  <1>11. CASE Download(p)
    <2>1. PICK t \in Tasks : t = task[p]
      BY <1>0
    <2> DEFINE v == [t EXCEPT !.trouble = TRUE]
    <2>2. v \in Tasks /\ Kept(t, v) /\ v.src = t.src /\ v.trouble = TRUE /\ v = [task[p] EXCEPT !.trouble = TRUE]
      BY <2>1 DEF Tasks, Kept
    <2>3. t.trouble \in BOOLEAN /\ Kept(t, t)
      BY DEF Tasks, Kept
    <2> HIDE DEF v
    <2>4. CASE Put(p, "right", task[p], "replace")
      BY <1>5, <2>1, <2>3, <2>4 DEF Content, Places, FetchPlaces
    <2>5. ASSUME NEW content \in {"broken", "other"}, Put(p, content, v, "replace") PROVE Types'
      BY <1>5, <2>1, <2>2, <2>5 DEF Content, Places, FetchPlaces
    <2>6. CASE Trouble(p, "abort") /\ UNCHANGED data
      BY <1>3, <2>6 DEF Places, FetchPlaces
    <2> QED BY <1>11, <2>2, <2>4, <2>5, <2>6 DEF Download
  <1>12. CASE Replace(p)
    <2>1. /\ Name(p, "tmp") \in Names /\ Name(p, "file") \in Names /\ Name(p, "file") # Name(p, "tmp")
          /\ task[p].at = "replace"
      BY <1>12, OwnNames DEF Replace, AtItem
    <2>2. CASE data[Name(p, "tmp")] = "none"
      BY <1>3, <1>12, <2>1, <2>2 DEF Replace, Places, FetchPlaces
    <2>3. CASE data[Name(p, "tmp")] # "none"
      BY <1>0, <1>1, <1>12, <2>1, <2>3, RenameTypes DEF Replace, Quiet, Places, FetchPlaces
    <2> QED BY <2>2, <2>3
  <1>13. CASE Fetched(p)
    <2>1. CASE NextItem(p) /\ UNCHANGED data
      BY <1>4, <1>13, <2>1 DEF Fetched, AtItem
    <2>2. CASE Item(p) \notin V8 /\ Unlink(p, Name(p, "dest"), "source")
      <3>1. /\ task[p].plan # <<>> /\ Head(task[p].plan) \in DotSlash /\ task[p].at = "fetched"
            /\ Name(p, "dest") \in Names
        BY <1>13, <2>2, OwnNames DEF Fetched, AtItem, Item, Items
      <3> QED BY <1>0, <1>1, <2>2, <3>1, RenameTypes DEF Unlink, Quiet, Places, FetchPlaces
    <2> QED BY <1>13, <2>1, <2>2 DEF Fetched
  <1>14. CASE OpenArchive(p)
    <2>1. /\ task[p].at = "source" /\ task[p].plan # <<>> /\ Head(task[p].plan) \in DotSlash
          /\ Name(p, "file") \in Names /\ data' = data
      BY <1>0, <1>14, OwnNames DEF OpenArchive, AtItem, Holding
    <2>2. CASE To(p, "failed")
      BY <1>3, <2>1, <2>2 DEF Places, Ended
    <2>3. CASE data[Name(p, "file")] \in {"right", "other"}
                 /\ task' = [task EXCEPT ![p].at = "dest", ![p].src = Name(p, "file")]
      <3>1. PICK t \in Tasks : t = task[p]
        BY <1>0
      <3>2. PICK n \in Names : n = Name(p, "file")
        BY <2>1
      <3> DEFINE u == [t EXCEPT !.at = "dest", !.src = n]
      <3>3. u \in Tasks /\ u.at = "dest" /\ u.src = n /\ u.out = t.out /\ u.plan = t.plan
        BY DEF Tasks, Places, FetchPlaces
      <3>4. task' = [task EXCEPT ![p] = u]
        BY <2>3, <3>1, <3>2
      <3> HIDE DEF u
      <3>5. Holding(data, u)
        BY <1>0, <2>1, <2>3, <3>1, <3>2, <3>3 DEF Holding
      <3> QED BY <1>1, <1>2, <2>1, <3>3, <3>4, <3>5, OwnTypes DEF Types, Typed
    <2> QED BY <1>14, <2>2, <2>3 DEF OpenArchive
  <1>15. CASE OpenDest(p)
    <2>1. /\ task[p].at = "dest" /\ task[p].plan # <<>> /\ Head(task[p].plan) \in DotSlash /\ task[p].src # Gone
          /\ Name(p, "dest") \in Names
      BY <1>0, <1>15, OwnNames DEF OpenDest, AtItem, Holding, Item
    <2> QED BY <1>1, <1>15, <2>1, TruncateTypes DEF OpenDest, Quiet
  <1>16. CASE Extract(p)
    <2> DEFINE content == IF task[p].src \in Names THEN data[task[p].src] ELSE task[p].src[2]
    <2>1. content \in Content \ {"none"}
      BY <1>0, <1>16, Distinct DEF Extract, AtItem, Holding, Tasks, Types, Typed
    <2>2. task[p].plan # <<>> /\ Head(task[p].plan) \in DotSlash
      BY <1>0, <1>16 DEF Extract, AtItem, Holding
    <2>3. task[p].trouble \in BOOLEAN /\ Kept(task[p], task[p])
      BY <1>0 DEF Tasks, Kept
    <2>4. \E where \in {"failed", "chmod"} : Put(p, content, task[p], where)
      BY <1>16 DEF Extract
    <2> HIDE DEF content
    <2> QED BY <1>0, <1>5, <2>1, <2>2, <2>3, <2>4 DEF Places, FetchPlaces, Ended
  <1>17. CASE Chmod(p)
    <2>1. CASE To(p, "failed")
      BY <1>3, <1>17, <2>1 DEF Chmod, AtItem, Places, Ended
    <2>2. CASE NextItem(p)
      BY <1>4, <1>17, <2>2 DEF Chmod, AtItem
    <2> QED BY <1>17, <2>1, <2>2 DEF Chmod
  <1> QED BY <1>6, <1>7, <1>8, <1>9, <1>10, <1>11, <1>12, <1>13, <1>14, <1>15, <1>16, <1>17

\* A task that goes on copying, with another plan.
LEMMA Replanning ==
  ASSUME Types, NEW p \in Packagers, NEW plan \in Seq(Steps),
         task' = [task EXCEPT ![p].at = "copy", ![p].plan = plan]
  PROVE  \E u \in Tasks : /\ task' = [task EXCEPT ![p] = u]
                          /\ u.plan = plan /\ u.job = task[p].job /\ u.built = task[p].built
                          /\ u.alone = task[p].alone /\ u.at = "copy" /\ u.out = task[p].out /\ u.src = task[p].src
                          /\ u.torn = task[p].torn /\ u.trouble = task[p].trouble
  <1>1. PICK t \in Tasks : t = task[p]
    BY DEF Types, Typed
  <1> DEFINE u == [t EXCEPT !.at = "copy", !.plan = plan]
  <1>2. u \in Tasks
    BY DEF Tasks, Places, PackPlaces
  <1>3. /\ u.plan = plan /\ u.job = t.job /\ u.built = t.built /\ u.alone = t.alone /\ u.at = "copy"
        /\ u.out = t.out /\ u.src = t.src /\ u.torn = t.torn /\ u.trouble = t.trouble
    BY DEF Tasks
  <1>4. task' = [task EXCEPT ![p] = u]
    BY <1>1
  <1> QED BY <1>1, <1>2, <1>3, <1>4

LEMMA PackTypes ==
  ASSUME Types, NEW p \in Packagers,
         Prepare(p) \/ Copy(p) \/ Validate(p) \/ Pack(p) \/ Compress(p)
  PROVE  Types'
  <1>0. /\ task[p] \in Tasks /\ Holding(data, task[p])
        /\ UNCHANGED <<system, data, runs, faults>>
        /\ task[p].at \in {"check", "copy", "pack", "compress"} /\ task[p].out = Gone
    BY DEF Types, Typed, Handles, Prepare, Copy, Validate, Pack, Compress, AtPlace, Holding
  <1>1. ASSUME NEW u \in Tasks, task' = [task EXCEPT ![p] = u], u.out = Gone, u.src = task[p].src,
               u.at \notin {"source", "dest", "extract", "chmod"},
               dir' \in [Packagers -> [Entries -> Content]], archive' \in [Packagers -> [Entries -> Content]]
        PROVE  Types'
    <2>1. Holding(data, u)
      BY <1>0, <1>1 DEF Holding
    <2> QED BY <1>0, <1>1, <2>1, OwnTypes DEF Types, Typed
  <1>2. Empty \in [Entries -> Content] /\ HalfWritten \in [Entries -> Content]
    BY DEF Empty, HalfWritten, Content
  <1>3. /\ dir \in [Packagers -> [Entries -> Content]] /\ archive \in [Packagers -> [Entries -> Content]]
        /\ data \in [Names -> Content]
    BY DEF Types, Typed
  <1>4. ASSUME NEW where \in {"refused", "failed", "pack", "done", "compress"}, To(p, where),
               dir' \in [Packagers -> [Entries -> Content]], archive' \in [Packagers -> [Entries -> Content]]
        PROVE  Types'
    BY SMTT(30), <1>0, <1>1, <1>4, Going DEF Places, Ended, PackPlaces
  <1>5. ASSUME NEW plan \in Seq(Steps), task' = [task EXCEPT ![p].at = "copy", ![p].plan = plan],
               dir' \in [Packagers -> [Entries -> Content]], archive' \in [Packagers -> [Entries -> Content]]
        PROVE  Types'
    <2>1. PICK u \in Tasks : /\ task' = [task EXCEPT ![p] = u] /\ u.at = "copy"
                             /\ u.out = task[p].out /\ u.src = task[p].src
      BY <1>5, Replanning
    <2> QED BY <1>0, <1>1, <1>5, <2>1
  <1>6. CASE Prepare(p)
    <2>1. Copies(task[p].job) \in Seq(Steps)
      BY <1>0, Copied DEF Tasks, Steps
    <2> QED BY <1>2, <1>3, <1>4, <1>5, <1>6, <2>1 DEF Prepare
  <1>7. CASE Copy(p)
    <2>1. CASE To(p, "failed") /\ UNCHANGED dir
      BY <1>3, <1>4, <1>7, <2>1 DEF Copy
    <2>2. ASSUME NEW content \in Content, dir' = [dir EXCEPT ![p][Item(p)] = content],
                 task' = [task EXCEPT ![p].plan = Tail(@)]
          PROVE  Types'
      <3>1. task' = [task EXCEPT ![p].at = "copy", ![p].plan = Tail(task[p].plan)]
        <4>1. PICK t \in Tasks : t = task[p]
          BY <1>0
        <4>2. [t EXCEPT !.plan = Tail(t.plan)] = [t EXCEPT !.at = "copy", !.plan = Tail(t.plan)]
          BY <1>7, <4>1 DEF Copy, AtPlace, Tasks
        <4> QED BY <2>2, <4>1, <4>2
      <3>2. Tail(task[p].plan) \in Seq(Steps)
        BY <1>0, <1>7 DEF Copy, Tasks
      <3>3. dir' \in [Packagers -> [Entries -> Content]] /\ archive' = archive
        BY <1>3, <1>7, <2>2 DEF Copy
      <3> QED BY <1>3, <1>5, <3>1, <3>2, <3>3
    <2>3. Item(p) \in DotSlash => data[Name(p, "dest")] \in Content
      BY <1>3 DEF Names, Name
    <2>4. task[p].built \in Content
      BY <1>0 DEF Tasks, Content
    <2>5. \/ To(p, "failed") /\ UNCHANGED dir
          \/ \E content \in {data[Name(p, "dest")], task[p].built, "right"} :
                /\ content = data[Name(p, "dest")] => Item(p) \in DotSlash \/ content \in Content
                /\ dir' = [dir EXCEPT ![p][Item(p)] = content]
                /\ task' = [task EXCEPT ![p].plan = Tail(@)]
      BY <1>7, <2>4 DEF Copy, Content
    <2> QED BY <2>1, <2>2, <2>3, <2>4, <2>5 DEF Content
  <1>8. CASE Validate(p)
    <2>1. \E where \in {"failed", "pack", "done"} : To(p, where)
      BY <1>8 DEF Validate
    <2> QED BY <1>3, <1>4, <1>8, <2>1 DEF Validate, outputs
  <1>9. CASE Pack(p)
    BY <1>2, <1>3, <1>4, <1>9 DEF Pack
  <1>10. CASE Compress(p)
    BY <1>2, <1>3, <1>4, <1>10 DEF Compress
  <1> QED BY <1>6, <1>7, <1>8, <1>9, <1>10

\* What a packager that begins starts with.
LEMMA OffTypes ==
  /\ Off \in Tasks /\ Off.at = "off" /\ Off.out = Gone /\ Off.src = Gone /\ Off.built = "right"
  /\ Off.alone /\ ~Off.torn /\ ~Off.trouble /\ Off.plan = <<>>
  <1>1. Off.job \in Jobs
    BY JobTypes
  <1> QED BY <1>1 DEF Off, Tasks, Places, Ended

LEMMA Beginning ==
  ASSUME Types, NEW p \in Packagers, NEW job \in Jobs, Begin(p, job)
  PROVE  /\ task' \in [Packagers -> Tasks]
         /\ task'[p].at = (IF Unsupported(job) THEN "refused" ELSE "check") /\ task'[p].job = job
         /\ task'[p].plan = Plan(job) /\ task'[p].out = Gone /\ task'[p].src = Gone /\ task'[p].built = "right"
         /\ ~task'[p].torn /\ ~task'[p].trouble
         /\ task'[p].alone <=> \A q \in Packagers \ {p} : ~Running(q)
         /\ \A q \in Packagers \ {p} :
               \E b \in BOOLEAN : task'[q] = [task[q] EXCEPT !.alone = b] /\ (b <=> task[q].alone /\ ~Running(q))
  <1>1. Plan(job) \in Seq(Steps)
    BY Plans DEF Steps
  <1>2. PICK place \in {"refused", "check"} : place = IF Unsupported(job) THEN "refused" ELSE "check"
    OBVIOUS
  <1>3. PICK b \in BOOLEAN : b <=> \A q \in Packagers \ {p} : ~Running(q)
    OBVIOUS
  <1>4. PICK o \in Tasks : o = Off /\ o.out = Gone /\ o.src = Gone /\ o.built = "right" /\ ~o.torn /\ ~o.trouble
    BY OffTypes
  <1> DEFINE u == [o EXCEPT !.at = place, !.plan = Plan(job), !.job = job, !.alone = b]
  <1>5. /\ u \in Tasks /\ u.at = place /\ u.job = job /\ u.plan = Plan(job) /\ u.alone = b
        /\ u.out = o.out /\ u.src = o.src /\ u.built = o.built /\ u.torn = o.torn /\ u.trouble = o.trouble
    BY <1>1 DEF Tasks, Places, Ended, FetchPlaces
  <1>6. task'[p] = u
    <2>1. task'[p] = [Off EXCEPT !.at = IF Unsupported(job) THEN "refused" ELSE "check",
                                 !.plan = Plan(job), !.job = job,
                                 !.alone = \A r \in Packagers \ {p} : ~Running(r)]
      BY DEF Begin
    <2>2. b = \A r \in Packagers \ {p} : ~Running(r)
      BY <1>3
    <2> QED BY <1>2, <1>4, <2>1, <2>2
  <1> HIDE DEF u
  <1>7. ASSUME NEW q \in Packagers \ {p}
        PROVE  \E c \in BOOLEAN : /\ task'[q] = [task[q] EXCEPT !.alone = c] /\ task'[q] \in Tasks
                                  /\ (c <=> task[q].alone /\ ~Running(q))
    <2>1. task[q] \in Tasks
      BY DEF Types, Typed
    <2>2. PICK c \in BOOLEAN : c = (task[q].alone /\ ~Running(q))
      BY <2>1 DEF Tasks
    <2>3. task'[q] = [task[q] EXCEPT !.alone = c]
      BY <2>2 DEF Begin
    <2>4. task'[q] \in Tasks
      BY <2>1, <2>3 DEF Tasks
    <2> QED BY <2>2, <2>3, <2>4
  <1>8. task' \in [Packagers -> Tasks]
    BY <1>5, <1>6, <1>7 DEF Begin
  <1> QED BY <1>2, <1>3, <1>4, <1>5, <1>6, <1>7, <1>8

LEMMA OtherTypes ==
  ASSUME Types, (\E p \in Packagers : (\E job \in Jobs : Begin(p, job)) \/ Kill(p)) \/ NewManifest \/ UNCHANGED vars
  PROVE  Types'
  <1>1. ASSUME NEW p \in Packagers, NEW job \in Jobs, Begin(p, job) PROVE Types'
    <2>1. Typed'
      <3>1. task' \in [Packagers -> Tasks]
        BY <1>1, Beginning
      <3>2. runs' \in 0..MaxRuns
        <4>1. runs \in 0..MaxRuns /\ MaxRuns \in Nat
          BY Options DEF Types, Typed
        <4>2. runs < MaxRuns /\ runs' = runs + 1
          BY <1>1 DEF Begin
        <4> QED BY <4>1, <4>2
      <3> QED BY <1>1, <3>1, <3>2 DEF Begin, outputs, Types, Typed
    <2>2. ASSUME NEW q \in Packagers PROVE Holding(data, task'[q])
      <3>1. CASE q = p
        <4>1. task'[q].at \in {"refused", "check"} /\ task'[q].out = Gone /\ task'[q].src = Gone
          BY <1>1, <3>1, Beginning
        <4> QED BY <4>1, Distinct DEF Holding
      <3>2. CASE q # p
        <4>1. PICK b \in BOOLEAN : task'[q] = [task[q] EXCEPT !.alone = b]
          BY <1>1, <3>2, Beginning
        <4>2. task[q] \in Tasks /\ Holding(data, task[q])
          BY DEF Types, Typed, Handles
        <4>3. /\ task'[q].at = task[q].at /\ task'[q].out = task[q].out /\ task'[q].src = task[q].src
              /\ task'[q].plan = task[q].plan
          BY <4>1, <4>2 DEF Tasks
        <4> QED BY <4>2, <4>3 DEF Holding
      <3> QED BY <3>1, <3>2
    <2> QED BY <1>1, <2>1, <2>2 DEF Types, Handles, Begin
  <1>2. ASSUME NEW p \in Packagers, Kill(p) PROVE Types'
    <2>1. PICK o \in Tasks : o = Off /\ o.out = Gone /\ o.src = Gone
      BY OffTypes
    <2> DEFINE u == [o EXCEPT !.at = "killed"]
    <2>2. u \in Tasks /\ u.at = "killed" /\ u.out = Gone /\ u.src = Gone
      BY <2>1 DEF Tasks, Places, Ended
    <2>3. task' = [task EXCEPT ![p] = u]
      BY <1>2, <2>1 DEF Kill
    <2> HIDE DEF u
    <2>4. Holding(data, u)
      BY <2>2, Distinct DEF Holding
    <2>5. faults' \in 0..MaxFaults
      BY <1>2, Options DEF Kill, Fault, Types, Typed
    <2>6. UNCHANGED <<system, data, dir, archive, runs>>
      BY <1>2 DEF Kill, outputs
    <2> QED BY <2>2, <2>3, <2>4, <2>5, <2>6, OwnTypes DEF Types, Typed
  <1>3. CASE NewManifest
    <2>1. data' \in [Names -> Content] /\ \A n \in Names : data[n] # "none" => data'[n] # "none"
      BY <1>3 DEF NewManifest, Types, Typed, Content
    <2>2. Typed'
      BY <1>3, <2>1, Options DEF NewManifest, Fault, outputs, Types, Typed
    <2>3. ASSUME NEW q \in Packagers PROVE Holding(data', task[q])
      <3>1. Holding(data, task[q]) /\ task[q].out \in Names \cup {Gone}
        BY DEF Types, Typed, Handles, Tasks
      <3> QED BY <2>1, <3>1 DEF Holding
    <2> QED BY <1>3, <2>2, <2>3 DEF Types, Handles, NewManifest
  <1>4. CASE UNCHANGED vars
    BY <1>4 DEF vars, Types, Typed, Handles
  <1> QED BY <1>1, <1>2, <1>3, <1>4

-----------------------------------------------------------------------------
(* Whose state a step changes.                                             *)

Fetch(p) == \/ Cargo(p) \/ Check(p) \/ Discard(p) \/ ClearTmp(p) \/ OpenTmp(p) \/ Download(p) \/ Replace(p)
            \/ Cleanup(p) \/ Verify(p) \/ Reject(p) \/ Fetched(p)
            \/ OpenArchive(p) \/ OpenDest(p) \/ Extract(p) \/ Chmod(p)

\* A step of p goes to one of the places, and changes nothing of another packager but
\* the files that it has open.
Apart(p, where) ==
    /\ task' \in [Packagers -> Tasks]
    /\ task'[p].at \in where
    /\ \A q \in Packagers : task'[q].job = task[q].job /\ task'[q].alone = task[q].alone
    /\ \A q \in Packagers \ {p} :
          Kept(task[q], task'[q]) /\ task'[q].at = task[q].at /\ task'[q].trouble = task[q].trouble

LEMMA OwnApart ==
  ASSUME Types, NEW p \in Packagers, NEW u \in Tasks, task' = [task EXCEPT ![p] = u],
         u.job = task[p].job, u.alone = task[p].alone, NEW where, u.at \in where
  PROVE  Apart(p, where)
  <1>1. task \in [Packagers -> Tasks]
    BY DEF Types, Typed
  <1>2. task'[p] = u /\ \A q \in Packagers \ {p} : task'[q] = task[q]
    BY <1>1
  <1>3. task' \in [Packagers -> Tasks]
    BY <1>1
  <1> QED BY <1>2, <1>3 DEF Apart, Kept

LEMMA FetchApart ==
  ASSUME Types, NEW p \in Packagers, Fetch(p)
  PROVE  Quiet /\ Running(p) /\ Apart(p, FetchPlaces \cup {"failed"})
  <1> DEFINE Goal == Apart(p, FetchPlaces \cup {"failed"})
  <1>0. task[p] \in Tasks /\ task[p].out \in Names \cup {Gone} /\ data \in [Names -> Content]
    BY DEF Types, Typed, Tasks
  <1>1. Quiet /\ Running(p)
    BY DEF Fetch, Cargo, Check, Discard, ClearTmp, OpenTmp, Download, Replace, Cleanup, Verify, Reject, Fetched,
           OpenArchive, OpenDest, Extract, Chmod, AtItem, Aside, Running, Ended
  <1> SUFFICES Goal
    BY <1>1
  <1>2. ASSUME NEW x \in Names, NEW y \in Names \cup {Gone}, NEW where \in FetchPlaces \cup {"failed"},
               Rename(p, x, y, where)
        PROVE  Goal
    <2>1. where \in Places
      BY DEF Places, Ended
    <2> QED BY <1>2, <2>1, Renaming DEF Apart, Kept
  <1>3. ASSUME NEW x \in Names, NEW where \in FetchPlaces, Truncate(p, x, where) PROVE Goal
    <2>1. where \in Places
      BY DEF Places
    <2> QED BY <1>3, <2>1, Truncating DEF Apart, Kept
  <1>4. ASSUME NEW where \in FetchPlaces \cup {"failed"}, To(p, where) \/ Trouble(p, where) PROVE Goal
    <2>1. where \in Places
      BY DEF Places, Ended
    <2> QED BY <1>4, <2>1, Going, Failing, OwnApart DEF Kept
  <1>5. ASSUME task[p].plan # <<>>, NextItem(p) PROVE Goal
    BY <1>5, Advancing, OwnApart DEF FetchPlaces
  <1>6. ASSUME NEW content \in Content \ {"none"}, NEW where \in FetchPlaces \cup {"failed"},
               NEW t \in Tasks, Kept(task[p], t), t.src = task[p].src, Put(p, content, t, where)
        PROVE  Goal
    <2>1. where \in Places /\ t.trouble \in BOOLEAN
      BY DEF Places, Ended, Tasks
    <2>2. PICK u \in Tasks : task' = [task EXCEPT ![p] = u] /\ Kept(task[p], u) /\ u.at = where
      BY <1>6, <2>1, Putting
    <2> QED BY <2>2, OwnApart DEF Kept
  <1>7. CASE Cargo(p)
    <2>1. CASE To(p, "failed") \/ Trouble(p, "failed")
      BY <1>4, <2>1
    <2>2. ASSUME NEW content \in {"other", "right"},
                 task' = [task EXCEPT ![p].at = "check", ![p].plan = Tail(@), ![p].built = content]
          PROVE  Goal
      <3>1. PICK t \in Tasks : t = task[p]
        BY <1>0
      <3>2. Tail(t.plan) \in Seq(Steps)
        BY <1>7, <3>1 DEF Cargo, Tasks
      <3> DEFINE u == [t EXCEPT !.at = "check", !.plan = Tail(t.plan), !.built = content]
      <3>3. u \in Tasks /\ u.at = "check" /\ u.job = t.job /\ u.alone = t.alone
        BY <3>2 DEF Tasks, Places, FetchPlaces
      <3>4. task' = [task EXCEPT ![p] = u]
        BY <2>2, <3>1
      <3> QED BY <3>1, <3>3, <3>4, OwnApart DEF FetchPlaces
    <2>3. FetchesV8(task[p].job) => <<"v8", "file">> \in Names
      BY DEF Names, Items, V8
    <2>4. (IF FetchesV8(task[p].job) THEN data[<<"v8", "file">>] ELSE "right") \in Content
      BY <2>3 DEF Types, Typed, Content
    <2> QED BY <1>7, <2>1, <2>2, <2>4 DEF Cargo, Content
  <1>8. CASE Check(p) \/ Verify(p)
    <2>1. \E where \in {"clear", "fetched", "discard", "failed", "reject"} : To(p, where)
      BY <1>8 DEF Check, Verify
    <2> QED BY <1>4, <2>1 DEF FetchPlaces
  <1>9. CASE Discard(p) \/ Reject(p)
    <2>1. /\ Name(p, "file") \in Names
          /\ \E where \in {"clear", "failed"} : Rename(p, Name(p, "file"), Gone, where)
      BY <1>9, OwnNames DEF Discard, Reject, AtItem, Unlink
    <2> QED BY <1>2, <2>1 DEF FetchPlaces
  <1>10. CASE ClearTmp(p) \/ Cleanup(p)
    <2>1. /\ Name(p, "tmp") \in Names
          /\ \E where \in {"open", "failed", "verify"} : Rename(p, Name(p, "tmp"), Gone, where)
      BY <1>10, OwnNames DEF ClearTmp, Cleanup, AtItem, Unlink
    <2> QED BY <1>2, <2>1 DEF FetchPlaces
  <1>11. CASE OpenTmp(p)
    <2>1. Name(p, "tmp") \in Names
      BY <1>11, OwnNames DEF OpenTmp, AtItem
    <2> QED BY <1>3, <1>4, <1>11, <2>1 DEF OpenTmp, FetchPlaces
  <1>12. CASE Download(p)
    <2>1. PICK t \in Tasks : t = task[p]
      BY <1>0
    <2> DEFINE v == [t EXCEPT !.trouble = TRUE]
    <2>2. v \in Tasks /\ Kept(t, v) /\ v.src = t.src /\ v = [task[p] EXCEPT !.trouble = TRUE] /\ Kept(t, t)
      BY <2>1 DEF Tasks, Kept
    <2> HIDE DEF v
    <2>3. \/ Put(p, "right", t, "replace") \/ Trouble(p, "abort")
          \/ \E content \in {"broken", "other"} : Put(p, content, v, "replace")
      BY <1>12, <2>1, <2>2 DEF Download
    <2> QED BY <1>4, <1>6, <2>1, <2>2, <2>3 DEF Content, FetchPlaces
  <1>13. CASE Replace(p)
    BY <1>2, <1>4, <1>13, OwnNames DEF Replace, AtItem, FetchPlaces
  <1>14. CASE Fetched(p)
    <2>1. /\ task[p].plan # <<>> /\ Item(p) \in Items
          /\ NextItem(p) \/ (Item(p) \in DotSlash /\ Unlink(p, Name(p, "dest"), "source"))
      BY <1>14 DEF Fetched, AtItem, Items
    <2> QED BY <1>2, <1>5, <2>1, OwnNames DEF Unlink, FetchPlaces
  <1>15. CASE OpenArchive(p)
    <2>1. CASE To(p, "failed")
      BY <1>4, <2>1
    <2>2. CASE task' = [task EXCEPT ![p].at = "dest", ![p].src = Name(p, "file")]
      <3>1. PICK t \in Tasks : t = task[p]
        BY <1>0
      <3>2. PICK n \in Names : n = Name(p, "file")
        BY <1>15, OwnNames DEF OpenArchive, AtItem
      <3> DEFINE u == [t EXCEPT !.at = "dest", !.src = n]
      <3>3. u \in Tasks /\ u.at = "dest" /\ u.job = t.job /\ u.alone = t.alone
        BY DEF Tasks, Places, FetchPlaces
      <3>4. task' = [task EXCEPT ![p] = u]
        BY <2>2, <3>1, <3>2
      <3> QED BY <3>1, <3>3, <3>4, OwnApart DEF FetchPlaces
    <2> QED BY <1>15, <2>1, <2>2 DEF OpenArchive
  <1>16. CASE OpenDest(p)
    <2>1. task[p].at = "dest" /\ Holding(data, task[p]) /\ task[p].plan # <<>>
      BY <1>16 DEF OpenDest, AtItem, Types, Handles
    <2>2. Name(p, "dest") \in Names
      BY <1>16, <2>1, OwnNames DEF OpenDest, AtItem, Holding, Item
    <2> QED BY <1>3, <1>16, <2>2 DEF OpenDest, FetchPlaces
  <1>17. CASE Extract(p)
    <2> DEFINE content == IF task[p].src \in Names THEN data[task[p].src] ELSE task[p].src[2]
    <2>1. Holding(data, task[p])
      BY DEF Types, Handles
    <2>2. content \in Content \ {"none"}
      BY <1>0, <1>17, <2>1, Distinct DEF Extract, AtItem, Holding, Tasks
    <2>3. \E where \in {"failed", "chmod"} : Put(p, content, task[p], where)
      BY <1>17 DEF Extract
    <2> HIDE DEF content
    <2> QED BY <1>0, <1>6, <2>2, <2>3 DEF FetchPlaces, Kept
  <1>18. CASE Chmod(p)
    BY <1>4, <1>5, <1>18 DEF Chmod, AtItem
  <1> QED BY <1>7, <1>8, <1>9, <1>10, <1>11, <1>12, <1>13, <1>14, <1>15, <1>16, <1>17, <1>18 DEF Fetch

\* The packaging steps besides change only the outputs of their own packager.
Packages(p) == Prepare(p) \/ Copy(p) \/ Validate(p) \/ Pack(p) \/ Compress(p)

LEMMA PackApart ==
  ASSUME Types, NEW p \in Packagers, Packages(p)
  PROVE  /\ UNCHANGED <<system, data, runs, faults>> /\ Running(p)
         /\ Apart(p, PackPlaces \cup {"refused", "failed", "done"})
         /\ \A q \in Packagers \ {p} : dir'[q] = dir[q] /\ archive'[q] = archive[q]
  <1> DEFINE Goal == Apart(p, PackPlaces \cup {"refused", "failed", "done"})
  <1>0. task[p] \in Tasks
    BY DEF Types, Typed
  <1>1. UNCHANGED <<system, data, runs, faults>> /\ Running(p)
    BY DEF Packages, Prepare, Copy, Validate, Pack, Compress, AtPlace, Running, Ended
  <1>2. \A q \in Packagers \ {p} : dir'[q] = dir[q] /\ archive'[q] = archive[q]
    BY DEF Packages, Prepare, Copy, Validate, Pack, Compress, outputs, Types, Typed
  <1> SUFFICES Goal
    BY <1>1, <1>2
  <1>3. ASSUME NEW where \in {"refused", "failed", "pack", "done", "compress"}, To(p, where) PROVE Goal
    <2>1. where \in Places /\ where \in PackPlaces \cup {"refused", "failed", "done"}
      BY DEF Places, Ended, PackPlaces
    <2> QED BY <1>3, <2>1, Going, OwnApart DEF Kept
  <1>4. ASSUME NEW plan \in Seq(Steps), task' = [task EXCEPT ![p].at = "copy", ![p].plan = plan] PROVE Goal
    <2>1. PICK u \in Tasks : /\ task' = [task EXCEPT ![p] = u] /\ u.job = task[p].job
                             /\ u.alone = task[p].alone /\ u.at = "copy"
      BY ZenonT(40), <1>4, Replanning
    <2>2. u.at \in PackPlaces \cup {"refused", "failed", "done"}
      BY <2>1 DEF PackPlaces
    <2> QED BY <2>1, <2>2, OwnApart
  <1>5. CASE Prepare(p)
    <2>1. Copies(task[p].job) \in Seq(Steps)
      BY <1>0, Copied DEF Tasks, Steps
    <2> QED BY <1>3, <1>4, <1>5, <2>1 DEF Prepare
  <1>6. CASE Copy(p)
    <2>1. CASE task' = [task EXCEPT ![p].plan = Tail(@)]
      <3>1. task' = [task EXCEPT ![p].at = "copy", ![p].plan = Tail(task[p].plan)]
        <4>1. PICK t \in Tasks : t = task[p]
          BY <1>0
        <4>2. [t EXCEPT !.plan = Tail(t.plan)] = [t EXCEPT !.at = "copy", !.plan = Tail(t.plan)]
          BY <1>6, <4>1 DEF Copy, AtPlace, Tasks
        <4> QED BY <2>1, <4>1, <4>2
      <3>2. Tail(task[p].plan) \in Seq(Steps)
        BY <1>0, <1>6 DEF Copy, Tasks
      <3> QED BY <1>4, <3>1, <3>2
    <2> QED BY <1>3, <1>6, <2>1 DEF Copy
  <1>7. CASE Validate(p) \/ Pack(p) \/ Compress(p)
    <2>1. \E where \in {"refused", "failed", "pack", "done", "compress"} : To(p, where)
      BY <1>7 DEF Validate, Pack, Compress
    <2> QED BY <1>3, <2>1
  <1> QED BY <1>5, <1>6, <1>7 DEF Packages

LEMMA Split == ASSUME NEW p \in Packagers, Step(p) PROVE Fetch(p) \/ Packages(p)
  BY DEF Step, Fetch, Packages

\* Of those that go on while p begins, only that they are not alone any more changes.
LEMMA BeginApart ==
  ASSUME Types, NEW p \in Packagers, NEW job \in Jobs, Begin(p, job), NEW q \in Packagers \ {p}
  PROVE  /\ task'[q].at = task[q].at /\ task'[q].job = task[q].job /\ task'[q].trouble = task[q].trouble
         /\ task'[q].alone => task[q].alone /\ ~Running(q)
  <1>1. task[q] \in Tasks
    BY DEF Types, Typed
  <1>2. PICK b \in BOOLEAN : task'[q] = [task[q] EXCEPT !.alone = b] /\ (b <=> task[q].alone /\ ~Running(q))
    BY Beginning
  <1> QED BY <1>1, <1>2 DEF Tasks

-----------------------------------------------------------------------------
(* What a packager has written.                                            *)

\* What is required of a package, and in which order, is told by the target and the options.
LEMMA Requires ==
  ASSUME NEW p \in Packagers, system' = system, task'[p].job = task[p].job
  PROVE  /\ Required(task[p].job)' = Required(task[p].job)
         /\ Plan(task[p].job)' = Plan(task[p].job)
         /\ Copies(task[p].job)' = Copies(task[p].job)
  BY DEF Required, Plan, Copies, HasZsh, FetchesV8, Sources

LEMMA WrittenStays ==
  ASSUME Types, NEW q \in Packagers, WrittenBy(q), system' = system,
         task'[q].job = task[q].job, task'[q].at = task[q].at, dir'[q] = dir[q], archive'[q] = archive[q]
  PROVE  WrittenBy(q)'
  BY DEF WrittenBy, Complete, Required, HasZsh

LEMMA Arrives ==
  ASSUME Types, NEW p \in Packagers, NEW where \in Places, To(p, where)
  PROVE  task'[p].at = where
  <1>1. PICK u \in Tasks : task' = [task EXCEPT ![p] = u] /\ u.at = where
    BY Going
  <1> QED BY <1>1 DEF Types, Typed

\* Where the packaging steps go.
LEMMA PackPath ==
  ASSUME Types, NEW p \in Packagers
  PROVE  /\ Prepare(p) => task'[p].at \in {"refused", "copy"}
         /\ Copy(p) => task'[p].at \in {"failed", "copy"}
         /\ Validate(p) => \/ task'[p].at = "failed"
                           \/ task'[p].at = "pack" /\ task[p].job.archive /\ Complete(p)
                           \/ task'[p].at = "done" /\ ~task[p].job.archive /\ Complete(p)
         /\ Pack(p) => task'[p].at \in {"refused", "compress"}
         /\ Compress(p) => task'[p].at = "done"
  <1>0. task[p] \in Tasks /\ task \in [Packagers -> Tasks]
    BY DEF Types, Typed
  <1>1. \A where \in {"refused", "failed", "pack", "done", "compress"} : To(p, where) => task'[p].at = where
    BY Arrives DEF Places, Ended, PackPlaces
  <1>2. ASSUME NEW plan \in Seq(Steps), task' = [task EXCEPT ![p].at = "copy", ![p].plan = plan]
        PROVE  task'[p].at = "copy"
    <2>1. PICK u \in Tasks : task' = [task EXCEPT ![p] = u] /\ u.at = "copy"
      BY ZenonT(40), <1>2, Replanning
    <2> QED BY <1>0, <2>1
  <1>3. ASSUME Prepare(p) PROVE task'[p].at \in {"refused", "copy"}
    <2>1. Copies(task[p].job) \in Seq(Steps)
      BY <1>0, Copied DEF Tasks, Steps
    <2> QED BY <1>1, <1>2, <1>3, <2>1 DEF Prepare
  <1>4. ASSUME Copy(p) PROVE task'[p].at \in {"failed", "copy"}
    <2>1. CASE task' = [task EXCEPT ![p].plan = Tail(@)]
      <3>1. PICK t \in Tasks : t = task[p]
        BY <1>0
      <3>2. [t EXCEPT !.plan = Tail(t.plan)].at = "copy"
        BY <1>4, <3>1 DEF Copy, AtPlace, Tasks
      <3>3. task' = [task EXCEPT ![p] = [t EXCEPT !.plan = Tail(t.plan)]]
        BY <2>1, <3>1
      <3> QED BY <1>0, <3>2, <3>3
    <2> QED BY <1>1, <1>4, <2>1 DEF Copy
  <1>5. ASSUME Validate(p)
        PROVE \/ task'[p].at = "failed"
              \/ task'[p].at = "pack" /\ task[p].job.archive /\ Complete(p)
              \/ task'[p].at = "done" /\ ~task[p].job.archive /\ Complete(p)
    <2>1. CASE To(p, "failed")
      BY <1>1, <2>1
    <2>2. CASE To(p, "pack") /\ task[p].job.archive /\ Complete(p)
      BY <1>1, <2>2
    <2>3. CASE To(p, "done") /\ ~task[p].job.archive /\ Complete(p)
      BY <1>1, <2>3
    <2>4. CASE ~Complete(p)
      BY <1>5, <2>1, <2>4 DEF Validate, Complete
    <2>5. CASE Complete(p) /\ task[p].job.archive
      BY <1>5, <2>2, <2>5 DEF Validate, Complete
    <2>6. CASE Complete(p) /\ ~task[p].job.archive
      BY <1>5, <2>3, <2>6 DEF Validate, Complete
    <2> QED BY <2>4, <2>5, <2>6
  <1>6. ASSUME Pack(p) PROVE task'[p].at \in {"refused", "compress"}
    BY <1>1, <1>6 DEF Pack
  <1>7. ASSUME Compress(p) PROVE task'[p].at = "done"
    BY <1>1, <1>7 DEF Compress
  <1> QED BY <1>3, <1>4, <1>5, <1>6, <1>7

LEMMA WrittenPack ==
  ASSUME Types, NEW p \in Packagers, WrittenBy(p), Packages(p)
  PROVE  WrittenBy(p)'
  <1>0. task[p] \in Tasks /\ dir \in [Packagers -> [Entries -> Content]] /\ archive \in [Packagers -> [Entries -> Content]]
    BY DEF Types, Typed
  <1>1. system' = system /\ task'[p].job = task[p].job /\ task'[p].at \in PackPlaces \cup {"refused", "failed", "done"}
    BY PackApart DEF Apart
  <1>2. Required(task[p].job)' = Required(task[p].job) /\ Required(task[p].job) \subseteq Entries
    <2>1. task[p].job \in Jobs
      BY <1>0 DEF Tasks
    <2> QED BY <1>1, <2>1, Requires, JobTypes DEF Required, Entries, Variants, Parts
  <1>3. "json" \in Entries
    BY DEF Entries
  <1>4. CASE Prepare(p)
    <2>1. task'[p].at \in {"refused", "copy"}
      BY <1>4, PackPath
    <2>2. dir'[p]["json"] \in {"none", "right"}
      BY <1>0, <1>3, <1>4 DEF Prepare, Empty, WrittenBy
    <2> QED BY <2>1, <2>2 DEF WrittenBy
  <1>5. CASE Copy(p)
    <2>1. task'[p].at \in {"failed", "copy"}
      BY <1>5, PackPath
    <2>2. dir'[p]["json"] \in {"none", "right"}
      <3>1. CASE Item(p) = "json"
        <4>1. task[p].job.variant # "json"
          BY <1>0, JobTypes DEF Tasks, Variants
        <4>2. dir' = dir \/ dir' = [dir EXCEPT ![p][Item(p)] = "right"]
          BY <1>5, <3>1, <4>1 DEF Copy, DotSlash
        <4> QED BY <1>0, <1>3, <3>1, <4>2 DEF WrittenBy
      <3>2. CASE Item(p) # "json"
        <4>1. dir'[p]["json"] = dir[p]["json"]
          BY <1>0, <1>3, <1>5, <3>2 DEF Copy
        <4> QED BY <4>1 DEF WrittenBy
      <3> QED BY <3>1, <3>2
    <2> QED BY <2>1, <2>2 DEF WrittenBy
  <1>6. CASE Validate(p)
    <2>1. /\ dir' = dir
          /\ \/ task'[p].at = "failed"
             \/ task'[p].at = "pack" /\ task[p].job.archive /\ Complete(p)
             \/ task'[p].at = "done" /\ ~task[p].job.archive
      BY <1>6, PackPath DEF Validate, outputs
    <2> QED BY <1>1, <1>2, <2>1 DEF WrittenBy, Complete
  <1>7. CASE Pack(p)
    <2>1. dir' = dir /\ task'[p].at \in {"refused", "compress"} /\ task[p].at = "pack"
      BY <1>7, PackPath DEF Pack, AtPlace
    <2> QED BY <1>1, <1>2, <2>1 DEF WrittenBy, Complete
  <1>8. CASE Compress(p)
    <2>1. dir' = dir /\ task'[p].at = "done" /\ archive'[p] = dir[p] /\ task[p].at = "compress"
      BY <1>0, <1>8, PackPath DEF Compress, AtPlace
    <2> QED BY <1>1, <1>2, <2>1 DEF WrittenBy, Complete
  <1> QED BY <1>4, <1>5, <1>6, <1>7, <1>8 DEF Packages

LEMMA WrittenStep ==
  ASSUME Types, Written, [Next]_vars
  PROVE  Written'
  <1>0. SUFFICES ASSUME NEW q \in Packagers PROVE WrittenBy(q)'
    BY DEF Written
  <1>1. WrittenBy(q)
    BY DEF Written
  <1>2. ASSUME NEW p \in Packagers, Step(p) PROVE WrittenBy(q)'
    <2>1. CASE Fetch(p)
      <3>1. Quiet /\ Apart(p, FetchPlaces \cup {"failed"})
        BY <2>1, FetchApart
      <3>2. CASE q = p
        BY <1>1, <3>1, <3>2 DEF Quiet, outputs, Apart, FetchPlaces, WrittenBy
      <3>3. CASE q # p
        BY <1>1, <3>1, <3>3, WrittenStays DEF Quiet, outputs, Apart
      <3> QED BY <3>2, <3>3
    <2>2. CASE Packages(p)
      <3>1. CASE q = p
        BY <1>1, <2>2, <3>1, WrittenPack
      <3>2. CASE q # p
        BY <1>1, <2>2, <3>2, PackApart, WrittenStays DEF Apart
      <3> QED BY <3>1, <3>2
    <2> QED BY <1>2, <2>1, <2>2, Split
  <1>3. ASSUME NEW p \in Packagers, NEW job \in Jobs, Begin(p, job) PROVE WrittenBy(q)'
    <2>1. system' = system /\ dir' = dir /\ archive' = archive
      BY <1>3 DEF Begin, outputs
    <2>2. CASE q = p
      <3>1. task'[p].at \in {"refused", "check"}
        BY <1>3, Beginning
      <3> QED BY <1>1, <2>1, <2>2, <3>1 DEF WrittenBy
    <2>3. CASE q # p
      BY <1>1, <1>3, <2>1, <2>3, BeginApart, WrittenStays
    <2> QED BY <2>2, <2>3
  <1>4. ASSUME NEW p \in Packagers, Kill(p) PROVE WrittenBy(q)'
    <2>1. system' = system /\ dir' = dir /\ archive' = archive
      BY <1>4 DEF Kill, outputs
    <2>2. CASE q = p
      <3>1. task'[p].at = "killed"
        BY <1>4, OffTypes DEF Kill, Types, Typed, Tasks
      <3> QED BY <1>1, <2>1, <2>2, <3>1 DEF WrittenBy
    <2>3. CASE q # p
      BY <1>1, <1>4, <2>1, <2>3, WrittenStays DEF Kill, Types, Typed
    <2> QED BY <2>2, <2>3
  <1>5. CASE NewManifest \/ UNCHANGED vars
    BY <1>1, <1>5, WrittenStays DEF NewManifest, vars, outputs
  <1> QED BY <1>2, <1>3, <1>4, <1>5 DEF Next

-----------------------------------------------------------------------------
(* The initial state.                                                      *)

LEMMA InitTypes == Init => Types /\ Written
  <1> SUFFICES ASSUME Init PROVE Types /\ Written
    OBVIOUS
  <1>1. Off \in Tasks /\ Off.at = "off" /\ Off.out = Gone /\ Off.src = Gone
    BY OffTypes
  <1>2. Empty \in [Entries -> Content] /\ Empty["json"] = "none"
    BY DEF Empty, Content, Entries
  <1>3. Typed
    BY <1>1, <1>2, Options DEF Init, Typed, Content
  <1>4. Handles
    BY <1>1, Distinct DEF Init, Handles, Holding
  <1>5. Written
    BY <1>1, <1>2 DEF Init, Written, WrittenBy
  <1> QED BY <1>3, <1>4, <1>5 DEF Types

LEMMA TypesStep ==
  ASSUME Types, [Next]_vars PROVE Types'
  <1>1. ASSUME NEW p \in Packagers, Step(p) PROVE Types'
    BY <1>1, FetchTypes, PackTypes DEF Step
  <1> QED BY <1>1, OtherTypes DEF Next

LEMMA TypesHold == Spec => [](Types /\ Written)
  <1>1. Types /\ Written /\ [Next]_vars => (Types /\ Written)'
    BY TypesStep, WrittenStep
  <1> QED BY <1>1, InitTypes, PTL DEF Spec

\* In every state the variables have their types, and what a packager writes to is
\* there, whatever the others rename, unlink and truncate.
THEOREM PackageTypes == Spec => []TypeOK
  <1>1. Types => TypeOK
    <2> SUFFICES ASSUME Types PROVE TypeOK
      OBVIOUS
    <2>1. ASSUME NEW p \in Packagers
          PROVE /\ task[p].job \in Jobs
                /\ \/ task[p].out = Gone
                   \/ /\ task[p].at \in {"write", "extract"} /\ task[p].out \in Names
                      /\ data[task[p].out] # "none"
                /\ task[p].built \in Content \ {"none", "broken"}
                /\ task[p].src \in Names \cup {Gone} \cup {Held(c) : c \in Content}
                /\ {task[p].torn, task[p].alone, task[p].trouble} \subseteq BOOLEAN
                /\ {dir[p], archive[p]} \subseteq [Entries -> Content]
      BY SMTT(30) DEF Types, Typed, Handles, Holding, Tasks, Content, Sourced
    <2> QED BY <2>1 DEF TypeOK, Types, Typed
  <1> QED BY <1>1, TypesHold, PTL

\* However packagers overlap, and whatever kills and failures leave, the archive of a
\* codex package that a packager has finished holds what the runtime wheel stages.
THEOREM RuntimeAlwaysTakesIt == Spec => []RuntimeTakesThePackage
  <1>1. Types /\ Written => RuntimeTakesThePackage
    <2> SUFFICES ASSUME Types, Written, NEW p \in Packagers,
                        task[p].at = "done", task[p].job.variant = "codex", task[p].job.archive
                 PROVE  archive[p] # HalfWritten /\ StagesAsRuntime(archive[p])
      BY DEF RuntimeTakesThePackage
    <2>1. archive[p] = dir[p] /\ Complete(p) /\ dir[p]["json"] \in {"none", "right"}
      BY DEF Written, WrittenBy
    <2>2. {"json", "codex", "host"} \subseteq Required(task[p].job)
      BY DEF Required
    <2>3. "json" \in Entries
      BY DEF Entries
    <2> QED BY <2>1, <2>2, <2>3 DEF Complete, StagesAsRuntime, HalfWritten
  <1> QED BY <1>1, TypesHold, PTL

-----------------------------------------------------------------------------
(* A packager that has the caches to itself: what it has fetched is right. *)

\* Names of other items keep their content: what has been fetched stays ready.
OnlyOf(item, d, d2) == \A n \in Names : n[1] # item => d2[n] = d[n]
LEMMA Passed ==
  ASSUME NEW d, NEW d2, NEW s \in Seq(Items \cup {"cargo"}), Once(s),
         NEW t \in Tasks, NEW u \in Tasks, t.plan # <<>>, u.plan = t.plan,
         OnPlan(s, t), PastIsReady(d, s, t), OnlyOf(Head(t.plan), d, d2)
  PROVE  OnPlan(s, u) /\ PastIsReady(d2, s, u)
  <1>1. Past(s, u) = Past(s, t) /\ OnPlan(s, u)
    <2>1. Past(s, u) = Past(s, t)
      BY DEF Past
    <2> QED BY <2>1 DEF OnPlan
  <1>2. PICK k \in Nat : k = Past(s, t) /\ k < Len(s) /\ Head(t.plan) = s[k + 1]
    <2>1. t.plan \in Seq(Steps) /\ Len(t.plan) > 0 /\ Head(t.plan) = t.plan[1]
      BY DEF Tasks
    <2>2. PICK m \in Nat, n \in Nat : m = Len(s) /\ n = Len(t.plan) /\ n > 0
      BY <2>1
    <2>3. PICK k \in Nat : k = m - n /\ k = Past(s, t) /\ \A j \in 1..n : t.plan[j] = s[k + j]
      BY <2>2 DEF OnPlan, Past
    <2>4. 1 \in 1..n /\ k < m
      BY <2>2, <2>3
    <2>5. t.plan[1] = s[k + 1]
      BY <2>3, <2>4
    <2> QED BY <2>1, <2>2, <2>3, <2>4, <2>5
  <1>3. ASSUME NEW i \in 1..k PROVE Ready(d2, s[i])
    <2>1. s[i] # Head(t.plan) /\ Ready(d, s[i])
      BY <1>2, <1>3 DEF PastIsReady, Once
    <2>2. <<"v8", "file">> \in Names /\ \A item \in DotSlash : <<item, "dest">> \in Names
      BY DEF Names, Items, V8, DotSlash
    <2> QED BY <2>1, <2>2 DEF Ready, OnlyOf
  <1> QED BY <1>1, <1>2, <1>3 DEF PastIsReady

\* With the next item of the plan done, one more is past.
LEMMA Onward ==
  ASSUME NEW s, Len(s) \in Nat, NEW t \in Tasks, NEW u \in Tasks,
         t.plan # <<>>, u.plan = Tail(t.plan), OnPlan(s, t)
  PROVE  OnPlan(s, u) /\ Past(s, t) \in Nat /\ Past(s, u) = Past(s, t) + 1 /\ s[Past(s, t) + 1] = Head(t.plan)
  <1>1. /\ t.plan \in Seq(Steps) /\ Len(t.plan) > 0 /\ Head(t.plan) = t.plan[1]
        /\ Len(u.plan) = Len(t.plan) - 1 /\ \A j \in 1..Len(u.plan) : u.plan[j] = t.plan[j + 1]
    BY DEF Tasks
  <1>2. PICK m \in Nat, n \in Nat : m = Len(s) /\ n = Len(t.plan) /\ n > 0 /\ Len(u.plan) = n - 1
    BY <1>1
  <1>3. PICK k \in Nat : k = m - n /\ k = Past(s, t) /\ \A j \in 1..n : t.plan[j] = s[k + j]
    BY <1>2 DEF OnPlan, Past
  <1>4. Past(s, u) = k + 1
    <2>1. Past(s, u) = Len(s) - Len(u.plan)
      BY DEF Past
    <2>2. m - (n - 1) = k + 1
      BY <1>3
    <2> QED BY <1>2, <2>1, <2>2
  <1>5. ASSUME NEW j \in 1..(n - 1) PROVE u.plan[j] = s[(k + 1) + j]
    <2>1. j + 1 \in 1..n /\ k + (j + 1) = (k + 1) + j /\ j \in 1..Len(u.plan)
      BY <1>2
    <2>2. t.plan[j + 1] = s[k + (j + 1)] /\ u.plan[j] = t.plan[j + 1]
      BY <1>1, <1>3, <2>1
    <2> QED BY <2>1, <2>2
  <1>6. OnPlan(s, u)
    <2>1. k + 1 \in Nat /\ \A j \in 1..Len(u.plan) : u.plan[j] = s[Past(s, u) + j]
      BY <1>2, <1>4, <1>5
    <2> QED BY <1>4, <2>1 DEF OnPlan
  <1>7. s[k + 1] = Head(t.plan)
    <2>1. 1 \in 1..n
      BY <1>2
    <2> QED BY <1>1, <1>3, <2>1
  <1> QED BY <1>3, <1>4, <1>6, <1>7

LEMMA ReadyOnward ==
  ASSUME NEW d, NEW s \in Seq(Items \cup {"cargo"}), NEW t \in Tasks, NEW u \in Tasks,
         t.plan # <<>>, u.plan = Tail(t.plan),
         OnPlan(s, t), PastIsReady(d, s, t), Ready(d, Head(t.plan))
  PROVE  OnPlan(s, u) /\ PastIsReady(d, s, u)
  <1>1. PICK k \in Nat : k = Past(s, t) /\ Past(s, u) = k + 1 /\ s[k + 1] = Head(t.plan)
    BY Onward
  <1>2. \A i \in 1..(k + 1) : Ready(d, s[i])
    BY <1>1 DEF PastIsReady
  <1> QED BY <1>1, <1>2, Onward DEF PastIsReady

LEMMA PackedOnward ==
  ASSUME NEW s \in Seq(Entries), NEW t \in Tasks, NEW u \in Tasks, NEW c \in [Entries -> Content],
         t.plan # <<>>, u.plan = Tail(t.plan), OnPlan(s, t), t.at = "copy", u.at = "copy",
         Packing(c, s, t)
  PROVE  OnPlan(s, u) /\ Packing([c EXCEPT ![Head(t.plan)] = "right"], s, u)
  <1>1. PICK k \in Nat : k = Past(s, t) /\ Past(s, u) = k + 1 /\ s[k + 1] = Head(t.plan)
    BY Onward
  <1> DEFINE c2 == [c EXCEPT ![Head(t.plan)] = "right"]
  <1>2. ASSUME NEW e \in Entries
        PROVE  c2[e] = IF \E i \in 1..(k + 1) : s[i] = e THEN "right" ELSE "none"
    <2>1. c[e] = IF \E i \in 1..k : s[i] = e THEN "right" ELSE "none"
      BY <1>1 DEF Packing
    <2>2. c2[e] = IF e = s[k + 1] THEN "right" ELSE c[e]
      BY <1>1
    <2> HIDE DEF c2
    <2> QED BY <2>1, <2>2
  <1> HIDE DEF c2
  <1>3. Packing(c2, s, u)
    BY <1>1, <1>2 DEF Packing
  <1> QED BY <1>3, Onward DEF c2

\* A fetching step of a lone packager, which has s to fetch: what it reads and writes are
\* its own files, so that it goes on with what is right, or has trouble to fail with.
LEMMA LoneFetch ==
  ASSUME Types, NEW p \in Packagers, Lone(p), Undisturbed(p), Fetch(p)
  PROVE  /\ ~task'[p].torn /\ task'[p].built = "right"
         /\ task'[p].at = "failed" => task'[p].trouble
         /\ task'[p].at \in FetchPlaces =>
               /\ OnPlan(Plan(task[p].job), task'[p])
               /\ PastIsReady(data', Plan(task[p].job), task'[p])
               /\ Fetching(data', task'[p])
  <1>1. PICK t \in Tasks : t = task[p]
    BY DEF Types, Typed
  <1>2. PICK u \in Tasks : u = task'[p]
    BY FetchApart DEF Apart
  <1>3. PICK s \in Seq(Items \cup {"cargo"}) : s = Plan(t.job)
    BY Plans DEF Tasks
  <1>4. /\ Once(s)
        /\ \A i \in 1..Len(s) : s[i] = "cargo" /\ FetchesV8(t.job) => \E j \in 1..(i - 1) : s[j] = "v8"
    <2>1. t.job \in Jobs
      BY DEF Tasks
    <2> QED BY <1>3, <2>1, Plans
  <1>5. /\ t.at \in FetchPlaces /\ ~t.torn /\ t.built = "right"
        /\ OnPlan(s, t) /\ PastIsReady(data, s, t) /\ Fetching(data, t)
    <2>1. t.at \in FetchPlaces
      BY <1>1 DEF Fetch, Cargo, Check, Discard, ClearTmp, OpenTmp, Download, Replace, Cleanup, Verify, Reject,
                  Fetched, OpenArchive, OpenDest, Extract, Chmod, AtItem, FetchPlaces
    <2> QED BY <1>1, <1>3, <2>1 DEF Undisturbed
  <1>6. Holding(data, t) /\ data \in [Names -> Content] /\ t.plan \in Seq(Steps)
    BY <1>1 DEF Types, Typed, Handles, Tasks
  <1> DEFINE h == Head(t.plan)
             Good == /\ ~u.torn /\ u.built = "right"
                     /\ u.at = "failed" => u.trouble
                     /\ u.at \in FetchPlaces => OnPlan(s, u) /\ PastIsReady(data', s, u) /\ Fetching(data', u)
  <1> SUFFICES Good
    BY <1>1, <1>2, <1>3
  \* Going on with the item in hand, of which the caches may change.
  <1>7. ASSUME t.plan # <<>>, Kept(t, u), ~u.torn, u.at = "failed" => u.trouble,
               \A n \in Names : n[1] # h => data'[n] = data[n],
               u.at \in FetchPlaces => Fetching(data', u)
        PROVE  Good
    <2>1. u.plan = t.plan /\ u.built = t.built
      BY <1>7 DEF Kept
    <2>2. OnlyOf(Head(t.plan), data, data')
      BY <1>7 DEF OnlyOf
    <2>3. OnPlan(s, u) /\ PastIsReady(data', s, u)
      BY <1>4, <1>5, <1>7, <2>1, <2>2, Passed
    <2> QED BY <1>5, <1>7, <2>1, <2>3
  \* Going on with the next item.
  <1>8. ASSUME t.plan # <<>>, NextItem(p), data' = data, Ready(data, h) PROVE Good
    <2>1. PICK v \in Tasks : /\ task' = [task EXCEPT ![p] = v] /\ v.plan = Tail(t.plan) /\ v.built = t.built
                             /\ v.at = "check" /\ v.torn = t.torn
      BY <1>1, <1>8, Advancing
    <2>2. u = v
      BY <1>2, <2>1 DEF Types, Typed
    <2>3. OnPlan(s, u) /\ PastIsReady(data, s, u)
      BY <1>5, <1>8, <2>1, <2>2, ReadyOnward
    <2>4. Fetching(data, u)
      BY <2>1, <2>2 DEF Fetching
    <2> QED BY <1>5, <1>8, <2>1, <2>2, <2>3, <2>4
  <1>9. ASSUME NEW where \in Places, To(p, where)
        PROVE  Kept(t, u) /\ u.at = where /\ u.out = t.out /\ u.src = t.src /\ ~u.torn /\ u.trouble = t.trouble
    <2>1. PICK v \in Tasks : /\ task' = [task EXCEPT ![p] = v] /\ Kept(t, v) /\ v.at = where /\ v.out = t.out
                             /\ v.src = t.src /\ v.torn = t.torn /\ v.trouble = t.trouble
      BY <1>1, <1>9, Going
    <2> QED BY <1>2, <1>5, <2>1 DEF Types, Typed
  <1>10. ASSUME NEW where \in Places, Trouble(p, where)
         PROVE  Kept(t, u) /\ u.at = where /\ ~u.torn /\ u.trouble
    <2>1. PICK v \in Tasks : task' = [task EXCEPT ![p] = v] /\ Kept(t, v) /\ v.at = where /\ ~v.torn /\ v.trouble
      BY <1>1, <1>10, Failing
    <2> QED BY <1>2, <2>1 DEF Types, Typed
  <1>11. ASSUME t.plan # <<>>, h \in Items, Trouble(p, "abort"), data' = data PROVE Good
    <2>1. Kept(t, u) /\ u.at = "abort" /\ ~u.torn /\ u.trouble
      BY <1>10, <1>11 DEF Places, FetchPlaces
    <2> QED BY <1>7, <1>11, <2>1 DEF Kept, Fetching
  <1>12. ASSUME NEW x \in Names, NEW y \in Names \cup {Gone}, NEW where \in Places, Rename(p, x, y, where)
         PROVE  /\ Kept(t, u) /\ u.at = where /\ ~u.torn /\ u.trouble = t.trouble
                /\ \A n \in Names : data'[n] = IF n = y THEN data[x] ELSE IF n = x THEN "none" ELSE data[n]
    <2>1. /\ Kept(task[p], task'[p]) /\ task'[p].torn = task[p].torn /\ task'[p].trouble = task[p].trouble
          /\ task'[p].at = where
          /\ \A n \in Names : data'[n] = IF n = y THEN data[x] ELSE IF n = x THEN "none" ELSE data[n]
      BY <1>12, Renaming
    <2> QED BY <1>1, <1>2, <1>5, <2>1
  <1>13. ASSUME NEW x \in Names, NEW where \in Places, Truncate(p, x, where)
         PROVE  /\ Kept(t, u) /\ u.at = where /\ ~u.torn /\ u.trouble = t.trouble
                /\ u.out = x /\ u.src = t.src
                /\ \A n \in Names : data'[n] = IF n = x THEN "broken" ELSE data[n]
    BY <1>1, <1>2, <1>13, Truncating
  <1>14. ASSUME NEW content \in Content \ {"none"}, NEW where \in Places, NEW b \in BOOLEAN,
                NEW w \in Tasks, Kept(t, w), w.src = t.src, w.trouble = b, Put(p, content, w, where)
         PROVE  /\ Kept(t, u) /\ u.at = where /\ ~u.torn /\ u.trouble = b
                /\ \A n \in Names : n # t.out => data'[n] = data[n]
                /\ t.out \in Names => data'[t.out] = content
    <2>1. PICK v \in Tasks : task' = [task EXCEPT ![p] = v] /\ Kept(t, v) /\ v.at = where /\ ~v.torn /\ v.trouble = b
      BY <1>1, <1>14, Putting
    <2>2. /\ \A n \in Names : n # t.out => data'[n] = data[n]
          /\ t.out \in Names => data'[t.out] = content
      BY <1>1, <1>5, <1>14, Putting
    <2> QED BY <1>2, <2>1, <2>2 DEF Types, Typed
  <1>15. ASSUME t.plan # <<>>, h \in Items
         PROVE  /\ Item(p) = h /\ Name(p, "file") = <<h, "file">> /\ Name(p, "tmp") = <<h, "tmp">>
                /\ Name(p, "dest") = <<h, "dest">>
                /\ <<h, "file">> \in Names /\ <<h, "tmp">> \in Names /\ (h \in DotSlash => <<h, "dest">> \in Names)
                /\ \A n \in Names : n[1] # h => n # <<h, "file">> /\ n # <<h, "tmp">> /\ n # <<h, "dest">>
                /\ Gone \notin Names
    BY <1>1, <1>15, Distinct DEF Item, Name
  <1>16. FetchPlaces \subseteq Places /\ "failed" \in Places /\ "failed" \notin FetchPlaces
    BY DEF Places, Ended, FetchPlaces
  <1>17. ASSUME t.plan # <<>>, h \in Items, data' = data,
                NEW where \in Places, To(p, where), where \in FetchPlaces \/ t.trouble,
                where \in {"check", "discard", "clear", "open"}
                \/ (where \in {"failed", "reject", "abort"} /\ t.trouble)
                \/ (where = "fetched" /\ data[<<h, "file">>] = "right")
         PROVE  Good
    <2>1. Kept(t, u) /\ u.at = where /\ ~u.torn /\ u.trouble = t.trouble
      BY <1>9, <1>17
    <2>2. Fetching(data, u)
      BY <1>17, <2>1 DEF Kept, Fetching
    <2> QED BY <1>7, <1>16, <1>17, <2>1, <2>2
  <1>18. CASE Cargo(p)
    <2>1. t.plan # <<>> /\ h = "cargo" /\ data' = data
      BY <1>1, <1>18 DEF Cargo, Item
    <2>2. CASE Trouble(p, "failed")
      BY <1>7, <1>10, <1>16, <2>1, <2>2
    <2>3. FetchesV8(t.job) => data[<<"v8", "file">>] = "right"
      <3>1. PICK m \in Nat, n \in Nat : m = Len(s) /\ n = Len(t.plan) /\ n > 0
        BY <1>6, <2>1
      <3>2. PICK k \in Nat : k = m - n /\ k = Past(s, t) /\ \A j \in 1..n : t.plan[j] = s[k + j]
        BY <1>5, <3>1 DEF OnPlan, Past
      <3>3. 1 \in 1..n /\ k + 1 \in 1..m /\ (k + 1) - 1 = k
        BY <3>1, <3>2
      <3>4. s[k + 1] = "cargo"
        BY <1>6, <2>1, <3>2, <3>3
      <3>5. FetchesV8(t.job) => \E j \in 1..k : s[j] = "v8"
        BY <1>4, <3>1, <3>3, <3>4
      <3> QED BY <1>5, <3>2, <3>5 DEF PastIsReady, Ready
    <2>4. CASE task' = [task EXCEPT ![p].at = "check", ![p].plan = Tail(@), ![p].built = "right"]
      <3>1. u = [t EXCEPT !.at = "check", !.plan = Tail(t.plan), !.built = "right"]
        BY <1>1, <1>2, <2>4 DEF Types, Typed
      <3>2. u.at = "check" /\ u.plan = Tail(t.plan) /\ u.built = "right" /\ ~u.torn
        BY <1>5, <3>1 DEF Tasks
      <3>3. Ready(data, h)
        BY <2>1 DEF Ready, DotSlash
      <3>4. OnPlan(s, u) /\ PastIsReady(data, s, u)
        BY <1>5, <2>1, <3>2, <3>3, ReadyOnward
      <3> QED BY <2>1, <3>2, <3>4 DEF Fetching
    <2> QED BY <1>1, <1>18, <2>2, <2>3, <2>4 DEF Cargo
  <1>19. CASE Check(p)
    <2>1. t.plan # <<>> /\ h \in Items /\ data' = data
      BY <1>1, <1>19 DEF Check, AtItem, Item
    <2>2. \/ To(p, "clear") \/ To(p, "discard")
          \/ To(p, "fetched") /\ data[<<h, "file">>] = "right"
      BY <1>15, <1>19, <2>1 DEF Check
    <2> QED BY <1>17, <2>1, <2>2 DEF Places, FetchPlaces
  <1>20. CASE Discard(p) \/ ClearTmp(p) \/ Cleanup(p) \/ Reject(p)
    <2>1. t.plan # <<>> /\ h \in Items
      BY <1>1, <1>20 DEF Discard, ClearTmp, Cleanup, Reject, AtItem, Item
    <2>2. CASE Discard(p)
      <3>1. Rename(p, <<h, "file">>, Gone, "clear")
        BY <1>15, <2>1, <2>2 DEF Discard, Unlink
      <3>2. /\ Kept(t, u) /\ u.at = "clear" /\ ~u.torn
            /\ \A n \in Names : n[1] # h => data'[n] = data[n]
        BY <1>12, <1>15, <2>1, <3>1 DEF Places, FetchPlaces
      <3> QED BY <1>7, <2>1, <3>2 DEF Fetching, Kept
    <2>3. CASE ClearTmp(p)
      <3>1. Rename(p, <<h, "tmp">>, Gone, "open")
        BY <1>15, <2>1, <2>3 DEF ClearTmp, Unlink
      <3>2. /\ Kept(t, u) /\ u.at = "open" /\ ~u.torn
            /\ \A n \in Names : n[1] # h => data'[n] = data[n]
        BY <1>12, <1>15, <2>1, <3>1 DEF Places, FetchPlaces
      <3> QED BY <1>7, <2>1, <3>2 DEF Fetching, Kept
    <2>4. CASE Cleanup(p) /\ t.at = "abort"
      <3>0. t.trouble
        BY <1>1, <1>5, <2>4 DEF Fetching
      <3>1. Rename(p, <<h, "tmp">>, Gone, "failed")
        BY <1>1, <1>5, <1>15, <2>1, <2>4 DEF Cleanup, Unlink, Fetching
      <3>2. /\ Kept(t, u) /\ u.at = "failed" /\ ~u.torn /\ u.trouble = t.trouble
            /\ \A n \in Names : n[1] # h => data'[n] = data[n]
        BY <1>12, <1>15, <1>16, <2>1, <3>1
      <3> QED BY <1>7, <1>16, <2>1, <3>0, <3>2
    <2>5. CASE Cleanup(p) /\ t.at # "abort"
      <3>1. /\ Rename(p, <<h, "tmp">>, Gone, "verify")
            /\ data[<<h, "file">>] = "right" \/ t.trouble
        BY <1>1, <1>5, <1>15, <2>1, <2>5 DEF Cleanup, AtItem, Unlink, Fetching
      <3>2. /\ Kept(t, u) /\ u.at = "verify" /\ ~u.torn /\ u.trouble = t.trouble
            /\ \A n \in Names : n[1] # h => data'[n] = data[n]
            /\ data'[<<h, "file">>] = data[<<h, "file">>]
        BY <1>12, <1>15, <2>1, <3>1 DEF Places, FetchPlaces
      <3> QED BY <1>7, <2>1, <3>1, <3>2 DEF Fetching, Kept
    <2>6. CASE Reject(p)
      <3>0. t.trouble
        BY <1>1, <1>5, <2>6 DEF Reject, AtItem, Fetching
      <3>1. Rename(p, <<h, "file">>, Gone, "failed")
        BY <1>1, <1>5, <1>15, <2>1, <2>6 DEF Reject, AtItem, Unlink, Fetching
      <3>2. /\ Kept(t, u) /\ u.at = "failed" /\ ~u.torn /\ u.trouble = t.trouble
            /\ \A n \in Names : n[1] # h => data'[n] = data[n]
        BY <1>12, <1>15, <1>16, <2>1, <3>1
      <3> QED BY <1>7, <1>16, <2>1, <3>0, <3>2
    <2> QED BY <1>20, <2>2, <2>3, <2>4, <2>5, <2>6
  <1>21. CASE OpenTmp(p)
    <2>1. t.plan # <<>> /\ h \in Items
      BY <1>1, <1>21 DEF OpenTmp, AtItem, Item
    <2>2. CASE Truncate(p, Name(p, "tmp"), "write")
      <3>1. /\ Kept(t, u) /\ u.at = "write" /\ ~u.torn /\ u.out = <<h, "tmp">>
            /\ \A n \in Names : n[1] # h => data'[n] = data[n]
        BY <1>13, <1>15, <2>1, <2>2 DEF Places, FetchPlaces
      <3> QED BY <1>7, <2>1, <3>1 DEF Fetching, Kept
    <2> QED BY <1>11, <1>21, <2>1, <2>2 DEF OpenTmp
  <1>22. CASE Download(p)
    <2>1. t.plan # <<>> /\ h \in Items /\ t.at = "write"
      BY <1>1, <1>22 DEF Download, AtItem, Item
    <2>2. t.out = <<h, "tmp">> /\ t.out \in Names
      BY <1>5, <1>15, <2>1 DEF Fetching
    <2>3. CASE Put(p, "right", t, "replace")
      <3>1. t.trouble \in BOOLEAN /\ Kept(t, t)
        BY DEF Tasks, Kept
      <3>2. /\ Kept(t, u) /\ u.at = "replace" /\ ~u.torn
            /\ \A n \in Names : n[1] # h => data'[n] = data[n]
            /\ data'[<<h, "tmp">>] = "right"
        BY <1>14, <1>15, <2>1, <2>2, <2>3, <3>1 DEF Places, FetchPlaces, Content
      <3> QED BY <1>7, <2>1, <3>2 DEF Fetching, Kept
    <2>4. ASSUME NEW content \in {"broken", "other"}, Put(p, content, [t EXCEPT !.trouble = TRUE], "replace")
          PROVE  Good
      <3> DEFINE w == [t EXCEPT !.trouble = TRUE]
      <3>1. w \in Tasks /\ w.trouble = TRUE /\ Kept(t, w) /\ w.src = t.src
        BY DEF Tasks, Kept
      <3> HIDE DEF w
      <3>2. /\ Kept(t, u) /\ u.at = "replace" /\ ~u.torn /\ u.trouble = TRUE
            /\ \A n \in Names : n[1] # h => data'[n] = data[n]
            /\ data'[<<h, "tmp">>] = content
        <4>1. Put(p, content, w, "replace")
          BY <2>4 DEF w
        <4> QED BY ZenonT(40), <1>14, <1>15, <2>1, <2>2, <3>1, <4>1 DEF Places, FetchPlaces, Content
      <3> QED BY <1>7, <2>1, <3>2 DEF Fetching, Kept
    <2>5. CASE Trouble(p, "abort") /\ UNCHANGED data
      BY <1>11, <2>1, <2>5
    <2> QED BY <1>1, <1>22, <2>3, <2>4, <2>5 DEF Download
  <1>23. CASE Replace(p)
    <2>1. t.plan # <<>> /\ h \in Items /\ t.at = "replace"
      BY <1>1, <1>23 DEF Replace, AtItem, Item
    <2>2. data[<<h, "tmp">>] # "none" /\ (data[<<h, "tmp">>] = "right" \/ t.trouble)
      BY <1>5, <2>1 DEF Fetching
    <2>3. Rename(p, <<h, "tmp">>, <<h, "file">>, "cleanup")
      BY <1>15, <1>23, <2>1, <2>2 DEF Replace
    <2>4. /\ Kept(t, u) /\ u.at = "cleanup" /\ ~u.torn /\ u.trouble = t.trouble
          /\ \A n \in Names : n[1] # h => data'[n] = data[n]
          /\ data'[<<h, "file">>] = data[<<h, "tmp">>]
      BY <1>12, <1>15, <2>1, <2>3 DEF Places, FetchPlaces
    <2> QED BY <1>7, <2>1, <2>2, <2>4 DEF Fetching, Kept
  <1>24. CASE Verify(p)
    <2>1. t.plan # <<>> /\ h \in Items /\ t.at = "verify" /\ data' = data
      BY <1>1, <1>24 DEF Verify, AtItem, Item
    <2>2. data[<<h, "file">>] = "right" \/ t.trouble
      BY <1>5, <2>1 DEF Fetching
    <2>3. \/ To(p, "fetched") /\ data[<<h, "file">>] = "right"
          \/ (To(p, "failed") \/ To(p, "reject")) /\ data[<<h, "file">>] # "right"
      BY <1>15, <1>24, <2>1 DEF Verify
    <2> QED BY <1>17, <2>1, <2>2, <2>3 DEF Places, Ended, FetchPlaces
  <1>25. CASE Fetched(p)
    <2>1. t.plan # <<>> /\ h \in Items /\ t.at = "fetched"
      BY <1>1, <1>25 DEF Fetched, AtItem, Item
    <2>2. data[<<h, "file">>] = "right"
      BY <1>5, <2>1 DEF Fetching
    <2>3. CASE h \in V8
      <3>1. NextItem(p) /\ data' = data
        BY <1>15, <1>25, <2>1, <2>3 DEF Fetched
      <3>2. Ready(data, h)
        BY <2>2, <2>3 DEF Ready, V8, DotSlash
      <3> QED BY <1>8, <2>1, <3>1, <3>2
    <2>4. CASE h \notin V8
      <3>1. h \in DotSlash /\ Rename(p, <<h, "dest">>, Gone, "source")
        BY <1>15, <1>25, <2>1, <2>4 DEF Fetched, Unlink, Items
      <3>2. /\ Kept(t, u) /\ u.at = "source" /\ ~u.torn
            /\ \A n \in Names : n[1] # h => data'[n] = data[n]
            /\ data'[<<h, "file">>] = data[<<h, "file">>]
        BY <1>12, <1>15, <2>1, <3>1 DEF Places, FetchPlaces
      <3> QED BY <1>7, <2>1, <2>2, <3>2 DEF Fetching, Kept
    <2> QED BY <2>3, <2>4
  <1>26. CASE OpenArchive(p)
    <2>1. t.plan # <<>> /\ h \in Items /\ t.at = "source" /\ data' = data
      BY <1>1, <1>26 DEF OpenArchive, AtItem, Item
    <2>2. data[<<h, "file">>] = "right"
      BY <1>5, <2>1 DEF Fetching
    <2>3. task' = [task EXCEPT ![p].at = "dest", ![p].src = <<h, "file">>]
      BY <1>15, <1>26, <2>1, <2>2 DEF OpenArchive
    <2>4. u = [t EXCEPT !.at = "dest", !.src = <<h, "file">>]
      BY <1>1, <1>2, <2>3 DEF Types, Typed
    <2>5. Kept(t, u) /\ u.at = "dest" /\ u.src = <<h, "file">> /\ ~u.torn
      BY <1>5, <2>4 DEF Tasks, Kept
    <2> QED BY <1>7, <2>1, <2>2, <2>5 DEF Fetching, Kept
  <1>27. CASE OpenDest(p)
    <2>1. t.plan # <<>> /\ h \in Items /\ t.at = "dest" /\ h \in DotSlash
      BY <1>1, <1>6, <1>27 DEF OpenDest, AtItem, Item, Holding
    <2>2. data[<<h, "file">>] = "right" /\ t.src = <<h, "file">>
      BY <1>5, <2>1 DEF Fetching
    <2>3. Truncate(p, <<h, "dest">>, "extract")
      BY <1>15, <1>27, <2>1 DEF OpenDest
    <2>4. /\ Kept(t, u) /\ u.at = "extract" /\ ~u.torn /\ u.out = <<h, "dest">> /\ u.src = t.src
          /\ \A n \in Names : n[1] # h => data'[n] = data[n]
          /\ data'[<<h, "file">>] = data[<<h, "file">>]
      BY <1>13, <1>15, <2>1, <2>3 DEF Places, FetchPlaces
    <2> QED BY <1>7, <2>1, <2>2, <2>4 DEF Fetching, Kept
  <1>28. CASE Extract(p)
    <2>1. t.plan # <<>> /\ h \in Items /\ t.at = "extract" /\ h \in DotSlash
      BY <1>1, <1>6, <1>28 DEF Extract, AtItem, Item, Holding
    <2>2. /\ data[<<h, "file">>] = "right" /\ t.src = <<h, "file">> /\ t.out = <<h, "dest">>
          /\ <<h, "file">> \in Names /\ t.out \in Names
      BY <1>5, <1>15, <2>1 DEF Fetching
    <2>3. Put(p, "right", t, "chmod")
      BY <1>1, <1>28, <2>2 DEF Extract
    <2>4. t.trouble \in BOOLEAN /\ Kept(t, t)
      BY DEF Tasks, Kept
    <2>5. /\ Kept(t, u) /\ u.at = "chmod" /\ ~u.torn
          /\ \A n \in Names : n[1] # h => data'[n] = data[n]
          /\ data'[<<h, "dest">>] = "right"
      BY <1>14, <1>15, <2>1, <2>2, <2>3, <2>4 DEF Places, FetchPlaces, Content
    <2> QED BY <1>7, <2>1, <2>5 DEF Fetching, Kept
  <1>29. CASE Chmod(p)
    <2>1. t.plan # <<>> /\ h \in Items /\ t.at = "chmod" /\ h \in DotSlash
      BY <1>1, <1>6, <1>29 DEF Chmod, AtItem, Item, Holding
    <2>2. data[<<h, "dest">>] = "right"
      BY <1>5, <2>1 DEF Fetching
    <2>3. NextItem(p) /\ data' = data
      BY <1>15, <1>29, <2>1, <2>2 DEF Chmod
    <2>4. Ready(data, h)
      BY <2>1, <2>2 DEF Ready, DotSlash
    <2> QED BY <1>8, <2>1, <2>3, <2>4
  <1> QED BY <1>18, <1>19, <1>20, <1>21, <1>22, <1>23, <1>24, <1>25, <1>26, <1>27, <1>28, <1>29 DEF Fetch

\* A packaging step of a lone packager copies what is right, and what it has written is
\* the whole package.
Package(job) == [e \in Entries |-> IF e \in Required(job) THEN "right" ELSE "none"]
LEMMA LonePack ==
  ASSUME Types, NEW p \in Packagers, Lone(p), Undisturbed(p), Packages(p)
  PROVE  /\ ~task'[p].torn /\ task'[p].built = "right" /\ task'[p].at # "failed"
         /\ task'[p].at \in PackPlaces =>
               /\ OnPlan(Copies(task[p].job), task'[p])
               /\ Packing(dir'[p], Copies(task[p].job), task'[p])
               /\ Ready(data, "rg") /\ (HasZsh => Ready(data, "zsh"))
         /\ task'[p].at = "done" =>
               /\ dir'[p] = Package(task[p].job)
               /\ task[p].job.archive => archive'[p] = dir'[p]
  <1>1. PICK t \in Tasks : t = task[p]
    BY DEF Types, Typed
  <1>2. PICK u \in Tasks : u = task'[p]
    BY PackApart DEF Apart
  <1>3. t.job \in Jobs /\ t.plan \in Seq(Steps) /\ Len(t.plan) \in Nat
    BY DEF Tasks
  <1>4. PICK s \in Seq(Entries) : s = Copies(t.job)
    BY <1>3, Copied
  <1>5. Len(s) \in Nat /\ \A e \in Entries : (\E i \in 1..Len(s) : s[i] = e) <=> e \in Required(t.job)
    BY <1>3, <1>4, Copied
  <1>6. /\ dir \in [Packagers -> [Entries -> Content]] /\ archive \in [Packagers -> [Entries -> Content]]
        /\ task \in [Packagers -> Tasks]
    BY DEF Types, Typed
  <1>7. ~t.torn /\ t.built = "right"
    BY <1>1 DEF Undisturbed
  <1>8. t.at \in PackPlaces => /\ OnPlan(s, t) /\ Packing(dir[p], s, t)
                               /\ Ready(data, "rg") /\ (HasZsh => Ready(data, "zsh"))
    BY <1>1, <1>4 DEF Undisturbed
  \* Everything has been copied.
  <1>9. ASSUME t.at \in PackPlaces, t.plan = <<>>
        PROVE  dir[p] = Package(t.job) /\ (\A e \in Required(t.job) : dir[p][e] # "none") /\ Required(t.job) \subseteq Entries
    <2>1. Past(s, t) = Len(s)
      BY <1>5, <1>9 DEF Past
    <2>2. \A e \in Entries : dir[p][e] = IF e \in Required(t.job) THEN "right" ELSE "none"
      BY <1>5, <1>8, <1>9, <2>1 DEF Packing
    <2>3. Required(t.job) \subseteq Entries
      BY <1>3, JobTypes DEF Required, Entries, Variants, Parts
    <2>4. dir[p] = Package(t.job)
      BY <1>6, <2>2 DEF Package
    <2> QED BY <2>2, <2>3, <2>4
  <1>10. ASSUME NEW where \in {"refused", "failed", "pack", "done", "compress"}, To(p, where)
         PROVE  u.plan = t.plan /\ u.built = t.built /\ u.at = where /\ ~u.torn
    <2>1. PICK v \in Tasks : task' = [task EXCEPT ![p] = v] /\ Kept(t, v) /\ v.at = where /\ v.torn = t.torn
      BY <1>1, <1>10, Going DEF Places, Ended, PackPlaces
    <2> QED BY <1>2, <1>6, <1>7, <2>1 DEF Kept
  <1>11. ASSUME NEW plan \in Seq(Steps), task' = [task EXCEPT ![p].at = "copy", ![p].plan = plan]
         PROVE  u.plan = plan /\ u.built = t.built /\ u.at = "copy" /\ ~u.torn
    <2>1. u = [t EXCEPT !.at = "copy", !.plan = plan]
      BY <1>1, <1>2, <1>6, <1>11
    <2> QED BY <1>7, <2>1 DEF Tasks
  <1> DEFINE Good == /\ ~u.torn /\ u.built = "right" /\ u.at # "failed"
                     /\ u.at \in PackPlaces => /\ OnPlan(s, u) /\ Packing(dir'[p], s, u)
                                               /\ Ready(data, "rg") /\ (HasZsh => Ready(data, "zsh"))
                     /\ u.at = "done" => /\ dir'[p] = Package(t.job)
                                         /\ t.job.archive => archive'[p] = dir'[p]
  <1> SUFFICES Good
    BY <1>1, <1>2, <1>4
  <1>12. CASE Prepare(p)
    <2>1. t.at = "check" /\ t.plan = <<>>
      BY <1>1, <1>12 DEF Prepare, AtPlace
    <2>2. CASE To(p, "refused")
      BY <1>7, <1>10, <2>2 DEF PackPlaces
    <2>3. CASE dir' = [dir EXCEPT ![p] = Empty] /\ task' = [task EXCEPT ![p].at = "copy", ![p].plan = Copies(task[p].job)]
      <3>1. s \in Seq(Steps)
        BY DEF Steps
      <3>2. u.plan = s /\ u.built = "right" /\ u.at = "copy" /\ ~u.torn
        BY <1>1, <1>4, <1>7, <1>11, <2>3, <3>1
      <3>3. Past(s, u) = 0
        BY <1>5, <3>2 DEF Past
      <3>4. OnPlan(s, u)
        BY <1>5, <3>2, <3>3 DEF OnPlan
      <3>5. dir'[p] = Empty
        BY <1>6, <2>3
      <3>6. Packing(dir'[p], s, u)
        BY <3>2, <3>3, <3>5 DEF Packing, Empty
      <3>7. Ready(data, "rg") /\ (HasZsh => Ready(data, "zsh"))
        <4>1. PICK f : f = Plan(t.job) /\ f \in Seq(Items \cup {"cargo"})
          BY <1>3, Plans
        <4>2. PastIsReady(data, f, t)
          BY <1>1, <2>1, <4>1 DEF Undisturbed, FetchPlaces
        <4>3. Past(f, t) = Len(f)
          BY <2>1, <4>1 DEF Past
        <4>4. /\ \E i \in 1..Len(f) : f[i] = "rg"
              /\ HasZsh => \E i \in 1..Len(f) : f[i] = "zsh"
          BY <1>3, <4>1, Plans
        <4> QED BY <4>2, <4>3, <4>4 DEF PastIsReady
      <3> QED BY <3>2, <3>4, <3>6, <3>7
    <2> QED BY <1>12, <2>2, <2>3 DEF Prepare
  <1>13. CASE Copy(p)
    <2> DEFINE h == Head(t.plan)
    <2>1. t.at = "copy" /\ t.plan # <<>> /\ Item(p) = h
      BY <1>1, <1>13 DEF Copy, AtPlace, Item
    <2>2. h \in Entries /\ h \in Required(t.job)
      <3>1. PICK k \in Nat : k < Len(s) /\ h = s[k + 1]
        <4>1. PICK n \in Nat : n = Len(t.plan) /\ n > 0 /\ h = t.plan[1]
          BY <1>3, <2>1
        <4>2. OnPlan(s, t)
          BY <1>8, <2>1 DEF PackPlaces
        <4>3. PICK k \in Nat : k = Len(s) - n /\ \A j \in 1..n : t.plan[j] = s[k + j]
          BY <4>1, <4>2 DEF OnPlan, Past
        <4>4. 1 \in 1..n /\ k < Len(s)
          BY <1>5, <4>1, <4>3
        <4> QED BY <4>1, <4>3, <4>4
      <3>2. k + 1 \in 1..Len(s)
        BY <1>5, <3>1
      <3>3. h \in Entries
        BY <3>1, <3>2
      <3> QED BY <1>5, <3>1, <3>2, <3>3
    <2>3. h \in DotSlash => data[Name(p, "dest")] = "right"
      <3>1. h = "zsh" => HasZsh
        <4>1. t.job.variant # "zsh"
          BY <1>3, JobTypes DEF Variants
        <4> QED BY <2>2, <4>1 DEF Required
      <3>2. Ready(data, "rg") /\ (HasZsh => Ready(data, "zsh"))
        BY <1>8, <2>1 DEF PackPlaces
      <3> QED BY <2>1, <3>1, <3>2 DEF Ready, DotSlash, Name
    <2>4. /\ dir' = [dir EXCEPT ![p][h] = "right"]
          /\ task' = [task EXCEPT ![p].plan = Tail(@)]
      BY <1>1, <1>7, <1>13, <2>1, <2>3 DEF Copy
    <2>5. u.plan = Tail(t.plan) /\ u.built = "right" /\ u.at = "copy" /\ ~u.torn
      <3>1. u = [t EXCEPT !.plan = Tail(t.plan)]
        BY <1>1, <1>2, <1>6, <2>4
      <3> QED BY <1>7, <2>1, <3>1 DEF Tasks
    <2>6. dir'[p] = [dir[p] EXCEPT ![h] = "right"] /\ dir[p] \in [Entries -> Content]
      BY <1>6, <2>4
    <2>7. OnPlan(s, u) /\ Packing(dir'[p], s, u)
      BY <1>8, <2>1, <2>5, <2>6, PackedOnward DEF PackPlaces
    <2> QED BY <1>8, <2>1, <2>5, <2>7 DEF PackPlaces
  \* The plan is done: what follows changes neither it nor the package directory.
  <1>14. ASSUME t.at \in PackPlaces, t.plan = <<>>, NEW where \in {"refused", "pack", "done", "compress"},
                To(p, where), dir' = dir, where = "done" /\ t.job.archive => archive'[p] = dir[p]
         PROVE  Good
    <2>1. u.plan = t.plan /\ u.built = t.built /\ u.at = where /\ ~u.torn
      BY <1>10, <1>14
    <2>2. OnPlan(s, u) /\ Packing(dir[p], s, u)
      <3>1. Past(s, u) = Past(s, t)
        BY <2>1 DEF Past
      <3> QED BY <1>8, <1>14, <2>1, <3>1 DEF OnPlan, Packing
    <2> QED BY <1>7, <1>8, <1>9, <1>14, <2>1, <2>2
  <1>15. CASE Validate(p)
    <2>1. t.at = "copy" /\ t.plan = <<>> /\ dir' = dir
      BY <1>1, <1>15 DEF Validate, AtPlace, outputs
    <2>2. ~\E e \in Required(t.job) : dir[p][e] = "none"
      BY <1>9, <2>1 DEF PackPlaces
    <2>3. To(p, IF t.job.archive THEN "pack" ELSE "done")
      BY <1>1, <1>15, <2>2 DEF Validate
    <2> QED BY <1>14, <2>1, <2>3 DEF PackPlaces
  <1>16. CASE Pack(p)
    <2>1. t.at = "pack" /\ dir' = dir
      BY <1>1, <1>16 DEF Pack, AtPlace
    <2>2. t.plan = <<>>
      BY <1>8, <2>1 DEF Packing, PackPlaces
    <2> QED BY <1>14, <1>16, <2>1, <2>2 DEF Pack, PackPlaces
  <1>17. CASE Compress(p)
    <2>1. t.at = "compress" /\ dir' = dir /\ archive'[p] = dir[p] /\ To(p, "done")
      BY <1>1, <1>6, <1>17 DEF Compress, AtPlace
    <2>2. t.plan = <<>>
      BY <1>8, <2>1 DEF Packing, PackPlaces
    <2> QED BY <1>14, <2>1, <2>2 DEF PackPlaces
  <1> QED BY <1>12, <1>13, <1>15, <1>16, <1>17 DEF Packages

-----------------------------------------------------------------------------
(* The invariant.                                                          *)

LEMMA LoneSteps ==
  ASSUME IInv, NEW p \in Packagers, Step(p)
  PROVE  /\ \A q \in Packagers : Undisturbed(q)'
         /\ LonePackageIsRight' /\ LoneFailureHasACause'
  <1>1. Types /\ Undisturbed(p)
    BY DEF IInv
  <1>2. /\ system' = system /\ Running(p)
        /\ \A q \in Packagers : task'[q].job = task[q].job /\ task'[q].alone = task[q].alone
        /\ \A q \in Packagers \ {p} : /\ task'[q].at = task[q].at /\ task'[q].trouble = task[q].trouble
                                      /\ dir'[q] = dir[q] /\ archive'[q] = archive[q]
    BY <1>1, Split, FetchApart, PackApart DEF Apart, Quiet, outputs
  <1>3. ASSUME NEW q \in Packagers PROVE /\ Required(task[q].job)' = Required(task[q].job)
                                         /\ Plan(task[q].job)' = Plan(task[q].job)
                                         /\ Copies(task[q].job)' = Copies(task[q].job)
    BY <1>2, Requires
  <1>4. ASSUME NEW q \in Packagers \ {p} PROVE Undisturbed(q)'
    <2>1. ~Lone(q)
      BY <1>2 DEF IInv, Undisturbed
    <2>2. ~Lone(q)'
      BY <1>2, <2>1 DEF Lone, Running
    <2> QED BY <2>2 DEF Undisturbed
  \* Of p itself, when it is alone.
  <1>5. ASSUME task[p].alone
        PROVE  /\ Undisturbed(p)'
               /\ task'[p].at = "failed" => task'[p].trouble
               /\ task'[p].at = "done" => /\ dir'[p] = Package(task[p].job)
                                          /\ task[p].job.archive => archive'[p] = dir'[p]
    <2>1. Lone(p) /\ \A q \in Packagers \ {p} : ~Running(q)
      BY <1>1, <1>2, <1>5 DEF Lone, Undisturbed
    <2>2. \A q \in Packagers \ {p} : ~Running(q)'
      BY <1>2, <2>1 DEF Running
    <2>3. CASE Fetch(p)
      <3>1. /\ ~task'[p].torn /\ task'[p].built = "right"
            /\ task'[p].at = "failed" => task'[p].trouble
            /\ task'[p].at \in FetchPlaces =>
                  /\ OnPlan(Plan(task[p].job), task'[p])
                  /\ PastIsReady(data', Plan(task[p].job), task'[p])
                  /\ Fetching(data', task'[p])
        BY <1>1, <2>1, <2>3, LoneFetch
      <3>2. task'[p].at \in FetchPlaces \cup {"failed"}
        BY <1>1, <2>3, FetchApart DEF Apart
      <3>3. task'[p].at \notin PackPlaces /\ task'[p].at # "done"
        BY <3>2 DEF FetchPlaces, PackPlaces
      <3>4. Undisturbed(p)'
        BY <1>3, <2>2, <3>1, <3>3 DEF Undisturbed
      <3> QED BY <3>1, <3>3, <3>4
    <2>4. CASE Packages(p)
      <3>1. /\ ~task'[p].torn /\ task'[p].built = "right" /\ task'[p].at # "failed"
            /\ task'[p].at \in PackPlaces =>
                  /\ OnPlan(Copies(task[p].job), task'[p])
                  /\ Packing(dir'[p], Copies(task[p].job), task'[p])
                  /\ Ready(data, "rg") /\ (HasZsh => Ready(data, "zsh"))
            /\ task'[p].at = "done" =>
                  /\ dir'[p] = Package(task[p].job)
                  /\ task[p].job.archive => archive'[p] = dir'[p]
        BY <1>1, <2>1, <2>4, LonePack
      <3>2. task'[p].at \in PackPlaces \cup {"refused", "failed", "done"} /\ data' = data
        BY <1>1, <2>4, PackApart DEF Apart
      <3>3. task'[p].at \notin FetchPlaces
        BY <3>2 DEF FetchPlaces, PackPlaces
      <3>4. HasZsh' = HasZsh
        BY <1>2 DEF HasZsh
      <3>5. Undisturbed(p)'
        BY <1>3, <2>2, <3>1, <3>2, <3>3, <3>4 DEF Undisturbed
      <3> QED BY <3>1, <3>5
    <2> QED BY <2>3, <2>4, Split
  <1>6. Undisturbed(p)'
    <2>1. CASE ~task[p].alone
      BY <1>2, <2>1 DEF Undisturbed, Lone
    <2> QED BY <1>5, <2>1
  <1>7. LoneFailureHasACause'
    BY <1>2, <1>5 DEF IInv, LoneFailureHasACause
  <1>8. LonePackageIsRight'
    <2> SUFFICES ASSUME NEW q \in Packagers, task'[q].at = "done", task'[q].alone
                 PROVE  /\ dir'[q] = Package(task[q].job)
                        /\ task'[q].job.archive => archive'[q] = dir'[q]
      BY <1>2, <1>3 DEF LonePackageIsRight, Package
    <2>1. CASE q = p
      BY <1>2, <1>5, <2>1
    <2>2. CASE q # p
      BY <1>2, <2>2 DEF IInv, LonePackageIsRight, Package
    <2> QED BY <2>1, <2>2
  <1> QED BY <1>4, <1>6, <1>7, <1>8

LEMMA OtherSteps ==
  ASSUME IInv, (\E p \in Packagers : (\E job \in Jobs : Begin(p, job)) \/ Kill(p)) \/ NewManifest \/ UNCHANGED vars
  PROVE  /\ \A q \in Packagers : Undisturbed(q)'
         /\ LonePackageIsRight' /\ LoneFailureHasACause'
  <1>0. Types /\ task \in [Packagers -> Tasks]
    BY DEF IInv, Types, Typed
  \* A step that leaves q where it was, or a packager that is not alone any more.
  <1>1. ASSUME NEW q \in Packagers, system' = system, dir' = dir, archive' = archive,
               task'[q].at = task[q].at, task'[q].job = task[q].job, task'[q].trouble = task[q].trouble,
               task'[q].alone => task[q].alone
        PROVE  /\ task'[q].at = "failed" /\ task'[q].alone => task'[q].trouble
               /\ task'[q].at = "done" /\ task'[q].alone =>
                     /\ dir'[q] = Package(task[q].job)'
                     /\ task'[q].job.archive => archive'[q] = dir'[q]
    <2>1. Package(task[q].job)' = Package(task[q].job)
      BY <1>1, Requires DEF Package
    <2> QED BY <1>1, <2>1 DEF IInv, LonePackageIsRight, LoneFailureHasACause, Package
  \* The same of all of them.
  <1>2. ASSUME \A q \in Packagers : /\ task'[q].at = "failed" /\ task'[q].alone => task'[q].trouble
                                    /\ task'[q].at = "done" /\ task'[q].alone =>
                                          /\ dir'[q] = Package(task[q].job)'
                                          /\ task'[q].job.archive => archive'[q] = dir'[q]
        PROVE  LonePackageIsRight' /\ LoneFailureHasACause'
    BY <1>2 DEF LonePackageIsRight, LoneFailureHasACause, Package
  <1>3. ASSUME NEW p \in Packagers, NEW job \in Jobs, Begin(p, job)
        PROVE  /\ \A q \in Packagers : Undisturbed(q)'
               /\ LonePackageIsRight' /\ LoneFailureHasACause'
    <2>1. UNCHANGED <<system, data, dir, archive>>
      BY <1>3 DEF Begin, outputs
    <2>2. /\ task'[p].at = (IF Unsupported(job) THEN "refused" ELSE "check") /\ task'[p].job = job
          /\ task'[p].plan = Plan(job) /\ task'[p].built = "right" /\ ~task'[p].torn
          /\ task'[p].alone <=> \A q \in Packagers \ {p} : ~Running(q)
      BY <1>0, <1>3, Beginning
    <2>3. \A q \in Packagers \ {p} :
             /\ task'[q].at = task[q].at /\ task'[q].job = task[q].job /\ task'[q].trouble = task[q].trouble
             /\ task'[q].alone => task[q].alone /\ ~Running(q)
      BY <1>0, <1>3, BeginApart
    <2>4. ASSUME NEW q \in Packagers \ {p} PROVE Undisturbed(q)'
      BY <2>3 DEF Undisturbed, Lone, Running
    <2>5. Undisturbed(p)'
      <3>1. Plan(task[p].job)' = Plan(job)
        BY <2>1, <2>2 DEF Plan, HasZsh, FetchesV8, Sources
      <3>2. PICK u : u = task'[p]
        OBVIOUS
      <3>3. PICK s \in Seq(Items \cup {"cargo"}) : s = Plan(job)
        BY Plans
      <3>4. Past(s, u) = 0 /\ u.plan = s
        BY <2>2, <3>2, <3>3 DEF Past
      <3>5. OnPlan(s, u) /\ PastIsReady(data', s, u)
        BY <3>4 DEF OnPlan, PastIsReady
      <3>6. task'[p].at = "check" => Fetching(data', u)
        BY <3>2 DEF Fetching
      <3>7. task'[p].at \in {"refused", "check"} /\ task'[p].at \notin PackPlaces
        BY <2>2 DEF PackPlaces
      <3>8. task'[p].alone => \A q \in Packagers \ {p} : ~Running(q)'
        BY <2>2, <2>3 DEF Running
      <3>9. CASE task'[p].at = "refused"
        BY <3>9 DEF Undisturbed, Lone, Running, Ended
      <3>10. CASE task'[p].at = "check"
        BY <2>2, <3>1, <3>2, <3>3, <3>5, <3>6, <3>7, <3>8, <3>10 DEF Undisturbed, Lone
      <3> QED BY <3>7, <3>9, <3>10
    <2>6. task'[p].at \notin {"failed", "done"}
      BY <2>2
    <2> QED BY <1>1, <1>2, <2>1, <2>3, <2>4, <2>5, <2>6
  <1>4. ASSUME NEW p \in Packagers, Kill(p)
        PROVE  /\ \A q \in Packagers : Undisturbed(q)'
               /\ LonePackageIsRight' /\ LoneFailureHasACause'
    <2>1. UNCHANGED <<system, data, dir, archive>> /\ Running(p)
      BY <1>4 DEF Kill, outputs
    <2>2. \A q \in Packagers \ {p} : task'[q] = task[q]
      BY <1>0, <1>4 DEF Kill
    <2>3. task'[p].at = "killed"
      BY <1>0, <1>4, OffTypes DEF Kill, Tasks
    <2>4. ASSUME NEW q \in Packagers \ {p} PROVE Undisturbed(q)'
      <3>1. ~Lone(q)
        BY <2>1 DEF IInv, Undisturbed
      <3> QED BY <2>2, <3>1 DEF Undisturbed, Lone, Running
    <2>5. Undisturbed(p)'
      BY <2>3 DEF Undisturbed, Lone, Running, Ended
    <2> QED BY <1>1, <1>2, <2>1, <2>2, <2>3, <2>4, <2>5
  <1>5. ASSUME NewManifest
        PROVE  /\ \A q \in Packagers : Undisturbed(q)'
               /\ LonePackageIsRight' /\ LoneFailureHasACause'
    <2>1. UNCHANGED <<system, task, dir, archive>> /\ \A q \in Packagers : ~Running(q)
      BY <1>5 DEF NewManifest, outputs
    <2>2. \A q \in Packagers : Undisturbed(q)'
      BY <2>1 DEF Undisturbed, Lone, Running
    <2> QED BY <1>1, <1>2, <2>1, <2>2
  <1>6. ASSUME UNCHANGED vars
        PROVE  /\ \A q \in Packagers : Undisturbed(q)'
               /\ LonePackageIsRight' /\ LoneFailureHasACause'
    <2>1. UNCHANGED <<system, data, task, dir, archive>>
      BY <1>6 DEF vars
    <2>2. \A q \in Packagers : Undisturbed(q)'
      <3> SUFFICES ASSUME NEW q \in Packagers PROVE Undisturbed(q)'
        OBVIOUS
      <3>1. Undisturbed(q)
        BY DEF IInv
      <3>2. /\ Plan(task[q].job)' = Plan(task[q].job) /\ Copies(task[q].job)' = Copies(task[q].job)
            /\ HasZsh' = HasZsh
        BY <2>1, Requires DEF HasZsh
      <3> QED BY <2>1, <3>1, <3>2 DEF Undisturbed, Lone, Running
    <2> QED BY <1>1, <1>2, <2>1, <2>2
  <1> QED BY <1>3, <1>4, <1>5, <1>6

LEMMA InitIInv == Init => IInv
  <1> SUFFICES ASSUME Init PROVE IInv
    OBVIOUS
  <1>1. \A p \in Packagers : task[p].at = "off"
    BY OffTypes DEF Init
  <1>2. /\ \A p \in Packagers : Undisturbed(p)
        /\ LonePackageIsRight /\ LoneFailureHasACause
    BY <1>1 DEF Undisturbed, Lone, Running, Ended, LonePackageIsRight, LoneFailureHasACause
  <1> QED BY <1>2, InitTypes DEF IInv

\* What the packagers write and open, and that one which has the caches to itself finds
\* and makes what is right, holds initially and is kept by every step.
THEOREM PackageInvariant == Spec => []IInv
  <1>1. IInv /\ [Next]_vars => IInv'
    <2> SUFFICES ASSUME IInv, [Next]_vars PROVE IInv'
      OBVIOUS
    <2>1. Types' /\ Written'
      BY TypesStep, WrittenStep DEF IInv
    <2>2. /\ \A q \in Packagers : Undisturbed(q)'
          /\ LonePackageIsRight' /\ LoneFailureHasACause'
      <3>1. ASSUME NEW p \in Packagers, Step(p)
            PROVE  /\ \A q \in Packagers : Undisturbed(q)'
                   /\ LonePackageIsRight' /\ LoneFailureHasACause'
        BY <3>1, LoneSteps
      <3> QED BY <3>1, OtherSteps DEF Next
    <2> QED BY <2>1, <2>2 DEF IInv
  <1> QED BY <1>1, InitIInv, PTL DEF Spec

\* A packager that had the caches to itself ends with exactly the package it was asked
\* for, whatever was left in the caches, the directory and the archive.
THEOREM LonePackagesAreRight == Spec => []LonePackageIsRight
  <1>1. IInv => LonePackageIsRight
    BY DEF IInv
  <1> QED BY <1>1, PackageInvariant, PTL

\* Such a packager fails only when the network or cargo does.
THEOREM LoneFailuresHaveACause == Spec => []LoneFailureHasACause
  <1>1. IInv => LoneFailureHasACause
    BY DEF IInv
  <1> QED BY <1>1, PackageInvariant, PTL
=============================================================================
