----------------------------- MODULE DataReload -----------------------------
(***************************************************************************)
(* Hot reload of data files: Router.Reload of app/router/api_reload.go     *)
(* over the FileLoaders and FileLoaderGroups of app/router/data_loader.go. *)
(*                                                                         *)
(* A file's content is a Version, or Broken when it cannot be read or      *)
(* parsed.  FileLoader.v and FileLoader.hash always belong to one version, *)
(* data[l]; so do staged and stagedHash.  Reading and staging one file is  *)
(* a step, and so is committing one loader, since queries may look at v    *)
(* at any time.                                                            *)
(***************************************************************************)
EXTENDS Naturals, Sequences

CONSTANTS
    Loader,     \* the FileLoaders
    Group,      \* the Dataloaders of Reload: sequences of FileLoaders
    Caller,     \* requests of /ctl/reload
    Version,    \* contents that parse
    Broken,     \* any other content
    None

ASSUME ReloadAssumption ==
    /\ Group \subseteq Seq(Loader) \ {<<>>}
    /\ \A l \in Loader : \E g \in Group : \E i \in DOMAIN g : g[i] = l
    /\ Broken \notin Version /\ None \notin Version \cup Group

VARIABLES
    file,       \* content of each file now
    data,       \* FileLoader.v (and hash)
    staged,     \* FileLoader.staged (and stagedHash)
    reloading,  \* Router.reloading
    pc,         \* where each Reload stands
    pending,    \* reloaders it has not reached yet
    group,      \* the reloader it is loading
    loaded,     \* how many loaders of that group are loaded
    ready,      \* stagedReloaders
    todo,       \* loaders it has to commit yet
    newHash,    \* history: the version LoadAndStage read from each file
    before      \* history: data when the reload began

loaderVars == <<data, staged>>
localVars == <<pending, group, loaded, ready, todo>>
historyVars == <<newHash, before>>
vars == <<file, loaderVars, reloading, pc, localVars, historyVars>>

Members(gs) == UNION {{g[i] : i \in DOMAIN g} : g \in gs}

TypeOK ==
    /\ file \in [Loader -> Version \cup {Broken}]
    /\ data \in [Loader -> Version]
    /\ staged \in [Loader -> Version \cup {None}]
    /\ reloading \in BOOLEAN
    /\ pc \in [Caller -> {"idle", "loading", "committing", "ok", "failed", "refused"}]
    /\ pending \in [Caller -> SUBSET Group]
    /\ group \in [Caller -> Group \cup {None}]
    /\ loaded \in [Caller -> Nat]
    /\ ready \in [Caller -> SUBSET Group]
    /\ todo \in [Caller -> SUBSET Loader]
    /\ newHash \in [Caller -> [Loader -> Version \cup {None}]]
    /\ before \in [Caller -> [Loader -> Version \cup {None}]]

\* FileLoader.Init has loaded each file before the router runs.
Init ==
    /\ file \in [Loader -> Version]
    /\ data = file
    /\ staged = [l \in Loader |-> None]
    /\ reloading = FALSE
    /\ pc = [c \in Caller |-> "idle"]
    /\ pending = [c \in Caller |-> {}]
    /\ group = [c \in Caller |-> None]
    /\ loaded = [c \in Caller |-> 0]
    /\ ready = [c \in Caller |-> {}]
    /\ todo = [c \in Caller |-> {}]
    /\ newHash = [c \in Caller |-> [l \in Loader |-> None]]
    /\ before = newHash

Goto(c, state) == pc' = [pc EXCEPT ![c] = state]

-----------------------------------------------------------------------------
MayReloadAlways == TRUE
MayReload == ~reloading

Begin(c) ==
    /\ pc[c] = "idle" /\ MayReload
    /\ reloading' = TRUE
    /\ pending' = [pending EXCEPT ![c] = Group]
    /\ before' = [before EXCEPT ![c] = data]
    /\ Goto(c, "loading")
    /\ UNCHANGED <<file, loaderVars, group, loaded, ready, todo, newHash>>

\* ErrConcurrentReload
RefuseReload(c) ==
    /\ pc[c] = "idle" /\ reloading
    /\ Goto(c, "refused")
    /\ UNCHANGED <<file, loaderVars, reloading, localVars, historyVars>>

\* The group that is being loaded, or any that has not been reached yet.
Current(c) == IF group[c] = None THEN pending[c] ELSE {group[c]}

\* A group that is loaded becomes ready; nothing is committed yet.
AppliedAtOnce(g) == [l \in Loader |->
    IF l \in Members({g}) /\ staged'[l] # None THEN staged'[l] ELSE data[l]]
Applied(g) == data

\* What LoadAndStage leaves staged: nothing new if the file has not changed
\* or cannot be read or parsed.
Staging(l) == IF file[l] # Broken /\ file[l] # data[l] THEN file[l] ELSE staged[l]

Load(c) ==
    /\ pc[c] = "loading"
    /\ \E g \in Current(c) :
        LET l == g[loaded[c] + 1]
            isLast == loaded[c] + 1 = Len(g)
        IN
        /\ file[l] # Broken
        /\ staged' = [staged EXCEPT ![l] = Staging(l)]
        /\ newHash' = [newHash EXCEPT ![c][l] = file[l]]
        /\ IF isLast
           THEN /\ pending' = [pending EXCEPT ![c] = @ \ {g}]
                /\ group' = [group EXCEPT ![c] = None]
                /\ loaded' = [loaded EXCEPT ![c] = 0]
                /\ ready' = [ready EXCEPT ![c] = @ \cup {g}]
                /\ data' = Applied(g)
           ELSE /\ group' = [group EXCEPT ![c] = g]
                /\ loaded' = [loaded EXCEPT ![c] = @ + 1]
                /\ UNCHANGED <<pending, ready, data>>
    /\ UNCHANGED <<file, reloading, pc, todo, before>>

\* The locals of Reload end with it.
Leave(c, state) ==
    /\ Goto(c, state)
    /\ pending' = [pending EXCEPT ![c] = {}]
    /\ group' = [group EXCEPT ![c] = None]
    /\ loaded' = [loaded EXCEPT ![c] = 0]
    /\ ready' = [ready EXCEPT ![c] = {}]
    /\ newHash' = [newHash EXCEPT ![c] = [l \in Loader |-> None]]
    /\ before' = [before EXCEPT ![c] = [l \in Loader |-> None]]

ReleasedKept == reloading
Released == FALSE

\* discardAll reaches the groups that were ready, not the one that failed.
LoadFails(c) ==
    /\ pc[c] = "loading"
    /\ \E g \in Current(c) :
        LET l == g[loaded[c] + 1] IN
        /\ file[l] = Broken
        /\ staged' = [k \in Loader |->
                        IF k \in Members(ready[c]) THEN None
                        ELSE IF k = l THEN Staging(l)
                        ELSE staged[k]]
    /\ reloading' = Released
    /\ Leave(c, "failed")
    /\ UNCHANGED <<file, data, todo>>

\* Every reloader is ready.
StartCommit(c) ==
    /\ pc[c] = "loading" /\ pending[c] = {} /\ group[c] = None
    /\ todo' = [todo EXCEPT ![c] = Members(ready[c])]
    /\ Goto(c, "committing")
    /\ UNCHANGED <<file, loaderVars, reloading, pending, group, loaded, ready, historyVars>>

CommitOne(c) ==
    /\ pc[c] = "committing"
    /\ \E l \in todo[c] :
        /\ data' = [data EXCEPT ![l] = IF staged[l] # None THEN staged[l] ELSE @]
        /\ staged' = [staged EXCEPT ![l] = None]
        /\ todo' = [todo EXCEPT ![c] = @ \ {l}]
    /\ UNCHANGED <<file, reloading, pc, pending, group, loaded, ready, historyVars>>

Succeed(c) ==
    /\ pc[c] = "committing" /\ todo[c] = {}
    /\ reloading' = FALSE
    /\ Leave(c, "ok")
    /\ UNCHANGED <<file, loaderVars, todo>>

Return(c) ==
    /\ pc[c] \in {"ok", "failed", "refused"}
    /\ Goto(c, "idle")
    /\ UNCHANGED <<file, loaderVars, reloading, localVars, historyVars>>

\* Somebody edits, removes or restores a file.
Edit(l) ==
    /\ \E x \in Version \cup {Broken} : x # file[l] /\ file' = [file EXCEPT ![l] = x]
    /\ UNCHANGED <<loaderVars, reloading, pc, localVars, historyVars>>

Step(c) ==
    \/ Begin(c) \/ RefuseReload(c) \/ Load(c) \/ LoadFails(c)
    \/ StartCommit(c) \/ CommitOne(c) \/ Succeed(c) \/ Return(c)

Next == (\E c \in Caller : Step(c)) \/ \E l \in Loader : Edit(l)

Spec == Init /\ [][Next]_vars

(* A reload that was started goes on, and there is always one more.        *)
FairSpec == Spec /\ \A c \in Caller : WF_vars(Step(c))

-----------------------------------------------------------------------------
(* A reload that fails has applied nothing, and neither has another one     *)
(* while it ran: FileLoaders are not safe for concurrent use, and the       *)
(* compare-and-swap on reloading keeps reloads apart, so the loaders serve  *)
(* what they served when it began although earlier files were loaded.       *)
FailureKeepsData ==
    [][\A c \in Caller : pc[c] = "loading" /\ pc'[c] = "failed" => data = before[c]]_vars

(* Once the files are left alone in a good state, reloads converge to it,  *)
(* whatever failed reloads left behind.                                    *)
Converges ==
    \A good \in [Loader -> Version] : <>[](file = good) => <>[](data = good)

-----------------------------------------------------------------------------
(* docs/wiki.md on /ctl/reload: the changes are applied only if all files  *)
(* are reloaded successfully, never half of a reload.  So what a reload    *)
(* applies is what it loaded itself.                                       *)
SuccessApplies ==
    [][\A c \in Caller : pc[c] = "committing" /\ pc'[c] = "ok" => data = newHash[c]]_vars
=============================================================================
