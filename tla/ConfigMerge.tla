------------------------------ MODULE ConfigMerge -------------------------------
(***************************************************************************)
(* merge.js, the script of the init-config container: how the              *)
(* configuration the operator generates is merged into the openclaw.json   *)
(* of the volume, which the user and the gateway edit as well.             *)
(*                                                                         *)
(* A configuration is a function from its leaves to their values; a leaf   *)
(* is <<path, key, field>>: the object it is in, its entry of that object  *)
(* and the field of the entry.  An entry is <<path, key>>.                 *)
(***************************************************************************)
\* managedRuntimePaths: the objects whose entries the operator keeps a record of.
ManagedPaths == {"providers", "models", "modelPolicy", "channels", "plugins"}

\* managedInfrastructureConfig: what is the operator's whoever manages the rest.
InfrastructurePaths == {"gateway", "update"}

\* agents.defaults.model
Primary == <<"model", "primary", "">>
Fallbacks == <<"model", "fallbacks", "">>
Selection == {Primary, Fallbacks}

-----------------------------------------------------------------------------
(* Configurations *)

Empty == [l \in {} |-> ""]

Entry(l) == <<l[1], l[2]>>

\* The part of c with the leaves in S.
Only(c, S) == [l \in DOMAIN c \cap S |-> c[l]]

LeavesAt(c, paths) == {l \in DOMAIN c : l[1] \in paths}

LeavesOf(c, entries) == {l \in DOMAIN c : Entry(l) \in entries}

Drop(c, S) == Only(c, DOMAIN c \ S)

Set(c, l, v) == [k \in DOMAIN c \cup {l} |-> IF k = l THEN v ELSE c[k]]

SetDefault(c, l, v) == IF l \in DOMAIN c THEN c ELSE Set(c, l, v)

\* The entries of the managed objects of c.
Entries(c) == {Entry(l) : l \in LeavesAt(c, ManagedPaths)}

ModelsIn(c) == {l[2] : l \in LeavesAt(c, {"models"})}

\* What c selects, if anything, is among models.
Selects(c, models) ==
    /\ Primary \in DOMAIN c => c[Primary] \in models
    /\ Fallbacks \in DOMAIN c => c[Fallbacks] \subseteq models

\* The values of source win.  Lists are leaves, and so replaced.
deepMerge(target, source) ==
    [l \in DOMAIN target \cup DOMAIN source |-> IF l \in DOMAIN source THEN source[l] ELSE target[l]]

-----------------------------------------------------------------------------
(* Pruning *)

\* (Mutant) Everything the operator does not declare goes.
WithdrawnUnowned(c, previous, desired) == Entries(c) \ desired

\* (Mutant) Nothing goes: a deep merge never removes.
WithdrawnNever(c, previous, desired) == {}

\* The entries of the record that are no longer desired and still there.
Withdrawn(c, previous, desired) == (previous \ desired) \cap Entries(c)

RemovedModels(withdrawn) == {e[2] : e \in {w \in withdrawn : w[1] = "models"}}

\* A selection never keeps a model that has just been removed: it falls back to
\* what the operator selects, or goes.
prunePrimary(c, ops, removed) ==
    IF Primary \notin DOMAIN c \/ c[Primary] \notin removed THEN c
    ELSE IF Primary \in DOMAIN ops /\ ops[Primary] \notin removed
         THEN Set(c, Primary, ops[Primary])
         ELSE Drop(c, {Primary})

pruneFallbacks(c, ops, removed) ==
    IF Fallbacks \notin DOMAIN c THEN c
    ELSE IF c[Fallbacks] \ removed # {} THEN Set(c, Fallbacks, c[Fallbacks] \ removed)
    ELSE IF Fallbacks \in DOMAIN ops THEN Set(c, Fallbacks, ops[Fallbacks] \ removed)
    ELSE Drop(c, {Fallbacks})

\* (Mutant) The selection is left as it is.
keepRemovedModelSelections(c, ops, removed) == c

pruneRemovedModelSelections(c, ops, removed) ==
    IF removed = {} THEN c
    ELSE pruneFallbacks(prunePrimary(c, ops, removed), ops, removed)

\* pruneManagedRuntimeEntries and pruneRemovedModelSelections.
Prune(c, ops, previous, desired) ==
    LET withdrawn == Withdrawn(c, previous, desired)
    IN  pruneRemovedModelSelections(Drop(c, LeavesOf(c, withdrawn)), ops, RemovedModels(withdrawn))

-----------------------------------------------------------------------------
(* The three ways of writing openclaw.json.  previous is the record that the *)
(* last start left; the result is the new file and the new record.           *)

\* Merge mode: the operator's leaves win, except that a selection that is there
\* stays; every entry the operator declares becomes its own.
mergedConfig(base, ops, previous) ==
    LET merged == deepMerge(deepMerge(base, ops), Only(base, Selection))
    IN  [cfg |-> Prune(merged, ops, previous, Entries(ops)), record |-> Entries(ops)]

\* mergeManagedObjectEntries: the entries the operator writes.
Taken(base, ops, previous) == {e \in Entries(ops) : e \in previous \/ e \notin Entries(base)}

\* The entries it owns: those, and the ones that are equal already.
Owned(base, ops, previous) ==
    Taken(base, ops, previous)
    \cup {e \in Entries(ops) : Only(base, LeavesOf(base, {e})) = Only(ops, LeavesOf(ops, {e}))}

\* User-managed: only the infrastructure, the operator's own entries, replaced as
\* a whole, and a selection that is missing.
userManagedConfig(base, ops, previous) ==
    LET taken == Taken(base, ops, previous)
        owned == Owned(base, ops, previous)
        infra == deepMerge(base, Only(ops, LeavesAt(ops, InfrastructurePaths)))
        entries == deepMerge(Drop(infra, LeavesOf(infra, taken)), Only(ops, LeavesOf(ops, taken)))
        selected == deepMerge(Only(ops, Selection), entries)
    IN  [cfg |-> Prune(selected, ops, previous, owned), record |-> owned]

\* Overwrite mode, and the first start in any mode.
freshConfig(seed, ops) == [cfg |-> deepMerge(seed, ops), record |-> Entries(ops)]

-----------------------------------------------------------------------------
(* The workspace: a function from the names of its files and skills to their *)
(* contents.  deepMerge is also what copying files over others does.         *)

builtinSkillNames == {"platform", "kubernetes"}

\* seedIfMissing: what is there stays.
Seed(ws, files) == deepMerge(files, ws)

\* seedAgentFiles, the _ws_ files, and then the builtin files and the operator's
\* skills, or what a user-managed workspace gets instead.
seededWorkspace(ws, data, agent, mgmt) ==
    LET agents == IF agent.always THEN deepMerge(ws, agent.files) ELSE Seed(ws, agent.files)
        own == Seed(agents, data.files)
    IN  IF mgmt = "user"
        THEN Seed(Drop(own, builtinSkillNames), [f \in {"deployment"} |-> "builtin"])
        ELSE deepMerge(Seed(own, [f \in {"AGENTS", "SOUL", "BOOTSTRAP"} |-> "builtin"]), data.skills)
=============================================================================
