--------------------------- MODULE ConfigMerge_proofs ---------------------------
(***************************************************************************)
(* What merge.js does to a configuration, for all configurations: what     *)
(* pruning takes away, and what each of the three ways of writing          *)
(* openclaw.json keeps, brings and selects.                                *)
(***************************************************************************)
EXTENDS ConfigMerge, TLAPS

-----------------------------------------------------------------------------
(* Configurations *)

LEMMA DropFacts ==
  ASSUME NEW c, NEW S
  PROVE  /\ DOMAIN Drop(c, S) = DOMAIN c \ S
         /\ \A l \in DOMAIN c \ S : Drop(c, S)[l] = c[l]
  BY DEF Drop, Only

LEMMA EntryFacts ==
  ASSUME NEW c
  PROVE  /\ \A l \in DOMAIN c : l[1] \in ManagedPaths => Entry(l) \in Entries(c)
         /\ \A e \in Entries(c) : /\ e[1] \in ManagedPaths
                                  /\ \E l \in DOMAIN c : l[1] \in ManagedPaths /\ Entry(l) = e
         /\ \A l : Entry(l) \in Entries(c) => l[1] \in ManagedPaths
  <1>1. \A l : Entry(l)[1] = l[1]
    BY DEF Entry
  <1> QED
    BY <1>1 DEF Entries, LeavesAt

\* The models of a configuration are its entries of the object "models".
LEMMA ModelFacts ==
  ASSUME NEW c, NEW m
  PROVE  m \in ModelsIn(c) <=> <<"models", m>> \in Entries(c)
  <1>1. ASSUME m \in ModelsIn(c) PROVE <<"models", m>> \in Entries(c)
    <2>1. PICK l \in DOMAIN c : l[1] = "models" /\ m = l[2]
      BY <1>1 DEF ModelsIn, LeavesAt
    <2> QED
      BY <2>1 DEF Entries, Entry, LeavesAt, ManagedPaths
  <1>2. ASSUME <<"models", m>> \in Entries(c) PROVE m \in ModelsIn(c)
    <2>1. PICK l \in DOMAIN c : <<l[1], l[2]>> = <<"models", m>>
      BY <1>2 DEF Entries, Entry, LeavesAt
    <2> QED
      BY <2>1 DEF ModelsIn, LeavesAt
  <1> QED
    BY <1>1, <1>2

LEMMA SelectionFacts ==
  /\ Primary # Fallbacks
  /\ \A l \in Selection : l[1] \notin ManagedPaths /\ l[1] \notin InfrastructurePaths
  /\ ManagedPaths \cap InfrastructurePaths = {}
  BY DEF Primary, Fallbacks, Selection, ManagedPaths, InfrastructurePaths

-----------------------------------------------------------------------------
(* Pruning *)

\* What prunePrimary and pruneFallbacks do to the leaves of a configuration.
LEMMA PrunePrimaryFacts ==
  ASSUME NEW c, NEW ops, NEW removed
  PROVE  LET r == prunePrimary(c, ops, removed)
         IN  /\ DOMAIN r \ {Primary} = DOMAIN c \ {Primary}
             /\ \A l \in DOMAIN c : l # Primary => r[l] = c[l]
             /\ Primary \in DOMAIN r =>
                  \/ Primary \in DOMAIN c /\ r[Primary] = c[Primary] /\ c[Primary] \notin removed
                  \/ Primary \in DOMAIN ops /\ r[Primary] = ops[Primary] /\ ops[Primary] \notin removed
             /\ Primary \in DOMAIN c /\ c[Primary] \notin removed =>
                  Primary \in DOMAIN r /\ r[Primary] = c[Primary]
  <1> DEFINE r == prunePrimary(c, ops, removed)
  <1>1. CASE Primary \notin DOMAIN c \/ c[Primary] \notin removed
    BY <1>1 DEF prunePrimary
  <1>2. CASE ~ (Primary \notin DOMAIN c \/ c[Primary] \notin removed)
    <2>1. CASE Primary \in DOMAIN ops /\ ops[Primary] \notin removed
      <3>1. r = Set(c, Primary, ops[Primary])
        BY <1>2, <2>1 DEF prunePrimary
      <3>2. /\ DOMAIN r = DOMAIN c \cup {Primary} /\ r[Primary] = ops[Primary]
            /\ \A l \in DOMAIN c : l # Primary => r[l] = c[l]
        BY <3>1 DEF Set
      <3> QED
        BY <1>2, <2>1, <3>2
    <2>2. CASE ~ (Primary \in DOMAIN ops /\ ops[Primary] \notin removed)
      <3>1. r = Drop(c, {Primary})
        BY <1>2, <2>2 DEF prunePrimary
      <3>2. /\ DOMAIN r = DOMAIN c \ {Primary}
            /\ \A l \in DOMAIN c : l # Primary => r[l] = c[l]
        BY <3>1 DEF Drop, Only
      <3> QED
        BY <1>2, <3>2
    <2> QED
      BY <2>1, <2>2
  <1> QED
    BY <1>1, <1>2

LEMMA PruneFallbacksFacts ==
  ASSUME NEW c, NEW ops, NEW removed
  PROVE  LET r == pruneFallbacks(c, ops, removed)
         IN  /\ DOMAIN r \ {Fallbacks} = DOMAIN c \ {Fallbacks}
             /\ \A l \in DOMAIN c : l # Fallbacks => r[l] = c[l]
             /\ Fallbacks \in DOMAIN r =>
                  \/ Fallbacks \in DOMAIN c /\ r[Fallbacks] = c[Fallbacks] \ removed
                  \/ Fallbacks \in DOMAIN ops /\ r[Fallbacks] = ops[Fallbacks] \ removed
  <1> DEFINE r == pruneFallbacks(c, ops, removed)
  <1>1. CASE Fallbacks \notin DOMAIN c
    BY <1>1 DEF pruneFallbacks
  <1>2. CASE Fallbacks \in DOMAIN c /\ c[Fallbacks] \ removed # {}
    <2>1. r = Set(c, Fallbacks, c[Fallbacks] \ removed)
      BY <1>2 DEF pruneFallbacks
    <2>2. /\ DOMAIN r = DOMAIN c \cup {Fallbacks} /\ r[Fallbacks] = c[Fallbacks] \ removed
          /\ \A l \in DOMAIN c : l # Fallbacks => r[l] = c[l]
      BY <2>1 DEF Set
    <2> QED
      BY <1>2, <2>2
  <1>3. CASE Fallbacks \in DOMAIN c /\ c[Fallbacks] \ removed = {} /\ Fallbacks \in DOMAIN ops
    <2>1. r = Set(c, Fallbacks, ops[Fallbacks] \ removed)
      BY <1>3 DEF pruneFallbacks
    <2>2. /\ DOMAIN r = DOMAIN c \cup {Fallbacks} /\ r[Fallbacks] = ops[Fallbacks] \ removed
          /\ \A l \in DOMAIN c : l # Fallbacks => r[l] = c[l]
      BY <2>1 DEF Set
    <2> QED
      BY <1>3, <2>2
  <1>4. CASE Fallbacks \in DOMAIN c /\ c[Fallbacks] \ removed = {} /\ Fallbacks \notin DOMAIN ops
    <2>1. r = Drop(c, {Fallbacks})
      BY <1>4 DEF pruneFallbacks
    <2>2. /\ DOMAIN r = DOMAIN c \ {Fallbacks}
          /\ \A l \in DOMAIN c : l # Fallbacks => r[l] = c[l]
      BY <2>1 DEF Drop, Only
    <2> QED
      BY <1>4, <2>2
  <1> QED
    BY <1>1, <1>2, <1>3, <1>4

\* pruneRemovedModelSelections touches nothing but the selection, and what it
\* selects has not been removed.
LEMMA PruneSelectionFacts ==
  ASSUME NEW c, NEW ops, NEW removed
  PROVE  LET r == pruneRemovedModelSelections(c, ops, removed)
         IN  /\ DOMAIN r \ Selection = DOMAIN c \ Selection
             /\ \A l \in DOMAIN c \ Selection : r[l] = c[l]
             /\ Primary \in DOMAIN r =>
                  \/ Primary \in DOMAIN c /\ r[Primary] = c[Primary] /\ c[Primary] \notin removed
                  \/ Primary \in DOMAIN ops /\ r[Primary] = ops[Primary] /\ ops[Primary] \notin removed
             /\ Primary \in DOMAIN c /\ c[Primary] \notin removed =>
                  Primary \in DOMAIN r /\ r[Primary] = c[Primary]
             /\ Fallbacks \in DOMAIN r =>
                  \/ Fallbacks \in DOMAIN c /\ r[Fallbacks] = c[Fallbacks] \ removed
                  \/ Fallbacks \in DOMAIN ops /\ r[Fallbacks] = ops[Fallbacks] \ removed
                  \/ Fallbacks \in DOMAIN c /\ r[Fallbacks] = c[Fallbacks] /\ removed = {}
  <1> DEFINE p == prunePrimary(c, ops, removed)
             f == pruneFallbacks(p, ops, removed)
  <1>1. CASE removed = {}
    <2>1. pruneRemovedModelSelections(c, ops, removed) = c
      BY <1>1 DEF pruneRemovedModelSelections
    <2> QED
      BY <1>1, <2>1
  <1>2. CASE removed # {}
    <2>1. pruneRemovedModelSelections(c, ops, removed) = f
      BY <1>2 DEF pruneRemovedModelSelections
    <2>2. /\ DOMAIN p \ {Primary} = DOMAIN c \ {Primary}
          /\ \A l \in DOMAIN c : l # Primary => p[l] = c[l]
          /\ Primary \in DOMAIN p =>
               \/ Primary \in DOMAIN c /\ p[Primary] = c[Primary] /\ c[Primary] \notin removed
               \/ Primary \in DOMAIN ops /\ p[Primary] = ops[Primary] /\ ops[Primary] \notin removed
          /\ Primary \in DOMAIN c /\ c[Primary] \notin removed =>
               Primary \in DOMAIN p /\ p[Primary] = c[Primary]
      BY PrunePrimaryFacts
    <2> HIDE DEF p
    <2>3. /\ DOMAIN f \ {Fallbacks} = DOMAIN p \ {Fallbacks}
          /\ \A l \in DOMAIN p : l # Fallbacks => f[l] = p[l]
          /\ Fallbacks \in DOMAIN f =>
               \/ Fallbacks \in DOMAIN p /\ f[Fallbacks] = p[Fallbacks] \ removed
               \/ Fallbacks \in DOMAIN ops /\ f[Fallbacks] = ops[Fallbacks] \ removed
      BY PruneFallbacksFacts
    <2> HIDE DEF f
    <2>4. Primary # Fallbacks
      BY SelectionFacts
    <2>5. Primary \in DOMAIN f <=> Primary \in DOMAIN p
      BY <2>3, <2>4
    <2>6. Primary \in DOMAIN f => f[Primary] = p[Primary]
      BY <2>3, <2>4, <2>5
    <2>7. Fallbacks \in DOMAIN p => Fallbacks \in DOMAIN c /\ p[Fallbacks] = c[Fallbacks]
      BY <2>2, <2>4
    <2>8. DOMAIN f \ Selection = DOMAIN c \ Selection
      BY <2>2, <2>3 DEF Selection
    <2>9. \A l \in DOMAIN c \ Selection : f[l] = c[l]
      BY <2>2, <2>3 DEF Selection
    <2> QED
      BY <2>1, <2>2, <2>3, <2>5, <2>6, <2>7, <2>8, <2>9
  <1> QED
    BY <1>1, <1>2

\* Pruning takes away the withdrawn entries, and no other leaf but of the selection.
LEMMA PruneFacts ==
  ASSUME NEW c, NEW ops, NEW previous, NEW desired
  PROVE  LET r == Prune(c, ops, previous, desired)
             gone == Withdrawn(c, previous, desired)
             removed == RemovedModels(gone)
         IN  /\ \A l : l \in DOMAIN r \ Selection <=> l \in DOMAIN c \ Selection /\ Entry(l) \notin gone
             /\ \A l \in DOMAIN r \ Selection : r[l] = c[l]
             /\ Primary \in DOMAIN r =>
                  \/ Primary \in DOMAIN c /\ r[Primary] = c[Primary] /\ c[Primary] \notin removed
                  \/ Primary \in DOMAIN ops /\ r[Primary] = ops[Primary] /\ ops[Primary] \notin removed
             /\ Primary \in DOMAIN c /\ c[Primary] \notin removed =>
                  Primary \in DOMAIN r /\ r[Primary] = c[Primary]
             /\ Fallbacks \in DOMAIN r =>
                  \/ Fallbacks \in DOMAIN c /\ r[Fallbacks] = c[Fallbacks] \ removed
                  \/ Fallbacks \in DOMAIN ops /\ r[Fallbacks] = ops[Fallbacks] \ removed
                  \/ Fallbacks \in DOMAIN c /\ r[Fallbacks] = c[Fallbacks] /\ removed = {}
  <1> DEFINE gone == Withdrawn(c, previous, desired)
             removed == RemovedModels(gone)
             d == Drop(c, LeavesOf(c, gone))
             r == pruneRemovedModelSelections(d, ops, removed)
  <1>1. Prune(c, ops, previous, desired) = r
    BY DEF Prune
  <1>2. \A e \in gone : e[1] \in ManagedPaths
    BY EntryFacts DEF Withdrawn
  <1>3. \A l : l \in DOMAIN d <=> l \in DOMAIN c /\ Entry(l) \notin gone
    BY DEF LeavesOf, Drop, Only
  <1>4. \A l \in DOMAIN d : d[l] = c[l]
    BY DropFacts
  <1>5. \A l \in Selection : Entry(l) \notin gone
    <2>1. \A l : Entry(l)[1] = l[1]
      BY DEF Entry
    <2> HIDE DEF gone
    <2> QED
      BY <1>2, <2>1, SelectionFacts
  <1>6. \A l \in Selection : l \in DOMAIN d <=> l \in DOMAIN c
    BY <1>3, <1>5
  <1> HIDE DEF gone, removed, d
  <1>7. /\ DOMAIN r \ Selection = DOMAIN d \ Selection
        /\ \A l \in DOMAIN d \ Selection : r[l] = d[l]
        /\ Primary \in DOMAIN r =>
             \/ Primary \in DOMAIN d /\ r[Primary] = d[Primary] /\ d[Primary] \notin removed
             \/ Primary \in DOMAIN ops /\ r[Primary] = ops[Primary] /\ ops[Primary] \notin removed
        /\ Primary \in DOMAIN d /\ d[Primary] \notin removed =>
             Primary \in DOMAIN r /\ r[Primary] = d[Primary]
        /\ Fallbacks \in DOMAIN r =>
             \/ Fallbacks \in DOMAIN d /\ r[Fallbacks] = d[Fallbacks] \ removed
             \/ Fallbacks \in DOMAIN ops /\ r[Fallbacks] = ops[Fallbacks] \ removed
             \/ Fallbacks \in DOMAIN d /\ r[Fallbacks] = d[Fallbacks] /\ removed = {}
    BY PruneSelectionFacts
  <1> HIDE DEF r
  <1>8. /\ Primary \in DOMAIN d <=> Primary \in DOMAIN c
        /\ Primary \in DOMAIN c => d[Primary] = c[Primary]
        /\ Fallbacks \in DOMAIN d <=> Fallbacks \in DOMAIN c
        /\ Fallbacks \in DOMAIN c => d[Fallbacks] = c[Fallbacks]
    BY <1>4, <1>6 DEF Selection
  <1>9. \A l : l \in DOMAIN r \ Selection <=> l \in DOMAIN c \ Selection /\ Entry(l) \notin gone
    BY <1>3, <1>7
  <1>10. \A l \in DOMAIN r \ Selection : r[l] = c[l]
    BY <1>3, <1>4, <1>7
  <1> QED
    BY <1>1, <1>7, <1>8, <1>9, <1>10 DEF gone, removed

LEMMA PrunedEntries ==
  ASSUME NEW c, NEW ops, NEW previous, NEW desired
  PROVE  Entries(Prune(c, ops, previous, desired)) = Entries(c) \ Withdrawn(c, previous, desired)
  <1> DEFINE r == Prune(c, ops, previous, desired)
             gone == Withdrawn(c, previous, desired)
  <1>1. \A l : l \in DOMAIN r \ Selection <=> l \in DOMAIN c \ Selection /\ Entry(l) \notin gone
    BY PruneFacts
  <1> HIDE DEF r, gone
  <1>2. \A l : l[1] \in ManagedPaths => l \notin Selection
    BY SelectionFacts
  <1>3. LeavesAt(r, ManagedPaths) = {l \in LeavesAt(c, ManagedPaths) : Entry(l) \notin gone}
    BY <1>1, <1>2 DEF LeavesAt
  <1>4. Entries(r) = Entries(c) \ gone
    BY <1>3 DEF Entries
  <1> QED
    BY <1>4 DEF r, gone

LEMMA PrunedModels ==
  ASSUME NEW c, NEW ops, NEW previous, NEW desired
  PROVE  ModelsIn(Prune(c, ops, previous, desired))
            = ModelsIn(c) \ RemovedModels(Withdrawn(c, previous, desired))
  <1> DEFINE r == Prune(c, ops, previous, desired)
             gone == Withdrawn(c, previous, desired)
  <1>1. Entries(r) = Entries(c) \ gone
    BY PrunedEntries
  <1>2. gone \subseteq Entries(c)
    BY DEF Withdrawn
  <1> HIDE DEF r, gone
  <1>3. \A m : m \in RemovedModels(gone) <=> <<"models", m>> \in gone
    <2>1. \A m : <<"models", m>> \in gone => m \in RemovedModels(gone)
      BY DEF RemovedModels
    <2>2. ASSUME NEW m \in RemovedModels(gone) PROVE <<"models", m>> \in gone
      <3>1. PICK e \in gone : e[1] = "models" /\ e[2] = m
        BY DEF RemovedModels
      <3>2. PICK l : e = <<l[1], l[2]>>
        BY <1>2 DEF Entries, Entry
      <3> QED
        BY <3>1, <3>2
    <2> QED
      BY <2>1, <2>2
  <1>4. \A m : m \in ModelsIn(r) <=> m \in ModelsIn(c) /\ m \notin RemovedModels(gone)
    BY <1>1, <1>3, ModelFacts
  <1>5. ModelsIn(r) = ModelsIn(c) \ RemovedModels(gone)
    BY <1>4
  <1> QED
    BY <1>5 DEF r, gone

\* A selection that was among the models is so after pruning (pruneRemovedModelSelections).
LEMMA PrunedSelects ==
  ASSUME NEW c, NEW ops, NEW previous, NEW desired,
         Selects(c, ModelsIn(c)), Selects(ops, ModelsIn(c))
  PROVE  LET r == Prune(c, ops, previous, desired) IN Selects(r, ModelsIn(r))
  <1> DEFINE r == Prune(c, ops, previous, desired)
             removed == RemovedModels(Withdrawn(c, previous, desired))
  <1>1. ModelsIn(r) = ModelsIn(c) \ removed
    BY PrunedModels
  <1>2. /\ Primary \in DOMAIN r =>
             \/ Primary \in DOMAIN c /\ r[Primary] = c[Primary] /\ c[Primary] \notin removed
             \/ Primary \in DOMAIN ops /\ r[Primary] = ops[Primary] /\ ops[Primary] \notin removed
        /\ Fallbacks \in DOMAIN r =>
             \/ Fallbacks \in DOMAIN c /\ r[Fallbacks] = c[Fallbacks] \ removed
             \/ Fallbacks \in DOMAIN ops /\ r[Fallbacks] = ops[Fallbacks] \ removed
             \/ Fallbacks \in DOMAIN c /\ r[Fallbacks] = c[Fallbacks] /\ removed = {}
    BY PruneFacts
  <1> HIDE DEF r, removed
  <1>3. Selects(r, ModelsIn(r))
    BY <1>1, <1>2 DEF Selects
  <1> QED
    BY <1>3 DEF r

\* The selected model stays as long as it is among the models.
LEMMA PrunedPrimary ==
  ASSUME NEW c, NEW ops, NEW previous, NEW desired,
         Primary \in DOMAIN c, c[Primary] \in ModelsIn(Prune(c, ops, previous, desired))
  PROVE  LET r == Prune(c, ops, previous, desired)
         IN  Primary \in DOMAIN r /\ r[Primary] = c[Primary]
  BY PruneFacts, PrunedModels

-----------------------------------------------------------------------------
(* The three ways of writing openclaw.json *)

LEMMA MergedEntries ==
  ASSUME NEW c, NEW d
  PROVE  Entries(deepMerge(c, d)) = Entries(c) \cup Entries(d)
  <1>1. LeavesAt(deepMerge(c, d), ManagedPaths) = LeavesAt(c, ManagedPaths) \cup LeavesAt(d, ManagedPaths)
    BY DEF LeavesAt, deepMerge
  <1> QED
    BY <1>1 DEF Entries

LEMMA EntriesModels ==
  ASSUME NEW c, NEW d, Entries(c) \subseteq Entries(d)
  PROVE  ModelsIn(c) \subseteq ModelsIn(d)
  BY ModelFacts

\* Merge mode: every leaf of the operator's is there but for the selection; what the
\* operator neither declares nor declared last time stays; the entries are the
\* operator's and those it did not declare last time; the selection stays valid.
LEMMA MergedConfig ==
  ASSUME NEW base, NEW ops, NEW previous
  PROVE  LET r == mergedConfig(base, ops, previous)
         IN  /\ r.record = Entries(ops)
             /\ Entries(ops) \subseteq Entries(r.cfg)
             /\ Entries(r.cfg) \subseteq Entries(ops) \cup (Entries(base) \ previous)
             /\ \A l \in DOMAIN ops \ Selection : l \in DOMAIN r.cfg /\ r.cfg[l] = ops[l]
             /\ \A l \in DOMAIN base \ Selection :
                   l \notin DOMAIN ops /\ Entry(l) \notin previous =>
                       l \in DOMAIN r.cfg /\ r.cfg[l] = base[l]
             /\ Primary \in DOMAIN base /\ base[Primary] \in ModelsIn(r.cfg) =>
                   Primary \in DOMAIN r.cfg /\ r.cfg[Primary] = base[Primary]
             /\ Selects(base, ModelsIn(base)) /\ Selects(ops, ModelsIn(ops)) =>
                   Selects(r.cfg, ModelsIn(r.cfg))
  <1> DEFINE m == deepMerge(deepMerge(base, ops), Only(base, Selection))
             gone == Withdrawn(m, previous, Entries(ops))
             cfg == Prune(m, ops, previous, Entries(ops))
             r == mergedConfig(base, ops, previous)
  <1>1. r.cfg = cfg /\ r.record = Entries(ops)
    BY DEF mergedConfig
  <1>2. /\ DOMAIN m = DOMAIN base \cup DOMAIN ops
        /\ \A l \in DOMAIN ops \ Selection : m[l] = ops[l]
        /\ \A l \in DOMAIN base : l \in Selection \/ l \notin DOMAIN ops => m[l] = base[l]
        /\ \A l \in DOMAIN ops : l \notin DOMAIN base => m[l] = ops[l]
    BY DEF deepMerge, Only
  <1>3. Entries(m) = Entries(base) \cup Entries(ops)
    <2>1. Entries(Only(base, Selection)) \subseteq Entries(base)
      BY DEF Entries, LeavesAt, Only
    <2> QED
      BY <2>1, MergedEntries
  <1>4. /\ Entries(cfg) = Entries(m) \ gone
        /\ \A l : l \in DOMAIN cfg \ Selection <=> l \in DOMAIN m \ Selection /\ Entry(l) \notin gone
        /\ \A l \in DOMAIN cfg \ Selection : cfg[l] = m[l]
    BY PrunedEntries, PruneFacts
  <1>5. gone = (previous \ Entries(ops)) \cap Entries(m)
    BY DEF Withdrawn
  <1>6. Primary \in DOMAIN m /\ m[Primary] \in ModelsIn(cfg) => Primary \in DOMAIN cfg /\ cfg[Primary] = m[Primary]
    BY PrunedPrimary
  <1>7. ASSUME Selects(base, ModelsIn(base)), Selects(ops, ModelsIn(ops))
        PROVE  Selects(cfg, ModelsIn(cfg))
    <2>1. ModelsIn(base) \subseteq ModelsIn(m) /\ ModelsIn(ops) \subseteq ModelsIn(m)
      BY <1>3, EntriesModels
    <2>2. Selects(m, ModelsIn(m)) /\ Selects(ops, ModelsIn(m))
      <3> HIDE DEF m
      <3> QED
        BY <1>2, <1>7, <2>1 DEF Selects, Selection
    <2> QED
      BY <2>2, PrunedSelects
  <1> HIDE DEF m, gone, cfg, r
  <1>8. Entries(ops) \subseteq Entries(cfg) /\ Entries(cfg) \subseteq Entries(ops) \cup (Entries(base) \ previous)
    BY <1>3, <1>4, <1>5
  <1>9. ASSUME NEW l \in DOMAIN ops \ Selection PROVE l \in DOMAIN cfg /\ cfg[l] = ops[l]
    <2>1. Entry(l) \notin gone
      BY <1>5, EntryFacts
    <2> QED
      BY <1>2, <1>4, <2>1
  <1>10. ASSUME NEW l \in DOMAIN base \ Selection, l \notin DOMAIN ops, Entry(l) \notin previous
         PROVE  l \in DOMAIN cfg /\ cfg[l] = base[l]
    <2>1. Entry(l) \notin gone
      BY <1>5, <1>10
    <2> QED
      BY <1>2, <1>4, <1>10, <2>1
  <1>11. Primary \in DOMAIN base /\ base[Primary] \in ModelsIn(cfg) =>
            Primary \in DOMAIN cfg /\ cfg[Primary] = base[Primary]
    BY <1>2, <1>6 DEF Selection
  <1> QED
    BY <1>1, <1>7, <1>8, <1>9, <1>10, <1>11 DEF r

\* Overwrite mode and the first start: the operator's leaves, and the seed's beside them.
LEMMA FreshConfig ==
  ASSUME NEW seed, NEW ops
  PROVE  LET r == freshConfig(seed, ops)
         IN  /\ r.record = Entries(ops)
             /\ Entries(r.cfg) = Entries(ops) \cup Entries(seed)
             /\ \A l \in DOMAIN ops : l \in DOMAIN r.cfg /\ r.cfg[l] = ops[l]
             /\ Selects(seed, ModelsIn(seed)) /\ Selects(ops, ModelsIn(ops)) =>
                   Selects(r.cfg, ModelsIn(r.cfg))
  <1> DEFINE cfg == deepMerge(seed, ops)
  <1>1. freshConfig(seed, ops).cfg = cfg /\ freshConfig(seed, ops).record = Entries(ops)
    BY DEF freshConfig
  <1>2. Entries(cfg) = Entries(ops) \cup Entries(seed)
    BY MergedEntries
  <1>3. /\ DOMAIN cfg = DOMAIN seed \cup DOMAIN ops
        /\ \A l \in DOMAIN ops : cfg[l] = ops[l]
        /\ \A l \in DOMAIN seed : l \notin DOMAIN ops => cfg[l] = seed[l]
    BY DEF deepMerge
  <1> HIDE DEF cfg
  <1>4. ModelsIn(seed) \subseteq ModelsIn(cfg) /\ ModelsIn(ops) \subseteq ModelsIn(cfg)
    BY <1>2, EntriesModels
  <1>5. Selects(seed, ModelsIn(seed)) /\ Selects(ops, ModelsIn(ops)) => Selects(cfg, ModelsIn(cfg))
    BY <1>3, <1>4 DEF Selects
  <1> QED
    BY <1>1, <1>2, <1>3, <1>5

\* What is written for a user-managed file, before it is pruned: the operator's
\* infrastructure, the entries it takes, its selection where there is none, and all
\* else as it was.
LEMMA UserManagedMerge ==
  ASSUME NEW base, NEW ops, NEW taken, taken \subseteq Entries(ops),
         \A e \in Entries(ops) : e \in taken \/ e \in Entries(base)
  PROVE  LET infra == deepMerge(base, Only(ops, LeavesAt(ops, InfrastructurePaths)))
             entries == deepMerge(Drop(infra, LeavesOf(infra, taken)), Only(ops, LeavesOf(ops, taken)))
             s == deepMerge(Only(ops, Selection), entries)
         IN  /\ Entries(s) = Entries(base) \cup Entries(ops)
             /\ \A l \in DOMAIN base :
                   l \notin LeavesAt(ops, InfrastructurePaths) /\ Entry(l) \notin taken =>
                       l \in DOMAIN s /\ s[l] = base[l]
             /\ \A l \in DOMAIN ops :
                   l[1] \in InfrastructurePaths \/ Entry(l) \in taken \/ (l \in Selection /\ l \notin DOMAIN base) =>
                       l \in DOMAIN s /\ s[l] = ops[l]
  <1> DEFINE own == LeavesAt(ops, InfrastructurePaths)
             infra == deepMerge(base, Only(ops, own))
             entries == deepMerge(Drop(infra, LeavesOf(infra, taken)), Only(ops, LeavesOf(ops, taken)))
             s == deepMerge(Only(ops, Selection), entries)
  <1>1. \A l : Entry(l) \in taken => l[1] \in ManagedPaths
    BY EntryFacts
  <1>2. \A l : /\ l[1] \in InfrastructurePaths \/ l \in Selection => Entry(l) \notin taken
               /\ l \in Selection => l \notin own
    BY <1>1, SelectionFacts DEF LeavesAt
  <1>3. /\ own \subseteq DOMAIN ops
        /\ \A l : l \in own <=> l \in DOMAIN ops /\ l[1] \in InfrastructurePaths
    BY DEF LeavesAt
  <1>4. /\ DOMAIN infra = DOMAIN base \cup own
        /\ \A l \in own : infra[l] = ops[l]
        /\ \A l \in DOMAIN base : l \notin own => infra[l] = base[l]
    BY <1>3 DEF deepMerge, Only
  <1> HIDE DEF own, infra
  <1> DEFINE kept == Drop(infra, LeavesOf(infra, taken))
             brought == Only(ops, LeavesOf(ops, taken))
  <1>a. /\ DOMAIN kept = {l \in DOMAIN infra : Entry(l) \notin taken}
        /\ \A l \in DOMAIN kept : kept[l] = infra[l]
    BY DEF Drop, Only, LeavesOf
  <1>b. /\ DOMAIN brought = {l \in DOMAIN ops : Entry(l) \in taken}
        /\ \A l \in DOMAIN brought : brought[l] = ops[l]
    BY DEF Only, LeavesOf
  <1>c. /\ DOMAIN entries = DOMAIN kept \cup DOMAIN brought
        /\ \A l \in DOMAIN brought : entries[l] = brought[l]
        /\ \A l \in DOMAIN kept : l \notin DOMAIN brought => entries[l] = kept[l]
    BY DEF deepMerge
  <1> HIDE DEF kept, brought, entries
  <1>5. /\ DOMAIN entries = {l \in DOMAIN infra : Entry(l) \notin taken} \cup {l \in DOMAIN ops : Entry(l) \in taken}
        /\ \A l \in DOMAIN ops : Entry(l) \in taken => entries[l] = ops[l]
        /\ \A l \in DOMAIN infra : Entry(l) \notin taken => entries[l] = infra[l]
    BY <1>a, <1>b, <1>c
  <1>6. /\ DOMAIN s = DOMAIN entries \cup (DOMAIN ops \cap Selection)
        /\ \A l \in DOMAIN entries : s[l] = entries[l]
        /\ \A l \in DOMAIN ops \cap Selection : l \notin DOMAIN entries => s[l] = ops[l]
    BY DEF deepMerge, Only
  <1> HIDE DEF s
  <1>7. ASSUME NEW l \in DOMAIN base, l \notin own, Entry(l) \notin taken
        PROVE  l \in DOMAIN s /\ s[l] = base[l]
    <2>1. l \in DOMAIN infra /\ infra[l] = base[l]
      BY <1>4, <1>7
    <2>2. l \in DOMAIN entries /\ entries[l] = base[l]
      BY <1>5, <1>7, <2>1
    <2> QED
      BY <1>6, <2>2
  <1>8. ASSUME NEW l \in DOMAIN ops,
               l[1] \in InfrastructurePaths \/ Entry(l) \in taken \/ (l \in Selection /\ l \notin DOMAIN base)
        PROVE  l \in DOMAIN s /\ s[l] = ops[l]
    <2>1. CASE Entry(l) \in taken
      BY <1>5, <1>6, <2>1
    <2>2. CASE l[1] \in InfrastructurePaths
      <3>1. l \in own /\ Entry(l) \notin taken
        BY <1>2, <1>3, <2>2
      <3>2. l \in DOMAIN infra /\ infra[l] = ops[l]
        BY <1>4, <3>1
      <3> QED
        BY <1>5, <1>6, <3>1, <3>2
    <2>3. CASE l \in Selection /\ l \notin DOMAIN base
      <3>1. l \notin DOMAIN entries
        BY <1>2, <1>4, <1>5, <2>3
      <3> QED
        BY <1>6, <2>3, <3>1
    <2> QED
      BY <1>8, <2>1, <2>2, <2>3
  <1>9. Entries(s) = Entries(base) \cup Entries(ops)
    <2>1. ASSUME NEW e \in Entries(s) PROVE e \in Entries(base) \cup Entries(ops)
      <3>1. PICK l \in DOMAIN s : l[1] \in ManagedPaths /\ Entry(l) = e
        BY EntryFacts
      <3>2. l \in DOMAIN base \/ l \in DOMAIN ops
        BY <1>3, <1>4, <1>5, <1>6
      <3> QED
        BY <3>1, <3>2, EntryFacts
    <2>2. ASSUME NEW e \in Entries(base), e \notin taken PROVE e \in Entries(s)
      <3>1. PICK l \in DOMAIN base : l[1] \in ManagedPaths /\ Entry(l) = e
        BY EntryFacts
      <3>2. l \in DOMAIN s
        BY <1>3, <1>7, <2>2, <3>1, SelectionFacts
      <3> QED
        BY <3>1, <3>2, EntryFacts
    <2>3. ASSUME NEW e \in taken PROVE e \in Entries(s)
      <3>1. PICK l \in DOMAIN ops : l[1] \in ManagedPaths /\ Entry(l) = e
        BY EntryFacts
      <3>2. l \in DOMAIN s
        BY <1>8, <3>1
      <3> QED
        BY <3>1, <3>2, EntryFacts
    <2> QED
      BY <2>1, <2>2, <2>3
  <1> QED
    BY <1>7, <1>8, <1>9 DEF own, infra, kept, brought, entries, s

\* A user-managed file: the operator's infrastructure and the entries it owns are
\* there; the user's own entries stay, whether the operator declares them or not.
LEMMA UserManagedConfig ==
  ASSUME NEW base, NEW ops, NEW previous
  PROVE  LET r == userManagedConfig(base, ops, previous)
             owned == Owned(base, ops, previous)
         IN  /\ r.record = owned
             /\ owned \subseteq Entries(ops)
             /\ owned \subseteq Entries(r.cfg)
             /\ Entries(r.cfg) \subseteq owned \cup (Entries(base) \ previous)
             /\ \A l \in DOMAIN ops :
                   l[1] \in InfrastructurePaths \/ Entry(l) \in owned =>
                       l \in DOMAIN r.cfg /\ r.cfg[l] = ops[l]
             /\ \A l \in DOMAIN base \ Selection :
                   /\ l \notin LeavesAt(ops, InfrastructurePaths)
                   /\ Entry(l) \notin previous /\ Entry(l) \notin owned
                   => l \in DOMAIN r.cfg /\ r.cfg[l] = base[l]
             /\ Primary \in DOMAIN base /\ base[Primary] \in ModelsIn(r.cfg) =>
                   Primary \in DOMAIN r.cfg /\ r.cfg[Primary] = base[Primary]
             /\ Selects(base, ModelsIn(base)) /\ Selects(ops, ModelsIn(ops)) =>
                   Selects(r.cfg, ModelsIn(r.cfg))
  <1> DEFINE taken == Taken(base, ops, previous)
             owned == Owned(base, ops, previous)
             infra == deepMerge(base, Only(ops, LeavesAt(ops, InfrastructurePaths)))
             entries == deepMerge(Drop(infra, LeavesOf(infra, taken)), Only(ops, LeavesOf(ops, taken)))
             s == deepMerge(Only(ops, Selection), entries)
             gone == Withdrawn(s, previous, owned)
             cfg == Prune(s, ops, previous, owned)
             r == userManagedConfig(base, ops, previous)
  <1>1. r.cfg = cfg /\ r.record = owned
    BY DEF userManagedConfig
  <1>2. /\ taken \subseteq owned /\ owned \subseteq Entries(ops) /\ taken \subseteq Entries(ops)
        /\ \A e \in Entries(ops) : e \in taken <=> e \in previous \/ e \notin Entries(base)
    BY DEF Taken, Owned
  <1>3. \A e \in owned : e \in taken
                        \/ Only(base, LeavesOf(base, {e})) = Only(ops, LeavesOf(ops, {e}))
    BY DEF Owned
  <1> HIDE DEF taken, owned
  <1>4. /\ Entries(s) = Entries(base) \cup Entries(ops)
        /\ \A l \in DOMAIN base :
              l \notin LeavesAt(ops, InfrastructurePaths) /\ Entry(l) \notin taken =>
                  l \in DOMAIN s /\ s[l] = base[l]
        /\ \A l \in DOMAIN ops :
              l[1] \in InfrastructurePaths \/ Entry(l) \in taken \/ (l \in Selection /\ l \notin DOMAIN base) =>
                  l \in DOMAIN s /\ s[l] = ops[l]
    BY <1>2, UserManagedMerge
  <1>a. ASSUME NEW l \in Selection \cap DOMAIN s
        PROVE  (l \in DOMAIN base /\ s[l] = base[l]) \/ (l \in DOMAIN ops /\ s[l] = ops[l])
    <2>1. l \in DOMAIN base \/ l \in DOMAIN ops
      <3>1. DOMAIN entries \subseteq DOMAIN infra \cup DOMAIN ops
        BY DEF deepMerge, Only, Drop
      <3>2. DOMAIN infra \subseteq DOMAIN base \cup DOMAIN ops
        BY DEF deepMerge, Only
      <3>3. DOMAIN s \subseteq DOMAIN entries \cup DOMAIN ops
        BY DEF deepMerge, Only
      <3> QED
        BY <3>1, <3>2, <3>3
    <2>2. l \notin LeavesAt(ops, InfrastructurePaths) /\ Entry(l) \notin taken
      BY <1>2, SelectionFacts, EntryFacts DEF LeavesAt
    <2> QED
      BY <1>4, <2>1, <2>2
  <1> HIDE DEF s
  <1>5. /\ Entries(cfg) = Entries(s) \ gone
        /\ \A l : l \in DOMAIN cfg \ Selection <=> l \in DOMAIN s \ Selection /\ Entry(l) \notin gone
        /\ \A l \in DOMAIN cfg \ Selection : cfg[l] = s[l]
    BY PrunedEntries, PruneFacts
  <1>6. gone = (previous \ owned) \cap Entries(s)
    BY DEF Withdrawn
  <1>7. Primary \in DOMAIN s /\ s[Primary] \in ModelsIn(cfg) => Primary \in DOMAIN cfg /\ cfg[Primary] = s[Primary]
    BY PrunedPrimary
  <1>8. ASSUME Selects(base, ModelsIn(base)), Selects(ops, ModelsIn(ops))
        PROVE  Selects(cfg, ModelsIn(cfg))
    <2>1. ModelsIn(base) \subseteq ModelsIn(s) /\ ModelsIn(ops) \subseteq ModelsIn(s)
      BY <1>4, EntriesModels
    <2>2. Selects(s, ModelsIn(s)) /\ Selects(ops, ModelsIn(s))
      BY <1>8, <1>a, <2>1 DEF Selects, Selection
    <2> QED
      BY <2>2, PrunedSelects
  <1> HIDE DEF gone, cfg, r
  <1>9. Entries(ops) \cap gone = {}
    BY <1>2, <1>6
  <1>10. owned \subseteq Entries(cfg) /\ Entries(cfg) \subseteq owned \cup (Entries(base) \ previous)
    BY <1>2, <1>4, <1>5, <1>6, <1>9
  <1>11. ASSUME NEW l \in DOMAIN ops, l[1] \in InfrastructurePaths \/ Entry(l) \in owned
         PROVE  l \in DOMAIN cfg /\ cfg[l] = ops[l]
    <2>1. l \in DOMAIN s /\ s[l] = ops[l]
      <3>1. CASE l[1] \in InfrastructurePaths \/ Entry(l) \in taken
        BY <1>4, <3>1
      <3>2. CASE l[1] \notin InfrastructurePaths /\ Entry(l) \in owned /\ Entry(l) \notin taken
        <4> DEFINE e == Entry(l)
        <4>1. Only(base, LeavesOf(base, {e})) = Only(ops, LeavesOf(ops, {e}))
          BY <1>3, <3>2
        <4>2. l \in DOMAIN Only(ops, LeavesOf(ops, {e})) /\ Only(ops, LeavesOf(ops, {e}))[l] = ops[l]
          BY DEF Only, LeavesOf
        <4>3. l \in DOMAIN base /\ Only(base, LeavesOf(base, {e}))[l] = base[l]
          BY <4>1, <4>2 DEF Only, LeavesOf
        <4>4. l \in DOMAIN base /\ base[l] = ops[l]
          BY <4>1, <4>2, <4>3
        <4> QED
          BY <1>4, <3>2, <4>4 DEF LeavesAt
      <3> QED
        BY <1>11, <3>1, <3>2
    <2>2. Entry(l) \notin gone /\ l \notin Selection
      BY <1>2, <1>6, <1>9, <1>11, EntryFacts, SelectionFacts
    <2> QED
      BY <1>5, <2>1, <2>2
  <1>12. ASSUME NEW l \in DOMAIN base \ Selection, l \notin LeavesAt(ops, InfrastructurePaths),
                Entry(l) \notin previous, Entry(l) \notin owned
         PROVE  l \in DOMAIN cfg /\ cfg[l] = base[l]
    <2>1. l \in DOMAIN s /\ s[l] = base[l] /\ Entry(l) \notin gone
      BY <1>2, <1>4, <1>6, <1>12
    <2> QED
      BY <1>5, <2>1
  <1>13. ASSUME Primary \in DOMAIN base, base[Primary] \in ModelsIn(cfg)
         PROVE  Primary \in DOMAIN cfg /\ cfg[Primary] = base[Primary]
    <2>1. Primary \notin LeavesAt(ops, InfrastructurePaths) /\ Entry(Primary) \notin taken
      BY <1>2, SelectionFacts, EntryFacts DEF LeavesAt, Selection
    <2> QED
      BY <1>4, <1>7, <1>13, <2>1
  <1> QED
    BY <1>1, <1>2, <1>8, <1>10, <1>11, <1>12, <1>13 DEF r, owned
=============================================================================
