------------------------- MODULE CheckpointProofs -------------------------
(***************************************************************************)
(* Proofs about Checkpoint and Calibration, for every set of configs and   *)
(* tensors, every margin and every editor: what load_checkpoint passes in  *)
(* silence is what was saved, a mounted profile belongs to its model, and  *)
(* the envelope flags drift and lets pass what it was fitted on.           *)
(***************************************************************************)
EXTENDS Checkpoint, FiniteSetTheorems, WellFoundedInduction, TLAPS

\* A set that stands for a value there may be.
AtMostOne(S) == \A x, y \in S : x = y

\* What load_checkpoint can have built, and what was written over since.
IsModel(m) ==
    /\ m = [cfg |-> m.cfg, altered |-> m.altered]
    /\ m.cfg \in [Fields -> Int] /\ m.cfg.n_layers > 0
    /\ m.altered \subseteq Parameters(m.cfg)

\* The hashes in the file are those of the config that was saved, as far as they
\* are there and nobody put others in their place; while nobody touched it the
\* file is its whole record.
FileInv ==
    /\ saved \subseteq SavedConfigs /\ AtMostOne(saved)
    /\ file = [kind |-> file.kind, config |-> file.config, schema_hash |-> file.schema_hash,
               weight_fingerprint |-> file.weight_fingerprint]
    /\ \A c \in file.config : DOMAIN c \subseteq Fields /\ c \in [DOMAIN c -> Int]
    /\ \A cfg \in saved :
          /\ "schema_hash" \notin rewritten =>
                file.schema_hash \subseteq {schema_hash(cfg)}
          /\ "weight_fingerprint" \notin rewritten =>
                file.weight_fingerprint \subseteq
                   {weight_fingerprint(CleanRoomTransformer(cfg))}
    /\ intact => rewritten = {} /\ \E cfg \in saved : file = Contents(CleanRoomTransformer(cfg))

\* A hash load_checkpoint confirmed is still the one in the file.
LoadInv ==
    /\ AtMostOne(model) /\ \A m \in model : IsModel(m)
    /\ intact => outcome \in {"ok", "AttributeError"}
    /\ \A m \in model :
          /\ <<"weight_fingerprint", "match">> \in notices =>
                file.weight_fingerprint = {weight_fingerprint(CleanRoomTransformer(m.cfg))}
          /\ <<"schema_hash", "match">> \in notices =>
                file.schema_hash = {schema_hash(m.cfg)}
          /\ intact => notices = {<<"schema_hash", "match">>, <<"weight_fingerprint", "match">>}

\* The profile names the model it was fitted on, before and after it was shipped,
\* and nothing is mounted before there is one.
MountInv ==
    /\ AtMostOne(subject) /\ \A s \in subject : IsModel(s)
    /\ phase \in {"idle", "collecting", "refused", "fitted"}
    /\ phase # "fitted" => mounted = "no"
    /\ model = {} => mounted = "no"
    /\ phase = "fitted" =>
          /\ profile = [bounds |-> profile.bounds, margin |-> profile.margin,
                        schema_hash |-> profile.schema_hash,
                        weight_fingerprint |-> profile.weight_fingerprint,
                        generalize_layers |-> TRUE]
          /\ \A s \in subject : /\ profile.schema_hash = schema_hash(s.cfg)
                                /\ profile.weight_fingerprint = weight_fingerprint(s)
    /\ MountedProfileIsOwn

\* The collector's value for a boundary is the largest of the tensors it was
\* shown there, and once a pass is over it has one for every boundary.
SeenInv ==
    /\ seen \subseteq Paths \X Tensors
    /\ IsFiniteSet(DOMAIN observed) /\ DOMAIN observed = {x[1] : x \in seen}
    /\ \A p \in DOMAIN observed : \A i \in {1, 2} :
          /\ observed[p][i] \in Nat
          /\ \A x \in seen : x[1] = p => x[2][i] <= observed[p][i]
          /\ \E x \in seen : x[1] = p /\ x[2][i] = observed[p][i]
    /\ IsFiniteSet(pending) /\ pending \subseteq Paths
    /\ pending # {} => Paths \subseteq pending \cup DOMAIN observed
    /\ samples \in Nat
    /\ samples > 0 => Paths \subseteq DOMAIN observed

\* Before calibrate nothing was seen; a margin it goes on with is no number or
\* at least 1.0; the profile is the envelope of what was seen, widened.
EnvelopeInv ==
    /\ phase = "idle" => subject = {} /\ pending = {} /\ samples = 0
    /\ phase \in {"collecting", "fitted"} =>
          /\ subject # {}
          /\ margin = NaN \/ (margin \in Nat /\ margin >= 2)
    /\ phase = "fitted" =>
          /\ samples > 0
          /\ profile.bounds = [p \in DOMAIN observed |-> Widened(observed[p], margin)]
          /\ profile.generalize_layers = TRUE

-----------------------------------------------------------------------------
\* A nonempty finite set of integers has a largest element: take a smallest
\* subset that has none.
LEMMA MaxOfFinite ==
    ASSUME NEW S \in SUBSET Int, IsFiniteSet(S), S # {}
    PROVE  Max(S) \in S /\ \A x \in S : x <= Max(S)
<1> DEFINE HasMax(A) == \E m \in A : \A x \in A : m >= x
           Bad == {A \in FiniteSubsetsOf(S) : A # {} /\ ~HasMax(A)}
<1>1. Bad = {}
  <2>1. SUFFICES ASSUME Bad # {} PROVE FALSE
        OBVIOUS
  <2>2. IsWellFoundedOn(StrictSubsetOrdering(S), FiniteSubsetsOf(S))
        BY FS_StrictSubsetOrderingWellFounded
  <2>3. Bad \subseteq FiniteSubsetsOf(S)
        OBVIOUS
  <2>4. \E A \in Bad : \A B \in Bad : <<B, A>> \notin StrictSubsetOrdering(S)
        <3> HIDE DEF Bad
        <3> QED BY <2>1, <2>2, <2>3, WFMin
  <2>5. PICK A \in Bad : \A B \in Bad : <<B, A>> \notin StrictSubsetOrdering(S)
        BY <2>4
  <2>6. A \subseteq S /\ IsFiniteSet(A) /\ A # {} /\ ~HasMax(A)
        BY <2>5 DEF FiniteSubsetsOf
  <2>7. PICK x \in A : TRUE
        BY <2>6
  <2> DEFINE B == A \ {x}
  <2>8. IsFiniteSet(B)
        BY <2>6, FS_Subset
  <2>9. B = {} \/ HasMax(B)
    <3>1. B \in FiniteSubsetsOf(S)
          BY <2>6, <2>8 DEF FiniteSubsetsOf
    <3>2. <<B, A>> \in StrictSubsetOrdering(S)
          BY <2>6 DEF StrictSubsetOrdering
    <3> QED BY <2>5, <3>1, <3>2
  <2>10. CASE B = {}
    <3>1. A = {x} /\ x \in Int
          BY <2>6, <2>10
    <3> QED BY <2>6, <3>1
  <2>11. CASE HasMax(B)
    <3>1. PICK m \in B : \A y \in B : m >= y
          BY <2>11
    <3>2. m \in Int /\ x \in Int /\ m \in A
          BY <2>6
    <3>3. \A y \in A : y \in Int /\ (y = x \/ m >= y)
          BY <2>6, <3>1
    <3>4. CASE m >= x
          BY <2>6, <3>2, <3>3, <3>4
    <3>5. CASE x > m
      <4>1. \A y \in A : x >= y
            BY <3>2, <3>3, <3>5
      <4> QED BY <2>6, <4>1
    <3> QED BY <3>2, <3>4, <3>5
  <2> QED BY <2>9, <2>10, <2>11
<1>2. S \in FiniteSubsetsOf(S)
      BY DEF FiniteSubsetsOf
<1>3. PICK m \in S : \A x \in S : m >= x
      BY <1>1, <1>2
<1>4. Max(S) \in S /\ \A x \in S : Max(S) >= x
      BY <1>3 DEF Max
<1> QED BY <1>4

\* The values a function has on a finite set are finite.
Image(f, C) == {f[x] : x \in C}

LEMMA ImageFinite ==
    ASSUME NEW f, NEW C, IsFiniteSet(C)
    PROVE  IsFiniteSet(Image(f, C))
<1> DEFINE g == [x \in C |-> f[x]]
<1>1. g \in Surjection(C, Image(f, C))
      BY DEF Surjection, Image
<1> QED BY <1>1, FS_Surjection

\* Widest is a bound on every element in both coordinates, and one of them has it.
LEMMA WidestBounds ==
    ASSUME NEW S, IsFiniteSet(S), S # {}, \A b \in S : b[1] \in Int /\ b[2] \in Int
    PROVE  \A i \in {1, 2} :
              /\ Widest(S)[i] \in Int
              /\ \A b \in S : b[i] <= Widest(S)[i]
              /\ \E b \in S : Widest(S)[i] = b[i]
<1>1. ASSUME NEW i \in {1, 2}
      PROVE  LET M == Max({b[i] : b \in S}) IN
             /\ M \in Int
             /\ \A b \in S : b[i] <= M
             /\ \E b \in S : M = b[i]
  <2> DEFINE V == {b[i] : b \in S}
             f == [b \in S |-> b[i]]
  <2>1. f \in Surjection(S, V)
        BY DEF Surjection
  <2>2. IsFiniteSet(V)
        BY <2>1, FS_Surjection
  <2>3. V \in SUBSET Int /\ V # {}
        BY <1>1
  <2>4. Max(V) \in V /\ \A x \in V : x <= Max(V)
        <3> HIDE DEF V
        <3> QED BY <2>2, <2>3, MaxOfFinite
  <2> QED BY <2>3, <2>4
<1>2. Widest(S)[1] = Max({b[1] : b \in S}) /\ Widest(S)[2] = Max({b[2] : b \in S})
      BY DEF Widest
<1> QED BY <1>1, <1>2

-----------------------------------------------------------------------------
\* What neither the file nor the loaded model has a part in.
Leaves == UNCHANGED <<fileVars, model, outcome, notices>>

\* Where a step can come from.
LEMMA Steps ==
    ASSUME [Next]_vars
    PROVE  \/ \E cfg \in SavedConfigs, weights \in BOOLEAN : Save(cfg, weights)
           \/ SaveKilled
           \/ Edit
           \/ LoadRaises
           \/ \E archive \in BOOLEAN : Load(archive)
           \/ \E p : Alter(p)
           \/ \E m \in Margins : BuildEngine(m)
           \/ Calibrates /\ UNCHANGED <<fileVars, model, outcome, notices, mounted>>
           \/ Ship
           \/ \E guarded \in BOOLEAN : Mount(guarded)
           \/ UNCHANGED vars
BY DEF Next

LEMMA ConfigOfTyped ==
    ASSUME NEW c, DOMAIN c \subseteq Fields, c \in [DOMAIN c -> Int]
    PROVE  ConfigOf(c) \in [Fields -> Int]
<1>1. Default \in [Fields -> Int]
      BY CheckpointAssumption
<1>2. \A f \in Fields : (IF f \in DOMAIN c THEN c[f] ELSE Default[f]) \in Int
      BY <1>1
<1> QED BY <1>2 DEF ConfigOf

LEMMA ConfigOfWhole ==
    ASSUME NEW c \in [Fields -> Int]
    PROVE  ConfigOf(c) = c
<1>1. ConfigOf(c) = [f \in Fields |-> c[f]]
      BY DEF ConfigOf
<1> QED BY <1>1

\* What an editor leaves of a config are numbers under the names of fields.
LEMMA EditsTyped ==
    ASSUME NEW cfg, DOMAIN cfg \subseteq Fields, cfg \in [DOMAIN cfg -> Int],
           NEW e \in EditsOf(cfg)
    PROVE  DOMAIN e \subseteq Fields /\ e \in [DOMAIN e -> Int]
<1>1. CASE \E f \in DOMAIN cfg : \E v \in Alternatives[f] : e = [cfg EXCEPT ![f] = v]
  <2>1. PICK f \in DOMAIN cfg : \E v \in Alternatives[f] : e = [cfg EXCEPT ![f] = v]
        BY <1>1
  <2>3. PICK v \in Alternatives[f] : e = [cfg EXCEPT ![f] = v]
        BY <2>1
  <2>2. v \in Int
        BY CheckpointAssumption
  <2> QED BY <2>2, <2>3
<1>2. CASE \E g \in DOMAIN cfg : e = [f \in DOMAIN cfg \ {g} |-> cfg[f]]
      BY <1>2
<1>3. ASSUME e \in UNION {{[cfg EXCEPT ![f] = v] : v \in Alternatives[f]} : f \in DOMAIN cfg}
      PROVE  \E f \in DOMAIN cfg : \E v \in Alternatives[f] : e = [cfg EXCEPT ![f] = v]
  <2>1. PICK f \in DOMAIN cfg : e \in {[cfg EXCEPT ![f] = v] : v \in Alternatives[f]}
        BY <1>3, Zenon
  <2> QED BY <2>1, Zenon
<1>4. ASSUME e \in {[f \in DOMAIN cfg \ {g} |-> cfg[f]] : g \in DOMAIN cfg}
      PROVE  \E g \in DOMAIN cfg : e = [f \in DOMAIN cfg \ {g} |-> cfg[f]]
      BY <1>4, Zenon
<1>5. \/ e \in UNION {{[cfg EXCEPT ![f] = v] : v \in Alternatives[f]} : f \in DOMAIN cfg}
      \/ e \in {[f \in DOMAIN cfg \ {g} |-> cfg[f]] : g \in DOMAIN cfg}
      BY Zenon DEF EditsOf
<1>6. CASE e \in UNION {{[cfg EXCEPT ![f] = v] : v \in Alternatives[f]} : f \in DOMAIN cfg}
      BY <1>6, <1>3, <1>1
<1>7. CASE e \in {[f \in DOMAIN cfg \ {g} |-> cfg[f]] : g \in DOMAIN cfg}
      BY <1>7, <1>4, <1>2
<1> QED BY <1>5, <1>6, <1>7

\* Every step keeps FileInv: only the calls on the file have a part in it.
LEMMA FileStep ==
    ASSUME FileInv, [Next]_vars
    PROVE  FileInv'
<1>1. ASSUME NEW cfg \in SavedConfigs, NEW weights \in BOOLEAN, Save(cfg, weights)
      PROVE  FileInv'
  <2>1. saved' = {cfg} /\ file' = Contents(CleanRoomTransformer(cfg)) /\ rewritten' = {}
        BY <1>1 DEF Save
  <2>2. /\ file'.config = {cfg} /\ file'.schema_hash = {schema_hash(cfg)}
        /\ file'.weight_fingerprint = {weight_fingerprint(CleanRoomTransformer(cfg))}
        /\ file' = [kind |-> file'.kind, config |-> file'.config,
                    schema_hash |-> file'.schema_hash,
                    weight_fingerprint |-> file'.weight_fingerprint]
        BY <2>1 DEF Contents, CleanRoomTransformer
  <2>3. cfg \in [Fields -> Int]
        BY CheckpointAssumption
  <2>4. DOMAIN cfg = Fields
        BY <2>3
  <2> QED BY <2>1, <2>2, <2>3, <2>4 DEF FileInv, AtMostOne
<1>2. ASSUME SaveKilled PROVE FileInv'
  <2>1. file' = Unreadable("torn") /\ saved' = saved /\ intact' = FALSE
        BY <1>2 DEF SaveKilled
  <2> QED BY <2>1 DEF FileInv, Unreadable
<1>3. ASSUME Edit PROVE FileInv'
  <2>1. /\ \/ file' \in Edited /\ rewritten' = rewritten
           \/ \E key \in HashKeys : Rewrites(key)
        /\ saved' = saved /\ intact' = FALSE
        BY <1>3 DEF Edit
  <2>2. CASE /\ rewritten' = rewritten
             /\ \E cfg \in file.config : \E e \in EditsOf(cfg) : file' = [file EXCEPT !.config = {e}]
    <3>0. PICK cfg \in file.config : \E e \in EditsOf(cfg) : file' = [file EXCEPT !.config = {e}]
          BY <2>2
    <3>1. PICK e \in EditsOf(cfg) : file' = [file EXCEPT !.config = {e}]
          BY <3>0
    <3>2. DOMAIN e \subseteq Fields /\ e \in [DOMAIN e -> Int]
          BY EditsTyped DEF FileInv
    <3>3. /\ file'.config = {e} /\ file'.schema_hash = file.schema_hash
          /\ file'.weight_fingerprint = file.weight_fingerprint
          /\ file' = [kind |-> file'.kind, config |-> file'.config,
                      schema_hash |-> file'.schema_hash,
                      weight_fingerprint |-> file'.weight_fingerprint]
          BY <3>1 DEF FileInv
    <3> QED BY <2>1, <2>2, <3>2, <3>3 DEF FileInv
  <2>3. CASE /\ rewritten' = rewritten
             /\ \E key \in HashKeys \cup {"config"} : file' = [file EXCEPT ![key] = {}]
    <3>1. PICK key \in HashKeys \cup {"config"} : file' = [file EXCEPT ![key] = {}]
          BY <2>3
    <3>2. /\ file'.config \in {{}, file.config}
          /\ file'.schema_hash \in {{}, file.schema_hash}
          /\ file'.weight_fingerprint \in {{}, file.weight_fingerprint}
          /\ file' = [kind |-> file'.kind, config |-> file'.config,
                      schema_hash |-> file'.schema_hash,
                      weight_fingerprint |-> file'.weight_fingerprint]
          BY <3>1 DEF FileInv, HashKeys
    <3> QED BY <2>1, <2>3, <3>2 DEF FileInv
  <2>4. ASSUME file' \in UNION {{[file EXCEPT !.config = {e}] : e \in EditsOf(cfg)}
                                : cfg \in file.config}
        PROVE  \E cfg \in file.config : \E e \in EditsOf(cfg) : file' = [file EXCEPT !.config = {e}]
    <3>1. PICK cfg \in file.config : file' \in {[file EXCEPT !.config = {e}] : e \in EditsOf(cfg)}
          BY <2>4, Zenon
    <3> QED BY <3>1, Zenon
  <2>5. ASSUME file' \in {[file EXCEPT ![key] = {}] : key \in HashKeys \cup {"config"}}
        PROVE  \E key \in HashKeys \cup {"config"} : file' = [file EXCEPT ![key] = {}]
        BY <2>5, Zenon
  <2>6. CASE \E key \in HashKeys : Rewrites(key)
    <3>1. PICK key \in HashKeys : Rewrites(key)
          BY <2>6
    <3>2. PICK h : /\ file' = [file EXCEPT ![key] = {h}]
                   /\ rewritten' = rewritten \cup {key}
          BY <3>1 DEF Rewrites
    <3>3. /\ file'.config = file.config
          /\ key # "schema_hash" => file'.schema_hash = file.schema_hash
          /\ key # "weight_fingerprint" =>
                file'.weight_fingerprint = file.weight_fingerprint
          /\ file' = [kind |-> file'.kind, config |-> file'.config,
                      schema_hash |-> file'.schema_hash,
                      weight_fingerprint |-> file'.weight_fingerprint]
          BY <3>2 DEF FileInv, HashKeys
    <3> QED BY <2>1, <3>2, <3>3 DEF FileInv
  <2> QED BY <2>1, <2>2, <2>3, <2>4, <2>5, <2>6, Zenon DEF Edited
<1>4. ASSUME UNCHANGED fileVars PROVE FileInv'
      BY <1>4 DEF FileInv, fileVars
<1> QED
  BY <1>1, <1>2, <1>3, <1>4, Steps
  DEF LoadRaises, Load, Alter, BuildEngine, Ship, Mount, vars

\* What load_checkpoint said of a hash it took from the file.
LEMMA MatchTells ==
    ASSUME NEW hash, NEW stored
    PROVE  /\ Compared(hash, stored) = "match" => stored = {hash}
           /\ stored = {hash} => Compared(hash, stored) = "match"
BY DEF Compared

\* Every step keeps LoadInv: while there is a model the file stays as it was.
LEMMA LoadStep ==
    ASSUME FileInv, LoadInv, [Next]_vars
    PROVE  LoadInv'
<1>1. ASSUME NEW cfg \in SavedConfigs, NEW weights \in BOOLEAN, Save(cfg, weights)
      PROVE  LoadInv'
      BY <1>1 DEF Save, Between, LoadInv, AtMostOne
<1>2. ASSUME SaveKilled PROVE LoadInv'
      BY <1>2 DEF SaveKilled, Between, LoadInv, AtMostOne
<1>3. ASSUME Edit PROVE LoadInv'
      BY <1>3 DEF Edit, Between, LoadInv, AtMostOne
<1>4. ASSUME LoadRaises PROVE LoadInv'
  <2>1. model = {} /\ model' = {} /\ intact' = intact
        BY <1>4 DEF LoadRaises, Between, fileVars
  <2>2. ASSUME intact PROVE FALSE
    <3>1. PICK cfg \in saved : file = Contents(CleanRoomTransformer(cfg))
          BY <2>2 DEF FileInv
    <3>2. file.kind = "json" /\ file.config = {cfg}
          BY <3>1 DEF Contents, CleanRoomTransformer
    <3>3. cfg \in [Fields -> Int] /\ Valid(cfg) /\ Buildable(cfg)
          BY CheckpointAssumption DEF FileInv
    <3>4. ConfigOf(cfg) = cfg
          BY <3>3, ConfigOfWhole
    <3> QED BY <1>4, <3>2, <3>3, <3>4 DEF LoadRaises, ConfigRaises, BuildRaises
  <2> QED BY <2>1, <2>2 DEF LoadInv, AtMostOne
<1>5. ASSUME NEW archive \in BOOLEAN, Load(archive) PROVE LoadInv'
  <2> DEFINE M(c) == CleanRoomTransformer(ConfigOf(c))
  <2>1. PICK c \in file.config :
          /\ Valid(ConfigOf(c))
          /\ \/ outcome' = "AttributeError" /\ model' = {}
             \/ /\ outcome' = "ok" /\ model' = {M(c)}
                /\ notices' = {SchemaNotice(M(c)), FingerprintNotice(M(c))}
        BY <1>5 DEF Load
  <2>2. file' = file /\ saved' = saved /\ intact' = intact
        BY <1>5 DEF Load, fileVars
  <2>3. CASE model' = {} /\ outcome' = "AttributeError"
        BY <2>2, <2>3 DEF LoadInv, AtMostOne
  <2>4. CASE /\ outcome' = "ok" /\ model' = {M(c)}
             /\ notices' = {SchemaNotice(M(c)), FingerprintNotice(M(c))}
    <3>1. DOMAIN c \subseteq Fields /\ c \in [DOMAIN c -> Int]
          BY <2>1 DEF FileInv
    <3>2. ConfigOf(c) \in [Fields -> Int]
          BY <3>1, ConfigOfTyped
    <3>3. M(c).cfg = ConfigOf(c) /\ M(c).altered = {}
          /\ M(c) = [cfg |-> M(c).cfg, altered |-> M(c).altered]
          BY DEF CleanRoomTransformer
    <3>4. IsModel(M(c))
          BY <2>1, <3>2, <3>3 DEF IsModel, Valid
    <3>5. CleanRoomTransformer(M(c).cfg) = M(c)
          BY <3>3
    <3> DEFINE S == Compared(schema_hash(M(c).cfg), file.schema_hash)
               F == Compared(weight_fingerprint(M(c)), file.weight_fingerprint)
    <3>6. notices' = {<<"schema_hash", S>>, <<"weight_fingerprint", F>>}
          BY <2>4 DEF SchemaNotice, FingerprintNotice
    <3>7. /\ S = "match" <=> file.schema_hash = {schema_hash(M(c).cfg)}
          /\ F = "match" <=> file.weight_fingerprint = {weight_fingerprint(M(c))}
          BY MatchTells
    <3>8. ASSUME intact PROVE S = "match" /\ F = "match"
      <4>1. PICK cfg \in saved : file = Contents(CleanRoomTransformer(cfg))
            BY <3>8 DEF FileInv
      <4>2. /\ file.config = {cfg} /\ file.schema_hash = {schema_hash(cfg)}
            /\ file.weight_fingerprint = {weight_fingerprint(CleanRoomTransformer(cfg))}
            BY <4>1 DEF Contents, CleanRoomTransformer
      <4>3. cfg \in [Fields -> Int] /\ c = cfg
            BY <2>1, <4>2, CheckpointAssumption DEF FileInv
      <4>4. ConfigOf(c) = cfg
            BY <4>3, ConfigOfWhole
      <4> QED BY <3>3, <3>7, <4>2, <4>4
    <3> HIDE DEF M, S, F
    <3>9. /\ <<"weight_fingerprint", "match">> \in notices' => F = "match"
          /\ <<"schema_hash", "match">> \in notices' => S = "match"
          BY <3>6
    <3> QED BY <2>2, <2>4, <3>4, <3>5, <3>6, <3>7, <3>8, <3>9 DEF LoadInv, AtMostOne
  <2> QED BY <2>1, <2>3, <2>4
<1>6. ASSUME NEW p, Alter(p) PROVE LoadInv'
  <2>1. PICK m \in model : /\ m.altered = {} /\ p \in Parameters(m.cfg)
                           /\ model' = {[m EXCEPT !.altered = {p}]}
        BY <1>6 DEF Alter
  <2>2. file' = file /\ intact' = intact /\ notices' = notices /\ outcome' = outcome
        BY <1>6 DEF Alter, fileVars
  <2>3. [m EXCEPT !.altered = {p}] = [cfg |-> m.cfg, altered |-> {p}]
        BY <2>1 DEF LoadInv, IsModel
  <2>4. IsModel([m EXCEPT !.altered = {p}])
        BY <2>1, <2>3 DEF LoadInv, IsModel
  <2> QED BY <2>1, <2>2, <2>3, <2>4 DEF LoadInv, AtMostOne
<1>7. ASSUME Ship PROVE LoadInv'
      BY <1>7 DEF Ship, LoadInv, AtMostOne, fileVars
<1>8. ASSUME Leaves PROVE LoadInv'
      BY <1>8 DEF Leaves, LoadInv, fileVars
<1> QED
  BY <1>1, <1>2, <1>3, <1>4, <1>5, <1>6, <1>7, <1>8, Steps
  DEF BuildEngine, Mount, Leaves, vars

-----------------------------------------------------------------------------
\* A schema hash is as good as the config, and equal weight fingerprints are
\* equal parameter for parameter.
LEMMA HashIsConfig ==
    ASSUME NEW cfg \in [Fields -> Int]
    PROVE  schema_hash(cfg) = cfg
<1>1. schema_hash(cfg) = [f \in Fields |-> cfg[f]]
      BY DEF schema_hash
<1> QED BY <1>1

LEMMA FingerprintsTell ==
    ASSUME NEW m, NEW n, weight_fingerprint(m) = weight_fingerprint(n)
    PROVE  /\ Parameters(m.cfg) = Parameters(n.cfg)
           /\ \A p \in Parameters(m.cfg) : fingerprint(m, p) = fingerprint(n, p)
<1>1. /\ DOMAIN weight_fingerprint(m) = Parameters(m.cfg)
      /\ DOMAIN weight_fingerprint(n) = Parameters(n.cfg)
      BY DEF weight_fingerprint
<1>2. \A p \in Parameters(m.cfg) : weight_fingerprint(m)[p] = fingerprint(m, p)
      BY DEF weight_fingerprint
<1>3. \A p \in Parameters(n.cfg) : weight_fingerprint(n)[p] = fingerprint(n, p)
      BY DEF weight_fingerprint
<1> QED BY <1>1, <1>2, <1>3

LEMMA SameModel ==
    ASSUME NEW m, NEW n, IsModel(m), IsModel(n),
           schema_hash(m.cfg) = schema_hash(n.cfg),
           weight_fingerprint(m) = weight_fingerprint(n)
    PROVE  m = n
<1>1. m.cfg = n.cfg
      BY HashIsConfig DEF IsModel
<1>2. ASSUME NEW p \in Parameters(m.cfg) PROVE p \in m.altered <=> p \in n.altered
  <2>1. fingerprint(m, p) = fingerprint(n, p)
        BY FingerprintsTell
  <2>2. fingerprint(m, p).altered = fingerprint(n, p).altered
        BY <2>1
  <2>3. /\ fingerprint(m, p).altered = (p \in m.altered)
        /\ fingerprint(n, p).altered = (p \in n.altered)
        BY DEF fingerprint
  <2> QED BY <2>2, <2>3
<1>3. m.altered = n.altered
      BY <1>1, <1>2 DEF IsModel
<1> QED BY <1>1, <1>3 DEF IsModel

\* The record has all of a profile that calibrate makes.
LEMMA ShipLossless ==
    ASSUME NEW prof,
           prof = [bounds |-> prof.bounds, margin |-> prof.margin,
                   schema_hash |-> prof.schema_hash,
                   weight_fingerprint |-> prof.weight_fingerprint,
                   generalize_layers |-> TRUE]
    PROVE  from_record(as_record(prof)) = prof
<1> DEFINE r == as_record(prof)
           F == {"bounds", "margin", "schema_hash", "weight_fingerprint"}
<1>1. DOMAIN prof = F \cup {"generalize_layers"} /\ prof.generalize_layers = TRUE
      /\ prof = [f \in DOMAIN prof |-> prof[f]]
      OBVIOUS
<1>2. DOMAIN prof \ {"generalize_layers"} = F
      BY <1>1
<1>3. DOMAIN r = F /\ \A f \in F : r[f] = prof[f]
      BY <1>2 DEF as_record
<1> HIDE DEF r
<1>4. from_record(r) = [f \in F \cup {"generalize_layers"} |->
                           IF f \in F THEN r[f] ELSE TRUE]
      BY <1>3 DEF from_record
<1>5. \A f \in F \cup {"generalize_layers"} : (IF f \in F THEN r[f] ELSE TRUE) = prof[f]
      BY <1>1, <1>3
<1>6. from_record(r) = [f \in F \cup {"generalize_layers"} |-> prof[f]]
      BY <1>4, <1>5
<1> QED BY <1>1, <1>6 DEF r

\* The steps of calibrate after the first, by what they do to the phase.
LEMMA CalibrateSteps ==
    ASSUME Calibrates
    PROVE  /\ phase = "collecting" /\ subject' = subject
           /\ \/ phase' \in {"collecting", "refused"} /\ profile' = profile
              \/ Fit
BY DEF Calibrates, NextInput, OnStateRaises, NothingSeen, OnState, Fit

\* Every step keeps MountInv.
LEMMA MountStep ==
    ASSUME LoadInv, MountInv, [Next]_vars
    PROVE  MountInv'
<1>1. ASSUME UNCHANGED <<calibrationVars, model, mounted>> PROVE MountInv'
      BY <1>1 DEF MountInv, MountedProfileIsOwn, calibrationVars
<1>2. ASSUME model = {} \/ mounted = "no", mounted' = mounted, UNCHANGED calibrationVars
      PROVE  MountInv'
      BY <1>2 DEF MountInv, MountedProfileIsOwn, calibrationVars
<1>3. ASSUME NEW m \in Margins, BuildEngine(m) PROVE MountInv'
  <2>1. PICK mod \in model :
          /\ phase = "idle"
          /\ \/ Calibrate(mod, m)
             \/ phase' = "refused" /\ subject' = subject
        BY <1>3 DEF BuildEngine, Calibrate
  <2>2. model' = model /\ mounted' = mounted
        BY <1>3 DEF BuildEngine
  <2>3. mounted' = "no" /\ phase' \in {"refused", "collecting"}
        BY <2>1, <2>2 DEF MountInv, Calibrate
  <2>4. subject' \in {{mod}, subject} /\ IsModel(mod)
        BY <2>1 DEF Calibrate, LoadInv
  <2>5. AtMostOne(subject') /\ \A s \in subject' : IsModel(s)
        BY <2>4 DEF MountInv, AtMostOne
  <2> QED BY <2>3, <2>5 DEF MountInv, MountedProfileIsOwn
<1>4. ASSUME Calibrates, UNCHANGED <<fileVars, model, outcome, notices, mounted>>
      PROVE  MountInv'
  <2>1. mounted' = "no" /\ subject' = subject /\ model' = model
        BY <1>4, CalibrateSteps DEF MountInv
  <2>2. CASE phase' \in {"collecting", "refused"}
        BY <2>1, <2>2 DEF MountInv, MountedProfileIsOwn
  <2>3. CASE Fit
    <3>1. PICK s \in subject :
            /\ phase' = "fitted"
            /\ profile' = [bounds |-> [p \in DOMAIN observed |-> Widened(observed[p], margin)],
                           margin |-> margin, schema_hash |-> schema_hash(s.cfg),
                           weight_fingerprint |-> weight_fingerprint(s),
                           generalize_layers |-> TRUE]
          BY <2>3 DEF Fit
    <3>2. \A n \in subject : n = s
          BY DEF MountInv, AtMostOne
    <3>3. /\ profile' = [bounds |-> profile'.bounds, margin |-> profile'.margin,
                         schema_hash |-> profile'.schema_hash,
                         weight_fingerprint |-> profile'.weight_fingerprint,
                         generalize_layers |-> TRUE]
          /\ profile'.schema_hash = schema_hash(s.cfg)
          /\ profile'.weight_fingerprint = weight_fingerprint(s)
          BY <3>1
    <3> QED BY <2>1, <3>1, <3>2, <3>3 DEF MountInv, MountedProfileIsOwn
  <2> QED BY <1>4, <2>2, <2>3, CalibrateSteps
<1>5. ASSUME Ship PROVE MountInv'
  <2>1. profile' = profile
        BY <1>5, ShipLossless DEF Ship, MountInv
  <2>2. UNCHANGED <<subject, phase>> /\ mounted' = "no"
        BY <1>5 DEF Ship
  <2> QED BY <2>1, <2>2 DEF MountInv, MountedProfileIsOwn
<1>6. ASSUME NEW guarded \in BOOLEAN, Mount(guarded) PROVE MountInv'
  <2>1. PICK m \in model :
          /\ phase = "fitted"
          /\ mounted' = IF ~Admits(m, guarded) THEN "refused"
                        ELSE IF guarded THEN "guarded" ELSE "unguarded"
        BY <1>6 DEF Mount
  <2>2. UNCHANGED <<calibrationVars, model>>
        BY <1>6 DEF Mount
  <2>3. ASSUME NEW n \in model, NEW s \in subject
        PROVE  /\ mounted' = "guarded" => n = s
               /\ mounted' = "refused" => n # s
               /\ mounted' = "unguarded" => n.cfg = s.cfg
    <3>1. n = m
          BY DEF LoadInv, AtMostOne
    <3>2. /\ profile.schema_hash = schema_hash(s.cfg)
          /\ profile.weight_fingerprint = weight_fingerprint(s)
          BY <2>1 DEF MountInv
    <3>3. IsModel(m) /\ IsModel(s)
          BY DEF LoadInv, MountInv
    <3>4. CASE mounted' = "guarded"
      <4>1. Admits(m, TRUE)
            BY <2>1, <3>4
      <4>2. m = s
            BY <3>2, <3>3, <4>1, SameModel DEF Admits
      <4> QED BY <3>1, <3>4, <4>2
    <3>5. CASE mounted' = "refused"
      <4>1. ~Admits(m, guarded)
            BY <2>1, <3>5
      <4> QED BY <3>1, <3>2, <3>5, <4>1 DEF Admits
    <3>6. CASE mounted' = "unguarded"
      <4>1. schema_hash(m.cfg) = schema_hash(s.cfg)
            BY <2>1, <3>2, <3>6 DEF Admits
      <4>2. m.cfg = s.cfg
            BY <3>3, <4>1, HashIsConfig DEF IsModel
      <4> QED BY <3>1, <3>6, <4>2
    <3> QED BY <3>4, <3>5, <3>6
  <2>4. MountedProfileIsOwn'
        BY <2>2, <2>3 DEF MountedProfileIsOwn, calibrationVars
  <2> QED BY <2>1, <2>2, <2>4 DEF MountInv, calibrationVars
<1>7. ASSUME NEW cfg \in SavedConfigs, NEW weights \in BOOLEAN, Save(cfg, weights)
      PROVE  MountInv'
      BY <1>1, <1>7 DEF Save
<1>8. ASSUME SaveKilled \/ Edit \/ LoadRaises PROVE MountInv'
      BY <1>1, <1>8 DEF SaveKilled, Edit, LoadRaises
<1>9. ASSUME NEW archive \in BOOLEAN, Load(archive) PROVE MountInv'
      BY <1>2, <1>9 DEF Load, Between
<1>10. ASSUME NEW p, Alter(p) PROVE MountInv'
      BY <1>2, <1>10 DEF Alter
<1>11. ASSUME UNCHANGED vars PROVE MountInv'
      BY <1>1, <1>11 DEF vars
<1> QED BY <1>3, <1>4, <1>5, <1>6, <1>7, <1>8, <1>9, <1>10, <1>11, Steps

-----------------------------------------------------------------------------
\* The collector.  Coordinates of a tensor are natural numbers, and a model has
\* finitely many boundaries.
LEMMA TensorTyped == \A t \in Tensors : t[1] \in Nat /\ t[2] \in Nat
BY CalibrationAssumption DEF Inf

LEMMA PathsFinite ==
    ASSUME AtMostOne(subject), \A s \in subject : IsModel(s)
    PROVE  IsFiniteSet(Paths)
<1>1. CASE subject = {}
  <2>1. Paths = {}
        BY <1>1 DEF Paths
  <2> QED BY <2>1, FS_EmptySet
<1>2. CASE subject # {}
  <2>1. PICK s \in subject : TRUE
        BY <1>2
  <2>2. Paths = PathsOf(s)
        BY <2>1 DEF Paths, AtMostOne
  <2>3. s.cfg.n_layers - 1 \in Int
    <3>1. s.cfg \in [Fields -> Int] /\ "n_layers" \in Fields
          BY DEF IsModel, Fields
    <3> QED BY <3>1
  <2>4. IsFiniteSet(0..(s.cfg.n_layers - 1)) /\ IsFiniteSet({NoLayer})
    <3> DEFINE n == s.cfg.n_layers - 1
    <3>1. n \in Int /\ 0 \in Int
          BY <2>3
    <3>2. IsFiniteSet(0..n)
          <4> HIDE DEF n
          <4> QED BY <3>1, FS_Interval
    <3>3. IsFiniteSet({NoLayer})
          BY FS_Singleton
    <3> QED BY <3>2, <3>3
  <2>5. /\ IsFiniteSet(LayerKinds \X (0..(s.cfg.n_layers - 1)))
        /\ IsFiniteSet(OtherKinds \X {NoLayer})
        BY <2>4, FS_Product, CalibrationAssumption
  <2> QED BY <2>2, <2>5, FS_Union DEF PathsOf
<1> QED BY <1>1, <1>2

\* What on_state makes of the collector's value for a boundary.
LEMMA ObservedGrows ==
    ASSUME SeenInv, NEW q, NEW t \in Tensors
    PROVE  /\ DOMAIN Observed(q, t) = DOMAIN observed \cup {q}
           /\ \A p \in DOMAIN observed : p # q => Observed(q, t)[p] = observed[p]
           /\ \A i \in {1, 2} :
                 /\ Observed(q, t)[q][i] \in Nat
                 /\ t[i] <= Observed(q, t)[q][i]
                 /\ q \in DOMAIN observed => observed[q][i] <= Observed(q, t)[q][i]
                 /\ \/ Observed(q, t)[q][i] = t[i]
                    \/ /\ q \in DOMAIN observed
                       /\ Observed(q, t)[q][i] = observed[q][i]
<1> DEFINE old == IF q \in DOMAIN observed THEN observed[q] ELSE <<0, 0>>
           W == Widest({t} \cup {old})
<1>1. /\ DOMAIN Observed(q, t) = DOMAIN observed \cup {q}
      /\ \A p \in DOMAIN observed : p # q => Observed(q, t)[p] = observed[p]
      BY DEF Observed
<1>2. Observed(q, t)[q] = W
      BY DEF Observed
<1>3. t[1] \in Nat /\ t[2] \in Nat
      BY TensorTyped
<1>4. old[1] \in Nat /\ old[2] \in Nat
      BY DEF SeenInv
<1>5. IsFiniteSet({t} \cup {old})
      BY FS_Singleton, FS_Union
<1>6. \A b \in {t} \cup {old} : b[1] \in Int /\ b[2] \in Int
      BY <1>3, <1>4
<1>7. \A i \in {1, 2} :
         /\ W[i] \in Int
         /\ t[i] <= W[i] /\ old[i] <= W[i]
         /\ W[i] = t[i] \/ W[i] = old[i]
  <2> HIDE DEF old
  <2> QED BY <1>5, <1>6, WidestBounds
<1>8. ASSUME NEW i \in {1, 2}
      PROVE  /\ W[i] \in Nat /\ t[i] <= W[i]
             /\ q \in DOMAIN observed => observed[q][i] <= W[i]
             /\ W[i] = t[i] \/ (q \in DOMAIN observed /\ W[i] = observed[q][i])
  <2>1. t[i] \in Nat /\ old[i] \in Nat
        BY <1>3, <1>4
  <2>2. /\ W[i] \in Int /\ t[i] <= W[i] /\ old[i] <= W[i]
        /\ W[i] = t[i] \/ W[i] = old[i]
        BY <1>7
  <2>3. CASE q \in DOMAIN observed
    <3>1. old[i] = observed[q][i]
          BY <2>3
    <3> HIDE DEF old, W
    <3> QED BY <2>1, <2>2, <2>3, <3>1
  <2>4. CASE q \notin DOMAIN observed
    <3>1. old[i] = 0
          BY <2>4
    <3> HIDE DEF old, W
    <3> QED BY <2>1, <2>2, <2>4, <3>1
  <2> QED BY <2>3, <2>4
<1> HIDE DEF W
<1> QED BY <1>1, <1>2, <1>8

\* The steps of a forward pass keep SeenInv.
LEMMA OnStateStep ==
    ASSUME SeenInv, NEW t \in Tensors, OnState(t)
    PROVE  SeenInv'
<1> DEFINE q == NextPath
           o == Observed(q, t)
<1>1. q \in pending /\ q \in Paths
      BY DEF OnState, NextPath, SeenInv
<1>2. /\ observed' = o /\ seen' = seen \cup {<<q, t>>} /\ pending' = pending \ {q}
      /\ samples' = Counted /\ subject' = subject
      BY DEF OnState
<1>3. Paths' = Paths
      BY <1>2 DEF Paths
<1>4. /\ DOMAIN o = DOMAIN observed \cup {q}
      /\ \A p \in DOMAIN observed : p # q => o[p] = observed[p]
      /\ \A i \in {1, 2} :
            /\ o[q][i] \in Nat
            /\ t[i] <= o[q][i]
            /\ q \in DOMAIN observed => observed[q][i] <= o[q][i]
            /\ o[q][i] = t[i] \/ (q \in DOMAIN observed /\ o[q][i] = observed[q][i])
      BY ObservedGrows
<1> HIDE DEF o, q
<1>5. seen' \subseteq Paths' \X Tensors
      BY <1>1, <1>2, <1>3 DEF SeenInv
<1>6. IsFiniteSet(DOMAIN observed') /\ DOMAIN observed' = {x[1] : x \in seen'}
  <2>1. IsFiniteSet(DOMAIN observed \cup {q})
        BY FS_AddElement DEF SeenInv
  <2>2. {x[1] : x \in seen'} = {x[1] : x \in seen} \cup {q}
    <3>1. seen' = seen \cup {<<q, t>>} /\ <<q, t>>[1] = q
          BY <1>2
    <3> QED BY <3>1, Zenon
  <2> QED BY <1>2, <1>4, <2>1, <2>2 DEF SeenInv
<1>7. ASSUME NEW p \in DOMAIN observed', NEW i \in {1, 2}
      PROVE  /\ observed'[p][i] \in Nat
             /\ \A x \in seen' : x[1] = p => x[2][i] <= observed'[p][i]
             /\ \E x \in seen' : x[1] = p /\ x[2][i] = observed'[p][i]
  <2>1. CASE p # q
    <3>1. p \in DOMAIN observed /\ observed'[p] = observed[p]
          BY <1>2, <1>4, <2>1
    <3>2. /\ observed[p][i] \in Nat
          /\ \A x \in seen : x[1] = p => x[2][i] <= observed[p][i]
          /\ \E x \in seen : x[1] = p /\ x[2][i] = observed[p][i]
          BY <3>1 DEF SeenInv
    <3> QED BY <1>2, <2>1, <3>1, <3>2
  <2>2. CASE p = q
    <3>1. /\ observed'[p][i] \in Nat /\ t[i] <= observed'[p][i]
          /\ q \in DOMAIN observed => observed[q][i] <= observed'[p][i]
          /\ \/ observed'[p][i] = t[i]
             \/ q \in DOMAIN observed /\ observed'[p][i] = observed[q][i]
          BY <1>2, <1>4, <2>2
    <3>2. q \in DOMAIN observed =>
             /\ observed[q][i] \in Nat
             /\ \A x \in seen : x[1] = q => x[2][i] <= observed[q][i]
             /\ \E x \in seen : x[1] = q /\ x[2][i] = observed[q][i]
          BY DEF SeenInv
    <3>3. ASSUME NEW x \in seen, x[1] = q PROVE x[2][i] <= observed'[p][i]
      <4>1. q \in DOMAIN observed
            BY <3>3 DEF SeenInv
      <4>2. x[2][i] \in Nat
            BY TensorTyped DEF SeenInv
      <4> QED BY <3>1, <3>2, <3>3, <4>1, <4>2
    <3>4. \E x \in seen' : x[1] = q /\ x[2][i] = observed'[p][i]
      <4>1. CASE observed'[p][i] = t[i]
        <5>1. <<q, t>> \in seen'
              BY <1>2
        <5> QED BY <4>1, <5>1
      <4>2. CASE q \in DOMAIN observed /\ observed'[p][i] = observed[q][i]
            BY <1>2, <3>2, <4>2
      <4> QED BY <3>1, <4>1, <4>2
    <3> QED BY <1>2, <2>2, <3>1, <3>3, <3>4
  <2> QED BY <2>1, <2>2
<1>8. IsFiniteSet(pending') /\ pending' \subseteq Paths'
      BY <1>2, <1>3, FS_RemoveElement DEF SeenInv
<1>9. Paths' \subseteq pending' \cup DOMAIN observed'
      BY <1>1, <1>2, <1>3, <1>4 DEF SeenInv
<1>10. samples' \in Nat /\ (samples' > 0 => Paths' \subseteq DOMAIN observed')
  <2>1. CASE Cardinality(pending) = 1
    <3>1. \E x : pending = {x}
          BY <2>1, FS_Singleton DEF SeenInv
    <3>2. pending' = {}
          BY <1>1, <1>2, <3>1
    <3>3. samples' = samples + 1 /\ samples \in Nat
          BY <1>2, <2>1 DEF Counted, SeenInv
    <3> QED BY <1>9, <3>2, <3>3
  <2>2. CASE Cardinality(pending) # 1
    <3>1. samples' = samples
          BY <1>2, <2>2 DEF Counted
    <3> QED BY <1>2, <1>3, <1>4, <3>1 DEF SeenInv
  <2> QED BY <2>1, <2>2
<1> QED BY <1>5, <1>6, <1>7, <1>8, <1>9, <1>10 DEF SeenInv

LEMMA SeenStep ==
    ASSUME LoadInv, MountInv, EnvelopeInv, SeenInv, [Next]_vars
    PROVE  SeenInv'
<1>1. ASSUME UNCHANGED <<subject, observed, pending, samples, seen>> PROVE SeenInv'
  <2>1. Paths' = Paths
        BY <1>1 DEF Paths
  <2> QED BY <1>1, <2>1 DEF SeenInv
<1>2. ASSUME NEW m \in Margins, BuildEngine(m) PROVE SeenInv'
  <2>1. phase = "idle" /\ UNCHANGED <<observed, pending, samples, seen>>
        BY <1>2 DEF BuildEngine, Calibrate
  <2>2. subject = {} /\ pending = {} /\ samples = 0
        BY <2>1 DEF EnvelopeInv
  <2>3. seen = {}
        BY <2>2 DEF SeenInv, Paths
  <2> QED BY <2>1, <2>2, <2>3 DEF SeenInv
<1>3. ASSUME Calibrates PROVE SeenInv'
  <2>1. CASE NextInput
    <3>1. /\ pending' = Paths /\ UNCHANGED <<subject, observed, samples, seen>>
          BY <2>1 DEF NextInput
    <3>2. Paths' = Paths
          BY <3>1 DEF Paths
    <3>3. IsFiniteSet(Paths)
          BY PathsFinite DEF MountInv
    <3> QED BY <3>1, <3>2, <3>3 DEF SeenInv
  <2>2. CASE OnStateRaises \/ NothingSeen \/ Fit
        BY <1>1, <2>2 DEF OnStateRaises, NothingSeen, Fit
  <2>3. CASE \E t \in Tensors : OnState(t)
        BY <2>3, OnStateStep
  <2> QED BY <1>3, <2>1, <2>2, <2>3 DEF Calibrates
<1>4. ASSUME UNCHANGED calibrationVars PROVE SeenInv'
      BY <1>1, <1>4 DEF calibrationVars
<1>5. ASSUME Ship PROVE SeenInv'
      BY <1>1, <1>5 DEF Ship
<1>6. ASSUME NEW cfg \in SavedConfigs, NEW weights \in BOOLEAN, Save(cfg, weights)
      PROVE  SeenInv'
      BY <1>4, <1>6 DEF Save
<1>7. ASSUME SaveKilled \/ Edit \/ LoadRaises PROVE SeenInv'
      BY <1>4, <1>7 DEF SaveKilled, Edit, LoadRaises
<1>8. ASSUME NEW archive \in BOOLEAN, Load(archive) PROVE SeenInv'
      BY <1>4, <1>8 DEF Load
<1>9. ASSUME NEW p, Alter(p) PROVE SeenInv'
      BY <1>4, <1>9 DEF Alter
<1>10. ASSUME NEW guarded \in BOOLEAN, Mount(guarded) PROVE SeenInv'
      BY <1>4, <1>10 DEF Mount
<1>11. ASSUME UNCHANGED vars PROVE SeenInv'
      BY <1>4, <1>11 DEF vars
<1> QED BY <1>2, <1>3, <1>5, <1>6, <1>7, <1>8, <1>9, <1>10, <1>11, Steps

LEMMA EnvelopeStep ==
    ASSUME MountInv, EnvelopeInv, SeenInv, [Next]_vars
    PROVE  EnvelopeInv'
<1>1. ASSUME UNCHANGED calibrationVars PROVE EnvelopeInv'
      BY <1>1 DEF EnvelopeInv, calibrationVars
<1>2. ASSUME NEW m \in Margins, BuildEngine(m) PROVE EnvelopeInv'
  <2>1. CASE phase' = "refused"
        BY <2>1 DEF EnvelopeInv
  <2>2. CASE phase' # "refused"
    <3>1. PICK mod \in model : Calibrate(mod, m)
          BY <1>2, <2>2 DEF BuildEngine
    <3>2. /\ subject' = {mod} /\ margin' = m /\ phase' = "collecting"
          /\ ~(m # NaN /\ m < 2)
          BY <2>2, <3>1 DEF Calibrate
    <3>3. m = NaN \/ m \in Nat
          BY CalibrationAssumption
    <3>4. m = NaN \/ (m \in Nat /\ m >= 2)
          BY <3>2, <3>3
    <3> QED BY <3>2, <3>4 DEF EnvelopeInv
  <2> QED BY <2>1, <2>2
<1>3. ASSUME Calibrates PROVE EnvelopeInv'
  <2>1. phase = "collecting"
        BY <1>3, CalibrateSteps
  <2>2. CASE Fit
    <3>1. /\ phase' = "fitted" /\ samples > 0
          /\ profile'.bounds = [p \in DOMAIN observed |-> Widened(observed[p], margin)]
          /\ profile'.generalize_layers = TRUE
          /\ UNCHANGED <<subject, margin, observed, samples>>
          BY <2>2 DEF Fit
    <3> QED BY <2>1, <3>1 DEF EnvelopeInv
  <2>3. CASE phase' \in {"collecting", "refused"}
    <3>1. subject' = subject /\ margin' = margin
          BY <1>3 DEF Calibrates, NextInput, OnStateRaises, NothingSeen, OnState, Fit
    <3> QED BY <2>1, <2>3, <3>1 DEF EnvelopeInv
  <2> QED BY <1>3, <2>2, <2>3, CalibrateSteps
<1>4. ASSUME Ship PROVE EnvelopeInv'
  <2>1. profile' = profile
        BY <1>4, ShipLossless DEF Ship, MountInv
  <2> QED BY <1>4, <2>1 DEF Ship, EnvelopeInv
<1>5. ASSUME NEW cfg \in SavedConfigs, NEW weights \in BOOLEAN, Save(cfg, weights)
      PROVE  EnvelopeInv'
      BY <1>1, <1>5 DEF Save
<1>6. ASSUME SaveKilled \/ Edit \/ LoadRaises PROVE EnvelopeInv'
      BY <1>1, <1>6 DEF SaveKilled, Edit, LoadRaises
<1>7. ASSUME NEW archive \in BOOLEAN, Load(archive) PROVE EnvelopeInv'
      BY <1>1, <1>7 DEF Load
<1>8. ASSUME NEW p, Alter(p) PROVE EnvelopeInv'
      BY <1>1, <1>8 DEF Alter
<1>9. ASSUME NEW guarded \in BOOLEAN, Mount(guarded) PROVE EnvelopeInv'
      BY <1>1, <1>9 DEF Mount
<1>10. ASSUME UNCHANGED vars PROVE EnvelopeInv'
      BY <1>1, <1>10 DEF vars
<1> QED BY <1>2, <1>3, <1>4, <1>5, <1>6, <1>7, <1>8, <1>9, <1>10, Steps

-----------------------------------------------------------------------------
\* All of it holds at the start and is kept.
CheckpointInv == FileInv /\ LoadInv /\ MountInv /\ SeenInv /\ EnvelopeInv

LEMMA InitHolds ==
    ASSUME Init
    PROVE  CheckpointInv
<1>1. FileInv
      BY DEF Init, FileInv, Unreadable, AtMostOne
<1>2. LoadInv
      BY DEF Init, LoadInv, AtMostOne
<1>3. MountInv
      BY DEF Init, CalibrationInit, MountInv, MountedProfileIsOwn, AtMostOne
<1>4. SeenInv
  <2>1. DOMAIN observed = {} /\ seen = {} /\ pending = {} /\ samples = 0
        BY DEF Init, CalibrationInit, Empty
  <2> QED BY <2>1, FS_EmptySet DEF SeenInv
<1>5. EnvelopeInv
      BY DEF Init, CalibrationInit, EnvelopeInv
<1> QED BY <1>1, <1>2, <1>3, <1>4, <1>5 DEF CheckpointInv

LEMMA Invariant == Spec => []CheckpointInv
<1>1. Init => CheckpointInv
      BY InitHolds
<1>2. CheckpointInv /\ [Next]_vars => CheckpointInv'
  <2> SUFFICES ASSUME CheckpointInv, [Next]_vars PROVE CheckpointInv'
      OBVIOUS
  <2> USE DEF CheckpointInv
  <2> QED BY FileStep, LoadStep, MountStep, SeenStep, EnvelopeStep
<1> QED BY <1>1, <1>2, PTL DEF Spec

\* What load_checkpoint passes in silence is what was saved: for every config and
\* every sequence of edits in between, as long as the hash that vouches for it was
\* not itself replaced.
THEOREM QuietLoad == Spec => []QuietLoadIsFaithful
<1>1. ASSUME CheckpointInv PROVE QuietLoadIsFaithful
  <2> SUFFICES ASSUME NEW m \in model, NEW cfg \in saved
               PROVE  /\ /\ <<"weight_fingerprint", "match">> \in notices
                         /\ "weight_fingerprint" \notin rewritten /\ m.altered = {}
                         => \A p \in Parameters(m.cfg) \cup Parameters(cfg) :
                              /\ p \in Parameters(m.cfg) \cap Parameters(cfg)
                              /\ fingerprint(m, p) = fingerprint(CleanRoomTransformer(cfg), p)
                      /\ /\ <<"schema_hash", "match">> \in notices
                         /\ "schema_hash" \notin rewritten
                         => m.cfg = cfg
      BY DEF QuietLoadIsFaithful
  <2>1. IsModel(m) /\ cfg \in [Fields -> Int]
        BY <1>1, CheckpointAssumption DEF CheckpointInv, LoadInv, FileInv
  <2>2. ASSUME <<"weight_fingerprint", "match">> \in notices,
               "weight_fingerprint" \notin rewritten, m.altered = {}
        PROVE  \A p \in Parameters(m.cfg) \cup Parameters(cfg) :
                  /\ p \in Parameters(m.cfg) \cap Parameters(cfg)
                  /\ fingerprint(m, p) = fingerprint(CleanRoomTransformer(cfg), p)
    <3> DEFINE original == CleanRoomTransformer(cfg)
    <3>1. CleanRoomTransformer(m.cfg) = m
          BY <2>1, <2>2 DEF IsModel, CleanRoomTransformer
    <3>2. /\ file.weight_fingerprint = {weight_fingerprint(m)}
          /\ file.weight_fingerprint \subseteq {weight_fingerprint(original)}
          BY <1>1, <2>2, <3>1 DEF CheckpointInv, LoadInv, FileInv
    <3>3. weight_fingerprint(m) = weight_fingerprint(original)
          BY <3>2
    <3>4. original.cfg = cfg
          BY DEF CleanRoomTransformer
    <3> HIDE DEF original
    <3>5. /\ Parameters(m.cfg) = Parameters(original.cfg)
          /\ \A p \in Parameters(m.cfg) : fingerprint(m, p) = fingerprint(original, p)
          BY <3>3, FingerprintsTell
    <3>6. \A p \in Parameters(m.cfg) \cup Parameters(cfg) :
              /\ p \in Parameters(m.cfg) \cap Parameters(cfg)
              /\ fingerprint(m, p) = fingerprint(original, p)
          BY <3>4, <3>5
    <3> QED BY <3>6 DEF original
  <2>3. ASSUME <<"schema_hash", "match">> \in notices, "schema_hash" \notin rewritten
        PROVE  m.cfg = cfg
    <3>1. /\ file.schema_hash = {schema_hash(m.cfg)}
          /\ file.schema_hash \subseteq {schema_hash(cfg)}
          BY <1>1, <2>3 DEF CheckpointInv, LoadInv, FileInv
    <3>2. schema_hash(m.cfg) = m.cfg /\ schema_hash(cfg) = cfg
          BY <2>1, HashIsConfig DEF IsModel
    <3> QED BY <3>1, <3>2
  <2> QED BY <2>2, <2>3
<1> QED BY <1>1, Invariant, PTL

\* A checkpoint nobody touched loads as what was saved, both hashes confirmed.
THEOREM RoundTrip == Spec => []IntactRoundTrips
<1>1. ASSUME CheckpointInv PROVE IntactRoundTrips
  <2> SUFFICES ASSUME intact
               PROVE  /\ outcome \in {"ok", "AttributeError"}
                      /\ \A m \in model, cfg \in saved :
                            /\ m.cfg = cfg
                            /\ notices = {<<"schema_hash", "match">>,
                                          <<"weight_fingerprint", "match">>}
      BY DEF IntactRoundTrips
  <2>1. outcome \in {"ok", "AttributeError"}
        BY <1>1 DEF CheckpointInv, LoadInv
  <2>2. ASSUME NEW m \in model, NEW cfg \in saved
        PROVE  /\ m.cfg = cfg
               /\ notices = {<<"schema_hash", "match">>, <<"weight_fingerprint", "match">>}
    <3>1. notices = {<<"schema_hash", "match">>, <<"weight_fingerprint", "match">>}
          BY <1>1 DEF CheckpointInv, LoadInv
    <3>2. /\ file.schema_hash = {schema_hash(m.cfg)}
          /\ file.schema_hash \subseteq {schema_hash(cfg)}
          BY <1>1, <3>1 DEF CheckpointInv, LoadInv, FileInv
    <3>3. m.cfg \in [Fields -> Int] /\ cfg \in [Fields -> Int]
          BY <1>1, CheckpointAssumption DEF CheckpointInv, LoadInv, FileInv, IsModel
    <3>4. schema_hash(m.cfg) = m.cfg /\ schema_hash(cfg) = cfg
          BY <3>3, HashIsConfig
    <3> QED BY <3>1, <3>2, <3>4
  <2> QED BY <2>1, <2>2
<1> QED BY <1>1, Invariant, PTL

\* A guarding membrane checks a model against its own envelope and no other, and
\* never refuses it: whatever was altered, edited, shipped or loaded before.
THEOREM MountedIsOwn == Spec => []MountedProfileIsOwn
<1>1. CheckpointInv => MountedProfileIsOwn
      BY DEF CheckpointInv, MountInv
<1> QED BY <1>1, Invariant, PTL

-----------------------------------------------------------------------------
\* The envelope.  More of a natural number is not less of it times another.
LEMMA TimesGrows ==
    ASSUME NEW a \in Nat, NEW b \in Nat, NEW m \in Nat, a <= b
    PROVE  a * m <= b * m /\ a * m \in Nat /\ b * m \in Nat
<1>1. b = a + (b - a) /\ b - a \in Nat
      OBVIOUS
<1>2. (b - a) * m \in Nat
      BY <1>1
<1>3. b * m = a * m + (b - a) * m
      BY <1>1
<1> QED BY <1>2, <1>3

\* What a bound says of the tensors it was made from: with a margin that is a
\* number it is the margin times the largest of them, and otherwise no number.
Covers(b, shown) ==
    IF margin = NaN THEN b[1] = NaN /\ b[2] = NaN
    ELSE \A i \in {1, 2} :
            /\ b[i] \in Nat
            /\ \A s \in shown : s[i] \in Nat /\ s[i] * margin <= b[i]
            /\ \E s \in shown : b[i] = s[i] * margin

\* The tensors the collector was shown at a boundary.
ShownAt(p) == {x[2] : x \in {y \in seen : y[1] = p}}

LEMMA BoundCovers ==
    ASSUME CheckpointInv, phase = "fitted", NEW p \in DOMAIN observed
    PROVE  p \in DOMAIN profile.bounds /\ Covers(profile.bounds[p], ShownAt(p))
<1>1. /\ DOMAIN profile.bounds = DOMAIN observed
      /\ profile.bounds[p] = Widened(observed[p], margin)
      BY DEF CheckpointInv, EnvelopeInv
<1>2. CASE margin = NaN
      BY <1>1, <1>2 DEF Widened, Covers
<1>3. CASE margin # NaN
  <2>1. margin \in Nat
        BY <1>3 DEF CheckpointInv, EnvelopeInv
  <2>2. ASSUME NEW i \in {1, 2}
        PROVE  /\ profile.bounds[p][i] \in Nat
               /\ \A s \in ShownAt(p) : s[i] \in Nat /\ s[i] * margin <= profile.bounds[p][i]
               /\ \E s \in ShownAt(p) : profile.bounds[p][i] = s[i] * margin
    <3>1. profile.bounds[p][i] = observed[p][i] * margin
          BY <1>1, <1>3 DEF Widened
    <3>2. /\ observed[p][i] \in Nat
          /\ \A x \in seen : x[1] = p => x[2][i] <= observed[p][i]
          /\ \E x \in seen : x[1] = p /\ x[2][i] = observed[p][i]
          BY DEF CheckpointInv, SeenInv
    <3>3. \A s \in ShownAt(p) : s[i] \in Nat /\ s[i] <= observed[p][i]
      <4>1. \A x \in seen : x[2][i] \in Nat
            BY TensorTyped DEF CheckpointInv, SeenInv
      <4> QED BY <3>2, <4>1 DEF ShownAt
    <3>4. \E s \in ShownAt(p) : s[i] = observed[p][i]
          BY <3>2 DEF ShownAt
    <3>5. \A s \in ShownAt(p) : s[i] * margin <= observed[p][i] * margin
          BY <2>1, <3>2, <3>3, TimesGrows
    <3>6. observed[p][i] * margin \in Nat
          BY <2>1, <3>2, TimesGrows
    <3> QED BY <3>1, <3>3, <3>4, <3>5, <3>6
  <2> QED BY <1>1, <1>3, <2>2 DEF Covers
<1> QED BY <1>2, <1>3

\* for_path finds one bound for every path somebody may ask for, and it covers
\* what was seen there; of a layer the model has not, at the others.
LEMMA ForPathCovers ==
    ASSUME CheckpointInv, phase = "fitted", NEW path \in AskedPaths
    PROVE  \E b : for_path(profile, path) = {b} /\ Covers(b, SeenFor(path))
<1>1. /\ Paths \subseteq DOMAIN observed /\ DOMAIN observed \subseteq Paths
      /\ DOMAIN profile.bounds = DOMAIN observed /\ profile.generalize_layers = TRUE
  <2>1. Paths \subseteq DOMAIN observed
        BY DEF CheckpointInv, EnvelopeInv, SeenInv
  <2>2. DOMAIN observed \subseteq Paths
        BY DEF CheckpointInv, SeenInv
  <2>3. DOMAIN profile.bounds = DOMAIN observed /\ profile.generalize_layers = TRUE
        BY DEF CheckpointInv, EnvelopeInv
  <2> QED BY <2>1, <2>2, <2>3
<1>2. CASE path \in Paths
  <2>1. for_path(profile, path) = {profile.bounds[path]}
        BY <1>1, <1>2 DEF for_path
  <2>2. SeenFor(path) = ShownAt(path)
        BY <1>2 DEF SeenFor, ShownAt
  <2> QED BY <1>1, <1>2, <2>1, <2>2, BoundCovers
<1>3. CASE path \notin Paths
  <2> DEFINE D == {q \in DOMAIN profile.bounds : q[1] = path[1]}
             C == Image(profile.bounds, D)
  <2>1. PICK s \in subject : path \in LayerKinds \X {s.cfg.n_layers}
        BY <1>3 DEF AskedPaths
  <2>2. s.cfg.n_layers \in Int /\ s.cfg.n_layers > 0
    <3>1. IsModel(s) /\ "n_layers" \in Fields
          BY DEF CheckpointInv, MountInv, Fields
    <3> QED BY <3>1 DEF IsModel
  <2>3. <<path[1], 0>> \in D
    <3>1. path[1] \in LayerKinds
          BY <2>1
    <3>2. 0 \in 0..(s.cfg.n_layers - 1)
          BY <2>2
    <3>3. <<path[1], 0>> \in PathsOf(s)
          BY <3>1, <3>2 DEF PathsOf
    <3> QED BY <1>1, <3>3 DEF Paths
  <2>4. IsFiniteSet(D)
        BY <1>1, FS_Subset DEF CheckpointInv, SeenInv
  <2>5. IsFiniteSet(C) /\ C # {}
        BY <2>3, <2>4, ImageFinite DEF Image
  <2>6. for_path(profile, path) = {Widest(C)}
        BY <1>1, <1>3, <2>5 DEF for_path, Image
  <2>7. \A q \in D : Covers(profile.bounds[q], ShownAt(q))
        BY <1>1, BoundCovers
  <2>8. \A s2 \in SeenFor(path) : \E q \in D : s2 \in ShownAt(q)
    <3>1. \A x \in seen : x[1] \in DOMAIN profile.bounds
          BY <1>1 DEF CheckpointInv, SeenInv
    <3> QED BY <1>3, <3>1 DEF SeenFor, ShownAt
  <2>9. \A q \in D : ShownAt(q) \subseteq SeenFor(path)
        BY <1>3 DEF SeenFor, ShownAt
  <2> HIDE DEF D
  <2>10. CASE margin = NaN
    <3>1. \A b \in C : b[1] = NaN /\ b[2] = NaN
          BY <2>7, <2>10 DEF Covers, Image
    <3>2. \A b \in C : b[1] \in Int /\ b[2] \in Int
          BY <3>1 DEF NaN
    <3> HIDE DEF C
    <3>3. \A i \in {1, 2} : \E b \in C : Widest(C)[i] = b[i]
          BY <2>5, <3>2, WidestBounds
    <3>4. Widest(C)[1] = NaN /\ Widest(C)[2] = NaN
          BY <3>1, <3>3
    <3> QED BY <2>6, <2>10, <3>4 DEF Covers
  <2>11. CASE margin # NaN
    <3>1. \A q \in D : \A i \in {1, 2} : profile.bounds[q][i] \in Nat
          BY <2>7, <2>11 DEF Covers
    <3>2. \A b \in C : b[1] \in Nat /\ b[2] \in Nat
          BY <3>1 DEF Image
    <3>3. \A i \in {1, 2} : /\ Widest(C)[i] \in Int
                            /\ \A b \in C : b[i] <= Widest(C)[i]
                            /\ \E b \in C : Widest(C)[i] = b[i]
          <4>1. \A b \in C : b[1] \in Int /\ b[2] \in Int
                BY <3>2
          <4> HIDE DEF C
          <4> QED BY <2>5, <4>1, WidestBounds
    <3>4. ASSUME NEW i \in {1, 2}
          PROVE  /\ Widest(C)[i] \in Nat
                 /\ \A s2 \in SeenFor(path) : s2[i] \in Nat /\ s2[i] * margin <= Widest(C)[i]
                 /\ \E s2 \in SeenFor(path) : Widest(C)[i] = s2[i] * margin
      <4>1. PICK q \in D : Widest(C)[i] = profile.bounds[q][i]
            BY <3>3 DEF Image
      <4>2. /\ profile.bounds[q][i] \in Nat
            /\ \E s2 \in ShownAt(q) : profile.bounds[q][i] = s2[i] * margin
            BY <2>7, <2>11 DEF Covers
      <4>3. ASSUME NEW s2 \in SeenFor(path)
            PROVE  s2[i] \in Nat /\ s2[i] * margin <= Widest(C)[i]
        <5>1. PICK r \in D : s2 \in ShownAt(r)
              BY <2>8
        <5>2. /\ profile.bounds[r][i] \in Nat /\ s2[i] \in Nat
              /\ s2[i] * margin <= profile.bounds[r][i]
              BY <2>7, <2>11, <5>1 DEF Covers
        <5>3. profile.bounds[r] \in C
              BY DEF Image
        <5>4. profile.bounds[r][i] <= Widest(C)[i]
              BY <3>3, <5>3
        <5>5. s2[i] * margin \in Nat
          <6>1. margin \in Nat
                BY <2>11 DEF CheckpointInv, EnvelopeInv
          <6> QED BY <5>2, <6>1, TimesGrows
        <5> DEFINE a == s2[i] * margin
                   c == profile.bounds[r][i]
                   w == Widest(C)[i]
        <5>6. a \in Nat /\ c \in Nat /\ w \in Int /\ a <= c /\ c <= w
              BY <3>3, <5>2, <5>4, <5>5
        <5>7. a <= w
              <6> HIDE DEF a, c, w
              <6> QED BY <5>6
        <5> QED BY <5>2, <5>7
      <4>4. \E s2 \in SeenFor(path) : Widest(C)[i] = s2[i] * margin
            BY <2>9, <4>1, <4>2
      <4> QED BY <4>1, <4>2, <4>3, <4>4
    <3> QED BY <2>6, <2>11, <3>4 DEF Covers
  <2> QED BY <2>10, <2>11
<1> QED BY <1>2, <1>3

\* What check_magnitude flags where there is one bound.
LEMMA OneBound ==
    ASSUME NEW prof, NEW path, NEW t, NEW b, for_path(prof, path) = {b}
    PROVE  /\ ~Exceeds(t[1], b[1]) /\ ~Exceeds(t[2], b[2]) =>
                 check_magnitude(prof, path, t) = {}
           /\ t # NonFinite /\ (Exceeds(t[1], b[1]) \/ Exceeds(t[2], b[2])) =>
                 check_magnitude(prof, path, t) # {}
<1> DEFINE Rules(c) == {rule \in {"max_abs", "max_row_norm"} :
                          \/ rule = "max_abs" /\ Exceeds(t[1], c[1])
                          \/ rule = "max_row_norm" /\ Exceeds(t[2], c[2])}
<1>1. check_magnitude(prof, path, t) =
        IF t = NonFinite THEN {} ELSE UNION {Rules(c) : c \in {b}}
      BY DEF check_magnitude
<1>2. UNION {Rules(c) : c \in {b}} = Rules(b)
      <2> HIDE DEF Rules
      <2> QED OBVIOUS
<1>3. ASSUME ~Exceeds(t[1], b[1]), ~Exceeds(t[2], b[2]) PROVE Rules(b) = {}
      BY <1>3
<1>4. /\ Exceeds(t[1], b[1]) => "max_abs" \in Rules(b)
      /\ Exceeds(t[2], b[2]) => "max_row_norm" \in Rules(b)
      OBVIOUS
<1> HIDE DEF Rules
<1> QED BY <1>1, <1>2, <1>3, <1>4

\* No tensor as small as one the profile was fitted on is ever flagged: for any
\* set of tensors, any margin and any corpus.
THEOREM ReplayClean == Spec => []ReplayIsClean
<1>1. ASSUME CheckpointInv PROVE ReplayIsClean
  <2> SUFFICES ASSUME phase = "fitted", NEW path \in AskedPaths, NEW t \in Tensors,
                      NEW s \in SeenFor(path), t[1] <= s[1], t[2] <= s[2]
               PROVE  check_magnitude(profile, path, t) = {}
      BY DEF ReplayIsClean
  <2>1. PICK b : for_path(profile, path) = {b} /\ Covers(b, SeenFor(path))
        BY <1>1, ForPathCovers
  <2>2. ASSUME NEW i \in {1, 2}, t[i] <= s[i] PROVE ~Exceeds(t[i], b[i])
    <3>1. CASE margin = NaN
          BY <2>1, <3>1 DEF Covers, Exceeds
    <3>2. CASE margin # NaN
      <4>1. margin \in Nat /\ margin >= 2
            BY <1>1, <3>2 DEF CheckpointInv, EnvelopeInv
      <4>2. b[i] \in Nat /\ s[i] \in Nat /\ s[i] * margin <= b[i]
            BY <2>1, <3>2 DEF Covers
      <4>3. 2 * s[i] <= margin * s[i]
            BY <4>1, <4>2, TimesGrows
      <4>4. t[i] \in Nat
            BY TensorTyped
      <4>5. s[i] * margin = margin * s[i] /\ margin * s[i] \in Nat
            BY <4>1, <4>2
      <4> DEFINE x == margin * s[i]
      <4>6. 2 * s[i] <= x /\ x <= b[i] /\ x \in Nat
            BY <4>2, <4>3, <4>5
      <4>7. ~(2 * t[i] > b[i])
            <5> HIDE DEF x
            <5> QED BY <2>2, <4>2, <4>4, <4>6
      <4> QED BY <4>7 DEF Exceeds
    <3> QED BY <3>1, <3>2
  <2> QED BY <2>1, <2>2, OneBound
<1> QED BY <1>1, Invariant, PTL

\* With a margin that is a number, what is beyond the margin times all that was
\* seen is flagged: at every layer, of the model or not.
THEOREM DriftFlagged == Spec => []DriftIsFlagged
<1>1. ASSUME CheckpointInv PROVE DriftIsFlagged
  <2> SUFFICES ASSUME phase = "fitted", margin # NaN,
                      NEW path \in AskedPaths, NEW t \in Tensors, NEW i \in {1, 2},
                      \A s \in SeenFor(path) : 2 * t[i] > margin * s[i]
               PROVE  check_magnitude(profile, path, t) # {}
      BY DEF DriftIsFlagged
  <2>1. PICK b : for_path(profile, path) = {b} /\ Covers(b, SeenFor(path))
        BY <1>1, ForPathCovers
  <2>2. /\ b[i] \in Nat
        /\ \A s \in SeenFor(path) : s[i] \in Nat
        /\ \E s \in SeenFor(path) : b[i] = s[i] * margin
        BY <2>1 DEF Covers
  <2>3. PICK s \in SeenFor(path) : b[i] = s[i] * margin
        BY <2>2
  <2>4. margin \in Nat
        BY <1>1 DEF CheckpointInv, EnvelopeInv
  <2>5. s[i] * margin = margin * s[i]
        BY <2>2, <2>4
  <2>6. 2 * t[i] > b[i]
        BY <2>3, <2>5
  <2>7. b[i] # NaN
        BY <2>2 DEF NaN
  <2>8. t # NonFinite
        BY CalibrationAssumption DEF NonFinite, Inf
  <2>9. Exceeds(t[i], b[i])
        BY <2>6, <2>7 DEF Exceeds
  <2>10. Exceeds(t[1], b[1]) \/ Exceeds(t[2], b[2])
        BY <2>9
  <2> QED BY <2>1, <2>8, <2>10, OneBound
<1> QED BY <1>1, Invariant, PTL
=============================================================================
