----------------------------- MODULE Checkpoint -----------------------------
(***************************************************************************)
(* scripts/load_checkpoint.py with the refusals of IntegrityMembrane: a    *)
(* checkpoint is saved by one process and loaded by later ones, the loaded *)
(* model is calibrated, and the profile is mounted in front of a model.    *)
(*                                                                         *)
(* The checkpoint is a text file with an editor's reach: between two       *)
(* processes a value of it may be changed or taken out, a hash replaced by *)
(* another.  Saving is one write over the old file, so a process killed in *)
(* it leaves a torn one.                                                   *)
(* The profile of an earlier process can be shipped to a later one.        *)
(***************************************************************************)
EXTENDS Calibration

CONSTANTS
    Default,      \* ModelConfig()
    SavedConfigs, \* configs somebody saves a model of
    Alternatives, \* by field, values an editor puts into a checkpoint
    MaxEdits,     \* bound on the edits of a behaviour
    MaxFitEdits   \* bound on the edits of one in which a model is calibrated

\* The values of a config are numbers, also those an editor puts there; what the
\* number of norm_eps counts is left open.
ASSUME CheckpointAssumption ==
    /\ Default \in SavedConfigs
    /\ \A cfg \in SavedConfigs : Valid(cfg) /\ Buildable(cfg)
    /\ SavedConfigs \subseteq [Fields -> Int]
    /\ DOMAIN Alternatives = Fields /\ \A f \in Fields : Alternatives[f] \subseteq Int
    /\ MaxEdits \in Nat /\ MaxFitEdits \in Nat

VARIABLES
    file,    \* what is at the path: "absent", "torn" or "json", and its contents
    saved,   \* the config of the last model saved, if there is one
    edits,   \* edits so far
    intact,  \* the file is as save_checkpoint left it
    rewritten, \* keys of hashes an editor put another value under since then
    model,   \* the model this process has loaded, if it has one
    outcome, \* how the last call of the script ended: "ok" or what it raised
    notices, \* what load_checkpoint printed of the two hashes
    mounted  \* "no", "refused", "guarded" (weight_fingerprint given) or "unguarded"
fileVars == <<file, saved, edits, intact, rewritten>>
vars == <<calibrationVars, fileVars, model, outcome, notices, mounted>>

-----------------------------------------------------------------------------
\* The record save_checkpoint writes: one value for each key.
Contents(m) == [kind |-> "json", config |-> {m.cfg}, schema_hash |-> {schema_hash(m.cfg)},
                weight_fingerprint |-> {weight_fingerprint(m)}]

\* A file without a record in it.
Unreadable(kind) == [kind |-> kind, config |-> {}, schema_hash |-> {},
                     weight_fingerprint |-> {}]

\* Mutant of ConfigOf: the seed is not taken over.
ConfigOf_seedless(cfg_dict) ==
    [f \in Fields |-> IF f \in DOMAIN cfg_dict \ {"seed"} THEN cfg_dict[f] ELSE Default[f]]

\* cfg_dict.get for every field: what is not there has the default.
ConfigOf(cfg_dict) ==
    [f \in Fields |-> IF f \in DOMAIN cfg_dict THEN cfg_dict[f] ELSE Default[f]]

Init ==
    /\ CalibrationInit
    /\ file = Unreadable("absent") /\ saved = {} /\ edits = 0 /\ intact = FALSE
    /\ rewritten = {}
    /\ model = {} /\ outcome = "ok" /\ notices = {} /\ mounted = "no"

\* Between two processes: no model is loaded, and calibrate has come to its end.
Between == model = {} /\ phase \in {"idle", "fitted"}

\* save_checkpoint.  It writes the record, and after it the weights, where a
\* path was given for them: that raises, as no model has _named_parameters.
Save(cfg, weights) ==
    /\ Between
    /\ file' = Contents(CleanRoomTransformer(cfg))
    /\ saved' = {cfg} /\ intact' = TRUE /\ rewritten' = {}
    /\ outcome' = IF weights THEN "AttributeError" ELSE "ok"
    /\ notices' = {}
    /\ UNCHANGED <<calibrationVars, edits, model, mounted>>

\* It is killed in write_text: the path was opened and emptied first.
SaveKilled ==
    /\ Between
    /\ file' = Unreadable("torn") /\ intact' = FALSE /\ rewritten' = {} /\ notices' = {}
    /\ UNCHANGED <<calibrationVars, saved, edits, model, outcome, mounted>>

\* What an editor makes of a config: one value other, or one value gone.
EditsOf(cfg) ==
    (UNION {{[cfg EXCEPT ![f] = v] : v \in Alternatives[f]} : f \in DOMAIN cfg})
    \cup {[f \in DOMAIN cfg \ {g} |-> cfg[f]] : g \in DOMAIN cfg}

HashKeys == {"schema_hash", "weight_fingerprint"}

HashOf(key, cfg) == IF key = "schema_hash" THEN schema_hash(cfg)
                    ELSE weight_fingerprint(CleanRoomTransformer(cfg))

\* Configs an editor can compute the hashes of: one that models are saved of,
\* and what the config in the file has become.
Hashable == SavedConfigs \cup {cfg \in {ConfigOf(c) : c \in file.config} :
                                  Valid(cfg) /\ Buildable(cfg)}

\* An editor changes the config, or takes out a key of the record.
Edited ==
    (UNION {{[file EXCEPT !.config = {e}] : e \in EditsOf(cfg)} : cfg \in file.config})
    \cup {[file EXCEPT ![key] = {}] : key \in HashKeys \cup {"config"}}

\* Or it puts the hash of another config in the place of one, or where one was.
Rewrites(key) == \E cfg \in Hashable :
    /\ file' = [file EXCEPT ![key] = {HashOf(key, cfg)}]
    /\ rewritten' = rewritten \cup {key}

Edit ==
    /\ Between /\ edits < MaxEdits
    /\ phase # "idle" => edits < MaxFitEdits
    /\ file.kind = "json"
    /\ \/ file' \in Edited /\ rewritten' = rewritten
       \/ \E key \in HashKeys : Rewrites(key)
    /\ file' # file
    /\ edits' = edits + 1 /\ intact' = FALSE /\ notices' = {}
    /\ UNCHANGED <<calibrationVars, saved, model, outcome, mounted>>

-----------------------------------------------------------------------------
\* Mutant of Compared: a hash that is not there counts as confirmed.
Compared_lenient(hash, savedHash) ==
    IF savedHash \in {{}, {hash}} THEN "match" ELSE "mismatch"

\* What load_checkpoint says of a hash: nothing to compare it with, equal or not.
Compared(hash, savedHash) ==
    IF savedHash = {} THEN "absent" ELSE IF savedHash = {hash} THEN "match" ELSE "mismatch"

SchemaNotice(m) == <<"schema_hash", Compared(schema_hash(m.cfg), file.schema_hash)>>

FingerprintNotice(m) ==
    <<"weight_fingerprint", Compared(weight_fingerprint(m), file.weight_fingerprint)>>

\* ModelConfig refuses the config.
ConfigRaises == \E c \in file.config :
    /\ ~Valid(ConfigOf(c))
    /\ outcome' = IF ConfigOf(c).n_heads = 0 THEN "ZeroDivisionError" ELSE "ValueError"

\* CleanRoomTransformer raises over a config ModelConfig took, behind the notice
\* on the schema hash.
BuildRaises == \E c \in file.config :
    LET cfg == ConfigOf(c)
    IN  /\ Valid(cfg) /\ ~Buildable(cfg)
        /\ outcome' = IF cfg.seed >= 0 /\ cfg.max_seq_len >= 0 /\ cfg.d_ff = 0
                      THEN "ZeroDivisionError" ELSE "ValueError"
        /\ notices' = {SchemaNotice(CleanRoomTransformer(cfg))}

\* load_checkpoint raises before it has a model.
LoadRaises ==
    /\ Between
    /\ \/ /\ \/ file.kind = "absent" /\ outcome' = "FileNotFoundError"
             \/ file.kind = "torn" /\ outcome' = "JSONDecodeError"
             \/ file.kind = "json" /\ file.config = {} /\ outcome' = "KeyError"
             \/ ConfigRaises
          /\ notices' = {}
       \/ BuildRaises
    /\ UNCHANGED <<calibrationVars, fileVars, model, mounted>>

\* It derives the model from the config.  An archive of weights that is there
\* cannot be loaded, as no model has _load_parameters.
Load(archive) ==
    /\ Between
    /\ \E c \in file.config :
        LET cfg == ConfigOf(c)
            m == CleanRoomTransformer(cfg)
        IN  /\ Valid(cfg) /\ Buildable(cfg)
            /\ IF archive
               THEN /\ outcome' = "AttributeError" /\ model' = {}
                    /\ notices' = {SchemaNotice(m)}
               ELSE /\ outcome' = "ok" /\ model' = {m}
                    /\ notices' = {SchemaNotice(m), FingerprintNotice(m)}
    /\ UNCHANGED <<calibrationVars, fileVars, mounted>>

\* Code that has the model writes over a parameter of it.
Alter(p) == \E m \in model :
    /\ m.altered = {} /\ p \in Parameters(m.cfg)
    /\ phase = "fitted" /\ mounted = "no"
    /\ model' = {[m EXCEPT !.altered = {p}]}
    /\ UNCHANGED <<calibrationVars, fileVars, outcome, notices, mounted>>

-----------------------------------------------------------------------------
\* build_engine begins: default_corpus draws lengths from 4 to the shorter of
\* the context and 32, and raises when there is none; the first forward pass of a
\* model with a negative number of heads cannot split them and raises.
BuildEngine(m) == \E mod \in model :
    /\ edits <= MaxFitEdits
    /\ IF mod.cfg.max_seq_len > 4 /\ mod.cfg.n_heads > 0 THEN Calibrate(mod, m)
       ELSE /\ phase = "idle" /\ phase' = "refused"
            /\ UNCHANGED <<subject, margin, observed, pending, samples, profile, seen>>
    /\ UNCHANGED <<fileVars, model, outcome, notices, mounted>>

\* The process ends, and what it has fitted goes to another as a record.
Ship ==
    /\ phase = "fitted" /\ model # {}
    /\ profile' = from_record(as_record(profile))
    /\ model' = {} /\ notices' = {} /\ mounted' = "no"
    /\ UNCHANGED <<subject, phase, margin, observed, pending, samples, seen, fileVars,
                   outcome>>

\* The profile fits the config and, where their fingerprint is given, the weights.
Admits(m, guarded) ==
    /\ profile.schema_hash = schema_hash(m.cfg)
    /\ guarded => profile.weight_fingerprint = weight_fingerprint(m)

\* IntegrityMembrane(cfg, profile, weight_fingerprint).
Mount(guarded) == \E m \in model :
    /\ phase = "fitted" /\ mounted = "no"
    /\ mounted' = IF ~Admits(m, guarded) THEN "refused"
                  ELSE IF guarded THEN "guarded" ELSE "unguarded"
    /\ UNCHANGED <<calibrationVars, fileVars, model, outcome, notices>>

Next ==
    \/ \E cfg \in SavedConfigs, weights \in BOOLEAN : Save(cfg, weights)
    \/ SaveKilled \/ Edit
    \/ LoadRaises \/ \E archive \in BOOLEAN : Load(archive)
    \/ \E p \in UNION {Parameters(m.cfg) : m \in model} : Alter(p)
    \/ \E m \in Margins : BuildEngine(m)
    \/ Calibrates /\ UNCHANGED <<fileVars, model, outcome, notices, mounted>>
    \/ Ship
    \/ \E guarded \in BOOLEAN : Mount(guarded)

Spec == Init /\ [][Next]_vars

-----------------------------------------------------------------------------
\* What load_checkpoint passes in silence is what was saved, whatever an editor
\* did to the rest of the file: with the weight fingerprint confirmed, and not
\* replaced in the file since, the model has the parameters of the one saved,
\* number for number, and with the schema hash confirmed and not replaced it is
\* run in the same way (load_checkpoint.py:2, "verify the weight fingerprint").
\* A hash that was replaced together with the config vouches for nothing.
QuietLoadIsFaithful ==
    \A m \in model, cfg \in saved :
        LET original == CleanRoomTransformer(cfg)
            Vouched(key) == <<key, "match">> \in notices /\ key \notin rewritten
        IN
        /\ Vouched("weight_fingerprint") /\ m.altered = {} =>
              \A p \in Parameters(m.cfg) \cup Parameters(cfg) :
                 /\ p \in Parameters(m.cfg) \cap Parameters(cfg)
                 /\ fingerprint(m, p) = fingerprint(original, p)
        /\ Vouched("schema_hash") => m.cfg = cfg

\* A checkpoint nobody touched loads as the model that was saved and with both
\* hashes confirmed, whatever was saved, fitted or shipped before; nothing but an
\* archive of weights makes the script fail on it.
IntactRoundTrips ==
    intact =>
        /\ outcome \in {"ok", "AttributeError"}
        /\ \A m \in model, cfg \in saved :
              /\ m.cfg = cfg
              /\ notices = {<<"schema_hash", "match">>, <<"weight_fingerprint", "match">>}

\* A membrane that was given the fingerprint of its weights only ever checks a
\* model against the envelope of that very model, parameter for parameter, and
\* never refuses a model its own envelope, shipped or not
\* (interceptor.py:110-125).
MountedProfileIsOwn ==
    \A m \in model, s \in subject :
        /\ mounted = "guarded" => m = s
        /\ mounted = "refused" => m # s
        /\ mounted = "unguarded" => m.cfg = s.cfg
=============================================================================
