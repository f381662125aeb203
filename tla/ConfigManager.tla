--------------------------- MODULE ConfigManager ---------------------------
(***************************************************************************)
(* The infrastructure configurations of the interactive manager            *)
(* (client/config/config_manager.py): one JSON file for each, and a copy   *)
(* in the memory of every manager, which reads the directory only when it  *)
(* starts.  Several managers may run on one directory.                     *)
(*                                                                         *)
(* While its questions are asked a manager reads nothing but its own       *)
(* memory, so a dialogue is one step up to the moment the file is opened,  *)
(* which empties it, and the write is another.  A confirmation that is     *)
(* left unanswered (Ctrl-C) counts as a no, and None is a name like any    *)
(* other.  GPU timer and auto-detector are one switch, watched; region,    *)
(* budget and workers are one value, figures.                              *)
(***************************************************************************)
EXTENDS FiniteSets

CONSTANTS
    Managers,   \* programs that use the directory
    Names,      \* names of configurations
    CloudTypes, \* infrastructure types that have a provider and GPUs
    Clouds,     \* cloud providers
    GPUs,
    Figures,
    NoConfig,   \* a name that is not in a dictionary, or has no file
    TornConfig  \* a file that does not hold a whole configuration

Types     == CloudTypes \cup {"BARE_METAL"}
Providers == Clouds \cup {"LOCAL"}

Config == [type : Types, provider : Providers, gpus : SUBSET GPUs,
           watched : BOOLEAN, figures : Figures]

VARIABLES
    running,   \* managers that have loaded the directory
    configs,   \* configs of each manager
    configFiles, \* the files of config_dir
    saving,    \* what each manager has opened a file to write, if it has
    stale,     \* managers in whose time another one has written or deleted
    abandoned  \* names that an interrupted dialogue has changed in memory

configVars == <<running, configs, configFiles, saving, stale, abandoned>>

ConfigInit ==
    /\ running = {}
    /\ configs = [m \in Managers |-> [n \in Names |-> NoConfig]]
    /\ configFiles = [n \in Names |-> NoConfig]
    /\ saving = [m \in Managers |-> NoConfig]
    /\ stale = {}
    /\ abandoned = [m \in Managers |-> {}]

\* The values that are written for the members of an enumeration.
Value(member) == <<"value of", member>>

Serialize(c) ==
    [type |-> Value(c.type), provider |-> Value(c.provider), gpus |-> {Value(g) : g \in c.gpus},
     watched |-> c.watched, figures |-> c.figures]

\* What an open file is to hold: the configuration of a name, and whether the user was
\* asked before it was opened.
Writing == [name : Names, config : Config, asked : BOOLEAN]

ASSUME ConfigAssumption ==
    /\ NoConfig # TornConfig
    /\ {NoConfig, TornConfig} \cap (Config \cup {Serialize(c) : c \in Config} \cup Writing) = {}

\* Mutant: the list of GPUs is not read back.
DeserializeBare(d) ==
    [type |-> CHOOSE t \in Types : Value(t) = d.type,
     provider |-> CHOOSE p \in Providers : Value(p) = d.provider,
     gpus |-> {}, watched |-> d.watched, figures |-> d.figures]

\* An enumeration is looked up by value; the rest is taken as it is.
Deserialize(d) ==
    [type |-> CHOOSE t \in Types : Value(t) = d.type,
     provider |-> CHOOSE p \in Providers : Value(p) = d.provider,
     gpus |-> {g \in GPUs : Value(g) \in d.gpus},
     watched |-> d.watched, figures |-> d.figures]

\* What a manager that reads file f knows; one that cannot be read is skipped.
Loaded(f) == IF f \in {NoConfig, TornConfig} THEN NoConfig ELSE Deserialize(f)

\* __init__ and load_all_configs.
LoadAll(m) ==
    /\ m \notin running
    /\ running' = running \cup {m}
    /\ configs' = [configs EXCEPT ![m] = [n \in Names |-> Loaded(configFiles[n])]]
    /\ UNCHANGED <<configFiles, saving, stale, abandoned>>

Ready(m) == m \in running /\ saving[m] = NoConfig

\* save_config begins: opening the file empties it.
Open(m, n, c, asked) ==
    /\ saving' = [saving EXCEPT ![m] = [name |-> n, config |-> c, asked |-> asked]]
    /\ configFiles' = [configFiles EXCEPT ![n] = TornConfig]
    /\ stale' = stale \cup (running \ {m})
    /\ UNCHANGED running

\* What the questions can lead to: bare metal is local, and has no GPUs.
Offered == {c \in Config : IF c.type = "BARE_METAL" THEN c.provider = "LOCAL" /\ c.gpus = {}
                                                   ELSE c.provider \in Clouds}

\* Mutant: nobody is asked.
CreateAnyway(m, n) ==
    /\ Ready(m)
    /\ \E c \in Offered : Open(m, n, c, FALSE)
    /\ UNCHANGED <<configs, abandoned>>

\* interactive_create.  A question that raises, or a no to overwriting, changes nothing.
Create(m, n) ==
    /\ Ready(m)
    /\ \E c \in Offered : Open(m, n, c, configs[m][n] # NoConfig)
    /\ UNCHANGED <<configs, abandoned>>

\* The end of save_config.  A file that was deleted after it was opened stays deleted, and
\* of two writers of one file the second may leave a part of what the first wrote.
FinishSave(m) ==
    /\ saving[m] # NoConfig
    /\ LET n == saving[m].name
           c == saving[m].config
       IN  /\ configFiles' \in {[configFiles EXCEPT ![n] = f] :
                    f \in CASE configFiles[n] = NoConfig   -> {NoConfig}
                           [] configFiles[n] = TornConfig -> {Serialize(c)}
                           [] OTHER                 -> {Serialize(c), TornConfig}}
           /\ configs' = [configs EXCEPT ![m][n] = c]
           /\ abandoned' = [abandoned EXCEPT ![m] = @ \ {n}]
    /\ saving' = [saving EXCEPT ![m] = NoConfig]
    /\ stale' = stale \cup (running \ {m})
    /\ UNCHANGED running

\* interactive_modify changes the manager's copy first and saves it then; without a
\* choice it saves it as it is.  A later question about a timer or detector that was
\* switched on may raise, which leaves the change in memory only.
Modify(m, n) ==
    /\ Ready(m) /\ configs[m][n] # NoConfig
    /\ LET c == configs[m][n]
       IN  \E new \in {[c EXCEPT !.watched = w] : w \in BOOLEAN} \cup {[c EXCEPT !.figures = f] : f \in Figures} :
               /\ configs' = [configs EXCEPT ![m][n] = new]
               /\ \/ Open(m, n, new, TRUE) /\ UNCHANGED abandoned
                  \/ /\ new = [c EXCEPT !.watched = TRUE]
                     /\ abandoned' = [abandoned EXCEPT ![m] = @ \cup {n}]
                     /\ UNCHANGED <<running, configFiles, saving, stale>>

\* delete_config: without a file the name stays in memory.
Delete(m, n) ==
    /\ Ready(m) /\ configFiles[n] # NoConfig
    /\ configFiles' = [configFiles EXCEPT ![n] = NoConfig]
    /\ configs' = [configs EXCEPT ![m][n] = NoConfig]
    /\ stale' = stale \cup (running \ {m})
    /\ UNCHANGED <<running, saving, abandoned>>

\* The program ends, or is killed in the middle of a write.
Quit(m) ==
    /\ m \in running
    /\ running' = running \ {m}
    /\ configs' = [configs EXCEPT ![m] = [n \in Names |-> NoConfig]]
    /\ saving' = [saving EXCEPT ![m] = NoConfig]
    /\ stale' = stale \ {m}
    /\ abandoned' = [abandoned EXCEPT ![m] = {}]
    /\ UNCHANGED configFiles

ConfigNext ==
    \E m \in Managers :
        \/ LoadAll(m) \/ FinishSave(m) \/ Quit(m)
        \/ \E n \in Names : Create(m, n) \/ Modify(m, n) \/ Delete(m, n)

ConfigSpec == ConfigInit /\ [][ConfigNext]_configVars

-----------------------------------------------------------------------------
(* Properties                                                              *)

Whole(f) == f \notin {NoConfig, TornConfig}

\* Every variable has its type; who writes a file is running, and what is written was
\* offered.
ConfigTypeOK ==
    /\ running \subseteq Managers /\ stale \subseteq running
    /\ configs \in [Managers -> [Names -> Offered \cup {NoConfig}]]
    /\ configFiles \in [Names -> {Serialize(c) : c \in Offered} \cup {NoConfig, TornConfig}]
    /\ saving \in [Managers -> Writing \cup {NoConfig}]
    /\ \A m \in Managers : saving[m] # NoConfig => m \in running /\ saving[m].config \in Offered
    /\ abandoned \in [Managers -> SUBSET Names]

\* While nobody else writes, what a manager has in memory is what another one would load:
\* save_config, delete_config and the conversions keep the two in step, also after a
\* program was killed in the middle of a write.  The exception is a configuration that an
\* interrupted interactive_modify has changed.
MemoryIsDisk ==
    \A m \in running \ stale, n \in Names :
        saving[m] = NoConfig /\ n \notin abandoned[m] => configs[m][n] = Loaded(configFiles[n])

\* While nobody else writes, a whole configuration is overwritten only after a yes to the
\* question, or by a modification of it.
OverwriteAsked ==
    [][\A m \in running \ stale, n \in Names :
         /\ saving[m] = NoConfig /\ saving'[m] # NoConfig /\ saving'[m].name = n
         /\ Whole(configFiles[n])
         => saving'[m].asked]_configVars
=============================================================================
