---------------------------- MODULE ClientConfig ----------------------------
(***************************************************************************)
(* The settings of the client (client/config.py) and the commands that     *)
(* change them (cpip config).  A command loads config.toml and the         *)
(* environment, changes a setting in memory and saves all of them; the     *)
(* user may also edit the file.  Commands can overlap or be killed.        *)
(*                                                                         *)
(* cpip login keeps the account's tokens in a file of their own, which a   *)
(* command loads too.                                                      *)
(*                                                                         *)
(* The file does not give back everything that is put into it.  A value    *)
(* that is no bool, int or string, such as a float the user wrote, is      *)
(* loaded and left out when the settings are saved; a string is written    *)
(* between quotes as it is, and a file with a quote in a string, or with a *)
(* backslash that begins no escape, cannot be read and counts as empty.    *)
(*                                                                         *)
(* Three settings stand for all: api_url (and ws_url, offline_mode), which *)
(* the environment overrides; timeout, like most others saved and loaded;  *)
(* auto_cleanup, which is saved and never loaded.  max_retries,            *)
(* metadata_ttl_hours, auto_sync and import_hooks are neither.  0 is the   *)
(* default of each, and what the environment says is 2 or Quoted.  Of the  *)
(* account there is the token, 0 for none; the other fields are read and   *)
(* written with it (as JSON, which escapes them).                          *)
(***************************************************************************)
EXTENDS Integers, Functions

CONSTANTS Commands  \* commands that may run at a time

Saved     == {"api_url", "timeout", "auto_cleanup"}
Loadable  == Saved \ {"auto_cleanup"}
FromEnv   == {"api_url"}
ByCommand == {"api_url"}

Odd    == 3   \* a value that is no bool, int or string
Quoted == 4   \* a string that has to be escaped
Raw    == 5   \* such a string in the file, not escaped
Values == {0, 1, 2, Odd, Quoted}

\* What a user may give a setting: an address is a string, a timeout a number.
UserValues == [api_url |-> {0, 1, Quoted}, timeout |-> {0, 1, Odd}, auto_cleanup |-> {0, 1}]

\* The variables that the environment of a command may set.
Environments == UNION {[V -> {2, Quoted}] : V \in SUBSET FromEnv}
NoSettings   == [s \in {} |-> 0]

VARIABLES
    auth,    \* the auth file: 0 if it is missing or just emptied
    toml,    \* config.toml: the settings in it; none if it is missing or just emptied
    doing,   \* what each command does
    env,     \* the variables its environment sets
    config,  \* the settings it has loaded
    chosen,  \* what the user chose last, of what is kept at all
    standing \* choices that no overlap, kill, environment or save has put in question

settingVars == <<auth, toml, doing, env, config, chosen, standing>>

Settings == Saved \cup {"token"}
Lasting  == Loadable \cup {"token"}
Defaults == [s \in Settings |-> 0]

SettingsInit ==
    /\ auth = 0
    /\ toml = NoSettings
    /\ doing = [c \in Commands |-> "nothing"]
    /\ env = [c \in Commands |-> NoSettings]
    /\ config = [c \in Commands |-> Defaults]
    /\ chosen = [s \in Lasting |-> 0]
    /\ standing = Lasting

\* _load_toml: what of a file is loaded, nothing at all if there is a string in it that
\* was not escaped.
Loads(file) == IF Raw \in Range(file) THEN {} ELSE Loadable \cap DOMAIN file

\* Mutant: with variables in the environment the file is not read.
EffectiveFileSkipped(file, vars) ==
    [s \in Saved |-> IF s \in DOMAIN vars THEN vars[s]
                     ELSE IF s \in Loads(file) /\ DOMAIN vars = {} THEN file[s] ELSE 0]

\* load_config: defaults, then the file, then the environment.
Effective(file, vars) ==
    [s \in Saved |-> IF s \in DOMAIN vars THEN vars[s]
                     ELSE IF s \in Loads(file) THEN file[s] ELSE 0]

\* The account is loaded last.
LoadedSettings(vars) ==
    [s \in Settings |-> IF s = "token" THEN auth ELSE Effective(toml, vars)[s]]

Quiet          == \A c \in Commands : doing[c] = "nothing"
OnlyCommand(c) == \A d \in Commands \ {c} : doing[d] = "nothing"

LoadConfig(c, vars) ==
    /\ doing[c] = "nothing"
    /\ doing' = [doing EXCEPT ![c] = "loaded"]
    /\ env' = [env EXCEPT ![c] = vars]
    /\ config' = [config EXCEPT ![c] = LoadedSettings(vars)]
    /\ standing' = IF Quiet THEN standing ELSE {}
    /\ UNCHANGED <<auth, toml, chosen>>

\* save_config begins: opening the file empties it.
BeginSave(c) ==
    /\ toml' = NoSettings
    /\ doing' = [doing EXCEPT ![c] = "saving"]

\* cpip config --init
InitConfig(c) ==
    /\ doing[c] = "loaded"
    /\ BeginSave(c)
    /\ standing' = standing \ DOMAIN env[c]
    /\ UNCHANGED <<auth, env, config, chosen>>

\* cpip config --api-url and --offline: the whole configuration is saved, also what came
\* from the environment.
SetConfig(c, s, v) ==
    /\ doing[c] = "loaded"
    /\ config' = [config EXCEPT ![c][s] = v]
    /\ chosen' = [chosen EXCEPT ![s] = v]
    /\ standing' = (standing \ DOMAIN env[c]) \cup (IF OnlyCommand(c) THEN {s} ELSE {})
    /\ BeginSave(c)
    /\ UNCHANGED <<auth, env>>

\* _save_toml: the file that settings are written to.
Written(settings) ==
    [s \in {s \in Saved : settings[s] # Odd} |-> IF settings[s] = Quoted THEN Raw ELSE settings[s]]

\* The settings that are lost when these are saved.
Unsaved(settings) ==
    IF \E s \in Saved : settings[s] = Quoted THEN Saved ELSE {s \in Saved : settings[s] = Odd}

\* Mutant: the setting that is not loaded is not saved.
WriteSomeConfig(c) ==
    /\ doing[c] = "saving"
    /\ toml' = [s \in Loadable \cap DOMAIN Written(config[c]) |-> Written(config[c])[s]]
    /\ doing' = [doing EXCEPT ![c] = "loaded"]
    /\ standing' = standing \ Unsaved(config[c])
    /\ UNCHANGED <<auth, env, config, chosen>>

\* The file is written; a command with both options goes on with the other one.
WriteConfig(c) ==
    /\ doing[c] = "saving"
    /\ toml' = Written(config[c])
    /\ doing' = [doing EXCEPT ![c] = "loaded"]
    /\ standing' = standing \ Unsaved(config[c])
    /\ UNCHANGED <<auth, env, config, chosen>>

\* cpip login, which uses nothing of what it loads but the address: the cloud answers the
\* key with an account, or a device registers itself; save_auth begins by emptying the file.
Login(c, token) ==
    /\ doing[c] = "nothing"
    /\ config' = [config EXCEPT ![c]["token"] = token]
    /\ chosen' = [chosen EXCEPT !["token"] = token]
    /\ standing' = IF Quiet THEN standing \cup {"token"} ELSE {}
    /\ auth' = 0
    /\ doing' = [doing EXCEPT ![c] = "signing"]
    /\ UNCHANGED <<toml, env>>

\* The process ends, and its memory goes.
Leave(c) ==
    /\ doing' = [doing EXCEPT ![c] = "nothing"]
    /\ env' = [env EXCEPT ![c] = NoSettings]
    /\ config' = [config EXCEPT ![c] = Defaults]

\* With this the command is done.
WriteAuth(c) ==
    /\ doing[c] = "signing"
    /\ auth' = config[c]["token"]
    /\ Leave(c)
    /\ UNCHANGED <<toml, chosen, standing>>

EndCommand(c) ==
    /\ doing[c] = "loaded"
    /\ Leave(c)
    /\ UNCHANGED <<auth, toml, chosen, standing>>

Kill(c) ==
    /\ doing[c] \in {"saving", "signing"}
    /\ Leave(c)
    /\ standing' = standing \ (IF doing[c] = "saving" THEN Saved ELSE {"token"})
    /\ UNCHANGED <<auth, toml, chosen>>

\* The user edits a file that the client has written, as TOML asks for; of a file that
\* cannot be read this may be the repair.
EditConfig(s, v) ==
    /\ Quiet /\ DOMAIN toml # {}
    /\ toml' = [t \in DOMAIN toml \cup {s} |-> IF t = s THEN v ELSE toml[t]]
    /\ chosen' = IF s \in Lasting THEN [chosen EXCEPT ![s] = v] ELSE chosen
    /\ standing' = standing \cup ({s} \cap Loads(toml'))
    /\ UNCHANGED <<auth, doing, env, config>>

SettingsNext ==
    \/ \E c \in Commands :
          \/ \E vars \in Environments : LoadConfig(c, vars)
          \/ \E s \in ByCommand : \E v \in UserValues[s] : SetConfig(c, s, v)
          \/ \E token \in 1..2 : Login(c, token)
          \/ InitConfig(c) \/ WriteConfig(c) \/ WriteAuth(c) \/ EndCommand(c) \/ Kill(c)
    \/ \E s \in Saved : \E v \in UserValues[s] : EditConfig(s, v)

SettingsSpec == SettingsInit /\ [][SettingsNext]_settingVars

-----------------------------------------------------------------------------
(* Properties                                                              *)

\* Every variable has its type; the setting that is never loaded has its default in memory,
\* and is in every file that has been written.
SettingsTypeOK ==
    /\ auth \in Values
    /\ \E S \in SUBSET Saved : /\ toml \in [S -> Values \cup {Raw}]
                               /\ S # {} => Saved \ Loadable \subseteq S
    /\ doing \in [Commands -> {"nothing", "loaded", "saving", "signing"}]
    /\ env \in [Commands -> Environments]
    /\ config \in [Commands -> [Settings -> Values]]
    /\ \A c \in Commands, s \in Settings \ Lasting : config[c][s] = 0
    /\ chosen \in [Lasting -> Values]
    /\ standing \subseteq Lasting

\* A setting that is both saved and loaded, and the account of the last login, keep the
\* value the user gave them last, whatever else commands save afterwards, unless commands
\* overlapped, one was killed while it wrote that file, one saved while the environment
\* set a variable for it, or one saved what the file does not give back: of a value that
\* is no bool, int or string this loses the setting, of a string that has to be escaped it
\* loses all of them.
SettingsKept ==
    Quiet => \A s \in standing : LoadedSettings(NoSettings)[s] = chosen[s]
=============================================================================
