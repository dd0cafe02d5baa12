------------------------------ MODULE LocalInputs ------------------------------
(***************************************************************************)
(* LoadLocalInputs of sdk/local_inputs.go: where a source-native run takes *)
(* its config, its action invocation and its credentials from.  A text is  *)
(* blank, one of the JSON objects the SDK accepts, or something it         *)
(* refuses; a credential key folds to the field that FieldOf gives.        *)
(***************************************************************************)
EXTENDS Integers, FiniteSets, Sequences, Maps

CONSTANTS
  Objects,    \* the texts that are one JSON object within MaxPayloadBytes
  FieldOf,    \* the lower-case field of each key with the credential prefix
  Scenarios   \* bound: the inputs TLC starts from

Blank == ""
Missing == "missing"     \* a file that is not there
Nothing == "nothing"     \* no payload: nil
ConfigJSON == "CONFIG_JSON"
ConfigFile == "CONFIG_FILE"
ActionJSON == "ACTION_JSON"
ActionFile == "ACTION_FILE"
EnvFileKey == "ENV_FILE"
DefaultEnvFile == ".env"
NoAssignments == << >>

ASSUME ScenariosAssumption == \A scenario \in Scenarios : scenario.runtimeLength \in Nat

VARIABLES
  given,        \* options, process environment, env files and files, and a length
  stage,        \* environment, config, action, credentials, loaded or refused
  merged,       \* mergedEnv
  config,       \* LocalInputs.configJSON
  action,       \* LocalInputs.actionJSON
  unread,       \* keys of mergedEnv the loop has not come to
  credentials   \* LocalInputs.credentials

inputVars == <<given, stage, merged, config, action, unread, credentials>>

InputsInit ==
  /\ given \in Scenarios
  /\ stage = "environment" /\ merged = NoAssignments
  /\ config = Nothing /\ action = Nothing
  /\ unread = {} /\ credentials = NoAssignments

\* A variable that is not set reads as the empty string.
Lookup(env, key) == IF key \in DOMAIN env THEN env[key] ELSE Blank

\* The env file, and whether somebody asked for it: only the option and the process
\* environment can.
EnvFile ==
  LET named == Lookup(given.process, EnvFileKey) IN
  IF given.options.envFile # Blank THEN [name |-> given.options.envFile, asked |-> TRUE]
  ELSE IF named # Blank THEN [name |-> named, asked |-> TRUE]
  ELSE [name |-> DefaultEnvFile, asked |-> FALSE]

Refuse == stage' = "refused" /\ UNCHANGED <<given, merged, config, action, unread, credentials>>

\* The environment: the env file, which may be missing unless it was asked for, under
\* the process environment.
LoadEnvironment ==
  /\ stage = "environment"
  /\ LET file == given.envFiles[EnvFile.name] IN
     \/ /\ file.kind = "malformed" \/ (file.kind = "missing" /\ EnvFile.asked)
        /\ Refuse
     \/ /\ file.kind = "readable" \/ (file.kind = "missing" /\ ~EnvFile.asked)
        /\ merged' = Overlay(file.assigned, given.process)
        /\ stage' = "config"
        /\ UNCHANGED <<given, config, action, unread, credentials>>

\* Mutant of Sources: a named file that is blank leaves the choice to the environment.
SourcesFallThrough(json, file, env, jsonKey, fileKey) ==
  << [used |-> json # Blank, text |-> json],
     [used |-> file # Blank /\ given.files[file] # Blank, text |-> given.files[file]],
     [used |-> Lookup(env, jsonKey) # Blank, text |-> Lookup(env, jsonKey)],
     [used |-> TRUE, text |-> given.files[Lookup(env, fileKey)]] >>

\* The sources resolveLocalJSON looks at, in its order: an explicit text, an explicit
\* file whatever is in it, and after those the environment's text and file.  The file
\* of no name holds no payload.
Sources(json, file, env, jsonKey, fileKey) ==
  << [used |-> json # Blank, text |-> json],
     [used |-> file # Blank, text |-> given.files[file]],
     [used |-> Lookup(env, jsonKey) # Blank, text |-> Lookup(env, jsonKey)],
     [used |-> TRUE, text |-> given.files[Lookup(env, fileKey)]] >>

FirstUsed(sources) ==
  sources[CHOOSE i \in DOMAIN sources :
            sources[i].used /\ \A j \in 1..(i - 1) : ~sources[j].used].text

ConfigText ==
  FirstUsed(Sources(given.options.configJSON, given.options.configFile, merged, ConfigJSON, ConfigFile))

ActionText ==
  FirstUsed(Sources(given.options.actionJSON, given.options.actionFile, merged, ActionJSON, ActionFile))

\* The config is required.
ResolveConfig ==
  /\ stage = "config"
  /\ \/ /\ ConfigText \notin Objects
        /\ Refuse
     \/ /\ ConfigText \in Objects
        /\ config' = ConfigText /\ stage' = "action"
        /\ UNCHANGED <<given, merged, action, unread, credentials>>

\* The action invocation is not.
ResolveAction ==
  /\ stage = "action"
  /\ \/ /\ ActionText \notin Objects \cup {Blank}
        /\ Refuse
     \/ /\ ActionText \in Objects \cup {Blank}
        /\ action' = IF ActionText = Blank THEN Nothing ELSE ActionText
        /\ unread' = DOMAIN merged /\ stage' = "credentials"
        /\ UNCHANGED <<given, merged, config, credentials>>

\* Mutant of ReadKey: the field is the key as it is spelled.
ReadKeyVerbatim(key) ==
  /\ stage = "credentials" /\ key \in unread
  /\ unread' = unread \ {key}
  /\ credentials' = IF key \in DOMAIN FieldOf THEN Overlay(credentials, Entry(key, merged[key]))
                    ELSE credentials
  /\ UNCHANGED <<given, stage, merged, config, action>>

\* One key of the loop over mergedEnv, which ranges over the map in no order: keys
\* without the prefix, and those with nothing after it, are skipped.
ReadKey(key) ==
  /\ stage = "credentials" /\ key \in unread
  /\ unread' = unread \ {key}
  /\ credentials' = IF key \in DOMAIN FieldOf /\ FieldOf[key] # Blank
                    THEN Overlay(credentials, Entry(FieldOf[key], merged[key]))
                    ELSE credentials
  /\ UNCHANGED <<given, stage, merged, config, action>>

FinishLoading ==
  /\ stage = "credentials" /\ unread = {}
  /\ stage' = "loaded"
  /\ UNCHANGED <<given, merged, config, action, unread, credentials>>

InputsNext ==
  \/ LoadEnvironment
  \/ ResolveConfig
  \/ ResolveAction
  \/ \E key \in unread : ReadKey(key)
  \/ FinishLoading

\* RuntimeConfigJSON, once the inputs are loaded: the config object, with the invocation under action_invocation.
RuntimeConfig == [public |-> config, invocation |-> action]

-----------------------------------------------------------------------------
\* The types of the variables (sdk/local_inputs.go:40-44, 92).
InputsTypeOK ==
  /\ stage \in {"environment", "config", "action", "credentials", "loaded", "refused"}
  /\ config \in Objects \cup {Nothing} /\ action \in Objects \cup {Nothing}
  /\ unread \subseteq DOMAIN merged
  /\ \A field \in DOMAIN credentials :
       \E key \in DOMAIN FieldOf \cap DOMAIN merged :
         FieldOf[key] = field /\ credentials[field] = merged[key]

\* An explicit option decides by itself: the config that is loaded is the text or the
\* file the caller named, never one the environment names, and without either the text
\* in the process environment decides before all the environment's other sources
\* (sdk/local_inputs.go:27, 182-209).
ExplicitInputsShutOut ==
  LET options == given.options
      processText == Lookup(given.process, ConfigJSON)
  IN
  stage = "loaded" =>
    /\ options.configJSON # Blank => config = options.configJSON
    /\ options.configJSON = Blank /\ options.configFile # Blank =>
         config = given.files[options.configFile]
    /\ options.configJSON = Blank /\ options.configFile = Blank /\ processText # Blank =>
         config = processText
    /\ options.actionJSON = Blank /\ options.actionFile # Blank =>
         action \in {Nothing, given.files[options.actionFile]}

\* README.md:521-522: process environment values override .env values.  A credential
\* that the process environment sets has the value the process environment gives it.
ProcessCredentialsWin ==
  stage = "loaded" =>
    \A field \in DOMAIN credentials :
      LET set == {key \in DOMAIN given.process \cap DOMAIN FieldOf : FieldOf[key] = field} IN
      set # {} => credentials[field] \in {given.process[key] : key \in set}
=============================================================================
