------------------------------ MODULE Settings ------------------------------
(***************************************************************************)
(* Where the settings of the model client come from (core/config.py,       *)
(* llm/config.py, llm/gateway.py, llm/chat_model.py): the environment,     *)
(* then the .env file of the working directory, then the one at home, then *)
(* the project's cta.toml, then the code.  A process that goes through     *)
(* several projects (an evaluation) reads the files again for each, and    *)
(* the environment it has filled stays.                                    *)
(*                                                                         *)
(* A value is Absent, blank (""), or a word; a timeout is a number, or a   *)
(* word that is no number.                                                 *)
(***************************************************************************)
EXTENDS Integers, Sequences

CONSTANTS
    Keys,      \* "model", "timeout", "effort", "url"
    Absent,
    Sources,   \* [env, cwd, home]: each Key -> value, or Absent
    Projects,  \* the projects in turn: [toml, engine, override]
    Seconds,   \* what int() makes of the words that are numbers
    Reasoning  \* models that take a reasoning effort

Word == STRING \cup {Absent}

\* A project as it is called: its cta.toml, the engine, the model asked for.
Project ==
    [toml : [model : Word, timeout : {Absent} \cup DOMAIN Seconds, effort : Word, retry : Int],
     engine : {"legacy", "deep"}, override : Word]

ASSUME SettingsAssumption ==
    /\ {"model", "timeout", "effort", "url"} \subseteq Keys
    /\ Absent # "" /\ {Absent, ""} \cap DOMAIN Seconds = {}
    /\ "300" \in DOMAIN Seconds /\ Seconds["300"] = 300
    /\ Projects \subseteq Seq(Project)

VARIABLES
    places,    \* the environment at the start and the two .env files
    env,       \* os.environ
    coming,    \* projects still to come
    client,    \* [project, model, timeout, effort] of the client made last
    failed     \* how making it failed: "", "config", "gateway" or "value"

settingVars == <<places, env, coming, client, failed>>

NoClient == [project |-> <<>>, model |-> "", timeout |-> 0, effort |-> ""]

SettingsInit ==
    /\ places \in Sources /\ coming \in Projects
    /\ env = places.env /\ client = NoClient /\ failed = ""

SettingsOff ==
    /\ places = <<>> /\ coming = <<>> /\ env = <<>> /\ client = NoClient /\ failed = ""

-----------------------------------------------------------------------------
\* strip() or "": what counts as given.
Given(value) == value \notin {Absent, ""}

\* The first given value: environment, cta.toml, code.
FirstOf(fromEnv, fromToml, default) ==
    IF Given(fromEnv) THEN fromEnv ELSE IF Given(fromToml) THEN fromToml ELSE default

\* A cta.toml with a retry limit below 1 or an unknown effort is a ValueError.
LoadConfigFails(toml) ==
    \/ toml.retry < 1
    \/ toml.effort \notin {Absent, "minimal", "low", "medium", "high", "none"}

\* setdefault: a key that is there keeps its value, blank or not.
Filled(e) ==
    [k \in Keys |-> IF e[k] # Absent THEN e[k]
                    ELSE IF places.cwd[k] # Absent THEN places.cwd[k]
                    ELSE places.home[k]]

\* Mutant: the project's values are put into the environment as well.
FilledAndKept(e) ==
    LET f == Filled(e) IN
    [k \in Keys |-> IF f[k] = Absent /\ k \in DOMAIN Head(coming).toml
                    THEN Head(coming).toml[k] ELSE f[k]]

LoadDotenv(e) == Filled(e)

\* The effort is sent to a reasoning model unless it is "none".
Sent(effort, model) == IF effort = "none" \/ model \notin Reasoning THEN "" ELSE effort

IsNumber(value) == value \in DOMAIN Seconds
Number(value) == Seconds[value]

\* GatewayClient: a timeout that is no number is 300, one that is not given is
\* that of cta.toml if there is one, 0 included.
LegacyTimeout(e, p) ==
    IF Given(e["timeout"])
    THEN IF IsNumber(e["timeout"]) THEN Number(e["timeout"]) ELSE 300
    ELSE IF p.toml.timeout # Absent THEN Number(p.toml.timeout) ELSE 300

\* make_llm_client
LegacyClient(e, p) ==
    LET model == FirstOf(e["model"], p.toml.model, "gpt-4.1")
    IN  [project |-> p,
         model   |-> IF Given(p.override) THEN p.override ELSE model,
         timeout |-> LegacyTimeout(e, p),
         effort  |-> Sent(FirstOf(e["effort"], p.toml.effort, "low"),
                          IF Given(p.override) THEN p.override ELSE model)]

\* make_chat_model: 0 in cta.toml is not given.
DeepTimeout(e, p) ==
    IF Given(e["timeout"]) THEN e["timeout"]
    ELSE IF p.toml.timeout \notin {Absent, "0"} THEN p.toml.timeout ELSE "300"

DeepClient(e, p) ==
    LET model == FirstOf(p.override, FirstOf(e["model"], p.toml.model, ""), "gpt-4.1")
    IN  [project |-> p, model |-> model, timeout |-> Number(DeepTimeout(e, p)),
         effort |-> Sent(FirstOf(e["effort"], p.toml.effort, "low"), model)]

\* The next project: its cta.toml is read, the environment filled, the client
\* made; without an address, or with a timeout int() refuses, it is not.
NextProject ==
    /\ coming # <<>>
    /\ LET p == Head(coming)
           e == LoadDotenv(env)
           bad == IF LoadConfigFails(p.toml) THEN "config"
                  ELSE IF ~Given(e["url"]) THEN "gateway"
                  ELSE IF p.engine = "deep" /\ ~IsNumber(DeepTimeout(e, p)) THEN "value"
                  ELSE ""
       IN  /\ failed' = bad
           /\ env' = IF bad = "config" THEN env ELSE e
           /\ client' = IF bad # "" THEN NoClient
                        ELSE IF p.engine = "deep" THEN DeepClient(e, p) ELSE LegacyClient(e, p)
    /\ coming' = Tail(coming)
    /\ UNCHANGED places

SettingsSpec == SettingsInit /\ [][NextProject]_settingVars

-----------------------------------------------------------------------------
\* What a project's client is made of does not depend on the projects before:
\* only on the environment the process was started with, the two .env files,
\* the command line and its own cta.toml; the two engines read the same.
ProjectsDoNotMix ==
    client # NoClient =>
        LET p == client.project
            Outside(k) == IF places.env[k] # Absent THEN places.env[k]
                          ELSE IF places.cwd[k] # Absent THEN places.cwd[k] ELSE places.home[k]
            Wanted(k, default) ==
                IF Given(Outside(k)) THEN Outside(k)
                ELSE IF Given(p.toml[k]) THEN p.toml[k] ELSE default
        IN  /\ client.model = IF Given(p.override) THEN p.override
                              ELSE Wanted("model", "gpt-4.1")
            /\ IsNumber(Wanted("timeout", "300")) /\ p.toml.timeout # "0" =>
                  client.timeout = Number(Wanted("timeout", "300"))
            /\ client.effort = Sent(Wanted("effort", "low"), client.model)
=============================================================================
