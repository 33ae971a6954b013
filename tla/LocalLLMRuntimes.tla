-------------------------- MODULE LocalLLMRuntimes --------------------------
(***************************************************************************)
(* The host's inference runtimes (internal/domain/llm/ollama.go,           *)
(* server.go, server_build.go): the shared Ollama service with its         *)
(* per-model context settings, and the llama-server unit with its pinned   *)
(* manifest, artifact and binary.  No lock covers a call; configuration    *)
(* files are read at its beginning and written whole.  A context size, a   *)
(* source revision and an artifact stand for themselves; sizes, prompts    *)
(* and unit text are left out.                                             *)
(***************************************************************************)
EXTENDS ToolCalls

CONSTANTS LlmModels, ContextSizes, Revisions, LlmCallers, NoModel

VARIABLES
  ollamaFile,   \* ollama-runtime.json: default model and context of each model
  ollamaUnit,   \* the generated unit: absent, enabled, disabled
  ollamaApi,    \* who serves the API: none, unit, external
  ollamaModels, \* models pulled, and the context of their managed definition
  llamaFile,    \* llama-server.json: model and binary revision
  llamaUnit,    \* the unit file: its model, and whether it is enabled
  llamaServes,  \* the model the llama-server process has, if it runs
  artifact,     \* the GGUF file of a model: absent, good, bad
  binary,       \* revision of the llama-server executable
  portOwner,    \* other listener on the llama-server port: none, stale, foreign
  llmCall,      \* calls in progress
  overlapped    \* two starts of llama-server ran at once (not kept by the code)

ollamaState == <<ollamaFile, ollamaUnit, ollamaApi, ollamaModels>>
llamaState == <<llamaFile, llamaUnit, llamaServes, artifact, binary, portOwner, overlapped>>
llmVars == <<ollamaState, llamaState, llmCall>>

NoCall == [pc |-> "none", op |-> "none", model |-> NoModel, size |-> 0, rev |-> NoModel, file |-> NoModel]
NoContexts == [default |-> NoModel, context |-> [m \in LlmModels |-> 0]]

OllamaFiles == [default : LlmModels \cup {NoModel}, context : [LlmModels -> ContextSizes \cup {0}]]
LlmRows ==
  [pc : {"none", "save", "ensure", "retire", "unit", "wait", "pull", "probe", "create", "build", "binary",
         "artifact", "validate", "unload", "manifest", "port", "start", "ready"},
   op : {"none", "ollama", "context", "build", "llama"}, model : LlmModels \cup {NoModel},
   size : ContextSizes \cup {0}, rev : Revisions \cup {NoModel}, file : OllamaFiles \cup {NoModel}]

LlmTypeOK ==
  /\ ollamaFile \in OllamaFiles
  /\ ollamaUnit \in {"absent", "enabled", "disabled"} /\ ollamaApi \in {"none", "unit", "external"}
  /\ ollamaModels \in [LlmModels -> [pulled : BOOLEAN, context : ContextSizes \cup {0}]]
  /\ llamaFile \in [model : LlmModels \cup {NoModel}, rev : Revisions \cup {NoModel}]
  /\ llamaUnit \in [model : LlmModels \cup {NoModel}, enabled : BOOLEAN]
  /\ llamaServes \in LlmModels \cup {NoModel}
  /\ artifact \in [LlmModels -> {"absent", "good", "bad"}] /\ binary \in Revisions \cup {NoModel}
  /\ portOwner \in {"none", "stale", "foreign"} /\ overlapped \in BOOLEAN
  /\ llmCall \in [LlmCallers -> LlmRows]
  /\ \A c \in LlmCallers : /\ llmCall[c].op \in {"llama", "context"} => llmCall[c].model \in LlmModels
                           /\ llmCall[c].op = "context" \/ llmCall[c].pc = "save" => llmCall[c].file \in OllamaFiles

OllamaInit ==
  /\ ollamaFile = NoContexts
  \* none yet, or one left enabled by an earlier install while another owner serves
  /\ \E p \in {<<"absent", "none">>, <<"enabled", "external">>, <<"enabled", "unit">>} :
       ollamaUnit = p[1] /\ ollamaApi = p[2]
  /\ ollamaModels = [m \in LlmModels |-> [pulled |-> FALSE, context |-> 0]]
LlamaInit ==
  /\ llamaFile = [model |-> NoModel, rev |-> NoModel]
  /\ llamaUnit = [model |-> NoModel, enabled |-> FALSE] /\ llamaServes = NoModel
  /\ artifact \in [LlmModels -> {"absent", "bad"}]
  /\ binary = NoModel /\ portOwner \in {"none", "stale", "foreign"} /\ overlapped = FALSE
LlmInit == OllamaInit /\ LlamaInit /\ llmCall = [c \in LlmCallers |-> NoCall]

LlmAt(c, op, pc) == llmCall[c].op = op /\ llmCall[c].pc = pc
LlmTo(c, pc) == llmCall' = [llmCall EXCEPT ![c].pc = pc] /\ UNCHANGED budget
LlmEnds(c) == llmCall' = [llmCall EXCEPT ![c] = NoCall] /\ UNCHANGED budget
LlmBegins(c, call) == llmCall[c] = NoCall /\ Called /\ llmCall' = [llmCall EXCEPT ![c] = call]

----------------------------------------------------------------------------
\* Ollama.  A call works on the configuration it loaded.

loadOllamaRuntimeConfig == ollamaFile
saveOllamaRuntimeConfig(cfg) == ollamaFile' = cfg

\* InstallOllamaModel, then ensure, pull, warm and probe.
InstallOllamaModel(c, m, setDefault) ==
  /\ LlmBegins(c, [NoCall EXCEPT !.op = "ollama", !.pc = "save", !.model = m,
       !.file = IF setDefault THEN [loadOllamaRuntimeConfig EXCEPT !.default = m] ELSE loadOllamaRuntimeConfig])
  /\ UNCHANGED <<ollamaState, llamaState>>
SavesInstall(c) ==
  /\ LlmAt(c, "ollama", "save")
  /\ saveOllamaRuntimeConfig(llmCall[c].file)
  /\ LlmTo(c, "ensure") /\ UNCHANGED <<ollamaUnit, ollamaApi, ollamaModels, llamaState>>

\* StartOllamaRuntime: ensure and probe.
StartOllamaRuntime(c) ==
  /\ LlmBegins(c, [NoCall EXCEPT !.op = "ollama", !.pc = "ensure"])
  /\ UNCHANGED <<ollamaState, llamaState>>

\* ensureOllamaRuntime: a healthy API is reused ...
ensureOllamaRuntime(c) ==
  /\ LlmAt(c, "ollama", "ensure")
  /\ IF ollamaApi # "none" THEN LlmTo(c, "retire") ELSE LlmTo(c, "unit")
  /\ UNCHANGED <<ollamaState, llamaState>>

\* ... and a unit that only races its owner for the port is disabled.
retireOllamaUnitRacedByExternalOwner(c) ==
  /\ LlmAt(c, "ollama", "retire")
  /\ ollamaUnit' = IF ollamaUnit = "enabled" /\ ollamaApi # "unit" THEN "disabled" ELSE ollamaUnit
  /\ LlmTo(c, "pull") /\ UNCHANGED <<ollamaFile, ollamaApi, ollamaModels, llamaState>>

\* Otherwise the unit is written, enabled and started.
renderOllamaSystemdUnit(c) ==
  /\ LlmAt(c, "ollama", "unit")
  /\ ollamaUnit' = "enabled"
  /\ ollamaApi' \in {IF ollamaApi = "none" THEN "unit" ELSE ollamaApi, ollamaApi}
  /\ LlmTo(c, "wait") /\ UNCHANGED <<ollamaFile, ollamaModels, llamaState>>
waitForOllamaAPI(c) ==
  /\ LlmAt(c, "ollama", "wait")
  /\ IF ollamaApi # "none" THEN LlmTo(c, "pull") ELSE LlmEnds(c)
  /\ UNCHANGED <<ollamaState, llamaState>>

\* ollama pull and warmOllamaModel; a plain start only probes.
pullOllamaModel(c) ==
  /\ LlmAt(c, "ollama", "pull")
  /\ LET m == llmCall[c].model IN
     \/ m = NoModel /\ LlmTo(c, "probe") /\ UNCHANGED ollamaModels
     \/ m # NoModel /\ ollamaApi # "none" /\ LlmTo(c, "probe")
        /\ ollamaModels' = [ollamaModels EXCEPT ![m].pulled = TRUE]
     \/ m # NoModel /\ LlmEnds(c) /\ UNCHANGED ollamaModels
  /\ UNCHANGED <<ollamaFile, ollamaUnit, ollamaApi, llamaState>>

\* ProbeOllama looks at the API; a call that ends with it changes nothing.
ProbeOllama(c) ==
  /\ LlmAt(c, "ollama", "probe") /\ LlmEnds(c)
  /\ UNCHANGED <<ollamaState, llamaState>>

\* readOllamaModelContext: the managed definition's size if the model has one.
readOllamaModelContext(cfg, m) == IF cfg.context[m] # 0 THEN ollamaModels[m].context ELSE 0

\* ConfigureOllamaModelContext: the base model must exist; a setting the file
\* and the managed definition already have is left alone ...
ConfigureOllamaModelContext(c, m, n) ==
  /\ ollamaApi # "none" /\ ollamaModels[m].pulled
  /\ ~(loadOllamaRuntimeConfig.context[m] = n /\ readOllamaModelContext(loadOllamaRuntimeConfig, m) = n)
  /\ LlmBegins(c, [NoCall EXCEPT !.op = "context", !.pc = "create", !.model = m, !.size = n, !.file = loadOllamaRuntimeConfig])
  /\ UNCHANGED <<ollamaState, llamaState>>

\* ... else the definition is created and the configuration loaded before is
\* saved with the new setting in it.
createContextAlias(c) ==
  /\ LlmAt(c, "context", "create")
  /\ IF ollamaApi = "none" THEN LlmEnds(c) /\ UNCHANGED ollamaModels
     ELSE LlmTo(c, "save") /\ ollamaModels' = [ollamaModels EXCEPT ![llmCall[c].model].context = llmCall[c].size]
  /\ UNCHANGED <<ollamaFile, ollamaUnit, ollamaApi, llamaState>>
SavesContext(c) ==
  /\ LlmAt(c, "context", "save") /\ LlmEnds(c)
  /\ saveOllamaRuntimeConfig([llmCall[c].file EXCEPT !.context[llmCall[c].model] = llmCall[c].size])
  /\ UNCHANGED <<ollamaUnit, ollamaApi, ollamaModels, llamaState>>

\* Other owners of the port come and go; systemd restarts the enabled unit.
OllamaApiChanges ==
  /\ \/ ollamaApi = "none" /\ ollamaUnit = "enabled" /\ ollamaApi' = "unit" /\ UNCHANGED budget
     \/ ollamaApi = "none" /\ ollamaApi' = "external" /\ Trouble
     \/ ollamaApi # "none" /\ ollamaApi' = "none" /\ Trouble
  /\ UNCHANGED <<ollamaFile, ollamaUnit, ollamaModels, llamaState, llmCall>>

----------------------------------------------------------------------------
\* llama-server.

\* downloadVerifiedLlamaFile: only a file with the expected checksum is renamed
\* to its place.
downloadVerifiedLlamaFile(m) == artifact' = [artifact EXCEPT ![m] = "good"]

verifyLlamaArtifact(m) == artifact[m] = "good"

\* adoptExistingLlamaServerBinary: the binary the manifest pins, unchanged.
adoptExistingLlamaServerBinary(rev) == llamaFile.rev = rev /\ binary = rev

\* EnsureLlamaServerBinary: adopted, or downloaded, built and put in place;
\* a failure before the last step leaves the old one.
EnsureLlamaServerBinary(c, rev) ==
  /\ ~adoptExistingLlamaServerBinary(rev)
  /\ LlmBegins(c, [NoCall EXCEPT !.op = "build", !.pc = "build", !.rev = rev])
  /\ UNCHANGED <<ollamaState, llamaState>>
installsBinary(c) ==
  /\ LlmAt(c, "build", "build") /\ LlmEnds(c)
  /\ binary' \in {binary, llmCall[c].rev}
  /\ UNCHANGED <<ollamaState, llamaFile, llamaUnit, llamaServes, artifact, portOwner, overlapped>>

\* InstallLlamaServerModel: the binary is built when there is none, an artifact
\* that is absent is downloaded.
InstallLlamaServerModel(c, m, rev) ==
  /\ LlmBegins(c, [NoCall EXCEPT !.op = "llama", !.pc = "binary", !.model = m, !.rev = rev])
  /\ UNCHANGED <<ollamaState, llamaState>>
buildsMissing(c) ==
  /\ LlmAt(c, "llama", "binary")
  /\ \/ binary # NoModel /\ LlmTo(c, "artifact") /\ UNCHANGED binary
     \/ binary = NoModel /\ \/ binary' = llmCall[c].rev /\ LlmTo(c, "artifact")
                            \/ LlmEnds(c) /\ UNCHANGED binary
  /\ UNCHANGED <<ollamaState, llamaFile, llamaUnit, llamaServes, artifact, portOwner, overlapped>>
fetchesArtifact(c) ==
  /\ LlmAt(c, "llama", "artifact")
  /\ \/ artifact[llmCall[c].model] # "absent" /\ LlmTo(c, "validate") /\ UNCHANGED artifact
     \/ artifact[llmCall[c].model] = "absent" /\ \/ downloadVerifiedLlamaFile(llmCall[c].model) /\ LlmTo(c, "validate")
                                                 \/ LlmEnds(c) /\ UNCHANGED artifact
  /\ UNCHANGED <<ollamaState, llamaFile, llamaUnit, llamaServes, binary, portOwner, overlapped>>

\* StartLlamaServerRuntime: the saved manifest once more.
StartLlamaServerRuntime(c) ==
  /\ llamaFile.model # NoModel
  /\ LlmBegins(c, [NoCall EXCEPT !.op = "llama", !.pc = "validate", !.model = llamaFile.model, !.rev = llamaFile.rev])
  /\ UNCHANGED <<ollamaState, llamaState>>

\* validateLlamaServerConfig: artifact and binary have the pinned checksums.
validateLlamaServerConfig(c) ==
  /\ LlmAt(c, "llama", "validate")
  /\ IF verifyLlamaArtifact(llmCall[c].model) /\ binary = llmCall[c].rev
     THEN /\ LlmTo(c, "unload")
          /\ overlapped' = (overlapped \/ \E d \in LlmCallers :
                              llmCall[d].op = "llama" /\ llmCall[d].pc \in {"unload", "manifest", "port", "start"})
     ELSE LlmEnds(c) /\ UNCHANGED overlapped
  /\ UNCHANGED <<ollamaState, llamaFile, llamaUnit, llamaServes, artifact, binary, portOwner>>

\* Mutant of Unloaded: the running model is left until the restart.
StaysLoaded == UNCHANGED <<llamaUnit, llamaServes>>

\* systemctl disable --now.
Unloaded == llamaUnit' = [llamaUnit EXCEPT !.enabled = FALSE] /\ llamaServes' = NoModel

\* startLlamaServerRuntime unloads the model, then checks the GPU ...
startLlamaServerRuntime(c) ==
  /\ LlmAt(c, "llama", "unload")
  /\ Unloaded
  /\ LlmTo(c, "manifest") \/ LlmEnds(c)
  /\ UNCHANGED <<ollamaState, llamaFile, artifact, binary, portOwner, overlapped>>

\* ... saves the manifest, ...
saveLlamaServerConfig(c) ==
  /\ LlmAt(c, "llama", "manifest")
  /\ llamaFile' = [model |-> llmCall[c].model, rev |-> llmCall[c].rev]
  /\ LlmTo(c, "port")
  /\ UNCHANGED <<ollamaState, llamaUnit, llamaServes, artifact, binary, portOwner, overlapped>>

\* ... ends a stale process of its own on the port, and stops at a foreign one, ...
releaseRecognizedLlamaPort(c) ==
  /\ LlmAt(c, "llama", "port")
  /\ IF portOwner = "foreign" THEN LlmEnds(c) ELSE LlmTo(c, "start")
  /\ portOwner' = IF portOwner = "stale" THEN "none" ELSE portOwner
  \* the unit of another call is recognized by its binary path too
  /\ llamaServes' = IF portOwner = "foreign" THEN llamaServes ELSE NoModel
  /\ UNCHANGED <<ollamaState, llamaFile, llamaUnit, artifact, binary, overlapped>>

\* ... writes the unit and restarts it ...
restartLlamaUnit(c) ==
  /\ LlmAt(c, "llama", "start")
  /\ llamaUnit' = [model |-> llmCall[c].model, enabled |-> TRUE]
  /\ llamaServes' \in {llmCall[c].model, NoModel}
  /\ LlmTo(c, "ready")
  /\ UNCHANGED <<ollamaState, llamaFile, artifact, binary, portOwner, overlapped>>

\* ... and waits until its model is listed, or 90 seconds.
llamaReady(c) ==
  /\ LlmAt(c, "llama", "ready")
  /\ (llamaServes = llmCall[c].model /\ LlmTo(c, "probe")) \/ LlmEnds(c)
  /\ UNCHANGED <<ollamaState, llamaState>>

\* ProbeLlamaServer decides the answer of the call; it changes nothing.
ProbeLlamaServer(c) ==
  /\ LlmAt(c, "llama", "probe") /\ LlmEnds(c)
  /\ UNCHANGED <<ollamaState, llamaState>>

StopLlamaServerRuntime ==
  /\ Called /\ Unloaded
  /\ UNCHANGED <<ollamaState, llamaFile, artifact, binary, portOwner, overlapped, llmCall>>

\* The process ends; systemd starts an enabled unit again.
LlamaProcess ==
  /\ \/ llamaServes # NoModel /\ llamaServes' = NoModel /\ Trouble
     \/ llamaServes = NoModel /\ llamaUnit.enabled /\ llamaServes' = llamaUnit.model /\ UNCHANGED budget
  /\ UNCHANGED <<ollamaState, llamaFile, llamaUnit, artifact, binary, portOwner, overlapped, llmCall>>

OllamaNext ==
  \/ \E c \in LlmCallers :
       \/ \E m \in LlmModels : \/ \E d \in BOOLEAN : InstallOllamaModel(c, m, d)
                               \/ \E n \in ContextSizes : ConfigureOllamaModelContext(c, m, n)
       \/ SavesInstall(c) \/ StartOllamaRuntime(c) \/ ensureOllamaRuntime(c)
       \/ retireOllamaUnitRacedByExternalOwner(c) \/ renderOllamaSystemdUnit(c) \/ waitForOllamaAPI(c)
       \/ pullOllamaModel(c) \/ ProbeOllama(c) \/ createContextAlias(c) \/ SavesContext(c)
  \/ OllamaApiChanges
LlamaNext ==
  \/ \E c \in LlmCallers :
       \/ \E rev \in Revisions : EnsureLlamaServerBinary(c, rev) \/ \E m \in LlmModels : InstallLlamaServerModel(c, m, rev)
       \/ StartLlamaServerRuntime(c) \/ installsBinary(c) \/ buildsMissing(c) \/ fetchesArtifact(c)
       \/ validateLlamaServerConfig(c) \/ startLlamaServerRuntime(c) \/ saveLlamaServerConfig(c)
       \/ releaseRecognizedLlamaPort(c) \/ restartLlamaUnit(c) \/ llamaReady(c) \/ ProbeLlamaServer(c)
  \/ StopLlamaServerRuntime \/ LlamaProcess

LlmSpec == LlmInit /\ [][OllamaNext \/ LlamaNext]_llmVars

----------------------------------------------------------------------------
\* What llama-server serves was verified and is the manifest the agent reports
\* and would start again, through failed starts, crashes of the process and
\* restarts by systemd, unless two starts ran at once.
ServedIsPinned ==
  llamaServes # NoModel /\ ~overlapped => artifact[llamaServes] = "good" /\ llamaFile.model = llamaServes

============================================================================
