----------------------------- MODULE PluginBoot -----------------------------
(***************************************************************************)
(* How a process comes to its one running plugin: tool calls that find no  *)
(* plugin start one behind a OnceCell, with the configuration delivered by  *)
(* plugin.configure or else the environment, and start() can fail after     *)
(* each of its steps (src/src/main.rs, shared_plugin; src/src/plugin.rs,    *)
(* TelegramPlugin::start).                                                  *)
(***************************************************************************)
EXTENDS Naturals, Sequences

CONSTANTS
    Calls,       \* tool.invoke requests
    Slices,      \* configurations of one account
    Deliveries,  \* the arrays of them plugin.configure can deliver
    Env,         \* the configuration of the environment
    None,
    PollingBlock, \* what a slice's polling block says
    EnvIsValid,  \* telegram_config_from_env succeeds
    MaxConfigures  \* bound: deliveries of plugin.configure

ASSUME CallsAssumption == None \notin Calls
ASSUME SlicesAssumption ==
    /\ {None, Env} \cap Slices = {} /\ None # Env
    /\ Deliveries \subseteq Seq(Slices) /\ None \notin Deliveries
    /\ PollingBlock \in [Slices -> {"on", "off", "omitted"}]
ASSUME EnvAssumption == EnvIsValid \in BOOLEAN /\ MaxConfigures \in Nat

VARIABLES
    configured, \* configured_state()
    configures, \* deliveries so far
    cell,       \* PLUGIN: the plugin in the OnceCell, named by the call
                \* that created it, or None
    leader,     \* the call that runs the cell's initialiser
    pc,         \* where each call is
    cfg,        \* configuration of each plugin (a call creates one at most)
    pollers,    \* plugins whose polling task runs
    dispatchers, \* plugins whose dispatcher task runs
    result,     \* what each call was answered
    reached     \* the plugin each tool ran with, or None

vars == <<configured, configures, cell, leader, pc, cfg, pollers, dispatchers, result, reached>>

Initialising == {"config", "broker", "getMe", "spawn", "subscribe"}

TypeOK ==
    /\ configured \in Deliveries \cup {None}
    /\ configures \in 0 .. MaxConfigures
    /\ cell \in Calls \cup {None}
    /\ leader \in Calls \cup {None}
    /\ pc \in [Calls -> Initialising \cup {"new", "waiting", "run", "answered"}]
    /\ cfg \in [Calls -> Slices \cup {Env, None}]
    /\ pollers \subseteq Calls /\ dispatchers \subseteq Calls
    /\ result \in [Calls -> {"none", "invalid", "unavailable", "ok"}]
    /\ reached \in [Calls -> Calls \cup {None}]

Init ==
    /\ configured = None /\ configures = 0
    /\ cell = None /\ leader = None
    /\ pc = [c \in Calls |-> "new"]
    /\ cfg = [c \in Calls |-> None]
    /\ pollers = {} /\ dispatchers = {}
    /\ result = [c \in Calls |-> "none"]
    /\ reached = [c \in Calls |-> None]

(* TelegramPollingConfig derives Default, so a slice without a polling      *)
(* block has enabled = false; the environment always polls.                 *)
PollingEnabled(config) == config = Env \/ PollingBlock[config] = "on"

Goto(c, label) == pc' = [pc EXCEPT ![c] = label]

-----------------------------------------------------------------------------
(* An operator named <definition>_<slip> is that definition with a slip in   *)
(* it; Next does not use them.                                               *)

(* plugin.configure, at any time.                                            *)
Configure ==
    /\ configures < MaxConfigures
    /\ configures' = configures + 1
    /\ configured' \in Deliveries
    /\ UNCHANGED <<cell, leader, pc, cfg, pollers, dispatchers, result, reached>>

Invoke(c) ==
    /\ pc[c] = "new"
    /\ Goto(c, "waiting")
    /\ UNCHANGED <<configured, configures, cell, leader, cfg, pollers, dispatchers, result, reached>>

(* get_or_try_init: the cell is full, or this call gets its permit.         *)
FindPlugin(c) ==
    /\ pc[c] = "waiting" /\ cell # None
    /\ Goto(c, "run")
    /\ UNCHANGED <<configured, configures, cell, leader, cfg, pollers, dispatchers, result, reached>>

Lead_WithoutPermit(c) ==
    /\ pc[c] = "waiting" /\ cell = None
    /\ leader' = c
    /\ Goto(c, "config")
    /\ UNCHANGED <<configured, configures, cell, cfg, pollers, dispatchers, result, reached>>

Lead(c) ==
    /\ pc[c] = "waiting" /\ cell = None /\ leader = None
    /\ leader' = c
    /\ Goto(c, "config")
    /\ UNCHANGED <<configured, configures, cell, cfg, pollers, dispatchers, result, reached>>

Fail_KeepsPermit(c, error) ==
    /\ Goto(c, "answered")
    /\ result' = [result EXCEPT ![c] = error]
    /\ UNCHANGED leader

(* The initialiser returns Err: the permit is free, this call is answered.  *)
Fail(c, error) ==
    /\ Goto(c, "answered")
    /\ result' = [result EXCEPT ![c] = error]
    /\ leader' = None

ReadConfig_EnvFirst(c) ==
    /\ pc[c] = "config"
    /\ \/ /\ ~EnvIsValid /\ configured \in {<<>>, None}
          /\ Fail(c, "invalid")
          /\ UNCHANGED cfg
       \/ /\ EnvIsValid \/ configured \notin {<<>>, None}
          /\ cfg' = [cfg EXCEPT ![c] = IF EnvIsValid THEN Env ELSE Head(configured)]
          /\ Goto(c, "broker")
          /\ UNCHANGED <<leader, result>>
    /\ UNCHANGED <<configured, configures, cell, pollers, dispatchers, reached>>

(* A delivered array wins over the environment, also an empty one; of its    *)
(* accounts the first is started.                                           *)
ReadConfig(c) ==
    /\ pc[c] = "config"
    /\ \/ /\ configured = <<>> \/ (configured = None /\ ~EnvIsValid)
          /\ Fail(c, "invalid")
          /\ UNCHANGED cfg
       \/ /\ configured # <<>> /\ (configured = None => EnvIsValid)
          /\ cfg' = [cfg EXCEPT ![c] = IF configured = None THEN Env ELSE Head(configured)]
          /\ Goto(c, "broker")
          /\ UNCHANGED <<leader, result>>
    /\ UNCHANGED <<configured, configures, cell, pollers, dispatchers, reached>>

(* build_broker, then the plugin is created; then getMe.                    *)
BuildBroker(c) ==
    /\ pc[c] = "broker"
    /\ (Goto(c, "getMe") /\ UNCHANGED <<leader, result>>) \/ Fail(c, "unavailable")
    /\ UNCHANGED <<configured, configures, cell, cfg, pollers, dispatchers, reached>>

GetMe(c) ==
    /\ pc[c] = "getMe"
    /\ (Goto(c, "spawn") /\ UNCHANGED <<leader, result>>) \/ Fail(c, "unavailable")
    /\ UNCHANGED <<configured, configures, cell, cfg, pollers, dispatchers, reached>>

SpawnPoller_Always(c) ==
    /\ pc[c] = "spawn"
    /\ pollers' = pollers \cup {c}
    /\ Goto(c, "subscribe")
    /\ UNCHANGED <<configured, configures, cell, leader, cfg, dispatchers, result, reached>>

SpawnPoller(c) ==
    /\ pc[c] = "spawn"
    /\ pollers' = IF PollingEnabled(cfg[c]) THEN pollers \cup {c} ELSE pollers
    /\ Goto(c, "subscribe")
    /\ UNCHANGED <<configured, configures, cell, leader, cfg, dispatchers, result, reached>>

(* spawn_dispatcher subscribes before it spawns.  When that fails, start()  *)
(* returns with `?' and drops the poller's handle: the task goes on.        *)
Subscribe(c) ==
    /\ pc[c] = "subscribe"
    /\ \/ /\ dispatchers' = dispatchers \cup {c}
          /\ cell' = c
          /\ leader' = None
          /\ Goto(c, "run")
          /\ UNCHANGED result
       \/ Fail(c, "unavailable") /\ UNCHANGED <<dispatchers, cell>>
    /\ UNCHANGED <<configured, configures, cfg, pollers, reached>>

(* dispatch_telegram_tool with the plugin of the cell.                      *)
RunTool(c) ==
    /\ pc[c] = "run"
    /\ result' = [result EXCEPT ![c] = "ok"]
    /\ reached' = [reached EXCEPT ![c] = cell]
    /\ Goto(c, "answered")
    /\ UNCHANGED <<configured, configures, cell, leader, cfg, pollers, dispatchers>>

-----------------------------------------------------------------------------
Step(c) ==
    \/ FindPlugin(c) \/ Lead(c) \/ ReadConfig(c) \/ BuildBroker(c) \/ GetMe(c)
    \/ SpawnPoller(c) \/ Subscribe(c) \/ RunTool(c)

Next == Configure \/ \E c \in Calls : Invoke(c) \/ Step(c)

Spec == Init /\ [][Next]_vars

(* Each request of the initialiser ends (connect and request timeouts), and *)
(* Tokio runs a task that is ready.                                         *)
FairSpec == Spec /\ \A c \in Calls : WF_vars(Step(c))

-----------------------------------------------------------------------------
(* A plugin that tool calls can reach has its dispatcher, and polls exactly *)
(* when its configuration says so.                                          *)
ReadyMeansRunning ==
    cell # None =>
        /\ cell \in dispatchers
        /\ cell \in pollers <=> PollingEnabled(cfg[cell])

(* What carries the proofs: one call at a time is inside the initialiser,    *)
(* holds the permit and finds the cell empty; a plugin has no dispatcher     *)
(* before the cell, and no poller before its call spawned it.                *)
PermitHeld == \A c \in Calls : pc[c] \in Initialising => leader = c /\ cell = None

PluginInv(c) ==
    /\ pc[c] \in {"new", "waiting", "config", "broker", "getMe", "spawn"} => c \notin pollers
    /\ pc[c] \in {"broker", "getMe", "spawn", "subscribe"} => cfg[c] \in Slices \cup {Env}
    /\ pc[c] = "subscribe" => (c \in pollers <=> PollingEnabled(cfg[c]))
    /\ pc[c] = "run" => cell # None
    /\ c \in dispatchers => cell = c
    /\ reached[c] \in {None, cell}

BootInv ==
    /\ TypeOK
    /\ PermitHeld
    /\ \A c \in Calls : PluginInv(c)
    /\ ReadyMeansRunning
    /\ cell # None => pc[cell] \in {"run", "answered"}

(* The outbound topic has one consumer in the process, however many starts  *)
(* it took: an event is not sent twice.                                     *)
OneDispatcher ==
    \A a, b \in dispatchers : a = b

(* All tool calls that reach a plugin reach the same one.                   *)
CallsAgree ==
    \A c, d \in Calls : None \notin {reached[c], reached[d]} => reached[c] = reached[d]

(* Every tool call is answered, whatever fails.                             *)
EveryCallIsAnswered ==
    \A c \in Calls : pc[c] = "waiting" ~> pc[c] = "answered"

(* One plugin per process (main.rs:9): one task polls Telegram.             *)
OnePollerPerProcess ==
    \A a, b \in pollers : a = b
=============================================================================
