------------------------------ MODULE KillSwitch ------------------------------
(***************************************************************************)
(* The operators' kill switch (libs/trading/risk_management/               *)
(* kill_switch.py) as the gateways use it: each process constructs its own *)
(* KillSwitch over one Redis key, keeps it behind the flags of its         *)
(* RecoveryManager (apps/execution_gateway/recovery_manager.py), and       *)
(* serves the admin endpoints (routes/admin.py) and the health endpoint    *)
(* (routes/health.py), which recovers it.                                  *)
(*                                                                         *)
(* A handler makes its Redis calls without awaiting in between, so one     *)
(* process runs one of them at a time; the processes interleave between    *)
(* any two calls.  engage and disengage are Lua scripts and atomic; the    *)
(* constructor's GET and SET are not.                                      *)
(***************************************************************************)
EXTENDS Naturals, Sequences, SequencesExt

CONSTANTS
    Gateways,       \* processes that hold a KillSwitch
    StartKey,       \* what kill_switch:state holds at first
    MaxCommands,    \* bound on the commands that take effect
    MaxFlushes,     \* bound on the times Redis loses its keys
    Failures        \* may processes stop, and calls to Redis fail?

ASSUME StartKeyAssumption == StartKey \in {"ACTIVE", "MISSING"}
ASSUME MaxCommandsAssumption == MaxCommands \in Nat
ASSUME KillSwitchFaultsAssumption == MaxFlushes \in Nat /\ Failures \in BOOLEAN

VARIABLES
    key,            \* kill_switch:state
    switchHistory,  \* kill_switch:history, oldest first
    commands,       \* the commands that took effect, in that order
    losses,         \* how often the key was found or made missing
    call,           \* the Redis call each process makes next
    client,         \* processes that reached Redis when they started: redis_client
                    \* is not None
    instance,       \* processes whose RecoveryManager holds a KillSwitch
    unavailable     \* processes whose kill_switch_unavailable is set

killSwitchVars == <<key, switchHistory, commands, losses, call, client, instance,
                    unavailable>>
redisVars == <<key, switchHistory, commands, losses>>
flagVars == <<client, instance, unavailable>>

Events == {"ENGAGED", "DISENGAGED"}
GatewayCalls == {"down", "construct", "initialize", "check", "up", "report"} \union Events

KillSwitchTypeOK ==
    /\ key \in {"ACTIVE", "ENGAGED", "MISSING"}
    /\ switchHistory \in Seq(Events)
    /\ commands \in Seq(Events)
    /\ losses \in Nat
    /\ call \in [Gateways -> GatewayCalls]
    /\ client \subseteq Gateways
    /\ instance \subseteq Gateways
    /\ unavailable \subseteq Gateways

KillSwitchInit ==
    /\ key = StartKey
    /\ switchHistory = <<>>
    /\ commands = <<>>
    /\ losses = IF key = "MISSING" THEN 1 ELSE 0
    /\ call = [g \in Gateways |-> "down"]
    /\ client = {}
    /\ instance = {}
    /\ unavailable = Gateways

Goto(g, label) == call' = [call EXCEPT ![g] = label]

Available(g) == g \in instance /\ g \notin unavailable

-----------------------------------------------------------------------------
(* initialize_kill_switch at startup and _recover_kill_switch later.       *)

\* The lifespan builds the Redis client, whose constructor pings Redis.
Start(g) ==
    /\ call[g] = "down"
    /\ client' = client \union {g}
    /\ Goto(g, "construct")
    /\ UNCHANGED <<redisVars, instance, unavailable>>

\* When the ping fails, redis_client is None for the life of the process: no
\* switch is constructed, now or later.
StartOffline(g) ==
    /\ Failures
    /\ call[g] = "down"
    /\ Goto(g, "up")
    /\ UNCHANGED <<redisVars, flagVars>>

\* Mutant: only a missing instance is recovered.
RecoverMissing(g) ==
    /\ call[g] = "up"
    /\ g \in client
    /\ g \notin instance
    /\ Goto(g, "construct")
    /\ UNCHANGED <<redisVars, flagVars>>

\* The health endpoint of a process that has a client (can_recover): a missing
\* instance is constructed, one that is only flagged is checked again.
Recover(g) ==
    /\ call[g] = "up"
    /\ g \in client
    /\ ~Available(g)
    /\ Goto(g, IF g \in instance THEN "check" ELSE "construct")
    /\ UNCHANGED <<redisVars, flagVars>>

\* Mutant: the constructor initializes whatever it finds.
ConstructAlways(g) ==
    /\ call[g] = "construct"
    /\ Goto(g, "initialize")
    /\ UNCHANGED <<redisVars, flagVars>>

\* KillSwitch.__init__: GET ...
Construct(g) ==
    /\ call[g] = "construct"
    /\ Goto(g, IF key = "MISSING" THEN "initialize" ELSE "check")
    /\ UNCHANGED <<redisVars, flagVars>>

\* ... and _initialize_state: SET.
Initialize(g) ==
    /\ call[g] = "initialize"
    /\ key' = "ACTIVE"
    /\ Goto(g, "check")
    /\ UNCHANGED <<switchHistory, commands, losses, flagVars>>

\* is_engaged(): only a missing state raises; the instance is kept.
Check(g) ==
    /\ call[g] = "check"
    /\ instance' = instance \union {g}
    /\ unavailable' = IF key = "MISSING" THEN unavailable \union {g} ELSE unavailable \ {g}
    /\ Goto(g, "up")
    /\ UNCHANGED <<redisVars, client>>

-----------------------------------------------------------------------------
(* The admin endpoints.                                                    *)

\* The Lua script of engage or disengage changes the key.
TakesEffect(event) ==
    /\ Len(commands) < MaxCommands
    /\ key = IF event = "ENGAGED" THEN "ACTIVE" ELSE "ENGAGED"
    /\ key' = IF event = "ENGAGED" THEN "ENGAGED" ELSE "ACTIVE"
    /\ commands' = Append(commands, event)

\* Mutant: a missing state counts as engaged in the script of disengage.
CommandDisengagesMissing(g, event) ==
    /\ call[g] = "up" /\ Available(g)
    /\ key # (IF event = "ENGAGED" THEN "ENGAGED" ELSE "ACTIVE")
    /\ Len(commands) < MaxCommands
    /\ key' = IF event = "ENGAGED" THEN "ENGAGED" ELSE "ACTIVE"
    /\ commands' = Append(commands, event)
    /\ Goto(g, event)
    /\ UNCHANGED <<switchHistory, losses, flagVars>>

\* engage_kill_switch, disengage_kill_switch: a missing state marks the
\* switch unavailable; a command that changes nothing is answered with 400.
Command(g, event) ==
    /\ call[g] = "up" /\ Available(g)
    /\ \/ /\ TakesEffect(event)
          /\ Goto(g, event)
          /\ UNCHANGED unavailable
       \/ /\ key = "MISSING"
          /\ unavailable' = unavailable \union {g}
          /\ UNCHANGED <<key, commands, call>>
    /\ UNCHANGED <<switchHistory, losses, client, instance>>

\* RPUSH of the history entry, after the script.
Log(g) ==
    /\ call[g] \in Events
    /\ switchHistory' = Append(switchHistory, call[g])
    /\ Goto(g, "report")
    /\ UNCHANGED <<key, commands, losses, flagVars>>

\* get_status, on its own or for the answer to a command.
Report(g) ==
    /\ call[g] = "report" \/ (call[g] = "up" /\ Available(g))
    /\ unavailable' = IF key = "MISSING" THEN unavailable \union {g} ELSE unavailable
    /\ Goto(g, "up")
    /\ UNCHANGED <<redisVars, client, instance>>

-----------------------------------------------------------------------------
(* Faults.                                                                 *)

\* A Redis call raises: construction and recovery fail closed and leave it to
\* the next health request to try again, an admin endpoint answers 500 and
\* leaves the flags alone.
CallFails(g) ==
    /\ Failures
    /\ call[g] \notin {"down", "up"}
    /\ unavailable' = IF call[g] \in {"construct", "initialize", "check"}
                      THEN unavailable \union {g} ELSE unavailable
    /\ instance' = IF call[g] = "check" THEN instance \union {g} ELSE instance
    /\ Goto(g, "up")
    /\ UNCHANGED <<redisVars, client>>

\* The script runs but its reply is lost: nothing is logged.
CommandReplyLost(g, event) ==
    /\ Failures
    /\ call[g] = "up" /\ Available(g)
    /\ TakesEffect(event)
    /\ UNCHANGED <<switchHistory, losses, call, flagVars>>

Stop(g) ==
    /\ Failures
    /\ call[g] # "down"
    /\ Goto(g, "down")
    /\ client' = client \ {g}
    /\ instance' = instance \ {g}
    /\ unavailable' = unavailable \union {g}
    /\ UNCHANGED redisVars

LoseKey ==
    /\ losses < MaxFlushes
    /\ key # "MISSING"
    /\ key' = "MISSING"
    /\ switchHistory' = <<>>
    /\ losses' = losses + 1
    /\ UNCHANGED <<commands, call, flagVars>>

Gateway(g) ==
    \/ Start(g) \/ StartOffline(g) \/ Recover(g) \/ Construct(g) \/ Initialize(g) \/ Check(g)
    \/ \E event \in Events : Command(g, event) \/ CommandReplyLost(g, event)
    \/ Log(g) \/ Report(g) \/ CallFails(g) \/ Stop(g)

KillSwitchNext == LoseKey \/ \E g \in Gateways : Gateway(g)

KillSwitchSpec == KillSwitchInit /\ [][KillSwitchNext]_killSwitchVars

\* A stopped gateway is started again; its health endpoint is polled, and
\* calls to Redis do not fail for ever.
FairKillSwitchSpec ==
    /\ KillSwitchSpec
    /\ \A g \in Gateways :
          /\ WF_killSwitchVars(Start(g) \/ StartOffline(g))
          /\ SF_killSwitchVars(Recover(g))
          /\ SF_killSwitchVars(Construct(g))
          /\ SF_killSwitchVars(Initialize(g))
          /\ SF_killSwitchVars(Check(g))
          /\ WF_killSwitchVars(Log(g))
          /\ WF_killSwitchVars(Report(g))

-----------------------------------------------------------------------------
(* Properties.                                                             *)

Halted == commands # <<>> /\ Last(commands) = "ENGAGED"

\* Gates 1 and 4 of submit_order let an order of this gateway through.
Admits(g) == call[g] = "up" /\ Available(g) /\ key = "ACTIVE"

\* Once an operator has engaged the switch, no gateway admits an order until
\* an operator disengages it, whatever processes restart or recover meanwhile,
\* as long as its key was never missing.
HaltHolds == losses = 0 /\ Halted => \A g \in Gateways : ~Admits(g)

\* A missing state may hide an engaged switch: an operator's command, a status
\* report or the recovery of a switch that is only flagged never makes it ACTIVE.
\* It becomes ACTIVE only while a process without a switch constructs one, at
\* start-up or, where the construction at start-up failed, on a later health
\* request.  It is also the only way out: an operator cannot "manually
\* disengage" a missing state.
OnlyConstructionInitializes ==
    [][key = "MISSING" /\ key' # "MISSING"
          => \E g \in Gateways \ instance : call[g] = "initialize"]_killSwitchVars

\* A process that started while Redis was down.
Offline(g) == call[g] = "up" /\ g \notin client

\* A gateway whose switch failed does not stay closed for ever while the state
\* is there, unless it has run without a Redis client since it started.
GatewayReopens ==
    \A g \in Gateways : []<>(Available(g) \/ key = "MISSING" \/ Offline(g))

-----------------------------------------------------------------------------
(* What the documentation says and the code does not do: TLC refutes these *)
(* (the README gives the constants), so no passing run checks them.        *)

\* "Do not auto-reinitialize to ACTIVE (could resume trading unsafely)": the
\* halt survives the loss of its key.
HaltSurvivesLoss == Halted => \A g \in Gateways : ~Admits(g)

\* "FAILING CLOSED - all trading blocked until Redis available": a gateway that
\* started without Redis reopens once Redis is back.
ReopensWithRedis == \A g \in Gateways : []<>(Available(g) \/ key = "MISSING")

\* get_history is "most recent first": with no push outstanding, the newest
\* entry is the command that took effect last.
HistoryInOrder ==
    (\A g \in Gateways : call[g] \notin Events) => switchHistory = commands
=============================================================================
