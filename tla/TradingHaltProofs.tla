-------------------------- MODULE TradingHaltProofs --------------------------
(***************************************************************************)
(* The two controls that halt trading, for any number of processes.        *)
(*                                                                         *)
(* The kill switch holds, through commands, restarts and failed calls,     *)
(* until its Redis key is missing; and however often it is lost, only the  *)
(* construction of a switch replaces a missing state. The circuit breaker  *)
(* is atomic, for any interleaving of its clients' transactions, and keeps *)
(* a record of every trip, with the exceptions TripsRecorded names.        *)
(***************************************************************************)
EXTENDS KillSwitch, CircuitBreaker, SequenceTheorems, TLAPS

-----------------------------------------------------------------------------
(* The kill switch.                                                        *)

\* The variables keep their types.
LEMMA SwitchTypeStep == KillSwitchTypeOK /\ [KillSwitchNext]_killSwitchVars => KillSwitchTypeOK'
<1> SUFFICES ASSUME KillSwitchTypeOK, [KillSwitchNext]_killSwitchVars PROVE KillSwitchTypeOK'
  OBVIOUS
<1> USE DEF KillSwitchTypeOK, GatewayCalls, Events
<1>1. CASE UNCHANGED killSwitchVars
  BY <1>1 DEF killSwitchVars
<1>2. CASE LoseKey
  BY <1>2 DEF LoseKey, flagVars
<1>3. ASSUME NEW g \in Gateways, Gateway(g) PROVE KillSwitchTypeOK'
  <2> USE DEF Goto, redisVars, flagVars
  <2>1. CASE Start(g) \/ StartOffline(g) \/ Recover(g) \/ Construct(g) \/ Initialize(g) \/ Check(g)
    BY <2>1 DEF Start, StartOffline, Recover, Construct, Initialize, Check
  <2>2. ASSUME NEW event \in Events, Command(g, event) \/ CommandReplyLost(g, event)
        PROVE  KillSwitchTypeOK'
    <3>1. \/ UNCHANGED <<key, commands>>
          \/ key' \in {"ACTIVE", "ENGAGED"} /\ commands' = Append(commands, event)
      BY <2>2 DEF Command, CommandReplyLost, TakesEffect
    <3>2. commands' \in Seq(Events)
      BY <2>2, <3>1
    <3>3. call' \in [Gateways -> GatewayCalls] /\ switchHistory' = switchHistory /\ losses' = losses
      BY <2>2 DEF Command, CommandReplyLost
    <3>4. client' = client /\ instance' = instance /\ unavailable' \subseteq Gateways
      BY <2>2 DEF Command, CommandReplyLost, flagVars
    <3> QED
      BY <3>1, <3>2, <3>3, <3>4
  <2>3. CASE Log(g)
    BY <2>3 DEF Log
  <2>4. CASE Report(g)
    BY <2>4 DEF Report
  <2>5. CASE CallFails(g)
    BY <2>5 DEF CallFails
  <2>6. CASE Stop(g)
    BY <2>6 DEF Stop
  <2> QED
    BY <1>3, <2>1, <2>2, <2>3, <2>4, <2>5, <2>6 DEF Gateway
<1> QED
  BY <1>1, <1>2, <1>3 DEF KillSwitchNext

\* Every endpoint, recovery and fault keeps the switch's key, history and flags
\* within their types: the key holds nothing but the two documented states.
THEOREM KillSwitchTypeCorrect == KillSwitchSpec => []KillSwitchTypeOK
<1>1. KillSwitchInit => KillSwitchTypeOK
  BY StartKeyAssumption DEF KillSwitchInit, KillSwitchTypeOK, GatewayCalls, Events
<1> QED
  BY <1>1, SwitchTypeStep, PTL DEF KillSwitchSpec

-----------------------------------------------------------------------------

\* Until it is lost, the key records the last command, and nobody is about to
\* overwrite it.
KeyInv ==
    losses = 0 =>
        /\ key # "MISSING"
        /\ Halted <=> key = "ENGAGED"
        /\ \A g \in Gateways : call[g] # "initialize"

\* After a command took effect, the switch is halted exactly if it was ENGAGED.
LEMMA LastCommand ==
    ASSUME NEW event \in Events, commands \in Seq(Events),
           commands' = Append(commands, event)
    PROVE  Halted' <=> event = "ENGAGED"
<1>1. /\ Len(commands') = Len(commands) + 1
      /\ commands'[Len(commands')] = event
      /\ commands' # <<>>
  OBVIOUS
<1> QED
  BY <1>1 DEF Halted, Last

\* Every step keeps the key in agreement with the last command.
LEMMA KeyStep == KillSwitchTypeOK /\ KeyInv /\ [KillSwitchNext]_killSwitchVars => KeyInv'
<1> SUFFICES ASSUME KillSwitchTypeOK, KeyInv, [KillSwitchNext]_killSwitchVars, losses' = 0 PROVE KeyInv'
  BY DEF KeyInv
<1>a. losses = 0
  <2>1. CASE LoseKey
    BY <2>1 DEF LoseKey, KillSwitchTypeOK
  <2>2. ASSUME NEW g \in Gateways, Gateway(g) PROVE losses' = losses
    BY <2>2 DEF Gateway, Start, StartOffline, Recover, Construct, Initialize, Check, Command,
                CommandReplyLost, Log, Report, CallFails, Stop, redisVars
  <2> QED
    BY <2>1, <2>2 DEF KillSwitchNext, killSwitchVars
<1>0. ASSUME key' = key, commands' = commands,
             \A g \in Gateways : call'[g] # "initialize"
      PROVE  KeyInv'
  BY <1>a, <1>0 DEF KeyInv, Halted
<1>1. CASE UNCHANGED killSwitchVars
  BY <1>a, <1>0, <1>1 DEF killSwitchVars, KeyInv
<1>2. CASE LoseKey
  BY <1>2 DEF LoseKey, KillSwitchTypeOK
<1>3. ASSUME NEW g \in Gateways, Gateway(g) PROVE KeyInv'
  <2> USE <1>a DEF Goto, redisVars, KillSwitchTypeOK, Events
  <2>1. CASE Start(g) \/ StartOffline(g) \/ Recover(g) \/ Construct(g) \/ Check(g) \/ Log(g)
             \/ Report(g) \/ CallFails(g) \/ Stop(g)
    <3>1. key' = key /\ commands' = commands
      BY <2>1 DEF Start, StartOffline, Recover, Construct, Check, Log, Report, CallFails, Stop
    <3>2. \A h \in Gateways : call'[h] # "initialize"
      BY <2>1 DEF Start, StartOffline, Recover, Construct, Check, Log, Report, CallFails, Stop, KeyInv
    <3> QED
      BY <1>0, <3>1, <3>2
  <2>2. CASE Initialize(g)
    BY <2>2 DEF Initialize, KeyInv
  <2>3. ASSUME NEW event \in Events, Command(g, event) \/ CommandReplyLost(g, event)
        PROVE  KeyInv'
    <3>1. TakesEffect(event)
      BY <2>3 DEF Command, CommandReplyLost, KeyInv
    <3>2. Halted' <=> event = "ENGAGED"
      BY <3>1, LastCommand DEF TakesEffect
    <3>3. \A h \in Gateways : call'[h] # "initialize"
      BY <2>3 DEF Command, CommandReplyLost, KeyInv
    <3>4. key' = IF event = "ENGAGED" THEN "ENGAGED" ELSE "ACTIVE"
      BY <3>1 DEF TakesEffect
    <3> QED
      BY <3>2, <3>3, <3>4 DEF KeyInv
  <2> QED
    BY <1>3, <2>1, <2>2, <2>3 DEF Gateway
<1> QED
  BY <1>1, <1>2, <1>3 DEF KillSwitchNext

\* An engaged switch stops every gateway until an operator disengages it: no
\* restart, recovery or failed call makes the key ACTIVE, as long as the key was
\* there before the first process started and Redis keeps it.
THEOREM EngagedHaltHolds == KillSwitchSpec => []HaltHolds
<1>1. KillSwitchInit => KillSwitchTypeOK /\ KeyInv
  BY StartKeyAssumption DEF KillSwitchInit, KillSwitchTypeOK, GatewayCalls, Events, KeyInv, Halted
<1>2. KillSwitchTypeOK /\ KeyInv /\ [KillSwitchNext]_killSwitchVars => KillSwitchTypeOK' /\ KeyInv'
  BY SwitchTypeStep, KeyStep
<1>3. KeyInv => HaltHolds
  BY DEF KeyInv, HaltHolds, Admits
<1> QED
  BY <1>1, <1>2, <1>3, PTL DEF KillSwitchSpec

-----------------------------------------------------------------------------

\* A process constructs a switch only while it has none.
ConstructInv ==
    \A g \in instance : call[g] \notin {"down", "construct", "initialize"}

\* Every step keeps that: recovery checks an existing instance, it does not
\* construct it again.
LEMMA ConstructStep ==
    KillSwitchTypeOK /\ ConstructInv /\ [KillSwitchNext]_killSwitchVars => ConstructInv'
<1> SUFFICES ASSUME KillSwitchTypeOK, ConstructInv, [KillSwitchNext]_killSwitchVars PROVE ConstructInv'
  OBVIOUS
<1>1. CASE UNCHANGED killSwitchVars
  BY <1>1 DEF killSwitchVars, ConstructInv
<1>2. CASE LoseKey
  BY <1>2 DEF LoseKey, ConstructInv, flagVars
<1>3. ASSUME NEW g \in Gateways, Gateway(g) PROVE ConstructInv'
  <2> USE DEF Goto, flagVars, KillSwitchTypeOK, Events, ConstructInv, Available
  <2>1. CASE Start(g) \/ StartOffline(g) \/ Recover(g) \/ Construct(g) \/ Initialize(g)
    BY <2>1 DEF Start, StartOffline, Recover, Construct, Initialize
  <2>2. CASE Check(g) \/ Log(g) \/ Report(g)
    BY <2>2 DEF Check, Log, Report
  <2>3. CASE CallFails(g) \/ Stop(g)
    BY <2>3 DEF CallFails, Stop
  <2>4. ASSUME NEW event \in Events, Command(g, event) \/ CommandReplyLost(g, event)
        PROVE  ConstructInv'
    BY <2>4 DEF Command, CommandReplyLost
  <2> QED
    BY <1>3, <2>1, <2>2, <2>3, <2>4 DEF Gateway
<1> QED
  BY <1>1, <1>2, <1>3 DEF KillSwitchNext

\* A missing state is made ACTIVE only by the constructor KillSwitch.__init__ in
\* a process that holds no switch, at start-up or on a health request: never by
\* engage, disengage, get_status or is_engaged.
THEOREM OnlyConstructorsInitialize == KillSwitchSpec => OnlyConstructionInitializes
<1>1. KillSwitchInit => KillSwitchTypeOK /\ ConstructInv
  BY StartKeyAssumption DEF KillSwitchInit, KillSwitchTypeOK, GatewayCalls, Events, ConstructInv
<1>2. KillSwitchTypeOK /\ ConstructInv /\ [KillSwitchNext]_killSwitchVars => KillSwitchTypeOK' /\ ConstructInv'
  BY SwitchTypeStep, ConstructStep
<1>3. KillSwitchTypeOK /\ ConstructInv /\ [KillSwitchNext]_killSwitchVars
        => [key = "MISSING" /\ key' # "MISSING"
              => \E g \in Gateways \ instance : call[g] = "initialize"]_killSwitchVars
  <2> SUFFICES ASSUME KillSwitchTypeOK, ConstructInv, KillSwitchNext, key = "MISSING", key' # "MISSING"
               PROVE  \E g \in Gateways \ instance : call[g] = "initialize"
    BY DEF killSwitchVars
  <2>1. PICK g \in Gateways : Gateway(g)
    BY DEF KillSwitchNext, LoseKey
  <2>2. Initialize(g)
    BY <2>1 DEF Gateway, Start, StartOffline, Recover, Construct, Check, Log, Report, CallFails,
                Stop, Command, CommandReplyLost, TakesEffect, redisVars, Events
  <2>3. call[g] = "initialize" /\ g \notin instance
    BY <2>2 DEF Initialize, ConstructInv
  <2> QED
    BY <2>3
<1> QED
  BY <1>1, <1>2, <1>3, PTL DEF KillSwitchSpec, OnlyConstructionInitializes

-----------------------------------------------------------------------------
(* The circuit breaker.                                                    *)

\* The state of an older release, as it can be found.
Legacy == [mode |-> "QUIET_PERIOD", trips |-> StartTrips]

\* An EXEC that will succeed writes over the state its client read, and the
\* calls that write without a watch hold what they found.
WatchInv ==
    /\ state.mode = "MISSING" => state = Missing
    /\ state.mode = "QUIET_PERIOD" => state = Legacy
    /\ \A c \in Clients :
          /\ pc[c] = "initialize" => seen[c] = Missing
          /\ pc[c] = "migrate" => seen[c] = Legacy
          /\ pc[c] = "tripExec" /\ c \notin broken
                => seen[c] = state /\ state.mode \in {"OPEN", "QUIET_PERIOD"}
          /\ pc[c] = "resetExec" /\ c \notin broken
                => seen[c] = state /\ state.mode = "TRIPPED"

IInv == TypeOK /\ WatchInv

\* The values the transactions write are states.
LEMMA WritesAreStates ==
    /\ Missing \in State
    /\ \A s \in State : Tripped(s) \in State /\ Reopened(s) \in State
    /\ [mode |-> "OPEN", trips |-> 0] \in State
BY DEF Missing, State, Modes, Tripped, Reopened

\* Stamping the last entry of a history gives a history.
LEMMA StampKeepsHistory ==
    ASSUME NEW h \in Seq(Entries)
    PROVE  [h EXCEPT ![Len(h)] = Stamped(@)] \in Seq(Entries)
<1>1. \A e \in Entries : Stamped(e) \in Entries
  BY DEF Stamped, Entries
<1>2. Len(h) \in Nat /\ h \in [1..Len(h) -> Entries]
  BY LenProperties
<1>3. CASE Len(h) = 0
  <2>1. [h EXCEPT ![Len(h)] = Stamped(@)] = h
    <3>1. Len(h) \notin 1..Len(h)
      BY <1>2, <1>3
    <3> QED
      BY <1>2, <3>1
  <2> QED
    BY <2>1
<1>4. CASE Len(h) # 0
  <2>1. Len(h) \in 1..Len(h)
    BY <1>2, <1>4
  <2>2. Stamped(h[Len(h)]) \in Entries
    BY <1>1, <2>1, ElementOfSeq
  <2> QED
    BY <2>1, <2>2, ExceptSeq
<1> QED
  BY <1>3, <1>4

\* The breaker's variables keep their types.
LEMMA TypeStep == TypeOK /\ [Next]_vars => TypeOK'
<1> SUFFICES ASSUME TypeOK, [Next]_vars PROVE TypeOK'
  OBVIOUS
<1> USE WritesAreStates DEF TypeOK, Calls, Watching, WatchingHistory, ghostVars
<1>1. CASE UNCHANGED vars
  BY <1>1 DEF vars
<1>2. CASE Flush
  BY <1>2 DEF Flush, WatchersOf
<1>3. ASSUME NEW c \in Clients, Client(c) PROVE TypeOK'
  <2> USE DEF At, Forget, Return, WriteState, WriteHistory, WatchersOf
  <2>1. CASE TripRead(c)
    BY <2>1 DEF TripRead, Read
  <2>2. CASE TripExec(c)
    BY <2>2 DEF TripExec
  <2>3. CASE TripAppend(c)
    <3>1. seen[c].trips + 1 \in Nat
      BY DEF State
    <3>2. [trip |-> seen[c].trips + 1, reset |-> FALSE] \in Entries
      BY <3>1 DEF Entries
    <3>3. history' \in Seq(Entries)
      BY <2>3, <3>2 DEF TripAppend
    <3> QED
      BY <2>3, <3>3 DEF TripAppend
  <2>4. CASE ResetRead(c)
    BY <2>4 DEF ResetRead, Read
  <2>5. CASE ResetExec(c)
    BY <2>5 DEF ResetExec
  <2>6. CASE StampRead(c)
    BY <2>6 DEF StampRead
  <2>7. CASE StampExec(c)
    <3>1. history' \in {history, [history EXCEPT ![Len(history)] = Stamped(@)]}
      BY <2>7 DEF StampExec
    <3>2. history' \in Seq(Entries)
      BY <3>1, StampKeepsHistory
    <3> QED
      BY <2>7, <3>2 DEF StampExec
  <2>8. CASE InitializeRead(c)
    BY <2>8 DEF InitializeRead, Read
  <2>9. CASE InitializeSet(c)
    BY <2>9 DEF InitializeSet
  <2>10. CASE MigrateRead(c)
    BY <2>10 DEF MigrateRead, Read
  <2>11. CASE MigrateSet(c)
    <3>1. 1..seen[c].trips \subseteq Nat
      BY DEF State
    <3>2. restored' \subseteq Nat
      BY <2>11, <3>1 DEF MigrateSet
    <3> QED
      BY <2>11, <3>2 DEF MigrateSet
  <2>12. CASE Disconnect(c)
    <3>1. seen[c].trips + 1 \in Nat
      BY DEF State
    <3> QED
      BY <2>12, <3>1 DEF Disconnect, GiveUpOrRetry
  <2>13. CASE LoseExecReply(c)
    <3>1. seen[c].trips + 1 \in Nat
      BY DEF State
    <3> QED
      BY <2>13, <3>1 DEF LoseExecReply, GiveUpOrRetry
  <2> QED
    BY <1>3, <2>1, <2>2, <2>3, <2>4, <2>5, <2>6, <2>7, <2>8, <2>9, <2>10,
       <2>11, <2>12, <2>13 DEF Client
<1> QED
  BY <1>1, <1>2, <1>3 DEF Next

\* The history at the start is a history.
LEMMA StartHistoryType == StartHistory \in Seq(Entries)
<1>1. \A n \in 1..StartTrips :
          [trip |-> n, reset |-> ~(StartState = "TRIPPED" /\ n = StartTrips)] \in Entries
  <2> SUFFICES ASSUME NEW n \in 1..StartTrips, NEW b \in BOOLEAN
               PROVE  [trip |-> n, reset |-> b] \in Entries
    OBVIOUS
  <2> QED
    BY StartTripsAssumption DEF Entries
<1> QED
  BY <1>1, StartTripsAssumption, IsASeq DEF StartHistory

\* The state at the start is a state.
LEMMA StartStateType == [mode |-> StartState, trips |-> StartTrips] \in State
BY StartAssumption, StartTripsAssumption DEF State, Modes

\* Every call of every client keeps the breaker's state, history and local
\* variables within their types: trip counts stay natural numbers.
THEOREM BreakerTypeCorrect == Spec => []TypeOK
<1>1. Init => TypeOK
  BY WritesAreStates, StartHistoryType, StartStateType DEF Init, TypeOK, Calls
<1> QED
  BY <1>1, TypeStep, PTL DEF Spec

-----------------------------------------------------------------------------

\* Initially nobody watches anything.
LEMMA WatchInit == Init => IInv
BY WritesAreStates, StartHistoryType, StartStateType, StartAssumption
   DEF Init, IInv, TypeOK, WatchInv, Calls, Legacy

\* Every step keeps the invariant.
LEMMA WatchStep == IInv /\ [Next]_vars => IInv'
<1> SUFFICES ASSUME IInv, [Next]_vars PROVE IInv'
  OBVIOUS
<1>0. TypeOK /\ TypeOK'
  BY TypeStep DEF IInv
<1> SUFFICES WatchInv'
  BY <1>0 DEF IInv
<1> USE <1>0
<1>1. CASE UNCHANGED vars
  BY <1>1 DEF vars, IInv, WatchInv
<1>2. CASE Flush
  BY <1>2 DEF Flush, WatchersOf, IInv, WatchInv, Watching, Missing, Legacy
<1>3. ASSUME NEW c \in Clients, Client(c) PROVE WatchInv'
  <2> USE DEF At, Forget, Return
  <2>a. ASSUME state' = state, broken' = broken \/ broken' = broken \ {c},
               \A d \in Clients \ {c} : pc'[d] = pc[d] /\ seen'[d] = seen[d],
               pc'[c] \in Calls \ {"initialize", "migrate", "tripExec", "resetExec"}
        PROVE  WatchInv'
    BY <2>a DEF IInv, WatchInv
  <2>b. ASSUME NEW new \in State, WriteState(c, new),
               new.mode \in {"OPEN", "TRIPPED"},
               \A d \in Clients \ {c} : pc'[d] = pc[d] /\ seen'[d] = seen[d],
               pc'[c] \in Calls \ {"initialize", "migrate", "tripExec", "resetExec"}
        PROVE  WatchInv'
    <3>1. state' = new
      BY <2>b DEF WriteState
    <3>2. ASSUME NEW d \in Clients \ {c}
          PROVE  pc'[d] \in Watching => d \in broken'
      BY <2>b, <3>2 DEF WriteState, WatchersOf
    <3> QED
      BY <2>b, <3>1, <3>2 DEF IInv, WatchInv, Watching
  <2>c. ASSUME NEW label \in Calls, Read(c, label),
               label = "initialize" => state.mode = "MISSING",
               label = "migrate" => state.mode = "QUIET_PERIOD",
               label = "tripExec" => state.mode \in {"OPEN", "QUIET_PERIOD"},
               label = "resetExec" => state.mode = "TRIPPED"
        PROVE  WatchInv'
    BY <2>c DEF Read, IInv, WatchInv, TypeOK
  <2> USE DEF TypeOK
  <2>1. CASE TripRead(c)
    <3>1. CASE state.mode \in {"MISSING", "TRIPPED"}
      BY <2>a, <2>1, <3>1 DEF TripRead, Calls
    <3>2. CASE state.mode \notin {"MISSING", "TRIPPED"}
      <4>1. state.mode \in {"OPEN", "QUIET_PERIOD"}
        BY <3>2 DEF State, Modes
      <4>2. Read(c, "tripExec")
        BY <2>1, <3>2 DEF TripRead
      <4> QED
        BY <2>c, <4>1, <4>2 DEF Calls, Watching
    <3> QED
      BY <3>1, <3>2
  <2>2. CASE TripExec(c)
    <3>1. CASE c \in broken
      BY <2>a, <2>2, <3>1 DEF TripExec, Calls
    <3>2. CASE c \notin broken
      <4>1. Tripped(seen[c]) \in State /\ Tripped(seen[c]).mode = "TRIPPED"
        BY WritesAreStates DEF Tripped
      <4> QED
        BY <2>b, <2>2, <3>2, <4>1 DEF TripExec, Calls
    <3> QED
      BY <3>1, <3>2
  <2>3. CASE TripAppend(c)
    BY <2>3 DEF TripAppend, WriteHistory, WatchersOf, WatchingHistory, IInv, WatchInv
  <2>4. CASE ResetRead(c)
    <3>1. CASE state.mode # "TRIPPED"
      BY <2>a, <2>4, <3>1 DEF ResetRead, Calls
    <3>2. CASE state.mode = "TRIPPED"
      BY <2>c, <2>4, <3>2 DEF ResetRead, Calls, Watching
    <3> QED
      BY <3>1, <3>2
  <2>5. CASE ResetExec(c)
    <3>1. CASE c \in broken
      BY <2>a, <2>5, <3>1 DEF ResetExec, Calls
    <3>2. CASE c \notin broken
      <4>1. Reopened(seen[c]) \in State /\ Reopened(seen[c]).mode = "OPEN"
        BY WritesAreStates DEF Reopened
      <4> QED
        BY <2>b, <2>5, <3>2, <4>1 DEF ResetExec, Calls
    <3> QED
      BY <3>1, <3>2
  <2>6. CASE StampRead(c)
    BY <2>a, <2>6 DEF StampRead, Calls, WatchingHistory
  <2>7. CASE StampExec(c)
    <3>1. CASE c \in broken
      BY <2>a, <2>7, <3>1 DEF StampExec, Calls
    <3>2. CASE c \notin broken
      BY <2>7, <3>2 DEF StampExec, WriteHistory, WatchersOf, WatchingHistory, IInv, WatchInv
    <3> QED
      BY <3>1, <3>2
  <2>8. CASE InitializeRead(c)
    BY <2>c, <2>8 DEF InitializeRead, Calls
  <2>9. CASE InitializeSet(c)
    BY <2>b, <2>9, WritesAreStates DEF InitializeSet, Calls
  <2>10. CASE MigrateRead(c)
    BY <2>c, <2>10 DEF MigrateRead, Calls
  <2>11. CASE MigrateSet(c)
    <3>1. Reopened(seen[c]) \in State /\ Reopened(seen[c]).mode = "OPEN"
      BY WritesAreStates DEF Reopened
    <3> QED
      BY <2>b, <2>11, <3>1 DEF MigrateSet, Calls
  <2>12. CASE Disconnect(c)
    BY <2>a, <2>12 DEF Disconnect, GiveUpOrRetry, Calls
  <2>13. CASE LoseExecReply(c)
    <3> DEFINE new == IF pc[c] = "tripExec" THEN Tripped(seen[c]) ELSE Reopened(seen[c])
    <3>1. new \in State /\ new.mode \in {"OPEN", "TRIPPED"}
      BY WritesAreStates DEF Tripped, Reopened
    <3>2. WriteState(c, new)
      BY <2>13 DEF LoseExecReply
    <3>3. /\ \A d \in Clients \ {c} : pc'[d] = pc[d] /\ seen'[d] = seen[d]
          /\ pc'[c] \in Calls \ {"initialize", "migrate", "tripExec", "resetExec"}
      BY <2>13 DEF LoseExecReply, GiveUpOrRetry, Calls
    <3> HIDE DEF new
    <3> QED
      BY <2>b, <3>1, <3>2, <3>3
  <2> HIDE DEF At, Forget, Return, TypeOK
  <2> QED
    BY <1>3, <2>1, <2>2, <2>3, <2>4, <2>5, <2>6, <2>7, <2>8, <2>9, <2>10,
       <2>11, <2>12, <2>13 DEF Client
<1> QED
  BY <1>1, <1>2, <1>3 DEF Next

\* Under the invariant, every step is a step of the atomic breaker or leaves
\* the state alone.
LEMMA StepIsAtomic ==
    IInv /\ [Next]_vars => [Atomic!AtomicNext]_<<state, overwriter>>
<1> SUFFICES ASSUME IInv, Next
             PROVE  Atomic!AtomicNext \/ UNCHANGED <<state, overwriter>>
  BY DEF vars
<1> USE DEF Atomic!AtomicNext
<1>1. CASE Flush
  BY <1>1 DEF Flush, Atomic!Flush, Missing
<1>2. ASSUME NEW c \in Clients, Client(c)
      PROVE  Atomic!AtomicNext \/ UNCHANGED <<state, overwriter>>
  <2>1. ASSUME pc[c] = "tripExec", c \notin broken, WriteState(c, Tripped(seen[c]))
        PROVE  Atomic!Trip
    BY <2>1 DEF IInv, WatchInv, Atomic!Trip, Tripped, WriteState, Watching
  <2>2. ASSUME pc[c] = "resetExec", c \notin broken, WriteState(c, Reopened(seen[c]))
        PROVE  Atomic!Reset
    BY <2>2 DEF IInv, WatchInv, Atomic!Reset, Reopened, WriteState, Watching
  <2>3. CASE TripExec(c)
    BY <2>1, <2>3 DEF TripExec
  <2>4. CASE ResetExec(c)
    BY <2>2, <2>4 DEF ResetExec
  <2>5. CASE LoseExecReply(c)
    BY <2>1, <2>2, <2>5 DEF LoseExecReply, Watching
  <2>6. CASE InitializeSet(c)
    <3>1. seen[c] = Missing /\ overwriter' = IF seen[c] # state THEN {c} ELSE {}
      BY <2>6 DEF InitializeSet, WriteState, Watching, IInv, WatchInv
    <3>2. state' = [mode |-> "OPEN", trips |-> 0]
      BY <2>6 DEF InitializeSet, WriteState
    <3> QED
      BY <3>1, <3>2 DEF Atomic!Initialize, Atomic!Overwrite, Missing
  <2>7. CASE MigrateSet(c)
    <3>1. seen[c] = Legacy /\ overwriter' = IF seen[c] # state THEN {c} ELSE {}
      BY <2>7 DEF MigrateSet, WriteState, Watching, IInv, WatchInv
    <3>2. state' = [mode |-> "OPEN", trips |-> StartTrips]
      BY <2>7, <3>1 DEF MigrateSet, WriteState, Reopened, Legacy
    <3> QED
      BY <3>1, <3>2 DEF Atomic!Migrate, Atomic!Overwrite, Legacy
  <2>8. CASE \/ TripRead(c) \/ TripAppend(c) \/ ResetRead(c) \/ StampRead(c)
             \/ StampExec(c) \/ InitializeRead(c) \/ MigrateRead(c) \/ Disconnect(c)
    BY <2>8 DEF TripRead, TripAppend, ResetRead, StampRead, StampExec, InitializeRead,
                MigrateRead, Disconnect, Read, ghostVars
  <2> QED
    BY <1>2, <2>3, <2>4, <2>5, <2>6, <2>7, <2>8 DEF Client
<1> QED
  BY <1>1, <1>2 DEF Next

\* The refinement: _trip_transaction and _reset_transaction, retried on
\* WatchError and on lost replies by any number of clients while Redis may lose
\* its keys, are the atomic transitions the breaker documents; initialize_state
\* and migrate_legacy_quiet_period_state are too, unless they come too late.
THEOREM BreakerIsAtomic == Spec => AtomicBreakerSpec
<1>1. Init => Atomic!AtomicInit
  BY DEF Init, Atomic!AtomicInit
<1> QED
  BY <1>1, StepIsAtomic, WatchInit, WatchStep, PTL
     DEF Spec, AtomicBreakerSpec, Atomic!AtomicSpec

-----------------------------------------------------------------------------

Recorded(n) == \E i \in DOMAIN history : history[i].trip = n
AboutToRecord(n) == \E c \in Clients : pc[c] = "append" /\ seen[c].trips + 1 = n

\* An appended entry records its trip and loses no other.
LEMMA AppendRecords ==
    ASSUME history \in Seq(Entries), NEW k \in Nat,
           history' = Append(history, [trip |-> k, reset |-> FALSE])
    PROVE  Recorded(k)' /\ \A n \in Nat : Recorded(n) => Recorded(n)'
<1> DEFINE e == [trip |-> k, reset |-> FALSE]
<1>0. e \in Entries /\ e.trip = k /\ history' = Append(history, e)
  BY DEF Entries
<1> HIDE DEF e
<1>1. /\ history' \in Seq(Entries)
      /\ Len(history') = Len(history) + 1
      /\ history'[Len(history) + 1] = e
      /\ \A i \in 1..Len(history) : history'[i] = history[i]
  BY <1>0
<1>2. Len(history) \in Nat /\ DOMAIN history = 1..Len(history)
      /\ DOMAIN history' = 1..(Len(history) + 1)
  BY <1>1
<1> QED
  BY <1>0, <1>1, <1>2 DEF Recorded

\* Stamping an entry keeps every trip recorded.
LEMMA StampRecords ==
    ASSUME history \in Seq(Entries),
           history' = [history EXCEPT ![Len(history)] = Stamped(@)]
    PROVE  \A n \in Nat : Recorded(n) => Recorded(n)'
<1>1. DOMAIN history' = DOMAIN history
  OBVIOUS
<1>2. \A i \in DOMAIN history : history'[i].trip = history[i].trip
  BY DEF Stamped
<1> QED
  BY <1>1, <1>2 DEF Recorded

\* Every step keeps the trips recorded.
LEMMA RecordedStep == IInv /\ TripsRecorded /\ [Next]_vars => TripsRecorded'
<1> SUFFICES ASSUME IInv, TripsRecorded, [Next]_vars PROVE TripsRecorded'
  OBVIOUS
<1> USE DEF IInv, TypeOK
<1>0. state.trips \in Nat /\ \A c \in Clients : seen[c].trips \in Nat
  BY DEF State
<1>1. CASE UNCHANGED vars
  BY <1>1 DEF vars, TripsRecorded
<1>2. CASE Flush
  BY <1>2 DEF Flush, Missing, TripsRecorded
<1>3. ASSUME NEW c \in Clients, Client(c) PROVE TripsRecorded'
  <2> USE DEF At, Forget, Return
  <2>a. \A n \in 1..state.trips : Recorded(n) \/ AboutToRecord(n) \/ n \in unlogged \union restored
    BY DEF TripsRecorded, Recorded, AboutToRecord
  <2>b. SUFFICES \A n \in 1..state'.trips :
                     Recorded(n)' \/ AboutToRecord(n)' \/ n \in (unlogged \union restored)'
    BY DEF TripsRecorded, Recorded, AboutToRecord
  <2>c. ASSUME \A d \in Clients \ {c} : pc'[d] = pc[d] /\ seen'[d] = seen[d],
               NEW n \in Nat, AboutToRecord(n),
               pc[c] # "append" \/ seen[c].trips + 1 # n
        PROVE  AboutToRecord(n)'
    BY <2>c DEF AboutToRecord
  <2>d. ASSUME history' = history, NEW n \in Nat, Recorded(n) PROVE Recorded(n)'
    BY <2>d DEF Recorded
  <2>e. ASSUME state' = state \/ state'.trips = 0, history' = history,
               state'.trips = 0 \/ (unlogged' = unlogged /\ restored' = restored),
               \A d \in Clients \ {c} : pc'[d] = pc[d] /\ seen'[d] = seen[d],
               pc[c] # "append"
        PROVE  \A n \in 1..state'.trips :
                   Recorded(n)' \/ AboutToRecord(n)' \/ n \in (unlogged \union restored)'
    BY <1>0, <2>a, <2>c, <2>d, <2>e
  <2>f. ASSUME pc[c] = "tripExec", c \notin broken, state' = Tripped(seen[c]),
               history' = history, unlogged \subseteq unlogged', restored' = restored,
               \A d \in Clients \ {c} : pc'[d] = pc[d] /\ seen'[d] = seen[d],
               NEW k \in Nat, k = seen[c].trips + 1,
               AboutToRecord(k)' \/ k \in (unlogged \union restored)'
        PROVE  \A n \in 1..state'.trips :
                   Recorded(n)' \/ AboutToRecord(n)' \/ n \in (unlogged \union restored)'
    <3>1. seen[c] = state /\ state'.trips = state.trips + 1
      BY <2>f DEF WatchInv, Tripped
    <3>2. \A n \in 1..state'.trips : n \in 1..state.trips \/ n = k
      BY <1>0, <2>f, <3>1
    <3>3. ASSUME NEW n \in 1..state.trips
          PROVE  Recorded(n)' \/ AboutToRecord(n)' \/ n \in (unlogged \union restored)'
      <4>1. n \in Nat
        BY <1>0
      <4>2. AboutToRecord(n) => AboutToRecord(n)'
        BY <2>c, <2>f, <4>1
      <4> QED
        BY <2>a, <2>d, <2>f, <4>1, <4>2
    <3> QED
      BY <2>f, <3>2, <3>3
  <2>g. ASSUME pc[c] = "resetExec", c \notin broken, state' = Reopened(seen[c]),
               history' = history, unlogged' = unlogged, restored' = restored,
               \A d \in Clients \ {c} : pc'[d] = pc[d] /\ seen'[d] = seen[d]
        PROVE  \A n \in 1..state'.trips :
                   Recorded(n)' \/ AboutToRecord(n)' \/ n \in (unlogged \union restored)'
    <3>1. state'.trips = state.trips
      BY <2>g DEF WatchInv, Reopened
    <3> QED
      BY <1>0, <2>a, <2>c, <2>d, <2>g, <3>1
  <2>1. CASE TripRead(c) \/ ResetRead(c) \/ InitializeRead(c) \/ MigrateRead(c)
    BY <2>1, <2>e DEF TripRead, ResetRead, InitializeRead, MigrateRead, Read, ghostVars
  <2>2. CASE TripExec(c)
    <3>1. CASE c \in broken
      BY <2>2, <2>e, <3>1 DEF TripExec
    <3>2. CASE c \notin broken
      <4>1. PICK k \in Nat : k = seen[c].trips + 1
        BY <1>0
      <4>2. AboutToRecord(k)'
        BY <2>2, <3>2, <4>1 DEF TripExec, AboutToRecord
      <4> QED
        BY <2>2, <2>f, <3>2, <4>1, <4>2 DEF TripExec, WriteState
    <3> QED
      BY <3>1, <3>2
  <2>3. CASE TripAppend(c)
    <3>1. PICK k \in Nat : k = seen[c].trips + 1
      BY <1>0
    <3>2. history' = Append(history, [trip |-> k, reset |-> FALSE])
      BY <2>3, <3>1 DEF TripAppend, WriteHistory
    <3>3. Recorded(k)' /\ \A n \in Nat : Recorded(n) => Recorded(n)'
      BY <3>2, AppendRecords
    <3>4. /\ state' = state /\ unlogged' = unlogged /\ restored' = restored
          /\ \A d \in Clients \ {c} : pc'[d] = pc[d] /\ seen'[d] = seen[d]
      BY <2>3 DEF TripAppend, ghostVars
    <3>5. ASSUME NEW n \in 1..state.trips
          PROVE  Recorded(n)' \/ AboutToRecord(n)' \/ n \in (unlogged \union restored)'
      <4>1. n \in Nat
        BY <1>0
      <4>2. n # k /\ AboutToRecord(n) => AboutToRecord(n)'
        BY <2>c, <3>1, <3>4, <4>1
      <4> QED
        BY <2>a, <3>3, <3>4, <4>1, <4>2
    <3> QED
      BY <3>4, <3>5
  <2>4. CASE ResetExec(c)
    <3>1. CASE c \in broken
      BY <2>4, <2>e, <3>1 DEF ResetExec
    <3>2. CASE c \notin broken
      BY <2>4, <2>g, <3>2 DEF ResetExec, WriteState
    <3> QED
      BY <3>1, <3>2
  <2>5. CASE StampRead(c)
    BY <2>5, <2>e DEF StampRead, ghostVars
  <2>6. CASE StampExec(c)
    <3>1. \A n \in Nat : Recorded(n) => Recorded(n)'
      BY <2>6, <2>d, StampRecords DEF StampExec, WriteHistory
    <3>2. /\ state' = state /\ unlogged' = unlogged /\ restored' = restored /\ pc[c] # "append"
          /\ \A d \in Clients \ {c} : pc'[d] = pc[d] /\ seen'[d] = seen[d]
      BY <2>6 DEF StampExec, ghostVars
    <3> QED
      BY <1>0, <2>a, <2>c, <3>1, <3>2
  <2>7. CASE InitializeSet(c)
    BY <2>7, <2>e DEF InitializeSet, WriteState
  <2>8. CASE MigrateSet(c)
    <3>1. /\ state'.trips = seen[c].trips /\ history' = history
          /\ unlogged' = unlogged /\ pc[c] # "append"
          /\ \A d \in Clients \ {c} : pc'[d] = pc[d] /\ seen'[d] = seen[d]
      BY <2>8 DEF MigrateSet, WriteState, Reopened
    <3>2. restored' = IF seen[c] # state THEN 1..seen[c].trips ELSE restored
      BY <2>8 DEF MigrateSet
    <3>3. CASE seen[c] # state
      BY <3>1, <3>2, <3>3
    <3>4. CASE seen[c] = state
      BY <1>0, <2>a, <2>c, <2>d, <3>1, <3>2, <3>4
    <3> QED
      BY <3>3, <3>4
  <2>9. CASE Disconnect(c)
    <3>1. /\ state' = state /\ history' = history /\ restored' = restored
          /\ \A d \in Clients \ {c} : pc'[d] = pc[d] /\ seen'[d] = seen[d]
      BY <2>9 DEF Disconnect, GiveUpOrRetry
    <3>2. unlogged' = IF pc[c] = "append" THEN unlogged \union {seen[c].trips + 1} ELSE unlogged
      BY <2>9 DEF Disconnect
    <3> QED
      BY <1>0, <2>a, <2>c, <2>d, <3>1, <3>2
  <2>10. CASE LoseExecReply(c)
    <3>1. /\ history' = history /\ restored' = restored
          /\ \A d \in Clients \ {c} : pc'[d] = pc[d] /\ seen'[d] = seen[d]
      BY <2>10 DEF LoseExecReply, GiveUpOrRetry
    <3>2. CASE pc[c] = "tripExec"
      <4>1. PICK k \in Nat : k = seen[c].trips + 1
        BY <1>0
      <4> QED
        BY <2>10, <2>f, <3>1, <3>2, <4>1 DEF LoseExecReply, WriteState
    <3>3. CASE pc[c] = "resetExec"
      BY <2>10, <2>g, <3>1, <3>3 DEF LoseExecReply, WriteState
    <3> QED
      BY <2>10, <3>2, <3>3 DEF LoseExecReply, Watching
  <2> HIDE DEF At, Forget, Return, TypeOK, IInv
  <2> QED
    BY <1>3, <2>1, <2>2, <2>3, <2>4, <2>5, <2>6, <2>7, <2>8, <2>9, <2>10 DEF Client
<1> QED
  BY <1>1, <1>2, <1>3 DEF Next

\* The history at the start records the trips counted then.
LEMMA StartRecorded == Init => TripsRecorded
<1> SUFFICES ASSUME Init, NEW n \in 1..StartTrips
             PROVE  \E i \in DOMAIN history : history[i].trip = n
  BY DEF Init, TripsRecorded
<1>1. DOMAIN history = 1..StartTrips /\ history[n].trip = n
  BY DEF Init, StartHistory
<1> QED
  BY <1>1

\* The trip history is complete: whatever clients do in between, a trip the
\* state counts has its entry or a client about to append it, unless the client
\* was told of an error by _trip_transaction or _append_to_history, or a late
\* migrate_legacy_quiet_period_state wrote the count back.
THEOREM TripsAreRecorded == Spec => []TripsRecorded
<1>1. Init => IInv /\ TripsRecorded
  BY WatchInit, StartRecorded
<1>2. IInv /\ TripsRecorded /\ [Next]_vars => IInv' /\ TripsRecorded'
  BY WatchStep, RecordedStep
<1> QED
  BY <1>1, <1>2, PTL DEF Spec
==============================================================================
