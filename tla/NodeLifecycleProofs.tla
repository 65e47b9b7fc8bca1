------------------------- MODULE NodeLifecycleProofs -------------------------
(***************************************************************************)
(* The safety of starting, stopping and restarting the node, for any       *)
(* number of generations and interrupts.                                   *)
(***************************************************************************)
EXTENDS NodeLifecycle, FiniteSetTheorems, TLAPS

-----------------------------------------------------------------------------
(* The inductive invariant.                                                 *)

InStart == {"databases", "server", "go", "running", "resend", "notify"}
InStop == {"server", "databases", "wait"}

\* No node is running and no goroutine is in the middle of Start or Stop.
Down == mutex = Nobody /\ isRunning = FALSE

\* badger's directory lock has not been met.
NoLockPanic == process # "locked out"

\* runningMutex is held exactly where the code is between Lock and Unlock.
MutexIsHeld ==
  /\ \A g \in Gens : starter[g] \in InStart <=> mutex = Starter(g)
  /\ \A x \in Stoppers : stopper[x] \in InStop <=> mutex = x

\* isRunning, where a goroutine's position tells it.
RunningFlag ==
  /\ \A g \in Gens :
       /\ starter[g] \in {"databases", "server", "go", "running"} =>
            isRunning = FALSE
       /\ starter[g] \in {"resend", "notify"} => isRunning = TRUE
       /\ starter[g] = "spawned" => Down
  /\ \A x \in Stoppers : stopper[x] \in InStop => isRunning = FALSE

\* A generation is started by the listener of the one before, which has
\* stopped that one; so only one generation at a time is not over.
OneGeneration ==
  /\ \A g, h \in Gens : h < g /\ starter[g] # "none" =>
       starter[h] = "done" /\ listener[h] = "done"
  /\ \A g \in Gens :
       /\ listener[g] # "none" => starter[g] \notin {"none", "spawned"}
       /\ handler[g] # "none" => starter[g] = "done" /\ g \in notified
       /\ stopper[Listener(g)] # "out" => listener[g] = "stopping"
       /\ stopper[Handler(g)] # "out" => handler[g] = "stopping" /\ signals > 0
       /\ stopper[Listener(g)] = "returned" \/ listener[g] = "restart" =>
            Down /\ starter[g] = "done"

\* The handles, where a goroutine's position tells them.
Handles ==
  /\ \A g \in Gens :
       /\ starter[g] \in InStart \ {"databases"} => current = g
       /\ starter[g] = "databases" => open = {}
  /\ Down => open = {}
  /\ \/ isRunning = TRUE
     \/ \E g \in Gens : starter[g] \in InStart \ {"databases"}
     \/ \E x \in Stoppers : stopper[x] \in {"server", "databases"}
     => current \in Gens /\ open = {current} \X Dirs
  /\ \A x \in Stoppers : stopper[x] = "wait" =>
       closing = open /\ open \subseteq {current} \X Dirs
  /\ closing # {} => \E x \in Stoppers : stopper[x] = "wait"
  /\ stopWaitGroup = Cardinality(closing)

\* A started server is the current one, and its Stop has not been called.
StartedServer ==
  \A g \in Gens : server[g] = "started" =>
    /\ current = g
    /\ \/ starter[g] = "running"
       \/ isRunning = TRUE
       \/ \E x \in Stoppers : stopper[x] = "server"

\* The exit channel of the generation that runs is in the field and open.
ExitChannel ==
  /\ Down => internalExitChan = Nil
  /\ \A g \in Gens :
       /\ starter[g] \in InStart => internalExitChan = g
       /\ internalExitChan = g =>
            /\ starter[g] \notin {"none", "spawned"}
            /\ g \notin closed
            /\ \A h \in Gens : h > g => starter[h] = "none"
       /\ g \in closed => starter[g] = "done"
  /\ isRunning = TRUE => internalExitChan = current

\* A signal goroutine waits on a channel of its own generation or a later one.
HandlerWaits ==
  \A g, h \in Gens : waitsOn[Handler(h)] = g =>
    h =< g /\ starter[g] \notin {"none", "spawned"}

\* A message that was received finds the node running or about to be.
ReceivedWhileRunning ==
  /\ signals = 0 => \A g \in Gens : listener[g] = "received" =>
       isRunning = TRUE \/ \E h \in Gens : starter[h] = "running"
  /\ process = "assertion" =>
       signals > 0 \/ \E h \in Gens : starter[h] = "running"

IInv == /\ TypeOK
        /\ NoLockPanic
        /\ MutexIsHeld
        /\ RunningFlag
        /\ OneGeneration
        /\ Handles
        /\ StartedServer
        /\ ExitChannel
        /\ HandlerWaits
        /\ ReceivedWhileRunning

\* The positions and sequences of variables that every step mentions.
USE DEF Gens, Nil, Up, InStart, InStop, Down,
        StarterAt, StopperAt, ListenerAt, HandlerAt, Receive,
        progress, fields, contents, handles, channels, outside

-----------------------------------------------------------------------------
(* Goroutines have names of their own.                                      *)

LEMMA Names ==
  /\ \A g, h \in Gens : /\ Listener(g) = Listener(h) => g = h
                        /\ Handler(g) = Handler(h) => g = h
                        /\ Starter(g) = Starter(h) => g = h
                        /\ Listener(g) # Handler(h)
  /\ \A g \in Gens : /\ Listener(g) \in Stoppers
                     /\ Handler(g) \in Stoppers
                     /\ Starter(g) # Nobody
                     /\ \A x \in Stoppers : Starter(g) # x
  /\ \A x \in Stoppers : /\ x # Nobody
                         /\ \E g \in Gens : x = Listener(g) \/ x = Handler(g)
BY DEF Listener, Handler, Starter, Stoppers, Nobody

LEMMA PairCardinality ==
  ASSUME NEW a, NEW b, a # b
  PROVE  IsFiniteSet({a, b}) /\ Cardinality({a, b}) = 2
<1>1. {a, b} = {a} \cup {b}
  OBVIOUS
<1>2. IsFiniteSet({a}) /\ Cardinality({a}) = 1 /\ b \notin {a}
  BY FS_Singleton
<1>3. /\ IsFiniteSet({a} \cup {b})
      /\ Cardinality({a} \cup {b}) = Cardinality({a}) + 1
  BY <1>2, FS_AddElement
<1> QED BY <1>1, <1>2, <1>3

LEMMA DirsCardinality == IsFiniteSet(Dirs) /\ Cardinality(Dirs) = 2
BY PairCardinality, "chain" # "index" DEF Dirs

\* The handles of one generation.
LEMMA HandleSets ==
  ASSUME NEW g
  PROVE  /\ Cardinality(Dirs) \in Nat
         /\ Cardinality({g} \X Dirs) = Cardinality(Dirs)
         /\ \A S \in SUBSET ({g} \X Dirs) :
              IsFiniteSet(S) /\ Cardinality(S) \in 0..Cardinality(Dirs)
<1>1. IsFiniteSet(Dirs) /\ Cardinality(Dirs) = 2
  BY DirsCardinality
<1>2. {g} \X Dirs = {<<g, "chain">>, <<g, "index">>}
  BY DEF Dirs
<1>3. IsFiniteSet({g} \X Dirs) /\ Cardinality({g} \X Dirs) = 2
  BY <1>2, PairCardinality, <<g, "chain">> # <<g, "index">>
<1> QED BY <1>1, <1>3, FS_Subset, FS_CardinalityType

-----------------------------------------------------------------------------
(* The steps of Start.                                                      *)

LEMMA StartLockedStep ==
  ASSUME IInv, NEW g \in Gens, StartLocked(g)
  PROVE  IInv'
<1>1. TypeOK'
  BY Names DEF StartLocked, IInv, TypeOK
<1>2. MutexIsHeld'
  BY Names DEF StartLocked, IInv, TypeOK, MutexIsHeld
<1>3. RunningFlag'
  BY Names DEF StartLocked, IInv, TypeOK, MutexIsHeld, OneGeneration,
               RunningFlag
<1>4. OneGeneration'
  <2>1. listener[g] = "none" /\ stopper[Listener(g)] = "out"
    BY DEF StartLocked, IInv, TypeOK, OneGeneration
  <2>2. \A h \in Gens : /\ stopper[Listener(h)] # "returned"
                        /\ listener[h] # "restart"
    <3> TAKE h \in Gens
    <3>1. CASE h < g
      BY <3>1 DEF StartLocked, IInv, OneGeneration
    <3>2. CASE h = g
      BY <2>1, <3>2
    <3>3. CASE h > g
      BY <3>3 DEF StartLocked, IInv, OneGeneration
    <3> QED BY <3>1, <3>2, <3>3, StartsAssumption
  <2>3. \A h, k \in Gens : h < k /\ starter'[k] # "none" =>
          starter'[h] = "done" /\ listener'[h] = "done"
    BY DEF StartLocked, IInv, TypeOK, OneGeneration
  <2> QED BY <2>1, <2>2, <2>3, Names
          DEF StartLocked, IInv, TypeOK, MutexIsHeld, OneGeneration
<1>5. Handles'
  BY Names DEF StartLocked, IInv, TypeOK, MutexIsHeld, RunningFlag, Handles
<1>6. StartedServer'
  BY Names DEF StartLocked, IInv, TypeOK, MutexIsHeld, RunningFlag, Handles,
               StartedServer
<1>7. ExitChannel'
  BY Names DEF StartLocked, IInv, TypeOK, MutexIsHeld, RunningFlag,
               OneGeneration, Handles, ExitChannel
<1>8. HandlerWaits'
  BY Names DEF StartLocked, IInv, TypeOK, ExitChannel, OneGeneration,
               HandlerWaits
<1>9. ReceivedWhileRunning'
  BY Names DEF StartLocked, IInv, TypeOK, MutexIsHeld, RunningFlag,
               OneGeneration, StartedServer, ReceivedWhileRunning
<1>10. NoLockPanic'
  BY DEF StartLocked, IInv, NoLockPanic
<1> QED BY <1>1, <1>2, <1>3, <1>4, <1>5, <1>6, <1>7, <1>8, <1>9,
           <1>10 DEF IInv

LEMMA OpenDatabasesStep ==
  ASSUME IInv, NEW g \in Gens, OpenDatabases(g)
  PROVE  IInv'
<1>0. /\ open = {} /\ StarterAt(g, "databases", "server") /\ current' = g
      /\ open' = {g} \X Dirs
      /\ UNCHANGED << listener, handler, stopper, fields, shouldRestart,
                      server, closing, stopWaitGroup, channels, outside >>
  <2>1. starter[g] = "databases"
    BY DEF OpenDatabases
  <2>2. open = {}
    BY <2>1 DEF IInv, Handles
  <2> QED BY <2>2 DEF OpenDatabases
<1>1. TypeOK'
  BY <1>0 DEF IInv, TypeOK
<1>2. MutexIsHeld'
  BY <1>0, Names DEF IInv, TypeOK, MutexIsHeld
<1>3. RunningFlag'
  BY <1>0, Names DEF IInv, TypeOK, MutexIsHeld, RunningFlag
<1>4. OneGeneration'
  BY <1>0 DEF IInv, TypeOK, OneGeneration
<1>5. Handles'
  BY <1>0, Names DEF IInv, TypeOK, MutexIsHeld, RunningFlag, Handles
<1>6. StartedServer'
  BY <1>0, Names DEF IInv, TypeOK, MutexIsHeld, RunningFlag, StartedServer
<1>7. ExitChannel'
  BY <1>0, Names DEF IInv, TypeOK, MutexIsHeld, RunningFlag, ExitChannel
<1>8. HandlerWaits'
  BY <1>0 DEF IInv, TypeOK, HandlerWaits
<1>9. ReceivedWhileRunning'
  BY <1>0 DEF IInv, TypeOK, ReceivedWhileRunning
<1>10. NoLockPanic'
  BY <1>0 DEF IInv, NoLockPanic
<1> QED BY <1>1, <1>2, <1>3, <1>4, <1>5, <1>6, <1>7, <1>8, <1>9,
           <1>10 DEF IInv

LEMMA NewServerStep ==
  ASSUME IInv, NEW g \in Gens, NewServer(g)
  PROVE  IInv'
<1>1. TypeOK'
  BY Names DEF NewServer, IInv, TypeOK
<1>2. MutexIsHeld'
  BY Names DEF NewServer, IInv, TypeOK, MutexIsHeld
<1>3. RunningFlag'
  BY Names DEF NewServer, IInv, TypeOK, MutexIsHeld, OneGeneration,
               RunningFlag
<1>4. OneGeneration'
  BY Names DEF NewServer, IInv, TypeOK, MutexIsHeld, RunningFlag,
               OneGeneration
<1>5. Handles'
  BY Names DEF NewServer, IInv, TypeOK, MutexIsHeld, RunningFlag, Handles
<1>6. StartedServer'
  BY Names DEF NewServer, IInv, TypeOK, MutexIsHeld, RunningFlag, Handles,
               StartedServer
<1>7. ExitChannel'
  BY Names DEF NewServer, IInv, TypeOK, MutexIsHeld, RunningFlag,
               OneGeneration, Handles, ExitChannel
<1>8. HandlerWaits'
  BY Names DEF NewServer, IInv, TypeOK, ExitChannel, OneGeneration,
               HandlerWaits
<1>9. ReceivedWhileRunning'
  BY Names DEF NewServer, IInv, TypeOK, MutexIsHeld, RunningFlag,
               OneGeneration, StartedServer, ReceivedWhileRunning
<1>10. NoLockPanic'
  BY DEF NewServer, IInv, NoLockPanic
<1> QED BY <1>1, <1>2, <1>3, <1>4, <1>5, <1>6, <1>7, <1>8, <1>9,
           <1>10 DEF IInv

LEMMA StartServerStep ==
  ASSUME IInv, NEW g \in Gens, StartServer(g)
  PROVE  IInv'
<1>1. TypeOK'
  BY Names DEF StartServer, IInv, TypeOK
<1>2. MutexIsHeld'
  BY Names DEF StartServer, IInv, TypeOK, MutexIsHeld
<1>3. RunningFlag'
  BY Names DEF StartServer, IInv, TypeOK, MutexIsHeld, OneGeneration,
               RunningFlag
<1>4. OneGeneration'
  BY Names DEF StartServer, IInv, TypeOK, MutexIsHeld, RunningFlag,
               OneGeneration
<1>5. Handles'
  BY Names DEF StartServer, IInv, TypeOK, MutexIsHeld, RunningFlag, Handles
<1>6. StartedServer'
  BY Names DEF StartServer, IInv, TypeOK, MutexIsHeld, RunningFlag, Handles,
               StartedServer
<1>7. ExitChannel'
  BY Names DEF StartServer, IInv, TypeOK, MutexIsHeld, RunningFlag,
               OneGeneration, Handles, ExitChannel
<1>8. HandlerWaits'
  BY Names DEF StartServer, IInv, TypeOK, ExitChannel, OneGeneration,
               HandlerWaits
<1>9. ReceivedWhileRunning'
  BY Names DEF StartServer, IInv, TypeOK, MutexIsHeld, RunningFlag,
               OneGeneration, StartedServer, ReceivedWhileRunning
<1>10. NoLockPanic'
  BY DEF StartServer, IInv, NoLockPanic
<1> QED BY <1>1, <1>2, <1>3, <1>4, <1>5, <1>6, <1>7, <1>8, <1>9,
           <1>10 DEF IInv

LEMMA SetRunningStep ==
  ASSUME IInv, NEW g \in Gens, SetRunning(g)
  PROVE  IInv'
<1>1. TypeOK'
  BY Names DEF SetRunning, IInv, TypeOK
<1>2. MutexIsHeld'
  BY Names DEF SetRunning, IInv, TypeOK, MutexIsHeld
<1>3. RunningFlag'
  BY Names DEF SetRunning, IInv, TypeOK, MutexIsHeld, OneGeneration,
               RunningFlag
<1>4. OneGeneration'
  BY Names DEF SetRunning, IInv, TypeOK, MutexIsHeld, RunningFlag,
               OneGeneration
<1>5. Handles'
  BY Names DEF SetRunning, IInv, TypeOK, MutexIsHeld, RunningFlag, Handles
<1>6. StartedServer'
  BY Names DEF SetRunning, IInv, TypeOK, MutexIsHeld, RunningFlag, Handles,
               StartedServer
<1>7. ExitChannel'
  BY Names DEF SetRunning, IInv, TypeOK, MutexIsHeld, RunningFlag,
               OneGeneration, Handles, ExitChannel
<1>8. HandlerWaits'
  BY Names DEF SetRunning, IInv, TypeOK, ExitChannel, OneGeneration,
               HandlerWaits
<1>9. ReceivedWhileRunning'
  BY Names DEF SetRunning, IInv, TypeOK, MutexIsHeld, RunningFlag,
               OneGeneration, StartedServer, ReceivedWhileRunning
<1>10. NoLockPanic'
  BY DEF SetRunning, IInv, NoLockPanic
<1> QED BY <1>1, <1>2, <1>3, <1>4, <1>5, <1>6, <1>7, <1>8, <1>9,
           <1>10 DEF IInv

LEMMA SendRestartStep ==
  ASSUME IInv, NEW g \in Gens, SendRestart(g)
  PROVE  IInv'
<1>1. TypeOK'
  BY Names DEF SendRestart, IInv, TypeOK
<1>2. MutexIsHeld'
  BY Names DEF SendRestart, IInv, TypeOK, MutexIsHeld
<1>3. RunningFlag'
  BY Names DEF SendRestart, IInv, TypeOK, MutexIsHeld, OneGeneration,
               RunningFlag
<1>4. OneGeneration'
  BY Names DEF SendRestart, IInv, TypeOK, MutexIsHeld, RunningFlag,
               OneGeneration
<1>5. Handles'
  BY Names DEF SendRestart, IInv, TypeOK, MutexIsHeld, RunningFlag, Handles
<1>6. StartedServer'
  BY Names DEF SendRestart, IInv, TypeOK, MutexIsHeld, RunningFlag, Handles,
               StartedServer
<1>7. ExitChannel'
  BY Names DEF SendRestart, IInv, TypeOK, MutexIsHeld, RunningFlag,
               OneGeneration, Handles, ExitChannel
<1>8. HandlerWaits'
  BY Names DEF SendRestart, IInv, TypeOK, ExitChannel, OneGeneration,
               HandlerWaits
<1>9. ReceivedWhileRunning'
  BY Names DEF SendRestart, IInv, TypeOK, MutexIsHeld, RunningFlag,
               OneGeneration, StartedServer, ReceivedWhileRunning
<1>10. NoLockPanic'
  BY DEF SendRestart, IInv, NoLockPanic
<1> QED BY <1>1, <1>2, <1>3, <1>4, <1>5, <1>6, <1>7, <1>8, <1>9,
           <1>10 DEF IInv

LEMMA FinishStartStep ==
  ASSUME IInv, NEW g \in Gens, FinishStart(g)
  PROVE  IInv'
<1>1. TypeOK'
  BY Names DEF FinishStart, IInv, TypeOK
<1>2. MutexIsHeld'
  BY Names DEF FinishStart, IInv, TypeOK, MutexIsHeld
<1>3. RunningFlag'
  BY Names DEF FinishStart, IInv, TypeOK, MutexIsHeld, OneGeneration,
               RunningFlag
<1>4. OneGeneration'
  BY Names DEF FinishStart, IInv, TypeOK, MutexIsHeld, RunningFlag,
               OneGeneration
<1>5. Handles'
  BY Names DEF FinishStart, IInv, TypeOK, MutexIsHeld, RunningFlag, Handles
<1>6. StartedServer'
  BY Names DEF FinishStart, IInv, TypeOK, MutexIsHeld, RunningFlag, Handles,
               StartedServer
<1>7. ExitChannel'
  BY Names DEF FinishStart, IInv, TypeOK, MutexIsHeld, RunningFlag,
               OneGeneration, Handles, ExitChannel
<1>8. HandlerWaits'
  BY Names DEF FinishStart, IInv, TypeOK, ExitChannel, OneGeneration,
               HandlerWaits
<1>9. ReceivedWhileRunning'
  BY Names DEF FinishStart, IInv, TypeOK, MutexIsHeld, RunningFlag,
               OneGeneration, StartedServer, ReceivedWhileRunning
<1>10. NoLockPanic'
  BY DEF FinishStart, IInv, NoLockPanic
<1> QED BY <1>1, <1>2, <1>3, <1>4, <1>5, <1>6, <1>7, <1>8, <1>9,
           <1>10 DEF IInv

-----------------------------------------------------------------------------
(* The steps of Stop.                                                       *)

LEMMA StopLockedStep ==
  ASSUME IInv, NEW x \in Stoppers, StopLocked(x)
  PROVE  IInv'
<1>1. TypeOK'
  BY Names DEF StopLocked, IInv, TypeOK
<1>2. MutexIsHeld'
  BY Names DEF StopLocked, IInv, TypeOK, MutexIsHeld
<1>3. RunningFlag'
  BY Names DEF StopLocked, IInv, TypeOK, MutexIsHeld, OneGeneration,
               RunningFlag
<1>4. OneGeneration'
  BY Names DEF StopLocked, IInv, TypeOK, MutexIsHeld, RunningFlag,
               OneGeneration
<1>5. Handles'
  BY Names DEF StopLocked, IInv, TypeOK, MutexIsHeld, RunningFlag, Handles
<1>6. StartedServer'
  BY Names DEF StopLocked, IInv, TypeOK, MutexIsHeld, RunningFlag, Handles,
               StartedServer
<1>7. ExitChannel'
  BY Names DEF StopLocked, IInv, TypeOK, MutexIsHeld, RunningFlag,
               OneGeneration, Handles, ExitChannel
<1>8. ReceivedWhileRunning'
  <2>1. ASSUME signals = 0, NEW h \in Gens, listener[h] = "received"
        PROVE  FALSE
    <3>1. PICK k \in Gens : x = Listener(k) \/ x = Handler(k)
      BY Names
    <3>2. x = Listener(k) /\ listener[k] = "stopping"
      BY <2>1, <3>1 DEF StopLocked, IInv, TypeOK, OneGeneration
    <3>3. starter[h] # "none" /\ starter[k] # "none" /\ h # k
      BY <2>1, <3>2 DEF IInv, OneGeneration
    <3>4. h < k \/ k < h
      BY <3>3, StartsAssumption
    <3> QED BY <2>1, <3>2, <3>3, <3>4 DEF IInv, OneGeneration
  <2> QED BY <2>1 DEF StopLocked, IInv, TypeOK, ReceivedWhileRunning
<1>9. HandlerWaits' /\ NoLockPanic'
  BY DEF StopLocked, IInv, NoLockPanic, HandlerWaits
<1> QED BY <1>1, <1>2, <1>3, <1>4, <1>5, <1>6, <1>7, <1>8, <1>9 DEF
           IInv

LEMMA StopServerStep ==
  ASSUME IInv, NEW x \in Stoppers, StopServer(x)
  PROVE  IInv'
<1>1. TypeOK'
  BY Names DEF StopServer, IInv, TypeOK
<1>2. MutexIsHeld'
  BY Names DEF StopServer, IInv, TypeOK, MutexIsHeld
<1>3. RunningFlag'
  BY Names DEF StopServer, IInv, TypeOK, MutexIsHeld, OneGeneration,
               RunningFlag
<1>4. OneGeneration'
  BY Names DEF StopServer, IInv, TypeOK, MutexIsHeld, RunningFlag,
               OneGeneration
<1>5. Handles'
  BY Names DEF StopServer, IInv, TypeOK, MutexIsHeld, RunningFlag, Handles
<1>6. StartedServer'
  BY Names DEF StopServer, IInv, TypeOK, MutexIsHeld, RunningFlag, Handles,
               StartedServer
<1>7. ExitChannel' /\ HandlerWaits' /\ ReceivedWhileRunning' /\ NoLockPanic'
  BY DEF StopServer, IInv, NoLockPanic, ExitChannel, HandlerWaits,
         ReceivedWhileRunning
<1> QED BY <1>1, <1>2, <1>3, <1>4, <1>5, <1>6, <1>7 DEF IInv

LEMMA CloseDatabasesStep ==
  ASSUME IInv, NEW x \in Stoppers, CloseDatabases(x)
  PROVE  IInv'
<1>0. closing = {} /\ stopWaitGroup = 0 /\ Cardinality(Dirs) \in Nat
      /\ current \in Gens /\ open = {current} \X Dirs
      /\ Cardinality({current} \X Dirs) = Cardinality(Dirs)
  <2>1. closing = {}
    BY DEF CloseDatabases, IInv, MutexIsHeld, Handles
  <2> QED BY <2>1, HandleSets, FS_EmptySet
          DEF CloseDatabases, IInv, Handles
<1>1. TypeOK'
  BY <1>0 DEF CloseDatabases, Adds, IInv, TypeOK
<1>2. MutexIsHeld'
  BY Names DEF CloseDatabases, Adds, IInv, TypeOK, MutexIsHeld
<1>3. RunningFlag'
  BY Names DEF CloseDatabases, Adds, IInv, TypeOK, MutexIsHeld, OneGeneration,
               RunningFlag
<1>4. OneGeneration'
  BY Names DEF CloseDatabases, Adds, IInv, TypeOK, MutexIsHeld, RunningFlag,
               OneGeneration
<1>5. Handles'
  BY <1>0 DEF CloseDatabases, Adds, IInv, TypeOK, MutexIsHeld, RunningFlag,
              Handles
<1>6. StartedServer'
  BY Names DEF CloseDatabases, Adds, IInv, TypeOK, MutexIsHeld, RunningFlag,
               Handles, StartedServer
<1>7. ExitChannel' /\ HandlerWaits' /\ ReceivedWhileRunning' /\ NoLockPanic'
  BY DEF CloseDatabases, Adds, IInv, NoLockPanic, ExitChannel, HandlerWaits,
         ReceivedWhileRunning
<1> QED BY <1>1, <1>2, <1>3, <1>4, <1>5, <1>6, <1>7 DEF IInv

LEMMA CloseDbStep ==
  ASSUME IInv, NEW d \in Dirs, CloseDb(d)
  PROVE  IInv'
<1>0. PICK c \in closing : open' = open \ {c} /\ closing' = closing \ {c}
  BY DEF CloseDb
<1>a. PICK y \in Stoppers : stopper[y] = "wait"
  BY <1>0 DEF IInv, Handles
<1>b. closing = open /\ open \subseteq {current} \X Dirs /\ mutex = y
  BY <1>a DEF IInv, MutexIsHeld, Handles
<1>c. /\ stopWaitGroup' = Cardinality(closing')
      /\ stopWaitGroup' \in 0..Cardinality(Dirs)
  <2>1. IsFiniteSet(closing) /\ closing' \subseteq {current} \X Dirs
    BY <1>0, <1>b, HandleSets
  <2>2. Cardinality(closing') = Cardinality(closing) - 1
    BY <1>0, <2>1, FS_RemoveElement
  <2>3. Cardinality(closing') \in 0..Cardinality(Dirs)
    BY <2>1, HandleSets
  <2> QED BY <2>2, <2>3 DEF CloseDb, IInv, Handles
<1>1. TypeOK'
  BY <1>0, <1>c DEF CloseDb, IInv, TypeOK
<1>2. Handles'
  BY <1>0, <1>a, <1>b, <1>c, Names
  DEF CloseDb, IInv, TypeOK, MutexIsHeld, RunningFlag, Handles
<1>3. MutexIsHeld' /\ RunningFlag' /\ OneGeneration' /\ StartedServer' /\
     ExitChannel' /\ HandlerWaits' /\ ReceivedWhileRunning'
     /\ NoLockPanic'
  BY DEF CloseDb, IInv, NoLockPanic, MutexIsHeld, RunningFlag, OneGeneration,
         StartedServer, ExitChannel, HandlerWaits,
         ReceivedWhileRunning
<1> QED BY <1>1, <1>2, <1>3 DEF IInv

LEMMA FinishStopStep ==
  ASSUME IInv, NEW x \in Stoppers, FinishStop(x)
  PROVE  IInv'
<1>1. TypeOK'
  BY Names DEF FinishStop, AllClosed, IInv, TypeOK
<1>2. MutexIsHeld'
  BY Names DEF FinishStop, AllClosed, IInv, TypeOK, MutexIsHeld
<1>3. RunningFlag'
  BY Names DEF FinishStop, AllClosed, IInv, TypeOK, MutexIsHeld,
               OneGeneration, RunningFlag
<1>4. OneGeneration'
  BY Names DEF FinishStop, AllClosed, IInv, TypeOK, MutexIsHeld, RunningFlag,
               OneGeneration
<1>5. Handles'
  <2>1. closing = open /\ open \subseteq {current} \X Dirs
        /\ Cardinality(closing) = 0
    BY DEF FinishStop, AllClosed, IInv, Handles
  <2>2. open = {} /\ closing = {}
    BY <2>1, HandleSets, FS_EmptySet
  <2> QED BY <2>1, <2>2, Names
          DEF FinishStop, IInv, TypeOK, MutexIsHeld, RunningFlag, Handles
<1>6. StartedServer'
  BY Names DEF FinishStop, AllClosed, IInv, TypeOK, MutexIsHeld, RunningFlag,
               Handles, StartedServer
<1>7. ExitChannel'
  BY Names DEF FinishStop, AllClosed, IInv, TypeOK, MutexIsHeld, RunningFlag,
               OneGeneration, Handles, ExitChannel
<1>8. HandlerWaits' /\ ReceivedWhileRunning' /\ NoLockPanic'
  BY DEF FinishStop, AllClosed, IInv, NoLockPanic, HandlerWaits,
         ReceivedWhileRunning
<1> QED BY <1>1, <1>2, <1>3, <1>4, <1>5, <1>6, <1>7, <1>8 DEF IInv

-----------------------------------------------------------------------------
(* The steps of listenToRestart.                                            *)

LEMMA ListenStep ==
  ASSUME IInv, NEW g \in Gens, Listen(g)
  PROVE  IInv'
<1>1. TypeOK'
  BY Names DEF Listen, IInv, TypeOK
<1>2. OneGeneration'
  BY Names DEF Listen, IInv, TypeOK, MutexIsHeld, RunningFlag, OneGeneration
<1>3. HandlerWaits'
  BY Names DEF Listen, IInv, TypeOK, ExitChannel, OneGeneration, HandlerWaits
<1>4. ReceivedWhileRunning'
  BY Names DEF Listen, IInv, TypeOK, MutexIsHeld, RunningFlag, OneGeneration,
               StartedServer, ReceivedWhileRunning
<1>5. MutexIsHeld' /\ RunningFlag' /\ Handles' /\ StartedServer' /\
     ExitChannel' /\ NoLockPanic'
  BY DEF Listen, IInv, NoLockPanic, MutexIsHeld, RunningFlag, Handles,
         StartedServer, ExitChannel
<1> QED BY <1>1, <1>2, <1>3, <1>4, <1>5 DEF IInv

LEMMA ListenerEndsStep ==
  ASSUME IInv, NEW g \in Gens, ListenerEnds(g)
  PROVE  IInv'
<1>1. TypeOK'
  BY Names DEF ListenerEnds, IInv, TypeOK
<1>2. OneGeneration'
  BY Names DEF ListenerEnds, IInv, TypeOK, MutexIsHeld, RunningFlag,
               OneGeneration
<1>3. ReceivedWhileRunning'
  BY Names DEF ListenerEnds, IInv, TypeOK, MutexIsHeld, RunningFlag,
               OneGeneration, StartedServer, ReceivedWhileRunning
<1>4. MutexIsHeld' /\ RunningFlag' /\ Handles' /\ StartedServer' /\
     ExitChannel' /\ HandlerWaits' /\ NoLockPanic'
  BY DEF ListenerEnds, IInv, NoLockPanic, MutexIsHeld, RunningFlag, Handles,
         StartedServer, ExitChannel, HandlerWaits
<1> QED BY <1>1, <1>2, <1>3, <1>4 DEF IInv

LEMMA ServerSendsStep ==
  ASSUME IInv, NEW g \in Gens, ServerSends(g)
  PROVE  IInv'
<1>1. TypeOK'
  <2>1. PICK h \in Gens, op \in {"NodeRestart", "NodeErase"} :
          Receive(h, g, op)
    BY DEF ServerSends
  <2> QED BY <2>1 DEF ServerSends, IInv, TypeOK
<1>2. OneGeneration'
  BY Names DEF ServerSends, IInv, TypeOK, MutexIsHeld, RunningFlag,
               OneGeneration
<1>3. ReceivedWhileRunning'
  BY Names DEF ServerSends, IInv, TypeOK, MutexIsHeld, RunningFlag,
               OneGeneration, StartedServer, ReceivedWhileRunning
<1>4. MutexIsHeld' /\ RunningFlag' /\ Handles' /\ StartedServer' /\
     ExitChannel' /\ HandlerWaits' /\ NoLockPanic'
  BY DEF ServerSends, IInv, NoLockPanic, MutexIsHeld, RunningFlag, Handles,
         StartedServer, ExitChannel, HandlerWaits
<1> QED BY <1>1, <1>2, <1>3, <1>4 DEF IInv

LEMMA CheckRunningStep ==
  ASSUME IInv, NEW g \in Gens, CheckRunning(g)
  PROVE  IInv'
<1>1. CASE isRunning = TRUE
  <2>0. /\ ListenerAt(g, "received", "stopping")
        /\ stopper' = [stopper EXCEPT ![Listener(g)] = "lock"]
        /\ UNCHANGED << starter, handler, fields, contents, handles, channels,
                        outside >>
    BY <1>1 DEF CheckRunning
  <2>a. stopper[Listener(g)] = "out"
    BY <2>0, Names DEF IInv, TypeOK, OneGeneration
  <2>1. TypeOK'
    BY <2>0, Names DEF IInv, TypeOK
  <2>2. MutexIsHeld'
    BY <2>0, <2>a, Names DEF IInv, TypeOK, MutexIsHeld
  <2>3. RunningFlag'
    BY <2>0, <2>a, Names DEF IInv, TypeOK, RunningFlag
  <2>4. OneGeneration'
    BY <2>0, <2>a, Names DEF IInv, TypeOK, OneGeneration
  <2>5. Handles'
    BY <2>0, <2>a, Names DEF IInv, TypeOK, Handles
  <2>6. StartedServer'
    BY <1>1, <2>0 DEF IInv, TypeOK, StartedServer
  <2>7. ReceivedWhileRunning'
    BY <2>0 DEF IInv, TypeOK, ReceivedWhileRunning
  <2>8. ExitChannel' /\ HandlerWaits' /\ NoLockPanic'
    BY <2>0 DEF IInv, ExitChannel, HandlerWaits, NoLockPanic
  <2> QED BY <2>1, <2>2, <2>3, <2>4, <2>5, <2>6, <2>7, <2>8 DEF IInv
<1>2. CASE isRunning = FALSE
  <2>0. /\ Up /\ listener[g] = "received" /\ process' = "assertion"
        /\ UNCHANGED << progress, fields, contents, handles, channels,
                        mainPC, shutdownListener, notified, signals >>
    BY <1>2 DEF CheckRunning
  <2>1. TypeOK'
    BY <2>0 DEF IInv, TypeOK, Ends
  <2>2. ReceivedWhileRunning'
    BY <1>2, <2>0, SignalsAssumption DEF IInv, TypeOK, ReceivedWhileRunning
  <2>3. MutexIsHeld' /\ RunningFlag' /\ OneGeneration' /\ Handles'
        /\ StartedServer' /\ ExitChannel' /\ HandlerWaits' /\ NoLockPanic'
    BY <2>0 DEF IInv, MutexIsHeld, RunningFlag, OneGeneration, Handles,
                StartedServer, ExitChannel, HandlerWaits, NoLockPanic
  <2> QED BY <2>1, <2>2, <2>3 DEF IInv
<1> QED BY <1>1, <1>2 DEF IInv, TypeOK

LEMMA StoppedStep ==
  ASSUME IInv, NEW g \in Gens, Stopped(g)
  PROVE  IInv'
<1>1. TypeOK'
  BY Names DEF Stopped, IInv, TypeOK
<1>2. MutexIsHeld'
  BY Names DEF Stopped, IInv, TypeOK, MutexIsHeld
<1>3. RunningFlag'
  BY Names DEF Stopped, IInv, TypeOK, MutexIsHeld, OneGeneration, RunningFlag
<1>4. OneGeneration'
  BY Names DEF Stopped, IInv, TypeOK, MutexIsHeld, RunningFlag, OneGeneration
<1>5. Handles'
  BY Names DEF Stopped, IInv, TypeOK, MutexIsHeld, RunningFlag, Handles
<1>6. StartedServer'
  BY Names DEF Stopped, IInv, TypeOK, MutexIsHeld, RunningFlag, Handles,
               StartedServer
<1>7. ReceivedWhileRunning'
  BY Names DEF Stopped, IInv, TypeOK, MutexIsHeld, RunningFlag, OneGeneration,
               StartedServer, ReceivedWhileRunning
<1>8. ExitChannel' /\ HandlerWaits' /\ NoLockPanic'
  BY DEF Stopped, IInv, NoLockPanic, ExitChannel, HandlerWaits
<1> QED BY <1>1, <1>2, <1>3, <1>4, <1>5, <1>6, <1>7, <1>8 DEF IInv

LEMMA RestartStep ==
  ASSUME IInv, NEW g \in Gens, Restart(g)
  PROVE  IInv'
<1>0. g + 1 \in Gens => starter[g + 1] = "none"
  BY StartsAssumption DEF Restart, IInv, TypeOK, OneGeneration
<1>a. mutex = Nobody /\ isRunning = FALSE /\ starter[g] = "done"
  BY DEF Restart, IInv, OneGeneration
<1>1. TypeOK'
  BY Names DEF Restart, IInv, TypeOK
<1>2. MutexIsHeld'
  BY <1>0 DEF Restart, IInv, TypeOK, MutexIsHeld
<1>3. RunningFlag'
  BY Names DEF Restart, IInv, TypeOK, MutexIsHeld, OneGeneration, RunningFlag
<1>4. OneGeneration'
  <2>1. \A h, k \in Gens : h < k /\ starter'[k] # "none" =>
          starter'[h] = "done" /\ listener'[h] = "done"
    <3> SUFFICES ASSUME NEW h \in Gens, NEW k \in Gens,
                        h < k, starter'[k] # "none"
                 PROVE  starter'[h] = "done" /\ listener'[h] = "done"
      OBVIOUS
    <3>1. CASE starter[k] # "none"
      BY <1>0, <3>1 DEF Restart, IInv, TypeOK, OneGeneration
    <3>2. CASE starter[k] = "none"
      <4>1. k = g + 1 /\ (h = g \/ h < g)
        BY <3>2, StartsAssumption DEF Restart, IInv, TypeOK
      <4> QED BY <1>a, <4>1 DEF Restart, IInv, TypeOK, OneGeneration
    <3> QED BY <3>1, <3>2
  <2>2. \A h \in Gens : starter'[h] = starter[h]
                        \/ (starter[h] = "none" /\ starter'[h] = "spawned")
    BY <1>0 DEF Restart, IInv, TypeOK
  <2> QED BY <1>a, <2>1, <2>2 DEF Restart, IInv, TypeOK, OneGeneration
<1>5. Handles'
  BY Names DEF Restart, IInv, TypeOK, MutexIsHeld, RunningFlag, Handles
<1>6. StartedServer'
  BY <1>0, Names DEF Restart, IInv, TypeOK, StartedServer
<1>7. ExitChannel'
  BY Names DEF Restart, IInv, TypeOK, MutexIsHeld, RunningFlag, OneGeneration,
               Handles, ExitChannel
<1>8. HandlerWaits'
  BY Names DEF Restart, IInv, TypeOK, ExitChannel, OneGeneration, HandlerWaits
<1>9. ReceivedWhileRunning'
  BY Names DEF Restart, IInv, TypeOK, MutexIsHeld, RunningFlag, OneGeneration,
               StartedServer, ReceivedWhileRunning
<1>10. NoLockPanic'
  BY DEF Restart, IInv, NoLockPanic
<1> QED BY <1>1, <1>2, <1>3, <1>4, <1>5, <1>6, <1>7, <1>8, <1>9,
           <1>10 DEF IInv

-----------------------------------------------------------------------------
(* The steps of the signal goroutine, and the interrupt.                    *)

LEMMA HandleStep ==
  ASSUME IInv, NEW g \in Gens, Handle(g)
  PROVE  IInv'
<1>1. TypeOK'
  BY Names DEF Handle, IInv, TypeOK
<1>2. OneGeneration'
  BY Names DEF Handle, IInv, TypeOK, MutexIsHeld, RunningFlag, OneGeneration
<1>3. HandlerWaits'
  BY Names DEF Handle, IInv, TypeOK, ExitChannel, OneGeneration, HandlerWaits
<1>4. MutexIsHeld' /\ RunningFlag' /\ Handles' /\ StartedServer' /\
     ExitChannel' /\ ReceivedWhileRunning' /\ NoLockPanic'
  BY DEF Handle, IInv, NoLockPanic, MutexIsHeld, RunningFlag, Handles,
         StartedServer, ExitChannel, ReceivedWhileRunning
<1> QED BY <1>1, <1>2, <1>3, <1>4 DEF IInv

LEMMA HandlerEndsStep ==
  ASSUME IInv, NEW g \in Gens, HandlerEnds(g)
  PROVE  IInv'
<1>1. TypeOK'
  BY Names DEF HandlerEnds, IInv, TypeOK
<1>2. OneGeneration'
  BY Names DEF HandlerEnds, IInv, TypeOK, MutexIsHeld, RunningFlag,
               OneGeneration
<1>3. MutexIsHeld' /\ RunningFlag' /\ Handles' /\ StartedServer' /\
     ExitChannel' /\ HandlerWaits' /\ ReceivedWhileRunning'
     /\ NoLockPanic'
  BY DEF HandlerEnds, IInv, NoLockPanic, MutexIsHeld, RunningFlag, Handles,
         StartedServer, ExitChannel, HandlerWaits,
         ReceivedWhileRunning
<1> QED BY <1>1, <1>2, <1>3 DEF IInv

LEMMA InterruptStep ==
  ASSUME IInv, Interrupt
  PROVE  IInv'
<1>0. \A y \in Stoppers : \/ stopper'[y] = stopper[y]
                          \/ stopper[y] = "out" /\ stopper'[y] = "lock"
  BY DEF Interrupt, Reached, IInv, TypeOK, OneGeneration
<1>1. TypeOK'
  <2>1. stopper' \in [Stoppers -> {"out", "lock", "server", "databases",
                                   "wait", "returned"}]
    BY DEF Interrupt, IInv, TypeOK
  <2>2. handler' \in [Gens -> {"none", "spawned", "select", "stopping", "done"}]
    BY DEF Interrupt, IInv, TypeOK
  <2>3. process' \in {"up"} \cup Ends /\ signals' \in 0..MaxSignals
    BY SignalsAssumption DEF Interrupt, IInv, TypeOK, Ends
  <2> QED BY <2>1, <2>2, <2>3 DEF Interrupt, IInv, TypeOK
<1>2. MutexIsHeld'
  BY <1>0, Names DEF Interrupt, IInv, MutexIsHeld
<1>3. RunningFlag'
  BY Names DEF Interrupt, Reached, IInv, TypeOK, MutexIsHeld, OneGeneration,
               RunningFlag
<1>4. OneGeneration'
  BY Names DEF Interrupt, Reached, IInv, TypeOK, MutexIsHeld, RunningFlag,
               OneGeneration
<1>5. Handles'
  BY <1>0, Names DEF Interrupt, IInv, Handles
<1>6. StartedServer'
  BY <1>0, Names DEF Interrupt, IInv, StartedServer
<1>7. ReceivedWhileRunning'
  BY Names DEF Interrupt, Reached, IInv, TypeOK, MutexIsHeld, RunningFlag,
               OneGeneration, StartedServer, ReceivedWhileRunning
<1>8. ExitChannel' /\ HandlerWaits' /\ NoLockPanic'
  BY DEF Interrupt, Reached, IInv, NoLockPanic, ExitChannel, HandlerWaits
<1> QED BY <1>1, <1>2, <1>3, <1>4, <1>5, <1>6, <1>7, <1>8 DEF IInv

LEMMA CloseExitChannelsStep ==
  ASSUME IInv, NEW g \in Gens, CloseExitChannels(g)
  PROVE  IInv'
<1>1. TypeOK'
  BY Names DEF CloseExitChannels, ExitChannelsOf, IInv, TypeOK
<1>2. MutexIsHeld'
  BY Names DEF CloseExitChannels, ExitChannelsOf, IInv, TypeOK, MutexIsHeld
<1>3. RunningFlag'
  BY Names DEF CloseExitChannels, ExitChannelsOf, IInv, TypeOK, MutexIsHeld,
               OneGeneration, RunningFlag
<1>4. OneGeneration'
  BY Names DEF CloseExitChannels, ExitChannelsOf, IInv, TypeOK, MutexIsHeld,
               RunningFlag, OneGeneration
<1>5. Handles'
  BY Names DEF CloseExitChannels, ExitChannelsOf, IInv, TypeOK, MutexIsHeld,
               RunningFlag, Handles
<1>6. StartedServer'
  BY Names DEF CloseExitChannels, ExitChannelsOf, IInv, TypeOK, MutexIsHeld,
               RunningFlag, Handles, StartedServer
<1>7. ExitChannel' /\ HandlerWaits' /\ ReceivedWhileRunning' /\ NoLockPanic'
  BY DEF CloseExitChannels, ExitChannelsOf, IInv, NoLockPanic, ExitChannel,
         HandlerWaits, ReceivedWhileRunning
<1> QED BY <1>1, <1>2, <1>3, <1>4, <1>5, <1>6, <1>7 DEF IInv

-----------------------------------------------------------------------------
(* The main goroutine and fatal errors.                                     *)

LEMMA MainWaitsStep ==
  ASSUME IInv, MainWaits
  PROVE  IInv'
<1>1. TypeOK'
  BY Names DEF MainWaits, IInv, TypeOK
<1>2. MutexIsHeld' /\ RunningFlag' /\ OneGeneration' /\ Handles' /\
     StartedServer' /\ ExitChannel' /\ HandlerWaits' /\
     ReceivedWhileRunning' /\ NoLockPanic'
  BY DEF MainWaits, IInv, NoLockPanic, MutexIsHeld, RunningFlag,
         OneGeneration, Handles, StartedServer, ExitChannel, HandlerWaits,
         ReceivedWhileRunning
<1> QED BY <1>1, <1>2 DEF IInv

LEMMA MainReturnsStep ==
  ASSUME IInv, MainReturns
  PROVE  IInv'
<1>1. TypeOK'
  BY DEF MainReturns, IInv, TypeOK, Ends
<1>2. ReceivedWhileRunning'
  BY Names DEF MainReturns, IInv, TypeOK, MutexIsHeld, RunningFlag,
               OneGeneration, StartedServer, ReceivedWhileRunning
<1>3. MutexIsHeld' /\ RunningFlag' /\ OneGeneration' /\ Handles' /\
     StartedServer' /\ ExitChannel' /\ HandlerWaits' /\ NoLockPanic'
  BY DEF MainReturns, IInv, NoLockPanic, MutexIsHeld, RunningFlag,
         OneGeneration, Handles, StartedServer, ExitChannel, HandlerWaits
<1> QED BY <1>1, <1>2, <1>3 DEF IInv

LEMMA FatalErrorStep ==
  ASSUME IInv, FatalError
  PROVE  IInv'
<1>1. TypeOK'
  BY DEF FatalError, IInv, TypeOK, Ends
<1>2. ReceivedWhileRunning'
  BY Names DEF FatalError, IInv, TypeOK, MutexIsHeld, RunningFlag,
               OneGeneration, StartedServer, ReceivedWhileRunning
<1>3. MutexIsHeld' /\ RunningFlag' /\ OneGeneration' /\ Handles' /\
     StartedServer' /\ ExitChannel' /\ HandlerWaits' /\ NoLockPanic'
  BY DEF FatalError, IInv, NoLockPanic, MutexIsHeld, RunningFlag,
         OneGeneration, Handles, StartedServer, ExitChannel, HandlerWaits
<1> QED BY <1>1, <1>2, <1>3 DEF IInv

-----------------------------------------------------------------------------
(* Every step keeps the invariant.                                          *)

LEMMA InitInv == Init => IInv
<1> SUFFICES ASSUME Init PROVE IInv
  OBVIOUS
<1>1. TypeOK
  <2>1. stopWaitGroup \in 0..Cardinality(Dirs) /\ signals \in 0..MaxSignals
    BY DirsCardinality, SignalsAssumption DEF Init
  <2>2. mutex \in Stoppers \cup {Starter(g) : g \in Gens} \cup {Nobody}
    BY DEF Init
  <2> QED BY <2>1, <2>2 DEF Init, TypeOK
<1>2. Handles
  BY FS_EmptySet DEF Init, Handles
<1>3. OneGeneration
  BY Names, StartsAssumption DEF Init, OneGeneration
<1>4. MutexIsHeld /\ RunningFlag /\ StartedServer /\ ExitChannel
  BY Names DEF Init, MutexIsHeld, RunningFlag, StartedServer, ExitChannel
<1>5. HandlerWaits /\ ReceivedWhileRunning /\ NoLockPanic
  BY Names, StartsAssumption
  DEF Init, HandlerWaits, ReceivedWhileRunning, NoLockPanic
<1> QED BY <1>1, <1>2, <1>3, <1>4, <1>5 DEF IInv

LEMMA NextKeepsInvariant == IInv /\ Next => IInv'
<1> SUFFICES ASSUME IInv, Next PROVE IInv'
  OBVIOUS
<1>1. ASSUME NEW g \in Gens, StartStep(g)
      PROVE  IInv'
  BY <1>1, StartLockedStep, OpenDatabasesStep, NewServerStep, StartServerStep,
     SetRunningStep, SendRestartStep, FinishStartStep DEF StartStep
<1>2. ASSUME NEW x \in Stoppers, StopStep(x)
      PROVE  IInv'
  BY <1>2, StopLockedStep, StopServerStep, CloseDatabasesStep, FinishStopStep
     DEF StopStep
<1>3. ASSUME NEW g \in Gens, ListenerStep(g) \/ ServerSends(g)
      PROVE  IInv'
  BY <1>3, ListenStep, ListenerEndsStep, ServerSendsStep, CheckRunningStep,
     StoppedStep, RestartStep DEF ListenerStep
<1>4. ASSUME NEW g \in Gens, HandlerStep(g)
      PROVE  IInv'
  BY <1>4, HandleStep, HandlerEndsStep, CloseExitChannelsStep DEF HandlerStep
<1>5. ASSUME NEW d \in Dirs, CloseDb(d)
      PROVE  IInv'
  BY <1>5, CloseDbStep
<1>6. CASE Main \/ Interrupt \/ FatalError
  BY <1>6, MainWaitsStep, MainReturnsStep, InterruptStep, FatalErrorStep
     DEF Main
<1> QED BY <1>1, <1>2, <1>3, <1>4, <1>5, <1>6 DEF Next

\* The invariant holds in every reachable state.
THEOREM Invariance == Spec => []IInv
<1>1. IInv /\ UNCHANGED vars => IInv'
  <2> SUFFICES ASSUME IInv, UNCHANGED vars PROVE IInv'
    OBVIOUS
  <2>1. TypeOK'
    BY DEF vars, IInv, TypeOK
  <2>2. MutexIsHeld' /\ RunningFlag' /\ OneGeneration' /\ Handles'
    BY DEF vars, IInv, MutexIsHeld, RunningFlag, OneGeneration, Handles
  <2>3. StartedServer' /\ ExitChannel' /\ HandlerWaits'
        /\ ReceivedWhileRunning' /\ NoLockPanic'
    BY DEF vars, IInv, StartedServer, ExitChannel, HandlerWaits,
           ReceivedWhileRunning, NoLockPanic
  <2> QED BY <2>1, <2>2, <2>3 DEF IInv
<1> QED BY InitInv, NextKeepsInvariant, <1>1, PTL DEF Spec

-----------------------------------------------------------------------------
(* What the invariant says of the running program.                          *)

\* Every variable keeps its type; the wait group's counter never passes the
\* number of databases or falls below zero (deso/node.go:404-411).
THEOREM TypeCorrect == Spec => []TypeOK
<1>1. IInv => TypeOK
  BY DEF IInv
<1> QED BY Invariance, <1>1, PTL

\* However many restarts and interrupts there are, a database directory is open
\* once at most, and no Start meets the directory lock of the node it follows
\* (deso/node.go:229, 250, 408-411).
THEOREM HandlesAreExclusive == Spec => []OneHandle
<1>1. IInv => OneHandle
  <2> SUFFICES ASSUME IInv PROVE OneHandle
    OBVIOUS
  <2>1. process # "locked out"
    BY DEF IInv, NoLockPanic
  <2>2. open \subseteq {current} \X Dirs
    <3>1. CASE mutex = Nobody
      BY <3>1 DEF IInv, TypeOK, Handles
    <3>2. CASE \E g \in Gens : mutex = Starter(g)
      BY <3>2 DEF IInv, TypeOK, MutexIsHeld, Handles
    <3>3. CASE \E x \in Stoppers : mutex = x
      BY <3>3 DEF IInv, TypeOK, MutexIsHeld, Handles
    <3> QED BY <3>1, <3>2, <3>3 DEF IInv, TypeOK
  <2> QED BY <2>1, <2>2 DEF OneHandle
<1> QED BY Invariance, <1>1, PTL

\* A started server has both of its databases until its Stop is called
\* (deso/node.go:396, 408).
THEOREM ServersHaveDatabases == Spec => []ServerHasDatabases
<1>1. IInv => ServerHasDatabases
  BY DEF IInv, TypeOK, StartedServer, Handles, ServerHasDatabases
<1> QED BY Invariance, <1>1, PTL

\* The data directory is removed only when nothing in it is open or being
\* opened, whichever goroutine's Stop closed it (deso/node.go:387, 444-455).
THEOREM ErasesFindNothingOpen == Spec => []EraseFindsNothingOpen
<1>1. IInv => EraseFindsNothingOpen
  <2> SUFFICES ASSUME IInv, NEW g \in Gens, listener[g] = "restart"
               PROVE  open = {} /\ \A h \in Gens : starter[h] \in {"none", "done"}
    BY DEF EraseFindsNothingOpen
  <2>1. Down /\ starter[g] = "done"
    BY DEF IInv, OneGeneration
  <2>2. open = {}
    BY <2>1 DEF IInv, Handles
  <2>3. \A h \in Gens : starter[h] \notin InStart
    BY <2>1, Names DEF IInv, MutexIsHeld
  <2>4. \A h \in Gens : starter[h] # "spawned"
    <3> TAKE h \in Gens
    <3>1. CASE h = g
      BY <2>1, <3>1
    <3>2. CASE h < g
      BY <2>1, <3>2 DEF IInv, OneGeneration
    <3>3. CASE h > g
      BY <3>3 DEF IInv, OneGeneration
    <3> QED BY <3>1, <3>2, <3>3, StartsAssumption
  <2> QED BY <2>2, <2>3, <2>4 DEF IInv, TypeOK
<1> QED BY Invariance, <1>1, PTL

\* A Stop never returns before both databases of the node are closed, whether
\* it closed them or found the node stopped by another goroutine
\* (deso/node.go:387-389, 404-414).
THEOREM StopsLeaveNothingOpen == Spec => StopLeavesNothingOpen
<1>1. IInv /\ [Next]_vars =>
        [\A x \in Stoppers : stopper[x] # "returned" /\ stopper'[x] = "returned"
                             => open' = {}]_vars
  <2> SUFFICES ASSUME IInv, Next, NEW x \in Stoppers,
                      stopper[x] # "returned", stopper'[x] = "returned"
               PROVE  open' = {}
    OBVIOUS
  <2>1. CASE \E y \in Stoppers : StopStep(y)
    <3> PICK y \in Stoppers : StopStep(y)
      BY <2>1
    <3>1. CASE StopLocked(y)
      <4>1. ~isRunning /\ mutex = Nobody
        BY <3>1 DEF StopLocked, IInv, TypeOK
      <4>2. open = {}
        BY <4>1 DEF IInv, TypeOK, Handles
      <4> QED BY <3>1, <4>2 DEF StopLocked
    <3>2. CASE FinishStop(y)
      <4>1. closing = {}
        <5>1. stopper[y] = "wait" /\ stopWaitGroup = 0
          BY <3>2 DEF FinishStop, AllClosed
        <5>2. closing \in SUBSET ({current} \X Dirs)
          BY <5>1 DEF IInv, Handles
        <5>3. IsFiniteSet(closing) /\ Cardinality(closing) = 0
          BY <5>1, <5>2, HandleSets DEF IInv, Handles
        <5> QED BY <5>3, FS_EmptySet
      <4>2. open = {}
        BY <3>2, <4>1 DEF FinishStop, IInv, Handles
      <4> QED BY <3>2, <4>2 DEF FinishStop
    <3>3. CASE StopServer(y) \/ CloseDatabases(y)
      BY <3>3 DEF StopServer, CloseDatabases, IInv, TypeOK
    <3> QED BY <3>1, <3>2, <3>3 DEF StopStep
  <2>2. ASSUME NEW g \in Gens, StartStep(g)
        PROVE  FALSE
    BY <2>2 DEF StartStep, StartLocked, OpenDatabases, NewServer, StartServer,
               SetRunning, SendRestart, FinishStart
  <2>3. ASSUME NEW g \in Gens, ListenerStep(g) \/ ServerSends(g)
        PROVE  FALSE
    BY <2>3 DEF ListenerStep, Listen, ListenerEnds, CheckRunning, Stopped,
               Restart, ServerSends, IInv, TypeOK
  <2>4. ASSUME NEW g \in Gens, HandlerStep(g)
        PROVE  FALSE
    BY <2>4 DEF HandlerStep, Handle, HandlerEnds, CloseExitChannels, IInv,
               TypeOK
  <2>5. ASSUME \/ \E d \in Dirs : CloseDb(d)
               \/ Main \/ Interrupt \/ FatalError
        PROVE  FALSE
    BY <2>5 DEF CloseDb, Main, MainWaits, MainReturns, Interrupt, FatalError,
               IInv, TypeOK
  <2> QED BY <2>1, <2>2, <2>3, <2>4, <2>5 DEF Next
<1> QED BY Invariance, <1>1, PTL DEF Spec, StopLeavesNothingOpen

\* After any number of restarts the signal goroutine of the running generation
\* waits on its own channel, which is open: an interrupt reaches it
\* (deso/node.go:192, 361-368).
THEOREM RunningNodesHearInterrupts == Spec => []RunningNodeHearsInterrupts
<1>1. IInv => RunningNodeHearsInterrupts
  <2> SUFFICES ASSUME IInv, isRunning = TRUE, handler[current] = "select"
               PROVE  current \in Reached
    BY DEF RunningNodeHearsInterrupts, IInv, TypeOK
  <2>1. current \in Gens /\ internalExitChan = current
    BY DEF IInv, Handles, ExitChannel
  <2>2. current \in notified /\ current \notin closed
    BY <2>1 DEF IInv, OneGeneration, ExitChannel
  <2>3. waitsOn[Handler(current)] \notin closed
    <3>1. waitsOn[Handler(current)] \in Gens \cup {Nil}
      BY <2>1, Names DEF IInv, TypeOK
    <3>2. ASSUME NEW g \in Gens, waitsOn[Handler(current)] = g, g # current
          PROVE  FALSE
      <4>1. current < g /\ starter[g] # "none"
        BY <2>1, <3>2, StartsAssumption DEF IInv, HandlerWaits
      <4> QED BY <2>1, <4>1 DEF IInv, ExitChannel
    <3>3. Nil \notin closed
      BY DEF IInv, TypeOK
    <3> QED BY <2>2, <3>1, <3>2, <3>3
  <2> QED BY <2>2, <2>3 DEF Reached, IInv, TypeOK
<1> QED BY Invariance, <1>1, PTL

\* Without an interrupt listenToRestart panics only for a message that arrives
\* between Server.Start and the assignment of isRunning that follows it
\* (deso/node.go:350-361, 440).
THEOREM PanicsNeedAnInterruptOrAStart ==
  Spec => []PanicNeedsAnInterruptOrAStart
<1>1. IInv => PanicNeedsAnInterruptOrAStart
  BY DEF IInv, ReceivedWhileRunning, PanicNeedsAnInterruptOrAStart
<1> QED BY Invariance, <1>1, PTL
=============================================================================
