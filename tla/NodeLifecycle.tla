---------------------------- MODULE NodeLifecycle ----------------------------
(***************************************************************************)
(* Starting, stopping and restarting the node inside one process           *)
(* (deso/node.go, cmd/run.go).                                             *)
(*                                                                         *)
(* Every call of Start is a generation, numbered from 1.  It is run by a   *)
(* goroutine and leaves two more: listenToRestart, which waits for one     *)
(* message of the core server, stops the node and starts the next          *)
(* generation, and the signal goroutine, which stops the node on SIGINT    *)
(* and closes the exit channels.  All of them share the fields of Node;    *)
(* runningMutex is held by Start and by Stop and by nothing else.  The     *)
(* main goroutine waits for the exit channel that generation 1 was given.  *)
(*                                                                         *)
(* The core server and the operating system are external: the server may   *)
(* send a message at any time between Server.Start and Server.Stop.        *)
(***************************************************************************)
EXTENDS Integers, FiniteSets

CONSTANTS
  MaxStarts,    \* bound: generations of Start
  MaxSignals    \* bound: interrupts of the operating system

ASSUME StartsAssumption == MaxStarts \in Nat \ {0}
ASSUME SignalsAssumption == MaxSignals \in Nat

Gens == 1..MaxStarts
Nil == 0                                \* a nil channel or pointer
Dirs == {"chain", "index"}              \* the database directories
Listener(g) == <<"listener", g>>
Handler(g) == <<"handler", g>>          \* the signal goroutine
Starter(g) == <<"starter", g>>
Nobody == <<"nobody", Nil>>
Stoppers == {Listener(g) : g \in Gens} \cup {Handler(g) : g \in Gens}
Ends == {"exited", "killed", "fatal", "locked out", "assertion"}

VARIABLES
  process,           \* up, or how it ended
  mainPC,            \* runCmd: setup, waiting, or stuck on a nil channel
  shutdownListener,  \* its exit channel: open, or closed and set to nil
  starter,           \* generation -> where its Start is
  listener,          \* generation -> where its listenToRestart is
  handler,           \* generation -> where its signal goroutine is
  stopper,           \* goroutine -> where it is in a call of Stop
  mutex,             \* who holds runningMutex, or Nobody
  isRunning,
  internalExitChan,  \* the generation whose channel the field holds, or Nil
  closed,            \* generations whose internalExitChan is closed
  waitsOn,           \* goroutine -> the internalExitChan its select read
  nodeMessageChan,   \* the generation whose channel the field holds
  receivesOn,        \* generation -> the nodeMessageChan its listener read
  current,           \* the generation of node.Server, chainDB and Index
  shouldRestart,     \* of the last NewServer
  server,            \* generation -> none, created, started or stopped
  open,              \* the open handles, <<generation, directory>>
  closing,           \* handles that a goroutine of closeDb is closing
  stopWaitGroup,     \* the counter of the wait group
  operation,         \* generation -> the message its listener received
  notified,          \* generations whose channel signal.Notify registered
  signals            \* interrupts so far

progress == << starter, listener, handler, stopper >>
fields == << mutex, isRunning, internalExitChan, nodeMessageChan >>
contents == << current, shouldRestart, server >>
handles == << open, closing, stopWaitGroup >>
channels == << closed, waitsOn, receivesOn, operation >>
outside == << process, mainPC, shutdownListener, notified, signals >>
vars == << progress, fields, contents, handles, channels, outside >>

TypeOK ==
  /\ process \in {"up"} \cup Ends
  /\ mainPC \in {"setup", "waiting", "stuck"}
  /\ shutdownListener \in {"open", "nil"}
  /\ starter \in [Gens -> {"none", "spawned", "databases", "server", "go",
                           "running", "resend", "notify", "done"}]
  /\ listener \in [Gens -> {"none", "spawned", "select", "received",
                            "stopping", "restart", "done"}]
  /\ handler \in [Gens -> {"none", "spawned", "select", "stopping", "done"}]
  /\ stopper \in [Stoppers -> {"out", "lock", "server", "databases", "wait",
                               "returned"}]
  /\ mutex \in Stoppers \cup {Starter(g) : g \in Gens} \cup {Nobody}
  /\ isRunning \in BOOLEAN
  /\ internalExitChan \in Gens \cup {Nil}
  /\ closed \subseteq Gens
  /\ waitsOn \in [Stoppers -> Gens \cup {Nil}]
  /\ nodeMessageChan \in Gens \cup {Nil}
  /\ receivesOn \in [Gens -> Gens \cup {Nil}]
  /\ current \in Gens \cup {Nil}
  /\ shouldRestart \in BOOLEAN
  /\ server \in [Gens -> {"none", "created", "started", "stopped"}]
  /\ open \subseteq Gens \X Dirs
  /\ closing \subseteq Gens \X Dirs
  /\ stopWaitGroup \in 0..Cardinality(Dirs)
  /\ operation \in [Gens -> {"none", "NodeRestart", "NodeErase"}]
  /\ notified \subseteq Gens
  /\ signals \in 0..MaxSignals

\* runCmd has spawned the first Start; NewNode's channels are never used.
Init ==
  /\ process = "up"
  /\ mainPC = "setup"
  /\ shutdownListener = "open"
  /\ starter = [g \in Gens |-> IF g = 1 THEN "spawned" ELSE "none"]
  /\ listener = [g \in Gens |-> "none"]
  /\ handler = [g \in Gens |-> "none"]
  /\ stopper = [x \in Stoppers |-> "out"]
  /\ mutex = Nobody
  /\ isRunning = FALSE
  /\ internalExitChan = Nil
  /\ closed = {}
  /\ waitsOn = [x \in Stoppers |-> Nil]
  /\ nodeMessageChan = Nil
  /\ receivesOn = [g \in Gens |-> Nil]
  /\ current = Nil
  /\ shouldRestart = FALSE
  /\ server = [g \in Gens |-> "none"]
  /\ open = {}
  /\ closing = {}
  /\ stopWaitGroup = 0
  /\ operation = [g \in Gens |-> "none"]
  /\ notified = {}
  /\ signals = 0

Up == process = "up"

-----------------------------------------------------------------------------
(* Start.                                                                   *)

StarterAt(g, here, next) ==
  /\ Up
  /\ starter[g] = here
  /\ starter' = [starter EXCEPT ![g] = next]

\* Take the mutex, make the two channels and spawn listenToRestart.
StartLocked(g) ==
  /\ mutex = Nobody
  /\ StarterAt(g, "spawned", "databases")
  /\ mutex' = Starter(g)
  /\ internalExitChan' = g
  /\ nodeMessageChan' = g
  /\ listener' = [listener EXCEPT ![g] = "spawned"]
  /\ UNCHANGED << handler, stopper, isRunning, contents, handles, channels,
                  outside >>

\* badger.Open of both directories.  A chain database that is locked panics;
\* the error of the second Open is not looked at.
OpenDatabases(g) ==
  IF \E h \in Gens : <<h, "chain">> \in open
  THEN /\ Up
       /\ starter[g] = "databases"
       /\ process' = "locked out"
       /\ UNCHANGED << progress, fields, contents, handles, channels,
                       mainPC, shutdownListener, notified, signals >>
  ELSE /\ StarterAt(g, "databases", "server")
       /\ current' = g
       /\ open' = open \cup ({g} \X Dirs)
       /\ UNCHANGED << listener, handler, stopper, fields, shouldRestart,
                       server, closing, stopWaitGroup, channels, outside >>

NewServer(g) ==
  /\ StarterAt(g, "server", "go")
  /\ server' = [server EXCEPT ![g] = "created"]
  /\ shouldRestart' \in IF g < MaxStarts THEN BOOLEAN ELSE {FALSE}
  /\ UNCHANGED << listener, handler, stopper, fields, current, handles,
                  channels, outside >>

StartServer(g) ==
  /\ StarterAt(g, "go", "running")
  /\ server' = IF shouldRestart THEN server
               ELSE [server EXCEPT ![g] = "started"]
  /\ UNCHANGED << listener, handler, stopper, fields, current, shouldRestart,
                  handles, channels, outside >>

\* Mutant: a Start that only asks for the next one does not count as running.
SetRunning_UnlessRestart(g) ==
  /\ StarterAt(g, "running", IF shouldRestart THEN "resend" ELSE "notify")
  /\ isRunning' = ~shouldRestart
  /\ UNCHANGED << listener, handler, stopper, mutex, internalExitChan,
                  nodeMessageChan, contents, handles, channels, outside >>

SetRunning(g) ==
  /\ StarterAt(g, "running", IF shouldRestart THEN "resend" ELSE "notify")
  /\ isRunning' = TRUE
  /\ UNCHANGED << listener, handler, stopper, mutex, internalExitChan,
                  nodeMessageChan, contents, handles, channels, outside >>

\* A listener takes a message from the unbuffered channel of generation g.
Receive(h, g, op) ==
  /\ listener[h] = "select"
  /\ receivesOn[h] = g
  /\ listener' = [listener EXCEPT ![h] = "received"]
  /\ operation' = [operation EXCEPT ![h] = op]

\* The blocking send of NodeRestart, with the mutex held.
SendRestart(g) ==
  /\ StarterAt(g, "resend", "notify")
  /\ \E h \in Gens : Receive(h, nodeMessageChan, "NodeRestart")
  /\ UNCHANGED << handler, stopper, fields, contents, handles,
                  closed, waitsOn, receivesOn, outside >>

\* signal.Notify, spawn the signal goroutine, return.
FinishStart(g) ==
  /\ StarterAt(g, "notify", "done")
  /\ notified' = notified \cup {g}
  /\ handler' = [handler EXCEPT ![g] = "spawned"]
  /\ mutex' = Nobody
  /\ UNCHANGED << listener, stopper, isRunning, internalExitChan,
                  nodeMessageChan, contents, handles, channels,
                  process, mainPC, shutdownListener, signals >>

-----------------------------------------------------------------------------
(* Stop, called by a goroutine x.                                           *)

StopperAt(x, here, next) ==
  /\ Up
  /\ stopper[x] = here
  /\ stopper' = [stopper EXCEPT ![x] = next]
  /\ UNCHANGED << starter, listener, handler >>

\* Mutant: isRunning is not reset.
StopLocked_StillRunning(x) ==
  /\ mutex = Nobody
  /\ StopperAt(x, "lock", IF isRunning THEN "server" ELSE "returned")
  /\ mutex' = IF isRunning THEN x ELSE Nobody
  /\ UNCHANGED << isRunning, internalExitChan, nodeMessageChan, contents, handles,
                  channels, outside >>

\* Take the mutex; a node that is not running is left alone.
StopLocked(x) ==
  /\ mutex = Nobody
  /\ StopperAt(x, "lock", IF isRunning THEN "server" ELSE "returned")
  /\ mutex' = IF isRunning THEN x ELSE Nobody
  /\ isRunning' = FALSE
  /\ UNCHANGED << internalExitChan, nodeMessageChan, contents, handles, channels,
                  outside >>

\* Mutant: the databases are closed while the server runs.
StopServer_Skipped(x) ==
  /\ StopperAt(x, "server", "databases")
  /\ UNCHANGED << fields, contents, handles, channels, outside >>

\* Server.Stop, and the Stop of its snapshot.
StopServer(x) ==
  /\ StopperAt(x, "server", "databases")
  /\ server' = [server EXCEPT ![current] = "stopped"]
  /\ UNCHANGED << fields, current, shouldRestart, handles, channels, outside >>

\* Mutant: one Add for the two databases.
Adds_One == 1

Adds == Cardinality(Dirs)

\* closeDb adds to the wait group and spawns a goroutine, for each database.
CloseDatabases(x) ==
  /\ StopperAt(x, "databases", "wait")
  /\ stopWaitGroup' = stopWaitGroup + Adds
  /\ closing' = closing \cup ({current} \X Dirs)
  /\ UNCHANGED << fields, contents, open, channels, outside >>

\* One of these goroutines closes its database and is done.
CloseDb(d) ==
  /\ Up
  /\ \E c \in closing :
       /\ c[2] = d
       /\ open' = open \ {c}
       /\ closing' = closing \ {c}
  /\ stopWaitGroup' = stopWaitGroup - 1
  /\ UNCHANGED << progress, fields, contents, channels, outside >>

\* Mutant: stopWaitGroup is not waited for.
AllClosed_NotAwaited == TRUE

AllClosed == stopWaitGroup = 0

\* After the wait: close the exit channel and return.
FinishStop(x) ==
  /\ AllClosed
  /\ StopperAt(x, "wait", "returned")
  /\ closed' = closed \cup ({internalExitChan} \ {Nil})
  /\ internalExitChan' = Nil
  /\ mutex' = Nobody
  /\ UNCHANGED << isRunning, nodeMessageChan, contents, handles,
                  waitsOn, receivesOn, operation, outside >>

-----------------------------------------------------------------------------
(* listenToRestart.                                                         *)

ListenerAt(g, here, next) ==
  /\ Up
  /\ listener[g] = here
  /\ listener' = [listener EXCEPT ![g] = next]

\* The select reads both fields, without the mutex.
Listen(g) ==
  /\ ListenerAt(g, "spawned", "select")
  /\ waitsOn' = [waitsOn EXCEPT ![Listener(g)] = internalExitChan]
  /\ receivesOn' = [receivesOn EXCEPT ![g] = nodeMessageChan]
  /\ UNCHANGED << starter, handler, stopper, fields, contents, handles,
                  closed, operation, outside >>

ListenerEnds(g) ==
  /\ ListenerAt(g, "select", "done")
  /\ waitsOn[Listener(g)] \in closed
  /\ UNCHANGED << starter, handler, stopper, fields, contents, handles,
                  channels, outside >>

\* The core server asks for a restart, or for an erase and a restart.
ServerSends(g) ==
  /\ Up
  /\ server[g] = "started"
  /\ \E h \in Gens \ {MaxStarts} : \E op \in {"NodeRestart", "NodeErase"} :
       Receive(h, g, op)
  /\ UNCHANGED << starter, handler, stopper, fields, contents, handles,
                  closed, waitsOn, receivesOn, outside >>

\* isRunning is read without the mutex: a message to a node that is not
\* running panics, any other begins a Stop.
CheckRunning(g) ==
  IF isRunning
  THEN /\ ListenerAt(g, "received", "stopping")
       /\ stopper' = [stopper EXCEPT ![Listener(g)] = "lock"]
       /\ UNCHANGED << starter, handler, fields, contents, handles, channels,
                       outside >>
  ELSE /\ Up
       /\ listener[g] = "received"
       /\ process' = "assertion"
       /\ UNCHANGED << progress, fields, contents, handles, channels,
                       mainPC, shutdownListener, notified, signals >>

Stopped(g) ==
  /\ ListenerAt(g, "stopping", "restart")
  /\ stopper[Listener(g)] = "returned"
  /\ stopper' = [stopper EXCEPT ![Listener(g)] = "out"]
  /\ UNCHANGED << starter, handler, fields, contents, handles, channels, outside >>

\* Mutant: a node that was asked to restart is left stopped.
Restart_OnlyErase(g) ==
  /\ ListenerAt(g, "restart", "done")
  /\ starter' = IF operation[g] = "NodeErase"
                THEN [starter EXCEPT ![g + 1] = "spawned"] ELSE starter
  /\ UNCHANGED << handler, stopper, fields, contents, handles, channels, outside >>

\* NodeErase removes the data directory; then the next Start is spawned.
Restart(g) ==
  /\ ListenerAt(g, "restart", "done")
  /\ starter' = [starter EXCEPT ![g + 1] = "spawned"]
  /\ UNCHANGED << handler, stopper, fields, contents, handles, channels, outside >>

-----------------------------------------------------------------------------
(* The signal goroutine, and the main goroutine.                            *)

HandlerAt(g, here, next) ==
  /\ Up
  /\ handler[g] = here
  /\ handler' = [handler EXCEPT ![g] = next]
  /\ UNCHANGED << starter, listener >>

\* Its select reads internalExitChan, without the mutex.
Handle(g) ==
  /\ HandlerAt(g, "spawned", "select")
  /\ waitsOn' = [waitsOn EXCEPT ![Handler(g)] = internalExitChan]
  /\ UNCHANGED << stopper, fields, contents, handles, closed, receivesOn,
                  operation, outside >>

\* The closed channel ends it without closing the exit channels.
HandlerEnds(g) ==
  /\ HandlerAt(g, "select", "done")
  /\ waitsOn[Handler(g)] \in closed
  /\ UNCHANGED << stopper, fields, contents, handles, channels, outside >>

\* The goroutines that an interrupt finds in their select.
Reached == {g \in notified : handler[g] = "select"
                             /\ waitsOn[Handler(g)] \notin closed}

\* SIGINT or SIGTERM.  Before the first Notify it kills the process; later it
\* is offered to every registered channel and lost where nobody waits.
Interrupt ==
  /\ Up
  /\ signals < MaxSignals
  /\ signals' = signals + 1
  /\ process' = IF notified = {} THEN "killed" ELSE process
  /\ handler' = [g \in Gens |-> IF g \in Reached THEN "stopping"
                                ELSE handler[g]]
  /\ stopper' = [x \in Stoppers |->
                   IF \E g \in Reached : x = Handler(g) THEN "lock"
                   ELSE stopper[x]]
  /\ UNCHANGED << starter, listener, fields, contents, handles, channels,
                  mainPC, shutdownListener, notified >>

\* Mutant: the exit channel is not passed to the first Start either.
ExitChannelsOf_None(g) == {}

\* Start is given the exit channel by runCmd only: listenToRestart is called,
\* and so calls Start, without any.
ExitChannelsOf(g) == IF g = 1 THEN {"shutdownListener"} ELSE {}

\* After Stop: close every exit channel that is not nil, and set it to nil.
CloseExitChannels(g) ==
  /\ HandlerAt(g, "stopping", "done")
  /\ stopper[Handler(g)] = "returned"
  /\ stopper' = [stopper EXCEPT ![Handler(g)] = "out"]
  /\ shutdownListener' = IF ExitChannelsOf(g) = {} THEN shutdownListener
                         ELSE "nil"
  /\ UNCHANGED << fields, contents, handles, channels,
                  process, mainPC, notified, signals >>

\* runCmd reads the variable when it has set up the HTTP server.
MainWaits ==
  /\ Up
  /\ mainPC = "setup"
  /\ mainPC' = IF shutdownListener = "open" THEN "waiting" ELSE "stuck"
  /\ UNCHANGED << progress, fields, contents, handles, channels,
                  process, shutdownListener, notified, signals >>

MainReturns ==
  /\ Up
  /\ mainPC = "waiting"
  /\ shutdownListener = "nil"
  /\ process' = "exited"
  /\ UNCHANGED << progress, fields, contents, handles, channels,
                  mainPC, shutdownListener, notified, signals >>

\* A call whose error panics or is fatal: Open or NewServer in Start, Close in
\* Stop, RemoveAll in listenToRestart.
FatalError ==
  /\ Up
  /\ \/ \E g \in Gens : starter[g] \in {"databases", "server"}
     \/ closing # {}
     \/ \E g \in Gens : listener[g] = "restart" /\ operation[g] = "NodeErase"
  /\ process' = "fatal"
  /\ UNCHANGED << progress, fields, contents, handles, channels,
                  mainPC, shutdownListener, notified, signals >>

-----------------------------------------------------------------------------
StartStep(g) == \/ StartLocked(g)
                \/ OpenDatabases(g)
                \/ NewServer(g)
                \/ StartServer(g)
                \/ SetRunning(g)
                \/ SendRestart(g)
                \/ FinishStart(g)

StopStep(x) == \/ StopLocked(x)
               \/ StopServer(x)
               \/ CloseDatabases(x)
               \/ FinishStop(x)

ListenerStep(g) == \/ Listen(g)
                   \/ ListenerEnds(g)
                   \/ CheckRunning(g)
                   \/ Stopped(g)
                   \/ Restart(g)

HandlerStep(g) == \/ Handle(g)
                  \/ HandlerEnds(g)
                  \/ CloseExitChannels(g)

Main == MainWaits \/ MainReturns

Next == \/ \E g \in Gens : StartStep(g) \/ ListenerStep(g) \/ HandlerStep(g)
        \/ \E x \in Stoppers : StopStep(x)
        \/ \E d \in Dirs : CloseDb(d)
        \/ Main
        \/ \E g \in Gens : ServerSends(g)
        \/ Interrupt
        \/ FatalError

\* The Go scheduler runs every goroutine that can run; a mutex that is freed
\* goes to one of the waiters, each of which asks once.  Neither the server
\* nor the operating system has to do anything.
Fairness ==
  /\ \A g \in Gens : /\ WF_vars(StartStep(g))
                     /\ WF_vars(ListenerStep(g))
                     /\ WF_vars(HandlerStep(g))
  /\ \A x \in Stoppers : WF_vars(StopStep(x))
  /\ \A d \in Dirs : WF_vars(CloseDb(d))
  /\ WF_vars(Main)

Spec == Init /\ [][Next]_vars /\ Fairness

-----------------------------------------------------------------------------
\* A database directory is open once at most, and a Start never panics on the
\* directory lock of the node it follows: the restarted node opens only what
\* Stop has finished closing (deso/node.go:229, 250, 408-411).
OneHandle ==
  /\ process # "locked out"
  /\ \A d \in Dirs, g, h \in Gens :
       <<g, d>> \in open /\ <<h, d>> \in open => g = h

\* A started server always has both of its databases (deso/node.go:396, 408):
\* its handlers never meet a closed one.
ServerHasDatabases ==
  \A g \in Gens : server[g] = "started" => {g} \X Dirs \subseteq open

\* When the data directory is removed no database in it is open and no Start
\* is opening one, although Stop may have returned early because another
\* goroutine had stopped the node (deso/node.go:387, 444-455).
EraseFindsNothingOpen ==
  \A g \in Gens : listener[g] = "restart" =>
    /\ open = {}
    /\ \A h \in Gens : starter[h] \in {"none", "done"}

\* Whichever Stop returns, early because another goroutine stopped the node or
\* after its own wait, both databases are closed when it does (deso/node.go:387-389,
\* 404-414).  What its caller does next, closing the exit channels or starting
\* the next generation, comes after.
StopLeavesNothingOpen ==
  [][\A x \in Stoppers : stopper[x] # "returned" /\ stopper'[x] = "returned"
                         => open' = {}]_vars

\* Nobody buffers an interrupt, but a running node whose signal goroutine is in
\* its select never misses one: the channel it waits on is open, whatever
\* restarts came before (deso/node.go:192, 361-368).
RunningNodeHearsInterrupts ==
  isRunning /\ handler[current] = "select" => current \in Reached

\* Without an interrupt the panic of listenToRestart needs a message between
\* Server.Start and the assignment of isRunning that follows it: the message
\* that Start itself sends, and those of a node that Start has returned, find
\* it running (deso/node.go:350-361, 440).
PanicNeedsAnInterruptOrAStart ==
  process = "assertion" => signals > 0 \/ \E g \in Gens : starter[g] = "running"

\* A message that was received ends in a restarted node, or in the end of the
\* process: no Stop or Start waits for ever for the mutex, for the listener of
\* an unbuffered channel or for the wait group (deso/node.go:185, 357, 411).
RestartCompletes ==
  \A g \in Gens \ {MaxStarts} :
    listener[g] = "received" ~> starter[g + 1] = "done" \/ ~Up

\* An interrupt that reaches the first signal goroutine ends the process, also
\* when it races with a restart (deso/node.go:363-380, cmd/run.go:66).
FirstInterruptEndsProcess ==
  handler[1] = "stopping" /\ mainPC = "waiting" ~> ~Up

-----------------------------------------------------------------------------
\* deso/node.go:441: "Node is currently not running, nodeMessageChan should've
\* not been called!": the server never sends to a node that is not running.
MessagesFindNodeRunning == process # "assertion"

\* deso/node.go:391-392: "Node is shutting down. This might take a minute.":
\* an interrupt that any signal goroutine receives ends the process.
InterruptEndsProcess ==
  \A g \in Gens : handler[g] = "stopping" /\ mainPC = "waiting" ~> ~Up

\* deso/node.go:391-392: "Please don't close the node now or else you might
\* corrupt the state.": the process exits by itself only with its databases
\* closed.  The code does not keep this: generation 1's signal goroutine closes
\* the exit channel after its Stop although a restart may be on its way, and the
\* process ends with the databases of the next generation open.
ExitLeavesNothingOpen == process = "exited" => open = {}
=============================================================================
