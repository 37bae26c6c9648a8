------------------------------ MODULE LogMonitor ------------------------------
(***************************************************************************)
(* The life of a monitor: LogMonitorBean and StartupServiceBean of each     *)
(* deployment of TxVis on a server, and the Tailer of commons-io that the   *)
(* asynchronous start() runs.  The container calls setup() and tearDown();  *)
(* it runs start() some time later on a thread of its own, and the bean's   *)
(* READ lock lets stop() in between any two steps of it.                    *)
(*                                                                          *)
(* Tailer (external, 2.5-SNAPSHOT): run() opens the file and reads on while  *)
(* its flag is up; any exception goes to LogParser.handle(Exception), which *)
(* logs it, and run() returns.                                              *)
(***************************************************************************)
EXTENDS Naturals, Sequences

CONSTANTS
  MaxDeploys,  \* bound: deployments on the server, one after the other
  MaxStarts,   \* bound: invocations of start() in a deployment
  MaxLines,    \* bound: lines written to server.log
  MaxRenames,  \* bound: times the server starts a new server.log
  None         \* null

ASSUME LogMonitorAssumption ==
  {MaxDeploys, MaxStarts, MaxLines, MaxRenames} \subseteq Nat

Deploy == 1..MaxDeploys
Call == Deploy \X (1..MaxStarts)   \* invocations of start()
Of(c) == c[1]

ASSUME NoneAssumption == None \notin Call

VARIABLES
  logFile,   \* logFile[d]: whether LogMonitorBean's file is set
  tailer,    \* tailer[d]: its Tailer, named by the invocation that made it
  at,        \* at[c]: where the invocation c of start() is
  startup,   \* startup[d]: where setup() or tearDown() of d is
  runs,      \* runs[c]: the Tailer that c runs
  flag,      \* flag[c]: what Tailer.stop() of c's Tailer takes down
  position,  \* position[c]: the lines before it that its Tailer has read
  present,   \* whether there is a file with the name of the log
  renames,   \* counter of the bound
  written,   \* lines in the log, old files and new
  handled    \* lines given to LogParser, and the Tailer that gave them

beanVars == <<logFile, tailer, at, startup, runs, flag>>
fileVars == <<present, renames, written>>
vars == <<beanVars, fileVars, position, handled>>

Where == {"none", "queued", "create", "run", "open", "tailing",
          "caught", "returned"}

\* Types of the beans, their Tailers and the log.
TypeOK ==
  /\ logFile \in [Deploy -> BOOLEAN]
  /\ tailer \in [Deploy -> Call \cup {None}]
  /\ at \in [Call -> Where]
  /\ startup \in [Deploy -> {"none", "up", "stop", "reset", "down"}]
  /\ runs \in [Call -> Call \cup {None}]
  /\ flag \in [Call -> BOOLEAN]
  /\ position \in [Call -> 0..MaxLines]
  /\ present \in BOOLEAN /\ renames \in 0..MaxRenames /\ written \in 0..MaxLines
  /\ handled \in Seq([line : 1..MaxLines, by : Call])

Goto(c, w) == at' = [at EXCEPT ![c] = w]

-----------------------------------------------------------------------------
(* The server's log, and the Tailer that an invocation of start() runs.     *)

WriteLine ==
  /\ present /\ written < MaxLines
  /\ written' = written + 1
  /\ UNCHANGED <<beanVars, present, renames, position, handled>>

\* The server starts a new file: for a moment there is none of that name.
Rename ==
  \/ /\ present /\ renames < MaxRenames
     /\ present' = FALSE /\ renames' = renames + 1
     /\ UNCHANGED <<beanVars, written, position, handled>>
  \/ /\ ~present /\ present' = TRUE
     /\ UNCHANGED <<beanVars, renames, written, position, handled>>

\* Variant with a bug: the Tailer begins with the first line of the file.
OpenedFromStart == 0

\* Variant with a bug: the Tailer begins after the next line to come.
OpenedBeyond == written + 1

\* new Tailer(..., true): begin at the end of the file.
Opened == written

\* A missing file makes LogParser.fileNotFound() throw: run() returns.
Open(c) ==
  /\ at[c] = "open"
  /\ IF flag[runs[c]] /\ present
     THEN Goto(c, "tailing") /\ position' = [position EXCEPT ![c] = Opened]
     ELSE Goto(c, "returned") /\ UNCHANGED position
  /\ UNCHANGED <<logFile, tailer, startup, runs, flag, fileVars, handled>>

\* LogParser.handle().  What a handler throws ends the Tailer: intercept() of
\* HandlerService does not catch the failure to make an entity manager (:619).
ReadLine(c) ==
  /\ at[c] = "tailing" /\ flag[runs[c]]
  /\ position[c] < written
  /\ position' = [position EXCEPT ![c] = @ + 1]
  /\ handled' = Append(handled, [line |-> position[c] + 1, by |-> c])
  /\ UNCHANGED at \/ Goto(c, "returned")
  /\ UNCHANGED <<logFile, tailer, startup, runs, flag, fileVars>>

\* A flag that is down ends the loop, a file that is gone does so by an exception.
EndTailing(c) ==
  /\ at[c] = "tailing"
  /\ ~flag[runs[c]] \/ ~present
  /\ Goto(c, "returned")
  /\ UNCHANGED <<logFile, tailer, startup, runs, flag, fileVars, position, handled>>

-----------------------------------------------------------------------------
(* LogMonitorBean.                                                          *)

\* isRunning()
IsRunning(d) == tailer[d] # None

\* setFile() is refused while a Tailer is there.
SetFile(d) == ~IsRunning(d) /\ logFile' = [logFile EXCEPT ![d] = TRUE]

\* Variant with a bug: the field is reset and the Tailer left to itself.
TakeDownNot(d) == flag

\* stop(): tailer.stop()
TakeDown(d) == [flag EXCEPT ![tailer[d]] = FALSE]

\* start() goes on only if there is a file and no Tailer yet.
Begin(c) ==
  /\ at[c] = "queued"
  /\ Goto(c, IF logFile[Of(c)] /\ ~IsRunning(Of(c)) THEN "create" ELSE "returned")
  /\ UNCHANGED <<logFile, tailer, startup, runs, flag, fileVars, position, handled>>

\* The container may give up an invocation it has not begun after the undeployment.
Drop(c) ==
  /\ at[c] = "queued" /\ startup[Of(c)] = "down"
  /\ Goto(c, "returned")
  /\ UNCHANGED <<logFile, tailer, startup, runs, flag, fileVars, position, handled>>

Create(c) ==
  /\ at[c] = "create" /\ Goto(c, "run")
  /\ tailer' = [tailer EXCEPT ![Of(c)] = c]
  /\ flag' = [flag EXCEPT ![c] = TRUE]
  /\ UNCHANGED <<logFile, startup, runs, fileVars, position, handled>>

\* tailer.run(): the field is read again, and is null if stop() came in between.
Run(c) ==
  /\ at[c] = "run"
  /\ runs' = [runs EXCEPT ![c] = tailer[Of(c)]]
  /\ Goto(c, IF IsRunning(Of(c)) THEN "open" ELSE "caught")
  /\ UNCHANGED <<logFile, tailer, startup, flag, fileVars, position, handled>>

\* The catch block.  It is reached only with the field null, so that its stop()
\* does nothing; then startLogParser() asks for another start(), unless the
\* container refuses the call to a service it has torn down.
Caught(c) ==
  /\ at[c] = "caught"
  /\ \/ /\ SetFile(Of(c))
        /\ \E n \in 1..MaxStarts :
             /\ at[<<Of(c), n>>] = "none"
             /\ at' = [at EXCEPT ![c] = "returned", ![<<Of(c), n>>] = "queued"]
     \/ startup[Of(c)] = "down" /\ Goto(c, "returned") /\ UNCHANGED logFile
  /\ UNCHANGED <<tailer, startup, runs, flag, fileVars, position, handled>>

-----------------------------------------------------------------------------
(* StartupServiceBean.                                                      *)

\* setup() and startLogParser(): start() is left to the container.
Setup(d) ==
  /\ startup[d] = "none"
  /\ \A e \in 1..(d - 1) : startup[e] = "down"
  /\ startup' = [startup EXCEPT ![d] = "up"]
  /\ SetFile(d)
  /\ Goto(<<d, 1>>, "queued")
  /\ UNCHANGED <<tailer, runs, flag, fileVars, position, handled>>

\* tearDown() calls stop(), which tests the field, takes down the flag and
\* resets the field, one after the other.
TearDown(d) ==
  /\ \/ /\ startup[d] = "up"
        /\ startup' = [startup EXCEPT ![d] = IF IsRunning(d) THEN "stop" ELSE "down"]
        /\ UNCHANGED <<tailer, flag>>
     \/ /\ startup[d] = "stop"
        /\ startup' = [startup EXCEPT ![d] = "reset"]
        /\ flag' = TakeDown(d)
        /\ UNCHANGED tailer
     \/ /\ startup[d] = "reset"
        /\ startup' = [startup EXCEPT ![d] = "down"]
        /\ tailer' = [tailer EXCEPT ![d] = None]
        /\ UNCHANGED flag
  /\ UNCHANGED <<logFile, at, runs, fileVars, position, handled>>

-----------------------------------------------------------------------------
Init ==
  /\ logFile = [d \in Deploy |-> FALSE]
  /\ tailer = [d \in Deploy |-> None]
  /\ at = [c \in Call |-> "none"]
  /\ startup = [d \in Deploy |-> "none"]
  /\ runs = [c \in Call |-> None]
  /\ flag = [c \in Call |-> FALSE]
  /\ position = [c \in Call |-> 0]
  /\ present = TRUE
  /\ renames = 0
  /\ written = 0
  /\ handled = <<>>

Start(c) == Begin(c) \/ Create(c) \/ Run(c) \/ Caught(c)
Tailing(c) == Open(c) \/ ReadLine(c) \/ EndTailing(c)

Next ==
  \/ \E c \in Call : Start(c) \/ Tailing(c) \/ Drop(c)
  \/ \E d \in Deploy : Setup(d) \/ TearDown(d)
  \/ WriteLine \/ Rename

Spec == Init /\ [][Next]_vars

\* Threads go on: that of the Tailer, and the container's once tearDown() runs.
FairSpec ==
  /\ Spec
  /\ \A c \in Call : WF_vars(Start(c)) /\ WF_vars(Tailing(c))
  /\ \A d \in Deploy : WF_vars(startup[d] # "up" /\ TearDown(d))

-----------------------------------------------------------------------------
(* Properties.                                                              *)

\* tearDown() is through, and the Tailer of c has not been told to stop.
Outlives(c) == startup[Of(c)] = "down" /\ flag[c]

\* No line is handled twice, which would make two rows of a transaction and lose
\* all that comes after (HandlerService:53), be the monitor deployed again, its
\* Tailer dead or the log renamed; but for a Tailer that stop() came too early
\* for, and that reads on beside the next deployment's.
NoLineTwice ==
  \A i, j \in DOMAIN handled :
    (i # j /\ handled[i].line = handled[j].line)
      => Outlives(handled[i].by) \/ Outlives(handled[j].by)

\* A Tailer that stop() finds does end, wherever its start() has got to, and
\* start() with it: the application can be undeployed (LogMonitorBean:20-27).
StopEnds ==
  \A c \in Call :
    (startup[Of(c)] = "stop" /\ tailer[Of(c)] = c) ~> (at[c] = "returned")

=============================================================================
