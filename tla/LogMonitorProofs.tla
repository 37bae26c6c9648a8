-------------------------- MODULE LogMonitorProofs ---------------------------
(***************************************************************************)
(* Theorems about LogMonitor, for any number of deployments, invocations,   *)
(* lines and renamings: the types, and NoLineTwice.                         *)
(*                                                                          *)
(* The argument: in one deployment the invocations of start() form a chain, *)
(* each asked for by the catch block of the one before, and only one of     *)
(* them ever runs a Tailer.  Of two deployments the earlier is torn down    *)
(* before the later one begins: either its Tailer has been told to stop and *)
(* has read only what was written before the later one opened the log, or   *)
(* it was missed and outlives its deployment.                               *)
(***************************************************************************)
EXTENDS LogMonitor, TLAPS

Idle == {"none", "returned"}

\* In one deployment at most one invocation is under way, and once one has run
\* a Tailer no other is or ever will be.
ChainInv ==
  \A c, b \in Call : (c # b /\ Of(c) = Of(b)) =>
    /\ at[c] \notin Idle => at[b] \in Idle
    /\ runs[c] = c => at[b] \in Idle /\ runs[b] = None

\* An invocation runs its own Tailer or none.
RunsInv ==
  \A c \in Call :
    /\ runs[c] \in {c, None}
    /\ runs[c] = c => at[c] \in {"open", "tailing", "returned"}
    /\ at[c] \in {"open", "tailing"} => runs[c] = c
    /\ at[c] = "run" => tailer[Of(c)] \in {c, None}
    /\ flag[c] => at[c] \notin {"none", "queued", "create"}

\* The field of a deployment names a Tailer of its own.
TailerInv == \A d \in Deploy : tailer[d] # None => Of(tailer[d]) = d

\* A deployment begins when all before it are torn down.
StartupInv ==
  \A c \in Call :
    /\ startup[Of(c)] = "none" => at[c] = "none"
    /\ at[c] # "none" => \A d \in Deploy : d < Of(c) => startup[d] = "down"

\* What has been handled was read by a Tailer that has got so far; and if that
\* has been told to stop, a Tailer of a later deployment is beyond it.
HandledInv ==
  \A i \in DOMAIN handled :
    LET c == handled[i].by
    IN  /\ runs[c] = c /\ at[c] \in {"tailing", "returned"}
        /\ handled[i].line <= position[c] /\ handled[i].line <= written
        /\ ~ flag[c] => \A b \in Call : (Of(c) < Of(b) /\ at[b] = "tailing")
                                          => handled[i].line <= position[b]

\* One Tailer reads the lines in their order; one that has been told to stop
\* has read what comes before all that Tailers of later deployments read.
OrderInv ==
  \A i, j \in DOMAIN handled :
    (\/ handled[i].by = handled[j].by /\ i < j
     \/ Of(handled[i].by) < Of(handled[j].by) /\ ~ flag[handled[i].by])
      => handled[i].line < handled[j].line

LifeInv == TypeOK /\ ChainInv /\ RunsInv /\ TailerInv /\ StartupInv

IInv == LifeInv /\ HandledInv /\ OrderInv

\* Invocations are pairs, and belong to deployments.
LEMMA Calls ==
  /\ \A c \in Call : Of(c) \in Deploy
  /\ \A d \in Deploy : \A n \in 1..MaxStarts : <<d, n>> \in Call /\ Of(<<d, n>>) = d
  /\ \A d \in Deploy : d \in Nat
  BY LogMonitorAssumption DEF Call, Deploy, Of

-----------------------------------------------------------------------------
(* The life of the Tailers.                                                 *)

LEMMA InitLife == Init => LifeInv
  <1> SUFFICES ASSUME Init PROVE LifeInv
    OBVIOUS
  <1>1. TypeOK
    BY LogMonitorAssumption DEF Init, TypeOK, Where
  <1>2. \A c \in Call : c # None
    BY NoneAssumption
  <1> QED BY <1>1, <1>2, Calls
          DEF Init, LifeInv, ChainInv, RunsInv, TailerInv, StartupInv, Idle

\* The lines read have their type.
LEMMA ReadLineTyped ==
  ASSUME TypeOK, NEW c \in Call, ReadLine(c)
  PROVE  TypeOK'
  <1>1. position[c] + 1 \in 1..MaxLines
    BY LogMonitorAssumption DEF TypeOK, ReadLine
  <1>2. handled' \in Seq([line : 1..MaxLines, by : Call])
    BY <1>1 DEF TypeOK, ReadLine
  <1>3. position' \in [Call -> 0..MaxLines]
    BY <1>1 DEF TypeOK, ReadLine
  <1>4. at' \in [Call -> Where]
    BY DEF TypeOK, ReadLine, Goto, Where
  <1> QED BY <1>2, <1>3, <1>4 DEF TypeOK, ReadLine, fileVars

\* An invocation goes on from where it is under way to where it runs nothing
\* new, and nothing but its place changes.
LEMMA PlaceStep ==
  ASSUME LifeInv, NEW c \in Call, NEW w \in Where, Goto(c, w),
         at[c] \notin Idle,
         \/ at[c] = "queued" /\ w \in {"create", "returned"}
         \/ at[c] = "open" /\ w \in {"tailing", "returned"}
         \/ at[c] = "tailing" /\ w = "returned"
         \/ at[c] = "caught" /\ w = "returned",
         TypeOK', UNCHANGED <<tailer, startup, runs, flag>>
  PROVE  LifeInv'
  <1>1. at' = [at EXCEPT ![c] = w] /\ at \in [Call -> Where]
    BY DEF Goto, LifeInv, TypeOK
  <1>2. ChainInv'
    BY <1>1 DEF LifeInv, ChainInv, Idle
  <1>3. RunsInv' /\ TailerInv'
    BY <1>1 DEF LifeInv, RunsInv, TailerInv, Idle
  <1>4. StartupInv'
    BY <1>1 DEF LifeInv, StartupInv, Idle
  <1> QED BY <1>2, <1>3, <1>4 DEF LifeInv

\* Every step preserves the life of the Tailers.
LEMMA NextLife == LifeInv /\ [Next]_vars => LifeInv'
  <1> SUFFICES ASSUME LifeInv, [Next]_vars PROVE LifeInv'
    OBVIOUS
  <1>t. TypeOK
    BY DEF LifeInv
  <1>1. ASSUME NEW c \in Call, Begin(c) PROVE LifeInv'
    <2>1. TypeOK'
      BY <1>t, <1>1 DEF Begin, Goto, TypeOK, Where, fileVars
    <2> QED BY <1>1, <2>1, PlaceStep DEF Begin, Where, Idle
  <1>2. ASSUME NEW c \in Call, Create(c) PROVE LifeInv'
    <2>1. TypeOK'
      BY <1>t, <1>2, Calls DEF Create, Goto, TypeOK, Where, fileVars
    <2>2. /\ at[c] = "create" /\ at' = [at EXCEPT ![c] = "run"]
          /\ tailer' = [tailer EXCEPT ![Of(c)] = c]
          /\ flag' = [flag EXCEPT ![c] = TRUE]
          /\ UNCHANGED <<startup, runs>>
      BY <1>2 DEF Create, Goto
    <2>3. ChainInv' /\ StartupInv'
      BY <1>t, <2>2 DEF LifeInv, ChainInv, StartupInv, Idle, TypeOK
    <2>4. RunsInv'
      <3> SUFFICES ASSUME NEW b \in Call PROVE RunsInv!(b)'
        BY DEF RunsInv
      <3>1. CASE b = c
        BY <1>t, <2>2, <3>1, Calls DEF LifeInv, RunsInv, TypeOK
      <3>2. CASE b # c
        <4>1. at[b] # "run" \/ Of(b) # Of(c)
          BY <2>2, <3>2 DEF LifeInv, ChainInv, Idle
        <4> QED BY <1>t, <2>2, <3>2, <4>1, Calls DEF LifeInv, RunsInv, TypeOK
      <3> QED BY <3>1, <3>2
    <2>5. TailerInv'
      BY <1>t, <2>2, Calls DEF LifeInv, TailerInv, TypeOK
    <2> QED BY <2>1, <2>3, <2>4, <2>5 DEF LifeInv
  <1>3. ASSUME NEW c \in Call, Run(c) PROVE LifeInv'
    <2>1. TypeOK'
      BY <1>t, <1>3, Calls DEF Run, Goto, TypeOK, Where, fileVars
    <2>2. /\ at[c] = "run" /\ tailer[Of(c)] \in {c, None}
          /\ runs' = [runs EXCEPT ![c] = tailer[Of(c)]]
          /\ at' = [at EXCEPT ![c] = IF tailer[Of(c)] # None THEN "open" ELSE "caught"]
          /\ UNCHANGED <<tailer, startup, flag>>
      BY <1>3 DEF Run, Goto, IsRunning, LifeInv, RunsInv
    <2>3. \A b \in Call : b # c /\ Of(b) = Of(c) => at[b] \in Idle /\ runs[b] = None
      BY <2>2 DEF LifeInv, ChainInv, RunsInv, Idle
    <2>4. ChainInv'
      BY <1>t, <2>2, <2>3, NoneAssumption DEF LifeInv, ChainInv, Idle, TypeOK
    <2>5. RunsInv' /\ TailerInv' /\ StartupInv'
      BY <1>t, <2>2, NoneAssumption DEF LifeInv, RunsInv, TailerInv, StartupInv, TypeOK
    <2> QED BY <2>1, <2>4, <2>5 DEF LifeInv
  <1>4. ASSUME NEW c \in Call, Caught(c) PROVE LifeInv'
    <2>1. ASSUME startup[Of(c)] = "down", Goto(c, "returned"), UNCHANGED logFile
          PROVE  LifeInv'
      <3>1. TypeOK'
        BY <1>t, <1>4, <2>1 DEF Caught, Goto, TypeOK, Where, fileVars
      <3> QED BY <1>4, <2>1, <3>1, PlaceStep DEF Caught, Where, Idle
    <2>2. ASSUME NEW n \in 1..MaxStarts, at[<<Of(c), n>>] = "none",
                 at' = [at EXCEPT ![c] = "returned", ![<<Of(c), n>>] = "queued"],
                 SetFile(Of(c))
          PROVE  LifeInv'
      <3> DEFINE q == <<Of(c), n>>
      <3>1. q \in Call /\ Of(q) = Of(c) /\ q # c /\ at[c] = "caught"
        BY <1>4, <2>2, Calls DEF Caught
      <3> HIDE DEF q
      <3>2. /\ at' = [at EXCEPT ![c] = "returned", ![q] = "queued"]
            /\ at[q] = "none"
            /\ UNCHANGED <<tailer, startup, runs, flag>>
        BY <1>4, <2>2 DEF Caught, q
      <3>3. TypeOK'
        <4>1. at' \in [Call -> Where]
          BY <1>t, <3>1, <3>2 DEF TypeOK, Where
        <4>2. logFile' \in [Deploy -> BOOLEAN]
          BY <1>t, <2>2, Calls DEF SetFile, TypeOK
        <4> QED BY <1>t, <1>4, <4>1, <4>2 DEF Caught, TypeOK, fileVars
      <3>4. \A b \in Call : b # c /\ Of(b) = Of(c) => at[b] \in Idle
        BY <3>1 DEF LifeInv, ChainInv, Idle
      <3>5. \A b \in Call : Of(b) = Of(c) => runs[b] # b
        BY <3>1 DEF LifeInv, ChainInv, RunsInv, Idle
      <3>6. ChainInv'
        <4> SUFFICES ASSUME NEW x \in Call, NEW y \in Call, x # y, Of(x) = Of(y)
                     PROVE  /\ at'[x] \notin Idle => at'[y] \in Idle
                            /\ runs[x] = x => at'[y] \in Idle /\ runs[y] = None
          BY <3>2 DEF ChainInv
        <4>1. \A b \in Call : at'[b] = IF b = c THEN "returned"
                                       ELSE IF b = q THEN "queued" ELSE at[b]
          BY <1>t, <3>1, <3>2 DEF TypeOK
        <4>2. CASE Of(x) = Of(c)
          BY <3>1, <3>4, <3>5, <4>1, <4>2 DEF Idle
        <4>3. CASE Of(x) # Of(c)
          BY <3>1, <4>1, <4>3 DEF LifeInv, ChainInv
        <4> QED BY <4>2, <4>3
      <3>7. RunsInv' /\ TailerInv'
        BY <1>t, <3>1, <3>2, <3>5 DEF LifeInv, RunsInv, TailerInv, TypeOK
      <3>8. StartupInv'
        BY <1>t, <3>1, <3>2 DEF LifeInv, StartupInv, TypeOK
      <3> QED BY <3>3, <3>6, <3>7, <3>8 DEF LifeInv
    <2> QED BY <1>4, <2>1, <2>2 DEF Caught
  <1>5. ASSUME NEW c \in Call, Open(c) PROVE LifeInv'
    <2>1. TypeOK'
      BY <1>t, <1>5 DEF Open, Opened, Goto, TypeOK, Where, fileVars
    <2> QED BY <1>5, <2>1, PlaceStep DEF Open, Where, Idle
  <1>6. ASSUME NEW c \in Call, ReadLine(c) PROVE LifeInv'
    <2>1. TypeOK'
      BY <1>t, <1>6, ReadLineTyped
    <2>2. CASE Goto(c, "returned")
      BY <1>6, <2>1, <2>2, PlaceStep DEF ReadLine, Where, Idle
    <2>3. CASE UNCHANGED at
      BY <1>6, <2>1, <2>3
         DEF ReadLine, LifeInv, ChainInv, RunsInv, TailerInv, StartupInv
    <2> QED BY <1>6, <2>2, <2>3 DEF ReadLine
  <1>7. ASSUME NEW c \in Call, EndTailing(c) PROVE LifeInv'
    <2>1. TypeOK'
      BY <1>t, <1>7 DEF EndTailing, Goto, TypeOK, Where, fileVars
    <2> QED BY <1>7, <2>1, PlaceStep DEF EndTailing, Where, Idle
  <1>8. ASSUME NEW c \in Call, Drop(c) PROVE LifeInv'
    <2>1. TypeOK'
      BY <1>t, <1>8 DEF Drop, Goto, TypeOK, Where, fileVars
    <2> QED BY <1>8, <2>1, PlaceStep DEF Drop, Where, Idle
  <1>9. ASSUME NEW d \in Deploy, Setup(d) PROVE LifeInv'
    <2> DEFINE q == <<d, 1>>
    <2>1. CASE q \in Call
      <3>1. /\ startup[d] = "none" /\ Of(q) = d
            /\ \A e \in Deploy : e < d => startup[e] = "down"
            /\ startup' = [startup EXCEPT ![d] = "up"]
            /\ at' = [at EXCEPT ![q] = "queued"]
            /\ UNCHANGED <<tailer, runs, flag>>
        BY <1>9, LogMonitorAssumption DEF Setup, Goto, Of, Deploy
      <3> HIDE DEF q
      <3>2. TypeOK'
        BY <1>t, <1>9, <2>1, <3>1 DEF Setup, SetFile, TypeOK, Where, fileVars
      <3>3. \A b \in Call : Of(b) = d => at[b] = "none" /\ runs[b] # b
        BY <3>1 DEF LifeInv, StartupInv, RunsInv
      <3>4. ChainInv' /\ RunsInv' /\ TailerInv'
        BY <1>t, <2>1, <3>1, <3>3
           DEF LifeInv, ChainInv, RunsInv, TailerInv, Idle, TypeOK
      <3>5. StartupInv'
        BY <1>t, <2>1, <3>1, Calls DEF LifeInv, StartupInv, TypeOK
      <3> QED BY <3>2, <3>4, <3>5 DEF LifeInv
    <2>2. CASE q \notin Call
      <3>1. \A b \in Call : FALSE
        BY <1>9, <2>2, LogMonitorAssumption DEF Call
      <3>2. TypeOK'
        BY <1>t, <1>9, <3>1 DEF Setup, SetFile, Goto, TypeOK, fileVars
      <3>3. UNCHANGED tailer
        BY <1>9 DEF Setup
      <3> QED BY <3>1, <3>2, <3>3
              DEF LifeInv, ChainInv, RunsInv, TailerInv, StartupInv
    <2> QED BY <2>1, <2>2
  <1>10. ASSUME NEW d \in Deploy, TearDown(d) PROVE LifeInv'
    <2>1. /\ startup[d] \notin {"none", "down"}
          /\ startup' \in [Deploy -> {"none", "up", "stop", "reset", "down"}]
          /\ \A e \in Deploy : startup'[e] # startup[e] => e = d
          /\ startup'[d] # "none"
          /\ tailer' = tailer \/ tailer' = [tailer EXCEPT ![d] = None]
          /\ flag' = flag \/ flag' = [flag EXCEPT ![tailer[d]] = FALSE]
          /\ UNCHANGED <<at, runs>>
      BY <1>t, <1>10 DEF TearDown, TakeDown, TypeOK
    <2>2. TypeOK'
      BY <1>t, <1>10, <2>1 DEF TearDown, TypeOK, fileVars
    <2>3. ChainInv'
      BY <2>1 DEF LifeInv, ChainInv
    <2>5. \A e \in Deploy : tailer'[e] \in {tailer[e], None}
      BY <1>t, <2>1 DEF TypeOK
    <2>6. \A c \in Call : flag'[c] => flag[c]
      BY <1>t, <2>1 DEF TypeOK
    <2>7. RunsInv' /\ TailerInv'
      BY <2>1, <2>5, <2>6, Calls DEF LifeInv, RunsInv, TailerInv
    <2>4. StartupInv'
      BY <1>t, <2>1, Calls DEF LifeInv, StartupInv, TypeOK
    <2> QED BY <2>2, <2>3, <2>4, <2>7 DEF LifeInv
  <1>11. ASSUME UNCHANGED beanVars, TypeOK' PROVE LifeInv'
    BY <1>11 DEF LifeInv, beanVars, ChainInv, RunsInv, TailerInv, StartupInv
  <1>12. CASE WriteLine \/ Rename \/ UNCHANGED vars
    <2>1. /\ UNCHANGED <<beanVars, position, handled>>
          /\ present' \in BOOLEAN
      BY <1>t, <1>12 DEF WriteLine, Rename, vars, TypeOK, fileVars
    <2>2. renames' \in 0..MaxRenames /\ written' \in 0..MaxLines
      BY <1>t, <1>12, LogMonitorAssumption DEF WriteLine, Rename, vars, TypeOK, fileVars
    <2>3. TypeOK'
      BY <1>t, <2>1, <2>2 DEF TypeOK, beanVars
    <2> QED BY <1>11, <2>1, <2>3
  <1> QED BY <1>1, <1>2, <1>3, <1>4, <1>5, <1>6, <1>7, <1>8, <1>9, <1>10, <1>12
          DEF Next, Start, Tailing

\* For any deployments, lines and renamings beans, Tailers and lines are typed.
THEOREM TypeCorrect == Spec => []TypeOK
  <1>1. LifeInv => TypeOK
    BY DEF LifeInv
  <1> QED BY InitLife, NextLife, <1>1, PTL DEF Spec

-----------------------------------------------------------------------------
(* What has been read.                                                      *)

\* The lines and Tailers of what has been handled are typed.
LEMMA HandledTyped ==
  ASSUME TypeOK
  PROVE  /\ \A i \in DOMAIN handled : /\ i \in Nat /\ handled[i].by \in Call
                                      /\ handled[i].line \in Nat
         /\ \A c \in Call : position[c] \in Nat /\ Of(c) \in Nat
         /\ written \in Nat
  <1>1. /\ handled \in Seq([line : 1..MaxLines, by : Call])
        /\ position \in [Call -> 0..MaxLines] /\ written \in 0..MaxLines
        /\ MaxLines \in Nat
    BY LogMonitorAssumption DEF TypeOK
  <1> DEFINE Read == [line : 1..MaxLines, by : Call]
  <1>2. \A i \in DOMAIN handled : i \in Nat /\ handled[i] \in Read
    <2>1. handled \in Seq(Read)
      BY <1>1
    <2> HIDE DEF Read
    <2> QED BY <2>1
  <1>3. \A r \in Read : r.by \in Call /\ r.line \in Nat
    BY <1>1
  <1> HIDE DEF Read
  <1> QED BY <1>1, <1>2, <1>3, Calls

\* A step that reads nothing and opens nothing preserves what is known of the
\* lines read, if no flag goes down of a Tailer with a later one behind it.
LEMMA QuietStep ==
  ASSUME LifeInv, HandledInv, OrderInv,
         UNCHANGED <<position, handled>>, written' = written \/ written' = written + 1,
         \A c \in Call : runs[c] = c => runs'[c] = c,
         \A c \in Call : at[c] \in {"tailing", "returned"} => at'[c] \in {"tailing", "returned"},
         \A c \in Call : at'[c] = "tailing" => at[c] = "tailing",
         \A c, b \in Call : (flag[c] /\ ~ flag'[c] /\ Of(c) < Of(b)) => at[b] = "none"
  PROVE  HandledInv' /\ OrderInv'
  <1>t. /\ \A i \in DOMAIN handled : handled[i].by \in Call /\ handled[i].line \in Nat
        /\ written \in Nat
    BY HandledTyped DEF LifeInv
  <1>1. HandledInv'
    <2> SUFFICES ASSUME NEW i \in DOMAIN handled,
                        NEW c, c = handled[i].by
                 PROVE  /\ runs'[c] = c /\ at'[c] \in {"tailing", "returned"}
                        /\ handled[i].line <= position[c] /\ handled[i].line <= written'
                        /\ ~ flag'[c] => \A b \in Call : (Of(c) < Of(b) /\ at'[b] = "tailing")
                                                           => handled[i].line <= position[b]
      BY DEF HandledInv
    <2>1. handled[i].line <= written'
      BY <1>t DEF HandledInv
    <2>2. ASSUME ~ flag'[c], NEW b \in Call, Of(c) < Of(b), at'[b] = "tailing"
          PROVE  handled[i].line <= position[b]
      <3>1. at[b] = "tailing" /\ ~ flag[c]
        BY <1>t, <2>2
      <3> QED BY <2>2, <3>1 DEF HandledInv
    <2> QED BY <1>t, <2>1, <2>2 DEF HandledInv
  <1>2. OrderInv'
    <2> SUFFICES ASSUME NEW i \in DOMAIN handled, NEW j \in DOMAIN handled,
                        \/ handled[i].by = handled[j].by /\ i < j
                        \/ Of(handled[i].by) < Of(handled[j].by) /\ ~ flag'[handled[i].by]
                 PROVE  handled[i].line < handled[j].line
      BY DEF OrderInv
    <2>1. CASE handled[i].by = handled[j].by /\ i < j
      BY <2>1 DEF OrderInv
    <2>2. CASE Of(handled[i].by) < Of(handled[j].by) /\ ~ flag'[handled[i].by]
      <3>1. at[handled[j].by] # "none"
        BY DEF HandledInv
      <3>2. ~ flag[handled[i].by]
        BY <1>t, <2>2, <3>1
      <3> QED BY <2>2, <3>2 DEF OrderInv
    <2> QED BY <2>1, <2>2
  <1> QED BY <1>1, <1>2

\* A Tailer that is opened begins after everything that has been read.
LEMMA OpenStep ==
  ASSUME LifeInv, HandledInv, OrderInv, NEW c \in Call, Open(c)
  PROVE  HandledInv' /\ OrderInv'
  <1>t. TypeOK
    BY DEF LifeInv
  <1>1. CASE UNCHANGED position /\ Goto(c, "returned")
    BY <1>t, <1>1, QuietStep DEF Open, Goto, TypeOK, fileVars
  <1>2. CASE position' = [position EXCEPT ![c] = written] /\ Goto(c, "tailing")
    <2>1. /\ at[c] = "open" /\ at' = [at EXCEPT ![c] = "tailing"]
          /\ UNCHANGED <<runs, flag, handled, written>>
      BY <1>2 DEF Open, Goto, fileVars
    <2>2. \A i \in DOMAIN handled : handled[i].by # c
      BY <2>1 DEF HandledInv
    <2>3. \A b \in Call \ {c} : at'[b] = at[b] /\ position'[b] = position[b]
      BY <1>t, <1>2, <2>1 DEF TypeOK
    <2>4. at'[c] = "tailing" /\ position'[c] = written
      BY <1>t, <1>2, <2>1 DEF TypeOK
    <2>5. \A i \in DOMAIN handled : handled[i].by \in Call
      BY <1>t, HandledTyped
    <2>6. HandledInv'
      BY <2>1, <2>2, <2>3, <2>4, <2>5 DEF HandledInv
    <2> QED BY <2>1, <2>6 DEF OrderInv
  <1> QED BY <1>1, <1>2 DEF Open, Opened

\* A line that is read comes after all that Tailers told to stop, of earlier
\* deployments, and the Tailer itself have read.
LEMMA ReadStep ==
  ASSUME LifeInv, HandledInv, OrderInv, NEW c \in Call, ReadLine(c)
  PROVE  HandledInv' /\ OrderInv'
  <1>t. TypeOK
    BY DEF LifeInv
  <1> DEFINE k == Len(handled) + 1
             new == position[c] + 1
  <1>1. /\ at[c] = "tailing" /\ runs[c] = c /\ flag[c]
        /\ position[c] < written
        /\ position' = [position EXCEPT ![c] = new]
        /\ handled' = Append(handled, [line |-> new, by |-> c])
        /\ UNCHANGED <<runs, flag, written>>
        /\ at' = at \/ at' = [at EXCEPT ![c] = "returned"]
    BY DEF ReadLine, LifeInv, RunsInv, Goto, fileVars
  <1>2. /\ DOMAIN handled' = DOMAIN handled \cup {k}
        /\ handled'[k].line = new /\ handled'[k].by = c
        /\ \A i \in DOMAIN handled : handled'[i] = handled[i] /\ i < k /\ i # k
        /\ k \in Nat
    BY <1>1, <1>t DEF TypeOK
  <1>3. /\ position'[c] = new /\ new = position[c] + 1
        /\ \A b \in Call \ {c} : position'[b] = position[b]
        /\ \A b \in Call : at'[b] = "tailing" => at[b] = "tailing"
        /\ \A b \in Call : at[b] \in {"tailing", "returned"}
                              => at'[b] \in {"tailing", "returned"}
    BY <1>t, <1>1 DEF TypeOK
  <1>4. /\ \A i \in DOMAIN handled : handled[i].by \in Call /\ handled[i].line \in Nat
        /\ \A b \in Call : position[b] \in Nat /\ Of(b) \in Nat
        /\ written \in Nat
    BY <1>t, HandledTyped
  <1> HIDE DEF k, new
  <1>5. HandledInv'
    <2>1. ASSUME NEW i \in DOMAIN handled
          PROVE  LET b == handled[i].by
                 IN  /\ runs'[b] = b /\ at'[b] \in {"tailing", "returned"}
                     /\ handled[i].line <= position'[b] /\ handled[i].line <= written'
                     /\ ~ flag'[b] => \A e \in Call : (Of(b) < Of(e) /\ at'[e] = "tailing")
                                                        => handled[i].line <= position'[e]
      <3>1. \A b \in Call : position[b] <= position'[b] /\ position'[b] \in Nat
        BY <1>3, <1>4
      <3> QED BY <1>1, <1>3, <1>4, <3>1 DEF HandledInv
    <2>2. /\ runs'[c] = c /\ at'[c] \in {"tailing", "returned"} /\ flag'[c]
          /\ new <= position'[c] /\ new <= written'
      BY <1>1, <1>3, <1>4
    <2> QED BY <1>2, <2>1, <2>2 DEF HandledInv
  <1>6. OrderInv'
    <2> SUFFICES ASSUME NEW i \in DOMAIN handled', NEW j \in DOMAIN handled',
                        \/ handled'[i].by = handled'[j].by /\ i < j
                        \/ Of(handled'[i].by) < Of(handled'[j].by) /\ ~ flag[handled'[i].by]
                 PROVE  handled'[i].line < handled'[j].line
      BY <1>1 DEF OrderInv
    <2>1. CASE i \in DOMAIN handled /\ j \in DOMAIN handled
      BY <1>2, <2>1 DEF OrderInv
    <2>2. CASE i \in DOMAIN handled /\ j = k
      <3>1. handled[i].line <= position[c]
        BY <1>1, <1>2, <2>2 DEF HandledInv
      <3> QED BY <1>2, <1>3, <1>4, <2>2, <3>1
    <2>3. CASE i = k
      <3>1. j = k \/ (j < k /\ j \in Nat)
        BY <1>2, HandledTyped, <1>t
      <3>2. ~ (i < j)
        BY <1>2, <2>3, <3>1
      <3> QED BY <1>1, <1>2, <2>3, <3>2
    <2> QED BY <1>2, <2>1, <2>2, <2>3
  <1> QED BY <1>5, <1>6

\* When a flag goes down no later deployment has begun.
LEMMA TearDownStep ==
  ASSUME LifeInv, HandledInv, OrderInv, NEW d \in Deploy, TearDown(d)
  PROVE  HandledInv' /\ OrderInv'
  <1>t. TypeOK
    BY DEF LifeInv
  <1>1. /\ startup[d] # "down"
        /\ flag' = flag \/ flag' = [flag EXCEPT ![tailer[d]] = FALSE]
        /\ UNCHANGED <<at, runs, written, position, handled>>
    BY DEF TearDown, TakeDown, fileVars
  <1>2. ASSUME NEW c \in Call, NEW b \in Call, flag[c], ~ flag'[c], Of(c) < Of(b)
        PROVE  at[b] = "none"
    <2>1. c = tailer[d] /\ Of(c) = d
      BY <1>t, <1>1, <1>2, NoneAssumption DEF TypeOK, LifeInv, TailerInv
    <2> QED BY <1>1, <1>2, <2>1 DEF LifeInv, StartupInv
  <1> QED BY <1>1, <1>2, QuietStep

\* The invariant is inductive.
LEMMA NextIInv == IInv /\ [Next]_vars => IInv'
  <1> SUFFICES ASSUME IInv, [Next]_vars PROVE HandledInv' /\ OrderInv'
    BY NextLife DEF IInv
  <1>t. TypeOK /\ LifeInv /\ HandledInv /\ OrderInv
    BY DEF IInv, LifeInv
  <1>1. ASSUME NEW c \in Call, Begin(c) \/ Create(c) \/ EndTailing(c) \/ Drop(c)
        PROVE  HandledInv' /\ OrderInv'
    <2>1. /\ UNCHANGED <<position, handled, written, runs>>
          /\ \A b \in Call : flag[b] => flag'[b]
          /\ \A b \in Call : at[b] \in {"tailing", "returned"}
                                => at'[b] \in {"tailing", "returned"}
          /\ \A b \in Call : at'[b] = "tailing" => at[b] = "tailing"
      BY <1>t, <1>1 DEF Begin, Create, EndTailing, Drop, Goto, TypeOK, fileVars
    <2> QED BY <1>t, <2>1, QuietStep
  <1>2. ASSUME NEW c \in Call, Run(c) \/ Caught(c)
        PROVE  HandledInv' /\ OrderInv'
    <2>1. UNCHANGED <<position, handled, written, flag>>
      BY <1>2 DEF Run, Caught, fileVars
    <2>2. \A b \in Call : runs[b] = b => runs'[b] = b
      BY <1>t, <1>2 DEF Run, Caught, TypeOK, LifeInv, RunsInv
    <2>3. \A b \in Call : /\ at[b] \in {"tailing", "returned"}
                                => at'[b] \in {"tailing", "returned"}
                          /\ at'[b] = "tailing" => at[b] = "tailing"
      BY <1>t, <1>2 DEF Run, Caught, Goto, TypeOK
    <2> QED BY <1>t, <2>1, <2>2, <2>3, QuietStep
  <1>3. ASSUME NEW d \in Deploy, Setup(d) PROVE HandledInv' /\ OrderInv'
    <2>1. /\ UNCHANGED <<position, handled, written, flag, runs>>
          /\ startup[d] = "none" /\ at' = [at EXCEPT ![<<d, 1>>] = "queued"]
      BY <1>3 DEF Setup, Goto, fileVars
    <2>2. \A b \in Call : b = <<d, 1>> => at[b] = "none"
      BY <1>t, <2>1 DEF LifeInv, StartupInv, Of
    <2>3. \A b \in Call : /\ at[b] \in {"tailing", "returned"}
                                => at'[b] \in {"tailing", "returned"}
                          /\ at'[b] = "tailing" => at[b] = "tailing"
      BY <1>t, <2>1, <2>2 DEF TypeOK
    <2> QED BY <1>t, <2>1, <2>3, QuietStep
  <1>4. CASE WriteLine \/ Rename \/ UNCHANGED vars
    <2>1. /\ UNCHANGED <<position, handled, flag, runs, at>>
          /\ written' = written \/ written' = written + 1
      BY <1>4 DEF WriteLine, Rename, vars, beanVars, fileVars
    <2> QED BY <1>t, <2>1, QuietStep
  <1> QED BY <1>t, <1>1, <1>2, <1>3, <1>4, OpenStep, ReadStep, TearDownStep
          DEF Next, Start, Tailing

\* No two Tailers read one line, but for one that outlives its deployment.
LEMMA IInvNoLineTwice == IInv => NoLineTwice
  <1> SUFFICES ASSUME IInv, NEW i \in DOMAIN handled, NEW j \in DOMAIN handled,
                      i # j, handled[i].line = handled[j].line
               PROVE  Outlives(handled[i].by) \/ Outlives(handled[j].by)
    BY DEF NoLineTwice
  <1> DEFINE c == handled[i].by
             b == handled[j].by
  <1>1. /\ c \in Call /\ b \in Call /\ Of(c) \in Nat /\ Of(b) \in Nat
        /\ i \in Nat /\ j \in Nat /\ handled[i].line \in Nat
    BY HandledTyped DEF IInv, LifeInv
  <1>2. c # b
    BY <1>1 DEF IInv, OrderInv
  <1>3. Of(c) # Of(b)
    BY <1>1, <1>2, NoneAssumption DEF IInv, HandledInv, LifeInv, ChainInv
  <1>4. at[c] # "none" /\ at[b] # "none"
    BY DEF IInv, HandledInv
  <1>5. CASE Of(c) < Of(b)
    <2>1. flag[c]
      BY <1>1, <1>5 DEF IInv, OrderInv
    <2>2. startup[Of(c)] = "down"
      BY <1>1, <1>4, <1>5, Calls DEF IInv, LifeInv, StartupInv
    <2> QED BY <2>1, <2>2 DEF Outlives
  <1>6. CASE Of(b) < Of(c)
    <2>1. flag[b]
      BY <1>1, <1>6 DEF IInv, OrderInv
    <2>2. startup[Of(b)] = "down"
      BY <1>1, <1>4, <1>6, Calls DEF IInv, LifeInv, StartupInv
    <2> QED BY <2>1, <2>2 DEF Outlives
  <1> QED BY <1>1, <1>3, <1>5, <1>6

\* However often the application is deployed, its Tailers die or the log is
\* renamed, no line is handled twice; but for a Tailer that stop() came too
\* early for (LogMonitorBean:60-83, StartupServiceBean).
THEOREM NoLineTwiceCorrect == Spec => []NoLineTwice
  <1>1. Init => IInv
    BY InitLife DEF Init, IInv, HandledInv, OrderInv
  <1> QED BY NextIInv, IInvNoLineTwice, <1>1, PTL DEF Spec

=============================================================================
