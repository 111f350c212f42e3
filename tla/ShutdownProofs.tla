--------------------------- MODULE ShutdownProofs ---------------------------
(***************************************************************************)
(* For every configuration, read deadline, write deadline and sleep: how   *)
(* long Run can outlive the cancel, and what the handler's exit can cut    *)
(* off.  The argument is a budget: the time waited since the cancel and    *)
(* what is left on a reader's timer never exceed what the reader may take. *)
(***************************************************************************)
EXTENDS Shutdown, TLAPS

\* What main, the handler and the goroutines have in common.
Phase ==
  /\ ctxDone <=> handler = "sleep"
  /\ main \in {"flags", "setup"} => \A x \in Goroutines(conf) : at[x] = "off"
  /\ main = "run" => \A x \in Goroutines(conf) :
       at[x] \in IF x \in Readers(conf) THEN {"top", "read", "write", "done"} ELSE {"select", "done"}
  /\ main = "returned" => \A x \in Goroutines(conf) : at[x] = "done"

\* Nothing is counted before the cancel, nor time before Run.
Fresh ==
  /\ ~ ctxDone => waited = 0 /\ \A r \in Readers(conf) : more[r] = 0
  /\ main \in {"flags", "setup"} => waited = 0

\* What is left of a read or a write.
Budget(r) ==
  /\ at[r] = "read"  => /\ timer[r] <= readDeadline /\ more[r] = 0
                        /\ ctxDone => waited + timer[r] <= readDeadline
  /\ at[r] = "write" => /\ timer[r] <= WriteDeadline /\ Relays(conf, r)
                        /\ ctxDone => waited + timer[r] <= readDeadline + WriteDeadline

\* While a reader is active the handler sleeps for what Run has not waited yet.
Clock ==
  (\E r \in Readers(conf) : Active(r)) /\ handler = "sleep" => waited + sleep = CancelSleep

IInv ==
  /\ TypeOK /\ Phase /\ Fresh /\ Clock
  /\ \A r \in Readers(conf) : Budget(r)
  /\ DrainBound /\ GracefulExit /\ OneMore

USE TimeAssumption

LEMMA ReadersRun == \A c : Readers(c) \subseteq Goroutines(c) /\ Workers(c) \subseteq Goroutines(c)
BY DEF Goroutines

\* The relays among the readers have the write deadline on top.
LEMMA DrainTimeIs ==
  ASSUME TypeOK
  PROVE  /\ DrainTime \in Nat /\ readDeadline \in Nat /\ readDeadline <= DrainTime
         /\ \A r \in Readers(conf) : Relays(conf, r) => DrainTime = readDeadline + WriteDeadline
BY DEF TypeOK, DrainTime

LEMMA InitHolds == Init => IInv
<1> SUFFICES ASSUME Init PROVE IInv
    OBVIOUS
<1>1. TypeOK
  <2>1. at \in [Goroutines(conf) -> {"off", "top", "read", "write", "select", "done"}]
    BY DEF Init
  <2>2. timer \in [Goroutines(conf) -> Nat] /\ more \in [Goroutines(conf) -> Nat]
    BY DEF Init
  <2>3. sleep \in 0 .. CancelSleep /\ waited \in Nat
    BY DEF Init
  <2>4. conf \in Configs /\ readDeadline \in ReadDeadlines /\ main = "flags"
        /\ handler = "new" /\ ctxDone \in BOOLEAN /\ exit = "no"
    BY DEF Init
  <2> QED BY <2>1, <2>2, <2>3, <2>4 DEF TypeOK
<1>2. Phase
  <2>1. ~ ctxDone /\ handler # "sleep"
    BY DEF Init
  <2>2. main = "flags" /\ \A x \in Goroutines(conf) : at[x] = "off"
    BY DEF Init
  <2> QED BY <2>1, <2>2 DEF Phase
<1>5. Fresh /\ Clock /\ OneMore
  BY ReadersRun DEF Init, Fresh, Clock, OneMore
<1>3. \A r \in Readers(conf) : Budget(r)
  BY ReadersRun DEF Init, Budget
<1>4. DrainBound /\ GracefulExit
  BY DEF Init, DrainBound, GracefulExit
<1> QED BY <1>1, <1>2, <1>3, <1>4, <1>5 DEF IInv

\* Steps of main, the handler and the environment leave the readers alone.
LEMMA OutsideStep ==
  ASSUME IInv, UNCHANGED <<flags, work, waited>>, ctxDone' \in BOOLEAN, exit' = exit,
         main' \in {"flags", "setup", "run", "returned"},
         handler' \in {"new", "wait", "caught", "sleep"}, sleep' \in 0 .. CancelSleep,
         Phase', ctxDone' = ctxDone, handler' = "sleep" => sleep' = sleep,
         handler' = "sleep" => handler = "sleep",
         main' \in {"flags", "setup"} => main \in {"flags", "setup"},
         main' = "run" => main = "run"
  PROVE  IInv'
<1>1. TypeOK'
  BY DEF IInv, TypeOK, flags, work
<1>2. Fresh' /\ Clock' /\ OneMore'
  BY DEF IInv, Fresh, Clock, OneMore, Active, flags, work
<1>3. \A r \in Readers(conf') : Budget(r)'
  BY DEF IInv, Budget, flags, work, Relays
<1>4. DrainBound' /\ GracefulExit'
  BY DEF IInv, DrainBound, GracefulExit, DrainTime, Active, flags, work, Relays
<1> QED BY <1>1, <1>2, <1>3, <1>4 DEF IInv

LEMMA StartRunStep == IInv /\ StartRun => IInv'
<1> SUFFICES ASSUME IInv, StartRun PROVE IInv'
    OBVIOUS
<1>1. TypeOK'
  BY DEF IInv, StartRun, TypeOK, flags
<1>2. Phase'
  BY DEF IInv, StartRun, TypeOK, Phase, flags
<1>3. Fresh' /\ Clock' /\ OneMore'
  BY ReadersRun DEF IInv, StartRun, Fresh, Clock, OneMore, Active, flags
<1>4. \A r \in Readers(conf') : Budget(r)'
  BY ReadersRun DEF IInv, StartRun, Budget, flags
<1>5. DrainBound' /\ GracefulExit'
  <2>1. waited = 0 /\ DrainTime \in Nat
    BY DrainTimeIs DEF IInv, Fresh, StartRun
  <2>2. DrainTime' = DrainTime
    BY DEF StartRun, DrainTime, Relays, flags
  <2>3. exit' = exit /\ conf' = conf /\ waited' = waited /\ \A r \in Readers(conf) : ~ Active(r)'
    BY ReadersRun DEF StartRun, flags, Active
  <2> QED BY <2>1, <2>2, <2>3 DEF DrainBound, GracefulExit
<1> QED BY <1>1, <1>2, <1>3, <1>4, <1>5 DEF IInv

\* The cancel starts the handler's clock; no time has been waited yet.
LEMMA CancelStep == IInv /\ Cancel => IInv'
<1> SUFFICES ASSUME IInv, Cancel PROVE IInv'
    OBVIOUS
<1>1. TypeOK'
  BY DEF IInv, Cancel, TypeOK, flags, work
<1>2. ~ ctxDone /\ waited = 0 /\ waited' = 0 /\ ctxDone' /\ handler' = "sleep" /\ sleep' = CancelSleep
  BY DEF IInv, Cancel, Phase, Fresh
<1>3. Phase'
  BY <1>2 DEF IInv, Cancel, Phase, flags, work
<1>4. Fresh' /\ Clock' /\ OneMore'
  BY <1>2 DEF IInv, Cancel, Fresh, Clock, OneMore, flags, work
<1>5. \A r \in Readers(conf') : Budget(r)'
  <2>1. \A r \in Readers(conf) : timer[r] \in Nat /\ readDeadline \in Nat
    BY ReadersRun DEF IInv, TypeOK
  <2> QED BY <1>2, <2>1 DEF IInv, Cancel, Budget, Relays, flags, work
<1>6. DrainBound' /\ GracefulExit'
  BY DEF IInv, Cancel, DrainBound, GracefulExit, DrainTime, Active, Relays, flags, work
<1> QED BY <1>1, <1>3, <1>4, <1>5, <1>6 DEF IInv

\* At the handler's exit its sleep is over: an active reader is within its
\* budget, so the budget is no smaller than the sleep.
LEMMA ExitStep == IInv /\ Exit => IInv'
<1> SUFFICES ASSUME IInv, Exit PROVE IInv'
    OBVIOUS
<1>1. TypeOK' /\ Phase' /\ Fresh' /\ Clock' /\ OneMore' /\ DrainBound'
  BY DEF IInv, Exit, TypeOK, Phase, Fresh, Clock, OneMore, DrainBound, DrainTime, Active, Relays, flags, work
<1>2. \A r \in Readers(conf') : Budget(r)'
  BY DEF IInv, Exit, Budget, Relays, flags, work
<1>3. ASSUME NEW r \in Readers(conf), Active(r) PROVE CancelSleep <= DrainTime
  <2>1. waited = CancelSleep /\ ctxDone
    BY <1>3 DEF IInv, Exit, Clock, Phase, TypeOK
  <2>2. timer[r] \in Nat /\ Budget(r) /\ waited \in Nat
    BY ReadersRun DEF IInv, TypeOK
  <2>3. CASE at[r] = "read"
    BY <2>1, <2>2, <2>3, DrainTimeIs DEF IInv, Budget
  <2>4. CASE at[r] = "write"
    BY <2>1, <2>2, <2>4, DrainTimeIs DEF IInv, Budget
  <2> QED BY <1>3, <2>3, <2>4 DEF Active
<1>4. GracefulExit'
  BY <1>3 DEF Exit, GracefulExit, DrainTime, Active, Relays, flags, work
<1> QED BY <1>1, <1>2, <1>4 DEF IInv

\* An end of the process other than the handler's.
LEMMA OtherExit ==
  ASSUME IInv, UNCHANGED <<flags, main, handler, ctxDone, work, sleep, waited>>,
         exit' \in {"main", "fatal", "signal"}
  PROVE  IInv'
<1>1. TypeOK' /\ Phase' /\ Fresh' /\ Clock' /\ OneMore'
  BY DEF IInv, TypeOK, Phase, Fresh, Clock, OneMore, Active, flags, work
<1>2. DrainBound' /\ GracefulExit'
  BY DEF IInv, DrainBound, GracefulExit, DrainTime, Relays, flags, work
<1>3. \A r \in Readers(conf') : Budget(r)'
  BY DEF IInv, Budget, Relays, flags, work
<1> QED BY <1>1, <1>2, <1>3 DEF IInv

\* The other steps of main, the handler and the environment.
LEMMA MainStep ==
  ASSUME IInv, exit = "no", mainSteps \/ Notify \/ Signal
  PROVE  IInv'
<1>2. CASE ShowVersion \/ Fatal \/ ReturnMain
  BY <1>2, OtherExit DEF ShowVersion, Fatal, ReturnMain
<1>3. CASE ParseFlags
  <2>1. Phase'
    BY <1>3 DEF IInv, ParseFlags, Phase, flags, work
  <2> QED BY <1>3, <2>1, OutsideStep DEF IInv, TypeOK, ParseFlags
<1>4. CASE StartRun
  BY <1>4, StartRunStep
<1>5. CASE Return
  <2>1. Phase'
    BY <1>5 DEF IInv, Return, Phase, flags, work
  <2> QED BY <1>5, <2>1, OutsideStep DEF IInv, TypeOK, Return
<1>6. CASE Notify
  <2>1. Phase'
    BY <1>6 DEF IInv, Notify, Phase, flags, work
  <2> QED BY <1>6, <2>1, OutsideStep DEF IInv, TypeOK, Notify
<1>7. CASE Signal /\ handler = "new"
  BY <1>7, OtherExit DEF Signal
<1>8. CASE Signal /\ handler = "wait"
  <2>1. Phase'
    BY <1>8 DEF IInv, Signal, Phase, flags, work
  <2> QED BY <1>8, <2>1, OutsideStep DEF IInv, TypeOK, Signal
<1> QED BY <1>2, <1>3, <1>4, <1>5, <1>6, <1>7, <1>8 DEF mainSteps, Signal

\* What a step of goroutine x has to show for itself.
LEMMA GotoStep ==
  ASSUME IInv, exit = "no", NEW x \in Goroutines(conf), NEW label, NEW time \in Nat,
         Goto(x, label, time), main = "run",
         UNCHANGED <<flags, main, handler, ctxDone, sleep, exit, waited>>,
         label \in IF x \in Readers(conf) THEN {"top", "read", "write", "done"} ELSE {"select", "done"},
         label \in {"read", "write"} => Active(x) \/ ~ ctxDone,
         more' \in [Goroutines(conf) -> Nat],
         \A r \in Readers(conf) : r # x => more'[r] = more[r],
         x \in Readers(conf) => more'[x] <= 1 /\ (~ ctxDone => more'[x] = 0) /\ Budget(x)'
  PROVE  IInv'
<1> USE DEF flags
<1>1. at' \in [Goroutines(conf) -> {"off", "top", "read", "write", "select", "done"}]
  BY DEF IInv, TypeOK, Goto
<1>2. timer' \in [Goroutines(conf) -> Nat]
  BY DEF IInv, TypeOK, Goto
<1>3. TypeOK'
  BY <1>1, <1>2 DEF IInv, TypeOK
<1>4. at'[x] = label /\ \A y \in Goroutines(conf) : y # x => at'[y] = at[y] /\ timer'[y] = timer[y]
  BY DEF IInv, TypeOK, Goto
<1>5. Phase'
  BY <1>4 DEF IInv, Phase
<1>6. Fresh' /\ OneMore'
  BY DEF IInv, Fresh, OneMore
<1>7. Clock'
  <2>1. ASSUME NEW r \in Readers(conf), Active(r)' PROVE Active(r) \/ ~ ctxDone
    BY <1>4, <2>1, ReadersRun DEF Active
  <2> QED BY <2>1 DEF IInv, Clock, Phase
<1>8. \A r \in Readers(conf') : Budget(r)'
  BY <1>4, ReadersRun DEF IInv, Budget, Relays
<1>9. DrainBound' /\ GracefulExit'
  BY DEF IInv, DrainBound, GracefulExit, DrainTime, Relays
<1> QED BY <1>3, <1>5, <1>6, <1>7, <1>8, <1>9 DEF IInv

LEMMA ReaderStep ==
  ASSUME IInv, exit = "no", NEW r \in Readers(conf), reader(r)
  PROVE  IInv'
<1> USE DEF flags
<1>1. /\ r \in Goroutines(conf) /\ timer[r] \in Nat /\ more[r] \in Nat
      /\ readDeadline \in Nat /\ WriteDeadline \in Nat /\ waited \in Nat
  BY ReadersRun DEF IInv, TypeOK
<1>2. at[r] \in {"top", "read", "write"} => main = "run"
  BY <1>1 DEF IInv, Phase, TypeOK
<1>3. more[r] <= 1 /\ (~ ctxDone => more[r] = 0 /\ waited = 0) /\ Budget(r)
  BY DEF IInv, OneMore, Fresh
<1>4. ASSUME NEW label, NEW time, Goto(r, label, time) PROVE at'[r] = label /\ timer'[r] = time
  BY <1>1, <1>4 DEF IInv, TypeOK, Goto
<1>5. UNCHANGED more => more' \in [Goroutines(conf) -> Nat] /\ more'[r] = more[r]
  BY DEF IInv, TypeOK
<1>6. Count(r) => /\ more' \in [Goroutines(conf) -> Nat]
                  /\ \A q \in Readers(conf) : q # r => more'[q] = more[q]
                  /\ more'[r] = IF ctxDone THEN more[r] + 1 ELSE more[r]
  <2>1. CASE ctxDone
    BY <1>1, <2>1, ReadersRun DEF IInv, TypeOK, Count
  <2>2. CASE ~ ctxDone
    BY <2>2 DEF IInv, TypeOK, Count
  <2> QED BY <2>1, <2>2
<1>7. CASE Stop(r) \/ ReadTimeout(r) \/ Write(r)
  <2>1. PICK label \in {"done", "top"} : Goto(r, label, 0)
    BY <1>7 DEF Stop, ReadTimeout, Write
  <2>2. at'[r] \notin {"read", "write"}
    BY <1>4, <2>1
  <2>3. Budget(r)'
    BY <2>2 DEF Budget
  <2>4. main = "run" /\ UNCHANGED <<flags, main, handler, ctxDone, more, sleep, exit, waited>>
    BY <1>2, <1>7 DEF Stop, ReadTimeout, Write
  <2> QED BY <1>1, <1>3, <1>5, <2>1, <2>3, <2>4, GotoStep
<1>8. CASE Read(r)
  <2>1. Budget(r)'
    BY <1>1, <1>3, <1>4, <1>8 DEF Read, Budget
  <2> QED BY <1>1, <1>2, <1>3, <1>5, <1>8, <2>1, GotoStep DEF Read
<1>9. CASE Ignore(r)
  <2>1. Budget(r)'
    BY <1>4, <1>9 DEF Ignore, Budget
  <2>2. more[r] = 0
    BY <1>3, <1>9 DEF Ignore, Budget
  <2> QED BY <1>1, <1>2, <1>6, <1>9, <2>1, <2>2, GotoStep DEF Ignore
<1>10. CASE Receive(r)
  <2>1. more[r] = 0 /\ (ctxDone => waited + timer[r] <= readDeadline)
    BY <1>3, <1>10 DEF Receive, Budget
  <2>2. at'[r] = "write" /\ timer'[r] = WriteDeadline /\ waited' = waited /\ conf' = conf
        /\ Relays(conf, r) /\ ctxDone' = ctxDone /\ readDeadline' = readDeadline
    BY <1>4, <1>10 DEF Receive
  <2>3. Relays(conf, r)'
    BY <2>2 DEF Relays
  <2>4. Budget(r)'
    BY <1>1, <2>1, <2>2, <2>3 DEF Budget
  <2>5. Active(r) /\ main = "run" /\ Count(r) /\ Goto(r, "write", WriteDeadline)
        /\ UNCHANGED <<flags, main, handler, ctxDone, sleep, exit, waited>>
    BY <1>2, <1>10 DEF Receive, Active
  <2> QED BY <1>1, <1>6, <2>1, <2>4, <2>5, GotoStep
<1>11. CASE WriteFails(r)
  BY <1>11, OtherExit DEF WriteFails
<1> QED BY <1>7, <1>8, <1>9, <1>10, <1>11 DEF reader

LEMMA StopWorkerStep ==
  ASSUME IInv, exit = "no", NEW w \in Workers(conf), StopWorker(w)
  PROVE  IInv'
<1>1. w \notin Readers(conf) /\ w \in Goroutines(conf)
  <2>1. \A r \in Readers(conf) : r[1] # "select"
    <3>1. \A s \in RecvSides(conf) : s # "select"
      BY DEF RecvSides, Interfaces, OUT, INSIDE, ALTOUT
    <3>2. Unicast[1] # "select"
      BY DEF Unicast, INSIDE
    <3> QED BY <3>1, <3>2 DEF Readers
  <2>2. w[1] = "select"
    BY DEF Workers
  <2> QED BY <2>1, <2>2, ReadersRun
<1>2. main = "run"
  BY <1>1 DEF IInv, Phase, TypeOK, StopWorker
<1>3. more' \in [Goroutines(conf) -> Nat]
  BY DEF IInv, TypeOK, StopWorker
<1> QED BY <1>1, <1>2, <1>3, GotoStep DEF StopWorker

\* Time passes only while a goroutine of Run is in a read or a write, and takes
\* from what is left of it.
LEMMA TickStep ==
  ASSUME IInv, exit = "no", Tick
  PROVE  IInv'
<1> USE DEF flags
<1>1. \A x \in Goroutines(conf) : timer[x] \in Nat /\ timer'[x] = IF timer[x] > 0 THEN timer[x] - 1 ELSE 0
  BY DEF IInv, TypeOK, Tick
<1>2. TypeOK'
  <2>1. timer' \in [Goroutines(conf) -> Nat]
    BY <1>1 DEF Tick
  <2>2. sleep' \in 0 .. CancelSleep /\ waited' \in Nat
    BY DEF IInv, TypeOK, Tick
  <2> QED BY <2>1, <2>2 DEF IInv, TypeOK, Tick
<1>3. Phase' /\ OneMore'
  BY DEF IInv, Phase, OneMore, Tick
<1>4. Fresh'
  BY DEF IInv, Fresh, Tick
<1>5. ASSUME NEW r \in Readers(conf), Active(r)
      PROVE  main = "run" /\ timer[r] \in Nat /\ timer[r] > 0 /\ timer'[r] = timer[r] - 1
  <2>1. timer[r] \in Nat /\ r \in Goroutines(conf)
    BY <1>1, ReadersRun
  <2>2. timer[r] # 0
    BY <1>5 DEF Tick, Due, Active
  <2>3. main = "run"
    BY <1>5, <2>1 DEF IInv, Phase, TypeOK, Active
  <2> QED BY <1>1, <2>1, <2>2, <2>3
<1>6. waited \in Nat /\ sleep \in Nat /\ readDeadline \in Nat
  BY DEF IInv, TypeOK
<1>7. waited' = IF main = "run" /\ ctxDone THEN waited + 1 ELSE waited
  BY DEF Tick
<1>8. \A r \in Readers(conf') : Budget(r)'
  <2> SUFFICES ASSUME NEW r \in Readers(conf) PROVE Budget(r)'
      BY DEF Tick
  <2>1. Budget(r) /\ at' = at /\ ctxDone' = ctxDone /\ readDeadline' = readDeadline /\ more' = more
    BY DEF IInv, Tick
  <2>2. Relays(conf, r)' <=> Relays(conf, r)
    BY DEF Relays, Tick
  <2>3. CASE Active(r)
    BY <1>5, <1>6, <1>7, <2>1, <2>2, <2>3 DEF Budget
  <2>4. CASE ~ Active(r)
    BY <2>1, <2>4 DEF Budget, Active
  <2> QED BY <2>3, <2>4
<1>9. Clock'
  <2> SUFFICES ASSUME NEW r \in Readers(conf), Active(r), handler = "sleep" PROVE (waited + sleep = CancelSleep)'
      BY DEF Clock, Active, Tick
  <2>1. waited + sleep = CancelSleep /\ ctxDone
    BY DEF IInv, Clock, Phase
  <2>2. sleep # 0 /\ sleep' = sleep - 1
    BY <1>6 DEF Tick, Due
  <2> QED BY <1>5, <1>6, <1>7, <2>1, <2>2
<1>10. DrainBound'
  <2> SUFFICES ASSUME main = "run", Selectors(conf) = {} PROVE waited' <= DrainTime
      BY DEF DrainBound, DrainTime, Relays, Tick
  <2>1. CASE ~ ctxDone
    BY <1>7, <2>1, DrainTimeIs DEF IInv, Fresh
  <2>2. CASE ctxDone
    <3>1. PICK x \in Goroutines(conf) : at[x] # "done"
      BY DEF Tick, Due
    <3>2. x \in Readers(conf)
      <4>1. x \notin Readers(conf) => at[x] = "select" /\ x \in Workers(conf)
        BY <3>1 DEF IInv, Phase, Goroutines
      <4> QED BY <2>2, <4>1 DEF Tick, Due
    <3>3. Active(x)
      BY <3>1, <3>2 DEF IInv, Phase, Tick, Due, Active
    <3>4. timer[x] \in Nat /\ timer[x] > 0 /\ waited' = waited + 1 /\ Budget(x)
      BY <1>5, <1>7, <2>2, <3>2, <3>3 DEF IInv
    <3>5. CASE at[x] = "read"
      BY <1>6, <2>2, <3>2, <3>4, <3>5, DrainTimeIs DEF IInv, Budget
    <3>6. CASE at[x] = "write"
      BY <1>6, <2>2, <3>2, <3>4, <3>6, DrainTimeIs DEF IInv, Budget
    <3> QED BY <3>3, <3>5, <3>6 DEF Active
  <2> QED BY <2>1, <2>2
<1>11. GracefulExit'
  BY DEF GracefulExit, Tick
<1> QED BY <1>2, <1>3, <1>4, <1>8, <1>9, <1>10, <1>11 DEF IInv

LEMMA NextStep == IInv /\ [Next]_vars => IInv'
<1> SUFFICES ASSUME IInv, [Next]_vars PROVE IInv'
    OBVIOUS
<1>1. CASE exit = "no" /\ (mainSteps \/ Notify \/ Signal)
  BY <1>1, MainStep
<1>2. CASE exit = "no" /\ (Cancel \/ Exit)
  BY <1>2, CancelStep, ExitStep
<1>3. CASE exit = "no" /\ Tick
  BY <1>3, TickStep
<1>4. CASE exit = "no" /\ \E r \in Readers(conf) : reader(r)
  BY <1>4, ReaderStep
<1>5. CASE exit = "no" /\ \E w \in Workers(conf) : StopWorker(w)
  BY <1>5, StopWorkerStep
<1>6. CASE UNCHANGED vars
  <2>1. TypeOK' /\ Phase' /\ Fresh' /\ Clock' /\ OneMore'
    BY <1>6 DEF IInv, TypeOK, Phase, Fresh, Clock, OneMore, Active, vars, flags, work
  <2>2. DrainBound' /\ GracefulExit'
    BY <1>6 DEF IInv, DrainBound, GracefulExit, DrainTime, Active, Relays, vars, flags, work
  <2>3. \A r \in Readers(conf') : Budget(r)'
    BY <1>6 DEF IInv, Budget, Relays, vars, flags, work
  <2> QED BY <2>1, <2>2, <2>3 DEF IInv
<1> QED BY <1>1, <1>2, <1>3, <1>4, <1>5, <1>6 DEF Next, handlerSteps

\* The inductive invariant holds in every behaviour of the program.
THEOREM Inductive == Spec => []IInv
BY InitHolds, NextStep, PTL DEF Spec

\* Without an outInterfaceSelector Run returns within readDeadline plus, if a
\* reader relays, writeDeadline of the cancel (recvIGMP, recvUnicastIGMP).
THEOREM DrainBounded == Spec => []DrainBound
BY Inductive, PTL DEF IInv

\* A handler that sleeps longer than that exits when no reader is in the middle
\* of a read or a write (initSignalHandler).
THEOREM ExitsGracefully == Spec => []GracefulExit
BY Inductive, PTL DEF IInv

\* After the cancel a reader receives at most one more packet.
THEOREM AtMostOneMore == Spec => []OneMore
BY Inductive, PTL DEF IInv
=============================================================================
