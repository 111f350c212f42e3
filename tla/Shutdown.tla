------------------------------ MODULE Shutdown ------------------------------
(***************************************************************************)
(* The life of the program goIGMPexample in time: main, its signal         *)
(* handler, which cancels the context and exits some seconds later, and    *)
(* the goroutines of Run, which may be in the middle of a read or a write. *)
(*                                                                         *)
(* Time is discrete.  Reads, writes, the handler's sleep and the           *)
(* constructor take time; other steps take none, and time does not pass    *)
(* while such a step is due or a timer has run out.                        *)
(***************************************************************************)
EXTENDS Config

CONSTANTS
  Configs,         \* the configurations the flags may ask for
  ReadDeadlines,   \* the values the flag readDeadline may have
  WriteDeadline,   \* writeDeadlineCst
  CancelSleep,     \* cancelSleepTime
  multicastGroups  \* allHosts, allRouters, IGMPHosts

\* A read deadline of zero would make the receivers spin.
ASSUME TimeAssumption   == /\ ReadDeadlines \subseteq Nat \ {0}
                           /\ WriteDeadline \in Nat /\ CancelSleep \in Nat
ASSUME ConfigAssumption == Configs \subseteq Config

\* What Run starts: goroutines that read with a deadline, and goroutines that
\* wait in a select or, outInterfaceSelector, in a receive.
Unicast      == <<INSIDE, "unicast">>
Selector     == <<"select", "outInterfaceSelector">>
Readers(c)   == (RecvSides(c) \X multicastGroups)
                \cup (IF c.UnicastProxyInToOut THEN {Unicast} ELSE {})
Selectors(c) == IF AltOutExists(c) /\ OUT \in RecvSides(c) THEN {Selector} ELSE {}
Workers(c)   == {<<"select", w>> : w \in
                   (IF c.MembershipReportsToNetwork THEN {"report"} ELSE {})
                   \cup (IF c.LeaveToNetwork THEN {"leave"} ELSE {})
                   \cup (IF c.ConnectQueryToReport THEN {"query"} ELSE {})
                   \cup (IF c.MembershipReportsReader THEN {"reader"} ELSE {})}
Goroutines(c) == Readers(c) \cup Selectors(c) \cup Workers(c)

Relays(c, r) == r = Unicast \/ proxyIt(c, r[1])

VARIABLES
  conf, readDeadline,  \* from the flags
  main,      \* where main is: "flags", "setup" the constructor, "run", "returned"
  handler,   \* where initSignalHandler is: "new", "wait", "caught", "sleep"
  ctxDone,
  at,        \* where each goroutine of Run is
  timer,     \* what is left of the read or write of each of them
  sleep,     \* what is left of the handler's sleep
  exit,      \* how the process ended: "no", "main", "handler", "signal", "fatal"
  waited,    \* history: how long Run has waited with the context cancelled
  more       \* history: packets each reader has received since the cancel

flags == <<conf, readDeadline>>
work  == <<at, timer, more>>
vars  == <<flags, main, handler, ctxDone, work, sleep, exit, waited>>

TypeOK ==
  /\ conf \in Configs /\ readDeadline \in ReadDeadlines
  /\ main \in {"flags", "setup", "run", "returned"}
  /\ handler \in {"new", "wait", "caught", "sleep"} /\ ctxDone \in BOOLEAN
  /\ at \in [Goroutines(conf) -> {"off", "top", "read", "write", "select", "done"}]
  /\ timer \in [Goroutines(conf) -> Nat] /\ more \in [Goroutines(conf) -> Nat]
  /\ sleep \in 0 .. CancelSleep /\ waited \in Nat
  /\ exit \in {"no", "main", "handler", "signal", "fatal"}

Init ==
  /\ conf \in Configs /\ readDeadline \in ReadDeadlines
  /\ main = "flags" /\ handler = "new" /\ ctxDone = FALSE
  /\ at = [x \in Goroutines(conf) |-> "off"]
  /\ timer = [x \in Goroutines(conf) |-> 0]
  /\ more = [x \in Goroutines(conf) |-> 0]
  /\ sleep = 0 /\ waited = 0 /\ exit = "no"

-----------------------------------------------------------------------------
(* main *)

\* -version prints and exits; otherwise the metrics server is started.
ShowVersion ==
  /\ main = "flags"
  /\ exit' = "main"
  /\ UNCHANGED <<flags, main, handler, ctxDone, work, sleep, waited>>

ParseFlags ==
  /\ main = "flags"
  /\ main' = "setup"
  /\ UNCHANGED <<flags, handler, ctxDone, work, sleep, exit, waited>>

\* No default route, an error of the constructor, or the metrics server
\* cannot listen: log.Fatal.
Fatal ==
  /\ main \in {"setup", "run"}
  /\ exit' = "fatal"
  /\ UNCHANGED <<flags, main, handler, ctxDone, work, sleep, waited>>

\* The constructor is done, and Run starts its goroutines.
StartRun ==
  /\ main = "setup"
  /\ main' = "run"
  /\ at' = [x \in Goroutines(conf) |-> IF x \in Readers(conf) THEN "top" ELSE "select"]
  /\ UNCHANGED <<flags, handler, ctxDone, timer, more, sleep, exit, waited>>

\* WG.Wait returns, and with it Run.
Return ==
  /\ main = "run" /\ \A x \in Goroutines(conf) : at[x] = "done"
  /\ main' = "returned"
  /\ UNCHANGED <<flags, handler, ctxDone, work, sleep, exit, waited>>

ReturnMain ==
  /\ main = "returned"
  /\ exit' = "main"
  /\ UNCHANGED <<flags, main, handler, ctxDone, work, sleep, waited>>

-----------------------------------------------------------------------------
(* initSignalHandler *)

Notify ==
  /\ handler = "new"
  /\ handler' = "wait"
  /\ UNCHANGED <<flags, main, ctxDone, work, sleep, exit, waited>>

\* SIGINT or SIGTERM.  Before Notify it kills the process; the handler receives
\* one, and any that follow stay in its channel.
Signal ==
  /\ handler \in {"new", "wait"}
  /\ IF handler = "new" THEN exit' = "signal" /\ UNCHANGED handler
                        ELSE handler' = "caught" /\ UNCHANGED exit
  /\ UNCHANGED <<flags, main, ctxDone, work, sleep, waited>>

\* Mutant: the handler does not sleep.
CancelAtOnce ==
  /\ handler = "caught"
  /\ ctxDone' = TRUE /\ handler' = "sleep" /\ sleep' = 0
  /\ UNCHANGED <<flags, main, work, exit, waited>>

Cancel ==
  /\ handler = "caught"
  /\ ctxDone' = TRUE /\ handler' = "sleep" /\ sleep' = CancelSleep
  /\ UNCHANGED <<flags, main, work, exit, waited>>

\* Mutant: the handler returns after its sleep.
ExitNever == FALSE /\ UNCHANGED vars

Exit ==
  /\ handler = "sleep" /\ sleep = 0
  /\ exit' = "handler"
  /\ UNCHANGED <<flags, main, handler, ctxDone, work, sleep, waited>>

-----------------------------------------------------------------------------
(* The goroutines of Run *)

Goto(x, label, time) == at' = [at EXCEPT ![x] = label] /\ timer' = [timer EXCEPT ![x] = time]

Stop(r) ==
  /\ at[r] = "top" /\ ctxDone
  /\ Goto(r, "done", 0)
  /\ UNCHANGED <<flags, main, handler, ctxDone, more, sleep, exit, waited>>

\* Mutant: the context is one of two ready cases.
ReadAnyway(r) ==
  /\ at[r] = "top"
  /\ Goto(r, "read", readDeadline)
  /\ UNCHANGED <<flags, main, handler, ctxDone, more, sleep, exit, waited>>

\* SetReadDeadline and ReadFrom.
Read(r) ==
  /\ at[r] = "top" /\ ~ ctxDone
  /\ Goto(r, "read", readDeadline)
  /\ UNCHANGED <<flags, main, handler, ctxDone, more, sleep, exit, waited>>

ReadTimeout(r) ==
  /\ at[r] = "read" /\ timer[r] = 0
  /\ Goto(r, "top", 0)
  /\ UNCHANGED <<flags, main, handler, ctxDone, more, sleep, exit, waited>>

Count(r) == more' = IF ctxDone THEN [more EXCEPT ![r] = @ + 1] ELSE more

\* Mutant: an ignored packet goes back to the read without a look at the context.
IgnoreReadsOn(r) ==
  /\ at[r] = "read"
  /\ Count(r) /\ Goto(r, "read", readDeadline)
  /\ UNCHANGED <<flags, main, handler, ctxDone, sleep, exit, waited>>

\* A packet arrives in time and is dropped ...
Ignore(r) ==
  /\ at[r] = "read"
  /\ Count(r) /\ Goto(r, "top", 0)
  /\ UNCHANGED <<flags, main, handler, ctxDone, sleep, exit, waited>>

\* ... or relayed: SetWriteDeadline and WriteTo.
Receive(r) ==
  /\ at[r] = "read" /\ Relays(conf, r)
  /\ Count(r) /\ Goto(r, "write", WriteDeadline)
  /\ UNCHANGED <<flags, main, handler, ctxDone, sleep, exit, waited>>

Write(r) ==
  /\ at[r] = "write"
  /\ Goto(r, "top", 0)
  /\ UNCHANGED <<flags, main, handler, ctxDone, more, sleep, exit, waited>>

\* An error, of the deadline for one: log.Fatal.
WriteFails(r) ==
  /\ at[r] = "write"
  /\ exit' = "fatal"
  /\ UNCHANGED <<flags, main, handler, ctxDone, work, sleep, waited>>

reader(r) ==
  \/ Stop(r) \/ Read(r) \/ ReadTimeout(r) \/ Ignore(r) \/ Receive(r) \/ Write(r) \/ WriteFails(r)

\* The case of the context in a worker's select.  Nothing in this program gives
\* the workers anything to send, and what they do besides takes no time.
StopWorker(w) ==
  /\ at[w] = "select" /\ ctxDone
  /\ Goto(w, "done", 0)
  /\ UNCHANGED <<flags, main, handler, ctxDone, more, sleep, exit, waited>>

-----------------------------------------------------------------------------
(* Time *)

\* A step that takes no time can be taken, or a timer has run out.
Due ==
  \/ main \in {"flags", "returned"}
  \/ main = "run" /\ \A x \in Goroutines(conf) : at[x] = "done"
  \/ handler \in {"new", "caught"} \/ (handler = "sleep" /\ sleep = 0)
  \/ \E r \in Readers(conf) : \/ at[r] = "top"
                              \/ at[r] \in {"read", "write"} /\ timer[r] = 0
  \/ ctxDone /\ \E w \in Workers(conf) : at[w] = "select"

Tick ==
  /\ ~ Due
  /\ timer' = [x \in Goroutines(conf) |-> IF timer[x] > 0 THEN timer[x] - 1 ELSE 0]
  /\ sleep' = IF sleep > 0 THEN sleep - 1 ELSE 0
  /\ waited' = IF main = "run" /\ ctxDone THEN waited + 1 ELSE waited
  /\ UNCHANGED <<flags, main, handler, ctxDone, at, more, exit>>

mainSteps    == ShowVersion \/ ParseFlags \/ Fatal \/ StartRun \/ Return \/ ReturnMain
handlerSteps == Notify \/ Cancel \/ Exit

Next ==
  /\ exit = "no"
  /\ \/ mainSteps \/ handlerSteps \/ Signal \/ Tick
     \/ \E r \in Readers(conf) : reader(r)
     \/ \E w \in Workers(conf) : StopWorker(w)

Spec == Init /\ [][Next]_vars

\* Go schedules what can run, reads and writes end in time, and time goes on.
\* Nothing is assumed of signals, packets and the constructor.
GoesOn(x) == \/ x \in Readers(conf) /\ (Stop(x) \/ ReadTimeout(x) \/ Write(x))
             \/ x \in Workers(conf) /\ StopWorker(x)

FairSpec ==
  /\ Spec
  /\ WF_vars(exit = "no" /\ (ParseFlags \/ Return \/ ReturnMain))
  /\ WF_vars(exit = "no" /\ handlerSteps)
  /\ \A x \in UNION {Goroutines(c) : c \in Configs} : WF_vars(exit = "no" /\ GoesOn(x))
  /\ WF_vars(exit = "no" /\ Tick)

-----------------------------------------------------------------------------
(* Properties *)

\* How long the goroutines of Run can take to end: a read that has just begun,
\* and the write of a packet that comes in at its end.
DrainTime == readDeadline + IF \E r \in Readers(conf) : Relays(conf, r) THEN WriteDeadline ELSE 0

\* Without outInterfaceSelector, which never ends, Run waits no longer than that
\* after the cancel: "readDeadline impacts how quickly an IGMPReporter will
\* detect context.Cancel and shutdown".
DrainBound == main = "run" /\ Selectors(conf) = {} => waited <= DrainTime

\* "sleeping to allow goroutines to close": the handler's exit cuts a reader off
\* in the middle of a read or a write only if its sleep is no longer than that.
Active(r) == at[r] \in {"read", "write"}

GracefulExit ==
  exit = "handler" /\ (\E r \in Readers(conf) : Active(r)) => CancelSleep <= DrainTime

\* After the cancel a reader receives the packet its read was waiting for, and
\* no other one.
OneMore == \A r \in Readers(conf) : more[r] <= 1

\* A signal ends the process, whatever the goroutines are waiting for.
EndsAfterSignal == handler = "caught" ~> exit # "no"
=============================================================================
