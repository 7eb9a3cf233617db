------------------------------ MODULE Runtime ------------------------------
(***************************************************************************)
(* The life of a service's process: wireApp connects what the service      *)
(* needs, Bootstrap starts its servers and its runner and waits for them   *)
(* all, a signal stops the servers.                                        *)
(*                                                                         *)
(* A runner's Stop does nothing and its loops run under context.TODO():    *)
(* only a loop that fails ends the others.  Outside of the code are the    *)
(* dependencies and the cluster, which starts a process again that has     *)
(* ended and may kill one.                                                 *)
(*                                                                         *)
(* An operator X_Fault is X with a plausible fault, for testing that a     *)
(* property notices it.                                                    *)
(***************************************************************************)
EXTENDS Naturals, Sequences, SequencesExt

CONSTANTS
  Service,     \* the services looked at
  MaxOutages,  \* bound: dependencies that become unavailable
  MaxSignals   \* bound: signals, kills and addresses in use

ASSUME RuntimeAssumption ==
  /\ Service \subseteq {"auth", "inventory", "order", "payment", "product"}
  /\ MaxOutages \in Nat /\ MaxSignals \in Nat
-----------------------------------------------------------------------------
(* What the services are made of. *)

\* wireApp connects these, in this order; the RPC clients connect lazily.  The
\* order service joins Kafka for its subscriber, its producer and its delay worker.
AuthNeeds      == <<"database">>
InventoryNeeds == <<"database", "kafka">>
OrderNeeds     == <<"database", "redis", "kafka", "kafka", "kafka">>
PaymentNeeds   == <<"database", "redis", "kafka">>
ProductNeeds   == <<"database", "redis", "kafka">>

Needs(s) == CASE s = "auth"      -> AuthNeeds
              [] s = "inventory" -> InventoryNeeds
              [] s = "order"     -> OrderNeeds
              [] s = "payment"   -> PaymentNeeds
              [] s = "product"   -> ProductNeeds

\* The loops of each runner.
OrderLoops     == {"retry", "kafka", "outbox"}
InventoryLoops == {"kafka", "outbox"}
PaymentLoops   == {"outbox"}
ProductLoops   == {"outbox"}

Loops(s) == CASE s = "order"     -> OrderLoops
              [] s = "inventory" -> InventoryLoops
              [] s = "payment"   -> PaymentLoops
              [] s = "product"   -> ProductLoops
              [] OTHER           -> {}

\* A loop over a Kafka topic returns an error of Consume; the outbox loop logs
\* and goes on.
MayFail == {"retry", "kafka"}

\* newApp adds both servers to the runtime, and the runner if there is one.
HTTPServers == {"connect", "metrics"}
Dependency == {"database", "redis", "kafka"}

VARIABLES
  service,    \* whose process it is
  available,  \* dependencies that can be connected
  phase,      \* "wiring", "running", "exited" by itself, "down", "absent" if not deployed
  wired,      \* how many of Needs are connected
  server,     \* server[s]: "idle", "listening", or "returned" from Start
  closed,     \* servers on which Stop was called
  loop,       \* loop[l]: "idle", "running", or "returned"
  failed,     \* servers and loops that returned an error
  signalled,  \* Bootstrap's goroutine has received a signal
  outages,    \* counts towards MaxOutages
  signals     \* counts towards MaxSignals

processVars == <<phase, wired, server, closed, loop, failed, signalled>>
runtimeVars == <<service, available, processVars, outages, signals>>

AllLoops == UNION {Loops(s) : s \in Service}
LoopsOf == Loops(service)
Idle == [l \in AllLoops |-> "idle"]
NoServer == [s \in HTTPServers |-> "idle"]

RuntimeTypeOK ==
  /\ service \in Service /\ available \subseteq Dependency
  /\ phase \in {"absent", "wiring", "running", "exited", "down"}
  /\ wired \in 0..Len(Needs(service))
  /\ server \in [HTTPServers -> {"idle", "listening", "returned"}]
  /\ closed \subseteq HTTPServers
  /\ loop \in [AllLoops -> {"idle", "running", "returned"}]
  /\ failed \subseteq (HTTPServers \cup AllLoops)
  /\ signalled \in BOOLEAN
  /\ outages \in 0..MaxOutages /\ signals \in 0..MaxSignals

RuntimeInit ==
  /\ service \in Service /\ available = Dependency
  /\ phase \in {"absent", "wiring"} /\ wired = 0
  /\ server = NoServer /\ closed = {}
  /\ loop = Idle /\ failed = {} /\ signalled = FALSE
  /\ outages = 0 /\ signals = 0
-----------------------------------------------------------------------------
(* The environment. *)

BecomeUnavailable(d) ==
  /\ d \in available /\ outages < MaxOutages
  /\ available' = available \ {d} /\ outages' = outages + 1
  /\ UNCHANGED <<service, processVars, signals>>

Recover(d) ==
  /\ d \notin available
  /\ available' = available \cup {d}
  /\ UNCHANGED <<service, processVars, outages, signals>>

\* The container is started, and started again when its process has ended.
Boot ==
  /\ phase \in {"down", "exited"}
  /\ phase' = "wiring" /\ wired' = 0
  /\ server' = NoServer /\ closed' = {}
  /\ loop' = Idle /\ failed' = {} /\ signalled' = FALSE
  /\ UNCHANGED <<service, available, outages, signals>>

Kill ==
  /\ phase \notin {"absent", "down"} /\ signals < MaxSignals
  /\ phase' = "down" /\ signals' = signals + 1
  /\ UNCHANGED <<service, available, wired, server, closed, loop, failed, signalled, outages>>
-----------------------------------------------------------------------------
(* main and wireApp. *)

Next1Need == Needs(service)[wired + 1]

Connect ==
  /\ phase = "wiring" /\ wired < Len(Needs(service)) /\ Next1Need \in available
  /\ wired' = wired + 1
  /\ UNCHANGED <<service, available, phase, server, closed, loop, failed, signalled, outages, signals>>

\* wireApp returns the error and main panics: there is no retry.
Panic ==
  /\ phase = "wiring" /\ wired < Len(Needs(service)) /\ Next1Need \notin available
  /\ phase' = "down"
  /\ UNCHANGED <<service, available, wired, server, closed, loop, failed, signalled, outages, signals>>

Bootstrap ==
  /\ phase = "wiring" /\ wired = Len(Needs(service))
  /\ phase' = "running"
  /\ UNCHANGED <<service, available, wired, server, closed, loop, failed, signalled, outages, signals>>
-----------------------------------------------------------------------------
(* startAll: each Start in a goroutine. *)

\* A server that was closed before does not listen any more.
StartServer(s) ==
  /\ phase = "running" /\ server[s] = "idle"
  /\ server' = [server EXCEPT ![s] = IF s \in closed THEN "returned" ELSE "listening"]
  /\ UNCHANGED <<service, available, phase, wired, closed, loop, failed, signalled, outages, signals>>

\* The address is in use.
FailToListen(s) ==
  /\ phase = "running" /\ server[s] = "idle" /\ signals < MaxSignals
  /\ server' = [server EXCEPT ![s] = "returned"] /\ failed' = failed \cup {s}
  /\ signals' = signals + 1
  /\ UNCHANGED <<service, available, phase, wired, closed, loop, signalled, outages>>

\* The runner starts its loops together.
Started_NotOutbox == LoopsOf \ {"outbox"}
Started == LoopsOf

StartRunner ==
  /\ phase = "running" /\ \E l \in LoopsOf : loop[l] = "idle"
  /\ loop' = [l \in AllLoops |-> IF l \in Started THEN "running" ELSE loop[l]]
  /\ UNCHANGED <<service, available, phase, wired, server, closed, failed, signalled, outages, signals>>

\* Whose listeners an error of a loop takes down: nobody's.
ServersAfterFailure_Stop == [s \in HTTPServers |-> "returned"]
ServersAfterFailure == server

FailLoop(l) ==
  /\ phase = "running" /\ loop[l] = "running" /\ l \in MayFail /\ "kafka" \notin available
  /\ loop' = [loop EXCEPT ![l] = "returned"] /\ failed' = failed \cup {l}
  /\ server' = ServersAfterFailure
  /\ UNCHANGED <<service, available, phase, wired, closed, signalled, outages, signals>>

\* errgroup cancels the context of the runner's loops at the first error.
Cancelled == \E l \in LoopsOf : l \in failed

EndLoop(l) ==
  /\ phase = "running" /\ loop[l] = "running" /\ Cancelled
  /\ loop' = [loop EXCEPT ![l] = "returned"]
  /\ UNCHANGED <<service, available, phase, wired, server, closed, failed, signalled, outages, signals>>
-----------------------------------------------------------------------------
(* Signals. *)

\* The first SIGINT or SIGTERM; nobody receives another.
Signal ==
  /\ phase = "running" /\ ~signalled /\ signals < MaxSignals
  /\ signalled' = TRUE /\ signals' = signals + 1
  /\ UNCHANGED <<service, available, phase, wired, server, closed, loop, failed, outages>>

\* What Stop of the runner does to its loops: nothing.
LoopsAfterStop_Return == [l \in AllLoops |-> "returned"]
LoopsAfterStop == loop

\* What a server is after Close or Shutdown.
Stopped_KeepsListening(s) == server[s]
Stopped(s) == IF server[s] = "listening" THEN "returned" ELSE server[s]

\* stopAll calls every Stop in a goroutine.
StopServer(s) ==
  /\ phase = "running" /\ signalled /\ s \notin closed
  /\ closed' = closed \cup {s}
  /\ server' = [server EXCEPT ![s] = Stopped(s)]
  /\ loop' = LoopsAfterStop
  /\ UNCHANGED <<service, available, phase, wired, failed, signalled, outages, signals>>

\* startAll has waited for every Start, Bootstrap returns and main with it.
Exit ==
  /\ phase = "running"
  /\ \A s \in HTTPServers : server[s] = "returned"
  /\ \A l \in LoopsOf : loop[l] = "returned"
  /\ phase' = "exited"
  /\ UNCHANGED <<service, available, wired, server, closed, loop, failed, signalled, outages, signals>>

RuntimeNext ==
  \/ \E d \in Dependency : BecomeUnavailable(d) \/ Recover(d)
  \/ Boot \/ Kill \/ Connect \/ Panic \/ Bootstrap
  \/ \E s \in HTTPServers : StartServer(s) \/ FailToListen(s) \/ StopServer(s)
  \/ StartRunner
  \/ \E l \in AllLoops : FailLoop(l) \/ EndLoop(l)
  \/ Signal \/ Exit

RuntimeSpec == RuntimeInit /\ [][RuntimeNext]_runtimeVars

\* Goroutines run; the cluster restarts what has ended; outages end.
RuntimeFairness ==
  /\ WF_runtimeVars(Boot) /\ WF_runtimeVars(Connect \/ Panic \/ Bootstrap)
  /\ WF_runtimeVars(StartRunner) /\ WF_runtimeVars(Exit)
  /\ \A s \in HTTPServers : WF_runtimeVars(StartServer(s)) /\ WF_runtimeVars(StopServer(s))
  /\ \A l \in AllLoops : WF_runtimeVars(EndLoop(l))
  /\ \A d \in Dependency : WF_runtimeVars(Recover(d))
-----------------------------------------------------------------------------
(* Properties. *)

Listening == {s \in HTTPServers : server[s] = "listening"}
Running == {l \in LoopsOf : loop[l] = "running"}

\* A signal alone never ends a process that has a runner: its Stop is empty and
\* its loops run under a context nobody cancels, so the process waits to be
\* killed unless one of the loops fails.
SignalDoesNotEndRunner ==
  [][(phase = "running" /\ phase' = "exited" /\ LoopsOf # {})
       => LoopsOf \cap failed # {}]_runtimeVars

\* A process whose runner has failed goes on serving: listeners return only
\* from a signal, or with the process.
ServingOutlivesRunner ==
  [][(phase = "running" /\ phase' = "running" /\ ~signalled) => Listening \subseteq Listening']_runtimeVars

\* After a signal nothing listens in the end, even if it came before Start.
SignalStopsServing ==
  (phase = "running" /\ signalled) ~> (phase # "running" \/ Listening = {})

\* However its dependencies come and go, a service finally serves and its
\* loops run, unless a loop or a listener has failed or it was told to stop.
ComesUp ==
  (phase = "down") ~> \/ Listening = HTTPServers /\ Running = LoopsOf
                      \/ failed # {} \/ signalled
=============================================================================
