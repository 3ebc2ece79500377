------------------------------ MODULE Runtime ------------------------------
(***************************************************************************)
(* The life of the server and worker processes: they start, attach their   *)
(* signal handlers, serve, and stop in order when they are told to, or are *)
(* killed by a signal that they do not handle.  What they do while they    *)
(* serve is the business of the module that extends this one.              *)
(***************************************************************************)
EXTENDS Integers, FiniteSets

CONSTANTS
  Servers, Workers, \* processes
  Signals           \* signals that ask a process to stop

ASSUME RuntimeAssumption == Servers \intersect Workers = {} /\ Signals # {}

Processes == Servers \union Workers

VARIABLES
  stage,    \* by process: how far its life has come
  attached, \* by process: the signals that it handles
  errors    \* by process: what has failed while it started and stopped

runtimeVars == <<stage, attached, errors>>

\* Some processes have begun to serve.
RuntimeInit(open) ==
  /\ stage = [p \in Processes |-> IF p \in open THEN "open" ELSE "off"]
  /\ attached = [p \in Processes |-> IF p \in open THEN Signals ELSE {}]
  /\ errors = [p \in Processes |-> {}]

Stages == {"off", "starting", "open", "stopping", "closing", "exited", "killed"}

RuntimeTypeOK ==
  /\ stage \in [Processes -> Stages]
  /\ attached \in [Processes -> SUBSET Signals]
  /\ errors \in [Processes -> SUBSET {"start", "listener", "close"}]

Gone(p) == stage[p] \in {"exited", "killed"}

Alive(p) == stage[p] # "off" /\ ~Gone(p)

\* A handler is detached when its signal arrives.
Aborted(w) == attached[w] # Signals

-----------------------------------------------------------------------------
(* Start *)

\* A worker handles signals before it does anything else, a server when it listens.
Start(p) ==
  /\ stage[p] = "off"
  /\ stage' = [stage EXCEPT ![p] = "starting"]
  /\ attached' = [attached EXCEPT ![p] = IF p \in Workers THEN Signals ELSE {}]
  /\ UNCHANGED errors

Listen(p) ==
  /\ stage[p] = "starting"
  /\ stage' = [stage EXCEPT ![p] = "open"]
  /\ attached' = [attached EXCEPT ![p] = IF p \in Workers THEN @ ELSE Signals]
  /\ UNCHANGED errors

\* The configuration is read before there is a database to close.
StartFails(p) ==
  /\ stage[p] = "starting"
  /\ errors' = [errors EXCEPT ![p] = {"start"}]
  /\ \/ /\ stage' = [stage EXCEPT ![p] = "exited"]
        /\ attached' = [attached EXCEPT ![p] = {}]
     \/ /\ stage' = [stage EXCEPT ![p] = "closing"]
        /\ UNCHANGED attached

-----------------------------------------------------------------------------
(* Stop *)

\* A server detaches every handler and stops listening, a worker goes on to its loop.
Handle(p, signal) ==
  /\ Alive(p) /\ signal \in attached[p]
  /\ IF p \in Servers
     THEN /\ attached' = [attached EXCEPT ![p] = {}]
          /\ stage' = [stage EXCEPT ![p] = "stopping"]
     ELSE /\ attached' = [attached EXCEPT ![p] = @ \ {signal}]
          /\ UNCHANGED stage
  /\ UNCHANGED errors

\* A signal without a handler, or a crash.
Kill(p) ==
  /\ Alive(p)
  /\ stage' = [stage EXCEPT ![p] = "killed"]
  /\ attached' = [attached EXCEPT ![p] = {}]
  /\ UNCHANGED errors

\* Whether it has stopped or not, the database is closed next.
StopListener(p, failures) ==
  /\ stage[p] = "stopping" /\ failures \subseteq {"listener"}
  /\ stage' = [stage EXCEPT ![p] = "closing"]
  /\ errors' = [errors EXCEPT ![p] = @ \union failures]
  /\ UNCHANGED attached

LeaveLoop(w) ==
  /\ stage[w] = "open" /\ Aborted(w)
  /\ stage' = [stage EXCEPT ![w] = "closing"]
  /\ UNCHANGED <<attached, errors>>

CloseDatabase(p, failures) ==
  /\ stage[p] = "closing" /\ failures \subseteq {"close"}
  /\ stage' = [stage EXCEPT ![p] = "exited"]
  /\ attached' = [attached EXCEPT ![p] = {}]
  /\ errors' = [errors EXCEPT ![p] = @ \union failures]

\* The exit status of a process that was not killed.
ExitStatus(p) == IF errors[p] = {} THEN 0 ELSE 1
=============================================================================
