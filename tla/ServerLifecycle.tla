--------------------------- MODULE ServerLifecycle ---------------------------
(***************************************************************************)
(* The server process from storage open to its exit status: the threads of *)
(* src/server/main.cpp and what they share, with signals and one fatal     *)
(* storage error at any moment.                                            *)
(*                                                                         *)
(* Threads: "main"; "signal" (shutdown_thread); "fatal"                    *)
(* (fatal_shutdown_thread); and whoever raises the fatal error, a handler  *)
(* of one of the two servers or the core's refresher, which lives until    *)
(* the core is destroyed, after main has chosen the exit status.  The      *)
(* model starts once SIGINT and SIGTERM are blocked.                       *)
(***************************************************************************)
EXTENDS Integers

VARIABLES
  at,          \* the step of each thread
  raiser,      \* who won the race in FatalStorageError, or "nobody"
  fatal,       \* fatal_storage_error
  initiated,   \* shutdown_initiated
  received,    \* shutdown_signal_received
  stopThreads, \* stop_shutdown_threads
  pending,     \* a SIGINT or SIGTERM is pending
  server,      \* each gRPC server: "up", "draining" or "down"
  streams,     \* Subscribe streams are open
  stopping,    \* subscriptions_stopping_
  shutdowns,   \* history: how often shutdown_servers was entered
  exit         \* the exit status: "none", "success" or "failure"

flags == <<initiated, received, stopThreads>>
subscriptions == <<streams, stopping>>
vars == <<at, raiser, fatal, flags, pending, server, subscriptions, shutdowns,
          exit>>

Init ==
  /\ at = [main |-> "construct", signal |-> "none", fatal |-> "none",
           raiser |-> "none"]
  /\ raiser = "nobody" /\ fatal = FALSE
  /\ initiated = FALSE /\ received = FALSE /\ stopThreads = FALSE
  /\ pending = FALSE
  /\ server = [public |-> "down", admin |-> "down"]
  /\ streams = FALSE /\ stopping = FALSE
  /\ shutdowns = 0
  /\ exit = "none"

Goto(t, label) == at' = [at EXCEPT ![t] = label]

(* notify_all reaches the fatal thread only while it sleeps.               *)
Notified(label) == IF label = "asleep" THEN "wait" ELSE label

(* The environment: a signal is sent.                                      *)
Signal ==
  /\ at.main # "gone" /\ ~pending
  /\ pending' = TRUE
  /\ UNCHANGED <<at, raiser, fatal, flags, server, subscriptions, shutdowns,
                 exit>>

(***************************************************************************)
(* FatalStorageError: one caller wins the exchange, then runs main's       *)
(* handler: the flag under the mutex, then notify_all.                     *)
(***************************************************************************)
MayRaise(r) ==
  IF r = "refresher" THEN at.main \notin {"construct", "gone"}
                     ELSE server[r] # "down"

RaiseFatal(r) ==
  /\ raiser = "nobody" /\ MayRaise(r)
  /\ raiser' = r
  /\ Goto("raiser", "store")
  /\ UNCHANGED <<fatal, flags, pending, server, subscriptions, shutdowns, exit>>

StoreFatal ==
  /\ at.raiser = "store"
  /\ fatal' = TRUE
  /\ Goto("raiser", "notify")
  /\ UNCHANGED <<raiser, flags, pending, server, subscriptions, shutdowns, exit>>

NotifyFatal ==
  /\ at.raiser = "notify"
  /\ at' = [at EXCEPT !.raiser = "done", !.fatal = Notified(@)]
  /\ UNCHANGED <<raiser, fatal, flags, pending, server, subscriptions,
                 shutdowns, exit>>

Raising(r) == raiser = r /\ at.raiser \in {"store", "notify"}

(***************************************************************************)
(* The gRPC servers: Shutdown returns, and Wait with it, when every        *)
(* handler has returned.                                                   *)
(***************************************************************************)
RegisterSubscription ==
  /\ server.public = "up" /\ ~stopping
  /\ streams' = TRUE
  /\ UNCHANGED <<at, raiser, fatal, flags, pending, server, stopping,
                 shutdowns, exit>>

(* The streams end by themselves or because they were cancelled.           *)
UnregisterSubscription ==
  /\ streams
  /\ streams' = FALSE
  /\ UNCHANGED <<at, raiser, fatal, flags, pending, server, stopping,
                 shutdowns, exit>>

Drained(s) ==
  /\ server[s] = "draining" /\ ~Raising(s)
  /\ s = "public" => ~streams
  /\ server' = [server EXCEPT ![s] = "down"]
  /\ UNCHANGED <<at, raiser, fatal, flags, pending, subscriptions, shutdowns,
                 exit>>

(***************************************************************************)
(* Start.  Storage that does not open, a constructor that meets a fatal    *)
(* error or a server that does not start ends the process with status 1.   *)
(***************************************************************************)
Construct ==
  /\ at.main = "construct"
  /\ \/ Goto("main", "admin") /\ UNCHANGED exit
     \/ Goto("main", "gone") /\ exit' = "failure"
  /\ UNCHANGED <<raiser, fatal, flags, pending, server, subscriptions, shutdowns>>

StartAdmin ==
  /\ at.main = "admin"
  /\ \/ /\ server' = [server EXCEPT !.admin = "up"]
        /\ Goto("main", "public")
        /\ UNCHANGED exit
     \/ /\ exit' = "failure"
        /\ Goto("main", "destroy")
        /\ UNCHANGED server
  /\ UNCHANGED <<raiser, fatal, flags, pending, subscriptions, shutdowns>>

(* With both servers up the three threads are started.                     *)
StartPublic ==
  /\ at.main = "public"
  /\ \/ /\ server' = [server EXCEPT !.public = "up"]
        /\ at' = [at EXCEPT !.main = "wait", !.signal = "sigwait",
                            !.fatal = "wait"]
     \/ /\ server' = [server EXCEPT !.admin = "draining"]
        /\ Goto("main", "abort")
  /\ UNCHANGED <<raiser, fatal, flags, pending, subscriptions, shutdowns, exit>>

Abort ==
  /\ at.main = "abort" /\ server.admin = "down"
  /\ exit' = "failure"
  /\ Goto("main", "destroy")
  /\ UNCHANGED <<raiser, fatal, flags, pending, server, subscriptions, shutdowns>>

(***************************************************************************)
(* The two shutdown threads.  The first to exchange shutdown_initiated     *)
(* runs shutdown_servers: StopSubscriptions, both Shutdown calls, join.    *)
(***************************************************************************)
SignalReceived ==
  /\ at.signal = "sigwait" /\ pending
  /\ pending' = FALSE
  /\ received' = TRUE
  /\ Goto("signal", "exchange")
  /\ UNCHANGED <<raiser, fatal, initiated, stopThreads, server, subscriptions,
                 shutdowns, exit>>

(* The predicate is evaluated, and the thread put to sleep, under the mutex. *)
FatalWait ==
  /\ at.fatal = "wait"
  /\ Goto("fatal", IF fatal THEN "exchange"
                   ELSE IF stopThreads THEN "done" ELSE "asleep")
  /\ UNCHANGED <<raiser, fatal, flags, pending, server, subscriptions,
                 shutdowns, exit>>

Exchange(t) ==
  /\ at[t] = "exchange"
  /\ initiated' = TRUE
  /\ Goto(t, IF initiated THEN "done" ELSE "stop")
  /\ UNCHANGED <<raiser, fatal, received, stopThreads, pending, server,
                 subscriptions, shutdowns, exit>>

StopSubscriptions(t) ==
  /\ at[t] = "stop"
  /\ stopping' = TRUE
  /\ shutdowns' = shutdowns + 1
  /\ Goto(t, "shutdown")
  /\ UNCHANGED <<raiser, fatal, flags, pending, server, streams, exit>>

Shutdown(t) ==
  /\ at[t] = "shutdown"
  /\ server' = [s \in DOMAIN server |->
                  IF server[s] = "up" THEN "draining" ELSE server[s]]
  /\ Goto(t, "drain")
  /\ UNCHANGED <<raiser, fatal, flags, pending, subscriptions, shutdowns, exit>>

ShutdownReturns(t) ==
  /\ at[t] = "drain" /\ \A s \in DOMAIN server : server[s] = "down"
  /\ Goto(t, "done")
  /\ UNCHANGED <<raiser, fatal, flags, pending, server, subscriptions,
                 shutdowns, exit>>

(***************************************************************************)
(* The main thread, from public_server->Wait() on.                         *)
(***************************************************************************)
PublicWait ==
  /\ at.main = "wait" /\ server.public = "down"
  /\ stopping' = (stopping \/ ~initiated)
  /\ server' = [server EXCEPT !.admin =
                  IF ~initiated /\ @ = "up" THEN "draining" ELSE @]
  /\ Goto("main", "release")
  /\ UNCHANGED <<raiser, fatal, flags, pending, streams, shutdowns, exit>>

ReleaseThreads ==
  /\ at.main = "release"
  /\ stopThreads' = TRUE
  /\ Goto("main", "notify")
  /\ UNCHANGED <<raiser, fatal, initiated, received, pending, server,
                 subscriptions, shutdowns, exit>>

NotifyThreads ==
  /\ at.main = "notify"
  /\ at' = [at EXCEPT !.main = "kill", !.fatal = Notified(@)]
  /\ UNCHANGED <<raiser, fatal, flags, pending, server, subscriptions,
                 shutdowns, exit>>

(* A faulty variant: nobody wakes the thread in sigwait.                   *)
KillsNobody ==
  /\ at.main = "kill"
  /\ Goto("main", "join")
  /\ UNCHANGED <<raiser, fatal, flags, pending, server, subscriptions,
                 shutdowns, exit>>

Kill ==
  /\ at.main = "kill"
  /\ pending' = (pending \/ ~received)
  /\ Goto("main", "join")
  /\ UNCHANGED <<raiser, fatal, flags, server, subscriptions, shutdowns, exit>>

(* A faulty variant: only the signal thread is joined.                     *)
JoinsOne ==
  /\ at.main = "join" /\ at.signal = "done"
  /\ Goto("main", "return")
  /\ UNCHANGED <<raiser, fatal, flags, pending, server, subscriptions,
                 shutdowns, exit>>

Join ==
  /\ at.main = "join"
  /\ server.admin = "down" /\ at.signal = "done" /\ at.fatal = "done"
  /\ Goto("main", "return")
  /\ UNCHANGED <<raiser, fatal, flags, pending, server, subscriptions,
                 shutdowns, exit>>

Return ==
  /\ at.main = "return"
  /\ exit' = IF fatal THEN "failure" ELSE "success"
  /\ Goto("main", "destroy")
  /\ UNCHANGED <<raiser, fatal, flags, pending, server, subscriptions, shutdowns>>

(* The locals are destroyed; the core's destructor joins the refresher.    *)
Destroy ==
  /\ at.main = "destroy" /\ ~Raising("refresher")
  /\ Goto("main", "gone")
  /\ UNCHANGED <<raiser, fatal, flags, pending, server, subscriptions,
                 shutdowns, exit>>

MainStep ==
  \/ Construct \/ StartAdmin \/ StartPublic \/ Abort
  \/ PublicWait \/ ReleaseThreads \/ NotifyThreads \/ Kill \/ Join
  \/ Return \/ Destroy

ShutdownStep(t) ==
  Exchange(t) \/ StopSubscriptions(t) \/ Shutdown(t) \/ ShutdownReturns(t)

Next ==
  \/ Signal
  \/ \E r \in {"public", "admin", "refresher"} : RaiseFatal(r)
  \/ StoreFatal \/ NotifyFatal
  \/ RegisterSubscription \/ UnregisterSubscription
  \/ \E s \in {"public", "admin"} : Drained(s)
  \/ SignalReceived \/ FatalWait
  \/ \E t \in {"signal", "fatal"} : ShutdownStep(t)
  \/ MainStep

Spec == Init /\ [][Next]_vars

(* Threads that can run do run, ordinary handlers return, and cancelled    *)
(* streams end (what StreamsEnd of module Subscription shows).  Nothing    *)
(* makes a stream end before it is cancelled, or a signal arrive.          *)
FairSpec ==
  /\ Spec
  /\ WF_vars(StoreFatal) /\ WF_vars(NotifyFatal)
  /\ WF_vars(stopping /\ UnregisterSubscription)
  /\ \A s \in {"public", "admin"} : WF_vars(Drained(s))
  /\ WF_vars(SignalReceived) /\ WF_vars(FatalWait)
  /\ \A t \in {"signal", "fatal"} : WF_vars(ShutdownStep(t))
  /\ WF_vars(MainStep)

-----------------------------------------------------------------------------
(* Types of the variables.                                                 *)
TypeOK ==
  /\ DOMAIN at = {"main", "signal", "fatal", "raiser"}
  /\ raiser \in {"nobody", "public", "admin", "refresher"}
  /\ raiser = "nobody" <=> at.raiser = "none"
  /\ {fatal, initiated, received, stopThreads, pending, streams, stopping}
       \subseteq BOOLEAN
  /\ server \in [{"public", "admin"} -> {"up", "draining", "down"}]
  /\ shutdowns \in 0..1
  /\ exit \in {"none", "success", "failure"}

(* When main chooses the exit status and begins to destroy the core, no    *)
(* handler, stream or shutdown thread can still use it, whichever of a     *)
(* signal and a fatal error came first (the joins before main returns).    *)
(* With the types: the shutdown begins at most once.                       *)
QuietBeforeDestruction ==
  /\ TypeOK
  /\ at.main \in {"return", "destroy"} =>
       /\ \A s \in DOMAIN server : server[s] = "down" /\ ~Raising(s)
       /\ ~streams
       /\ at.signal \in {"none", "done"} /\ at.fatal \in {"none", "done"}

(* After a signal or a fatal error the process ends: no join waits for     *)
(* ever for a thread in sigwait, asleep on the condition variable, or      *)
(* shutting down a server whose streams were never cancelled.              *)
ProcessExits == (pending \/ fatal) ~> at.main = "gone"

(* "A fatal storage error still causes a non-zero final process exit       *)
(* status" (docs/CONFIG.md): violated when the refresher raises one after  *)
(* main has read fatal_storage_error.                                      *)
FatalErrorIsReported == at.main = "gone" /\ fatal => exit = "failure"

=============================================================================
