------------------------ MODULE SubmissionLifecycle ------------------------
(***************************************************************************)
(* A submission from POST /submit to DELETE: the handlers of               *)
(* services/submission_api/main.py, the load-test task they start, the     *)
(* routes of services/ws_proxy/main.py and the Docker daemon.  A handler   *)
(* is cut at its awaits; what Docker is asked is asked synchronously.      *)
(* A container on the isolated network has an address there, which Docker  *)
(* may give to another one when it is gone; the proxy forwards to it.      *)
(***************************************************************************)
EXTENDS Naturals, FiniteSets

CONSTANTS Subs,
          Addresses,    \* those of the isolated network
          None,
          MaxRequests,  \* bound: calls of test/start and DELETE
          MaxTroubles   \* bound: contestants that die, calls of Docker, the proxy or
                        \* Redis that fail, restarts, and calls of test/complete

ASSUME BoundsAssumption == {MaxRequests, MaxTroubles} \subseteq Nat
ASSUME NoneAssumption == None \notin Addresses \cup {"running", "stopped", "failed"}

Stages == {"connecting", "open", "broken", "stuck", "returned", "raised"}
StopStages == {"unregister", "save"}

VARIABLES
  isolated,    \* SANDBOX_ISOLATED_NETWORK
  container,   \* "none" "up" "down"
  address,     \* the one it was given
  routes,      \* UPSTREAMS: the addresses the proxy has, or None
  status,      \* submission:<id> status, None while the hash is not there
  testStatus,  \* submission:<id> test_status
  submitting,  \* the submit handler: "no" "register" "save" "over"
  stopping,    \* stop handlers by stage
  starting,    \* start handlers that have read the hash
  tests,       \* load-test tasks by stage
  faulty,      \* history: submissions for which a call has failed
  unsettled,   \* history: stopped, marked failed, or cut off by a proxy restart
  unreported,  \* history: submissions for which a write of a test's status has raised
  restarted,   \* history: has the API been
  budget       \* what is left of each bound

handlers == <<submitting, stopping, starting>>
history == <<faulty, unsettled, unreported, restarted>>
network == <<isolated, container, address>>
vars == <<network, routes, status, testStatus, handlers, tests, history, budget>>

Init ==
  /\ isolated \in BOOLEAN
  /\ container = [s \in Subs |-> "none"]
  /\ address = [s \in Subs |-> None] /\ routes = [s \in Subs |-> None]
  /\ status = [s \in Subs |-> None] /\ testStatus = [s \in Subs |-> None]
  /\ submitting = [s \in Subs |-> "no"]
  /\ stopping = [s \in Subs |-> [stage \in StopStages |-> 0]]
  /\ starting = [s \in Subs |-> 0]
  /\ tests = [s \in Subs |-> [stage \in Stages |-> 0]]
  /\ faulty = {} /\ unsettled = {} /\ unreported = {} /\ restarted = FALSE
  /\ budget = [requests |-> MaxRequests, troubles |-> MaxTroubles]

Spend(what) == budget[what] > 0 /\ budget' = [budget EXCEPT ![what] = @ - 1]

Blame(s) == Spend("troubles") /\ faulty' = faulty \cup {s} /\ UNCHANGED <<unsettled, restarted>>

\* A call for s fails.
Fault(s) == Blame(s) /\ UNCHANGED unreported

\* It is the one that writes how its test is getting on.
ReportFault(s) == Blame(s) /\ unreported' = unreported \cup {s}

Move(s, from, to) ==
  /\ tests[s][from] > 0
  /\ tests' = [tests EXCEPT ![s][from] = @ - 1, ![s][to] = @ + 1]

\* Variant for mutation runs: a task that has reported stays.
Leave_Stays(s, from) == tests[s][from] > 0 /\ tests' = [tests EXCEPT ![s][from] = @ + 1]

Leave(s, from) == tests[s][from] > 0 /\ tests' = [tests EXCEPT ![s][from] = @ - 1]

\* The tests of ss lose their connections.
Broken(ss) ==
  [s \in Subs |-> IF s \in ss
                  THEN [tests[s] EXCEPT !["broken"] = @ + tests[s]["open"], !["open"] = 0]
                  ELSE tests[s]]

---------------------------------------------------------------------------
(* POST /submit.  The id is fresh, so there is no container of that name.  *)

\* docker run, with an address that no container has that is up.
Free == Addresses \ {address[s] : s \in {t \in Subs : container[t] = "up"}}

Run(s) ==
  /\ container' = [container EXCEPT ![s] = "up"]
  /\ \E a \in Free : address' = [address EXCEPT ![s] = a]

\* Variant for mutation runs: the proxy is not told.
StartContainer_Unrouted(s) ==
  /\ submitting[s] = "no"
  /\ Run(s)
  /\ submitting' = [submitting EXCEPT ![s] = "save"]
  /\ UNCHANGED <<isolated, routes, status, testStatus, stopping, starting, tests,
                 history, budget>>

\* The image is built and the container run.  On the bridge network it has a port
\* of the host, and the proxy has no part in it.
StartContainer(s) ==
  /\ submitting[s] = "no"
  /\ Run(s)
  /\ submitting' = [submitting EXCEPT ![s] = IF isolated THEN "register" ELSE "save"]
  /\ UNCHANGED <<isolated, routes, status, testStatus, stopping, starting, tests,
                 history, budget>>

\* The upload is no zip, has no server.py or does not build: 400.
BuildFails(s) ==
  /\ submitting[s] = "no"
  /\ submitting' = [submitting EXCEPT ![s] = "over"]
  /\ UNCHANGED <<network, routes, status, testStatus, stopping, starting, tests,
                 history, budget>>

\* Docker is unavailable, or fails to run it: 503.
StartFails(s) ==
  /\ submitting[s] = "no"
  /\ Fault(s)
  /\ submitting' = [submitting EXCEPT ![s] = "over"]
  /\ UNCHANGED <<network, routes, status, testStatus, stopping, starting, tests>>

\* POST /register.
Register(s) ==
  /\ submitting[s] = "register"
  /\ routes' = [routes EXCEPT ![s] = address[s]]
  /\ submitting' = [submitting EXCEPT ![s] = "save"]
  /\ UNCHANGED <<network, status, testStatus, stopping, starting, tests, history, budget>>

\* It fails, perhaps only in its answer, or the container has died and has no
\* address: 503, and the container is left as it is.
RegisterFails(s) ==
  /\ submitting[s] = "register"
  /\ Fault(s)
  /\ routes' \in {routes, [routes EXCEPT ![s] = address[s]]}
  /\ submitting' = [submitting EXCEPT ![s] = "over"]
  /\ UNCHANGED <<network, status, testStatus, stopping, starting, tests>>

\* The hash is written and the submission's id answered.
SaveSubmission(s) ==
  /\ submitting[s] = "save"
  /\ status' = [status EXCEPT ![s] = "running"]
  /\ testStatus' = [testStatus EXCEPT ![s] = "ready"]
  /\ submitting' = [submitting EXCEPT ![s] = "over"]
  /\ UNCHANGED <<network, routes, stopping, starting, tests, history, budget>>

\* It is not, or there is no answer to that: 500, and container and route are left.
SaveFails(s) ==
  /\ submitting[s] = "save"
  /\ Fault(s)
  /\ \/ UNCHANGED <<status, testStatus>>
     \/ /\ status' = [status EXCEPT ![s] = "running"]
        /\ testStatus' = [testStatus EXCEPT ![s] = "ready"]
  /\ submitting' = [submitting EXCEPT ![s] = "over"]
  /\ UNCHANGED <<network, routes, stopping, starting, tests>>

---------------------------------------------------------------------------
(* The other requests, for a submission whose hash is there. *)

\* POST test/start reads the hash.
StartTest(s) ==
  /\ status[s] # None
  /\ Spend("requests")
  /\ starting' = [starting EXCEPT ![s] = @ + 1]
  /\ UNCHANGED <<network, routes, status, testStatus, submitting, stopping, tests,
                 history>>

\* Variant for mutation runs: a start brings the submission back.
SpawnTest_Revives(s) ==
  /\ starting[s] > 0
  /\ starting' = [starting EXCEPT ![s] = @ - 1]
  /\ status' = [status EXCEPT ![s] = "running"]
  /\ testStatus' = [testStatus EXCEPT ![s] = "running"]
  /\ tests' = [tests EXCEPT ![s]["connecting"] = @ + 1]
  /\ UNCHANGED <<network, routes, submitting, stopping, history, budget>>

\* It writes test_status and creates the task.
SpawnTest(s) ==
  /\ starting[s] > 0
  /\ starting' = [starting EXCEPT ![s] = @ - 1]
  /\ testStatus' = [testStatus EXCEPT ![s] = "running"]
  /\ tests' = [tests EXCEPT ![s]["connecting"] = @ + 1]
  /\ UNCHANGED <<network, routes, status, submitting, stopping, history, budget>>

\* The write raises, done or not, and no task is created: 500.
SpawnFails(s) ==
  /\ starting[s] > 0
  /\ ReportFault(s)
  /\ starting' = [starting EXCEPT ![s] = @ - 1]
  /\ testStatus' \in {testStatus, [testStatus EXCEPT ![s] = "running"]}
  /\ UNCHANGED <<network, routes, status, submitting, stopping, tests>>

\* POST test/complete writes what the caller says.
MarkTest(s, failed) ==
  /\ status[s] # None
  /\ Spend("troubles")
  /\ testStatus' = [testStatus EXCEPT ![s] = IF failed THEN "failed" ELSE "completed"]
  /\ unsettled' = IF failed THEN unsettled \cup {s} ELSE unsettled
  /\ UNCHANGED <<network, routes, status, handlers, tests, faulty, unreported, restarted>>

\* A DELETE goes on; several may be under way.
Proceed(s, from, to) ==
  /\ stopping[s][from] > 0
  /\ stopping' = [stopping EXCEPT ![s][from] = @ - 1, ![s][to] = @ + 1]

\* DELETE reads the hash and removes the container.
StopContainer(s) ==
  /\ status[s] # None
  /\ Spend("requests")
  /\ container' = [container EXCEPT ![s] = "down"]
  /\ tests' = Broken({s})
  /\ unsettled' = unsettled \cup {s}
  /\ stopping' = [stopping EXCEPT ![s]["unregister"] = @ + 1]
  /\ UNCHANGED <<isolated, address, routes, status, testStatus, submitting, starting,
                 faulty, unreported, restarted>>

\* Docker fails to remove it, or has not been there since the API started, which
\* is ignored.
RemoveFails(s) ==
  /\ status[s] # None
  /\ budget["requests"] > 0 /\ budget["troubles"] > 0
  /\ budget' = [budget EXCEPT !["requests"] = @ - 1, !["troubles"] = @ - 1]
  /\ faulty' = faulty \cup {s} /\ unsettled' = unsettled \cup {s}
  /\ stopping' = [stopping EXCEPT ![s]["unregister"] = @ + 1]
  /\ UNCHANGED <<network, routes, status, testStatus, submitting, starting, tests,
                 unreported, restarted>>

\* Variant for mutation runs: the route is kept.
Unregister_KeepsRoute(s) ==
  /\ Proceed(s, "unregister", "save")
  /\ UNCHANGED <<network, routes, status, testStatus, submitting, starting, tests,
                 history,
                 budget>>

\* DELETE /register.
Unregister(s) ==
  /\ routes' = [routes EXCEPT ![s] = None]
  /\ Proceed(s, "unregister", "save")
  /\ UNCHANGED <<network, status, testStatus, submitting, starting, tests, history,
                 budget>>

\* It fails, which is ignored.
UnregisterFails(s) ==
  /\ Fault(s)
  /\ routes' \in {routes, [routes EXCEPT ![s] = None]}
  /\ Proceed(s, "unregister", "save")
  /\ UNCHANGED <<network, status, testStatus, submitting, starting, tests>>

FinishStop(s) ==
  /\ stopping[s]["save"] > 0
  /\ stopping' = [stopping EXCEPT ![s]["save"] = @ - 1]

WriteStopped(s) ==
  /\ status' = [status EXCEPT ![s] = "stopped"]
  /\ testStatus' = [testStatus EXCEPT ![s] = "stopped"]

SaveStop(s) ==
  /\ FinishStop(s) /\ WriteStopped(s)
  /\ UNCHANGED <<network, routes, submitting, starting, tests, history, budget>>

\* The write raises, done or not: 500.
SaveStopFails(s) ==
  /\ FinishStop(s)
  /\ Fault(s)
  /\ WriteStopped(s) \/ UNCHANGED <<status, testStatus>>
  /\ UNCHANGED <<network, routes, submitting, starting, tests>>

---------------------------------------------------------------------------
(* run_load_test_task, through proxy_ws. *)

\* Without a route the proxy refuses and websockets.connect raises; the rewritten
\* address of a bridged container names the proxy, and a port where nobody
\* listens.  With a route the proxy accepts before it connects upstream: the bot
\* does not see that no container answers until it sends.
Connect(s) ==
  /\ Move(s, "connecting", IF routes[s] = None THEN "raised"
                           ELSE IF routes[s] \in Free THEN "broken" ELSE "open")
  /\ UNCHANGED <<network, routes, status, testStatus, handlers, history, budget>>

\* The bot's time is over.  A lost connection has only counted as errors.
BotReturns(s) ==
  /\ Move(s, "open", "returned") \/ Move(s, "broken", "returned")
  /\ UNCHANGED <<network, routes, status, testStatus, handlers, history, budget>>

\* What the contestant sends ends the bot's receiver, and pending.join() waits
\* for ever (LimitOrderBot).
BotHangs(s) ==
  /\ Move(s, "open", "stuck")
  /\ Fault(s)
  /\ UNCHANGED <<network, routes, status, testStatus, handlers>>

\* A call to Redis raises in the task.
TaskRaises(s) ==
  /\ \E stage \in {"open", "broken", "returned"} : Move(s, stage, "raised")
  /\ Fault(s)
  /\ UNCHANGED <<network, routes, status, testStatus, handlers>>

ReportCompleted(s) ==
  /\ Leave(s, "returned")
  /\ testStatus' = [testStatus EXCEPT ![s] = "completed"]
  /\ UNCHANGED <<network, routes, status, handlers, history, budget>>

\* Variant for mutation runs: the exception is only printed.
ReportFailed_Silent(s) ==
  /\ Leave(s, "raised")
  /\ UNCHANGED <<network, routes, status, testStatus, handlers, history, budget>>

ReportFailed(s) ==
  /\ Leave(s, "raised")
  /\ testStatus' = [testStatus EXCEPT ![s] = "failed"]
  /\ UNCHANGED <<network, routes, status, handlers, history, budget>>

\* That write raises, too: the task is gone.
ReportLost(s) ==
  /\ Leave(s, "raised")
  /\ ReportFault(s)
  /\ UNCHANGED <<network, routes, status, testStatus, handlers>>

---------------------------------------------------------------------------
(* What happens to the processes. *)

KillContestant(s) ==
  /\ container[s] = "up"
  /\ Spend("troubles")
  /\ container' = [container EXCEPT ![s] = "down"]
  /\ tests' = Broken({s})
  /\ UNCHANGED <<isolated, address, routes, status, testStatus, handlers, history>>

\* UPSTREAMS lives in the proxy's memory.
ProxyRestarts ==
  /\ Spend("troubles")
  /\ routes' = [s \in Subs |-> None]
  /\ tests' = Broken(Subs)
  /\ unsettled' = unsettled \cup {s \in Subs : routes[s] # None}
  /\ UNCHANGED <<network, status, testStatus, handlers, faulty, unreported,
                 restarted>>

\* The handlers and tasks of the API are lost with it.
ApiRestarts ==
  /\ Spend("troubles")
  /\ restarted' = TRUE
  /\ submitting' = [s \in Subs |-> IF submitting[s] = "no" THEN "no" ELSE "over"]
  /\ stopping' = [s \in Subs |-> [stage \in StopStages |-> 0]]
  /\ starting' = [s \in Subs |-> 0]
  /\ tests' = [s \in Subs |-> [stage \in Stages |-> 0]]
  /\ UNCHANGED <<network, routes, status, testStatus, faulty, unsettled, unreported>>

---------------------------------------------------------------------------
Submit(s) ==
  \/ StartContainer(s) \/ BuildFails(s) \/ StartFails(s) \/ Register(s)
  \/ RegisterFails(s) \/ SaveSubmission(s) \/ SaveFails(s)

Stop(s) == Unregister(s) \/ UnregisterFails(s) \/ SaveStop(s) \/ SaveStopFails(s)

Test(s) ==
  \/ SpawnTest(s) \/ SpawnFails(s) \/ Connect(s) \/ BotReturns(s) \/ BotHangs(s)
  \/ TaskRaises(s)
  \/ ReportCompleted(s) \/ ReportFailed(s) \/ ReportLost(s)

Request(s) ==
  \/ StartTest(s) \/ StopContainer(s) \/ RemoveFails(s)
  \/ \E failed \in BOOLEAN : MarkTest(s, failed)

Next ==
  \/ \E s \in Subs : Submit(s) \/ Stop(s) \/ Test(s) \/ Request(s) \/ KillContestant(s)
  \/ ProxyRestarts \/ ApiRestarts

Spec == Init /\ [][Next]_vars

\* A handler or task that waits is resumed; requests and failures need not come.
FairSpec == Spec /\ \A s \in Subs : WF_vars(Stop(s)) /\ WF_vars(Test(s))

---------------------------------------------------------------------------
(* Properties. *)

TypeOK ==
  /\ isolated \in BOOLEAN
  /\ container \in [Subs -> {"none", "up", "down"}]
  /\ {address, routes} \subseteq [Subs -> Addresses \cup {None}]
  /\ status \in [Subs -> {None, "running", "stopped"}]
  /\ testStatus \in [Subs -> {None, "ready", "running", "completed", "failed", "stopped"}]
  /\ submitting \in [Subs -> {"no", "register", "save", "over"}]
  /\ stopping \in [Subs -> [StopStages -> Nat]]
  /\ starting \in [Subs -> 0..MaxRequests]
  /\ tests \in [Subs -> [Stages -> 0..MaxRequests]]
  /\ faulty \subseteq Subs /\ unsettled \subseteq Subs /\ unreported \subseteq Subs
  /\ restarted \in BOOLEAN
  /\ \A what \in DOMAIN budget : budget[what] \in Nat

\* A test fails for a reason that is not the contestant's: on the isolated network,
\* from the moment its id is answered a submission can be connected to, until it
\* is stopped, its route is lost or a call fails.
FailsForAReason ==
  isolated => \A s \in Subs : testStatus[s] = "failed" => s \in faulty \cup unsettled

\* A container or a route is there for a submission that is being made or is
\* shown as running.  None is left over by a DELETE, however requests interleave,
\* and none by a submit that gives up, unless a failing call was ignored on the
\* way or the API died under it.
HeldByARecord ==
  \A s \in Subs :
    container[s] = "up" \/ routes[s] # None
      => \/ submitting[s] \in {"register", "save"} \/ status[s] = "running"
         \/ s \in faulty
         \/ status[s] = None /\ restarted

\* A test is connected to the container of its own submission and no other,
\* although addresses are used again.  Only between the death of that container
\* and the end of a DELETE, or after one whose call to the proxy failed, may the
\* route lead to one that was given the address next.
ConnectsToOwn ==
  [][\A s \in Subs :
       tests'[s]["open"] > tests[s]["open"]
         => \/ \A t \in Subs : container[t] = "up" /\ address[t] = routes[s] => t = s
            \/ container[s] = "down" /\ (status[s] # "stopped" \/ s \in faulty)]_vars

\* Nothing brings a stopped submission back, neither a start whose read came
\* before the stop nor a test that ends after it.
StoppedIsFinal == [][\A s \in Subs : status[s] = "stopped" => status'[s] = "stopped"]_vars

\* A test that is shown running is shown ended at some time, whatever becomes of the
\* contestant, its container, its route and the proxy, and whichever other call fails:
\* but for a restart of the API, a write of its own status that raises, and a bot that
\* a frame of the contestant's has hung.
RunningEnds ==
  \A s \in Subs :
    testStatus[s] = "running"
      ~> testStatus[s] # "running" \/ restarted \/ s \in unreported \/ tests[s]["stuck"] > 0

\* The test of a contestant that is killed under it is marked as failed.
KilledTestFails ==
  \A s \in Subs :
    tests[s]["broken"] > 0 /\ container[s] = "down" ~> testStatus[s] = "failed"
=============================================================================
