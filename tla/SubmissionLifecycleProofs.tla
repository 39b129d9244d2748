--------------------- MODULE SubmissionLifecycleProofs ---------------------
(***************************************************************************)
(* Theorems about the life of a submission, for any number of submissions, *)
(* addresses, requests and troubles.                                       *)
(***************************************************************************)
EXTENDS SubmissionLifecycle, Integers, TLAPS

---------------------------------------------------------------------------
(* Types. *)

\* The tests of a submission that there are or are being started.
Pending(s) ==
  starting[s] + tests[s]["connecting"] + tests[s]["open"] + tests[s]["broken"]
    + tests[s]["stuck"] + tests[s]["returned"] + tests[s]["raised"]

Budgets == {"requests", "troubles"}

\* What a counter of tests may reach is bounded by what is left of the budget.
TypeInv ==
  /\ TypeOK
  /\ budget \in [Budgets -> Nat]
  /\ \A s \in Subs : Pending(s) + budget["requests"] <= MaxRequests

BeingStopped(s) == \E stage \in StopStages : stopping[s][stage] > 0

\* Only a submission whose hash is written is tested or stopped, and none that is
\* written is still being submitted.
RecordInv ==
  \A s \in Subs :
    /\ status[s] # None => submitting[s] = "over"
    /\ Pending(s) > 0 \/ BeingStopped(s) => status[s] # None

---------------------------------------------------------------------------
(* Containers and routes. *)

\* A route leads to the address of its container, and no two containers that are
\* up have the same one.
AddressInv ==
  /\ \A s \in Subs : routes[s] \in {None, address[s]}
  /\ \A s \in Subs : container[s] # "none" <=> address[s] # None
  /\ \A s, t \in Subs : container[s] = "up" /\ container[t] = "up" /\ s # t
                          => address[s] # address[t]

\* What a submit and a DELETE have done so far, unless a call failed.
HandlerInv ==
  \A s \in Subs :
    /\ submitting[s] = "no" => container[s] = "none"
    /\ submitting[s] \in {"register", "save"} \/ status[s] # None => container[s] # "none"
    /\ s \notin faulty /\ BeingStopped(s) => container[s] # "up"
    /\ s \notin faulty /\ stopping[s]["save"] > 0 => routes[s] = None
    /\ s \notin faulty /\ status[s] = "stopped" => container[s] # "up" /\ routes[s] = None

HeldInv == RecordInv /\ AddressInv /\ HandlerInv /\ HeldByARecord

---------------------------------------------------------------------------
(* Reasons to fail. *)

\* On the isolated network a submission has a route from the moment it is saved,
\* or there is a reason that it has none.
ReasonInv ==
  isolated => \A s \in Subs :
    /\ submitting[s] = "save" \/ status[s] # None
         => routes[s] # None \/ s \in faulty \cup unsettled
    /\ BeingStopped(s) => s \in unsettled
    /\ tests[s]["raised"] > 0 => s \in faulty \cup unsettled
    /\ testStatus[s] = "failed" => s \in faulty \cup unsettled

---------------------------------------------------------------------------
(* The counters of the tests. *)

LEMMA MoveFacts ==
  ASSUME TypeInv, NEW s \in Subs, NEW from \in Stages, NEW to \in Stages, from # to,
         Move(s, from, to)
  PROVE  /\ tests[s][from] > 0
         /\ tests' \in [Subs -> [Stages -> 0..MaxRequests]]
         /\ \A t \in Subs, x \in Stages :
              tests'[t][x] = IF t = s /\ x = from THEN tests[t][x] - 1
                             ELSE IF t = s /\ x = to THEN tests[t][x] + 1 ELSE tests[t][x]
PROOF
<1>1. /\ tests \in [Subs -> [Stages -> 0..MaxRequests]] /\ Pending(s) <= MaxRequests
      /\ starting[s] \in Nat /\ MaxRequests \in Nat
  BY BoundsAssumption DEF TypeInv, TypeOK, Pending, Budgets, Stages
<1>2. tests' = [tests EXCEPT ![s][from] = @ - 1, ![s][to] = @ + 1] /\ tests[s][from] > 0
  BY DEF Move
<1>3. tests[s][to] + 1 \in 0..MaxRequests /\ tests[s][from] - 1 \in 0..MaxRequests
  BY <1>1, <1>2 DEF Pending, Stages
<1>4. QED
  BY <1>1, <1>2, <1>3

LEMMA LeaveFacts ==
  ASSUME TypeInv, NEW s \in Subs, NEW from \in Stages, Leave(s, from)
  PROVE  /\ tests[s][from] > 0
         /\ tests' \in [Subs -> [Stages -> 0..MaxRequests]]
         /\ \A t \in Subs, x \in Stages :
              tests'[t][x] = IF t = s /\ x = from THEN tests[t][x] - 1 ELSE tests[t][x]
PROOF
<1>1. tests \in [Subs -> [Stages -> 0..MaxRequests]] /\ MaxRequests \in Nat
  BY BoundsAssumption DEF TypeInv, TypeOK
<1>2. tests' = [tests EXCEPT ![s][from] = @ - 1] /\ tests[s][from] > 0
  BY DEF Leave
<1>3. tests[s][from] - 1 \in 0..MaxRequests
  BY <1>1, <1>2
<1>4. QED
  BY <1>1, <1>2, <1>3

LEMMA BrokenFacts ==
  ASSUME TypeInv, NEW ss, tests' = Broken(ss)
  PROVE  /\ tests' \in [Subs -> [Stages -> 0..MaxRequests]]
         /\ \A t \in Subs : /\ tests'[t]["open"] <= tests[t]["open"]
                           /\ tests'[t]["open"] + tests'[t]["broken"]
                                = tests[t]["open"] + tests[t]["broken"]
                           /\ \A x \in Stages \ {"open", "broken"} :
                                tests'[t][x] = tests[t][x]
PROOF
<1>1. tests \in [Subs -> [Stages -> 0..MaxRequests]] /\ MaxRequests \in Nat
  BY BoundsAssumption DEF TypeInv, TypeOK
<1>2. \A t \in Subs : tests[t]["broken"] + tests[t]["open"] \in 0..MaxRequests
  BY <1>1 DEF TypeInv, TypeOK, Pending, Stages, Budgets
<1>3. \A t \in Subs :
       tests'[t] = IF t \in ss
                   THEN [tests[t] EXCEPT !["broken"] = @ + tests[t]["open"], !["open"] = 0]
                   ELSE tests[t]
  BY DEF Broken
<1>4. DOMAIN tests' = Subs /\ tests' = [t \in Subs |-> tests'[t]]
  BY DEF Broken
<1>5. ASSUME NEW t \in Subs, t \in ss
      PROVE  /\ tests'[t] \in [Stages -> 0..MaxRequests]
             /\ tests'[t]["open"] = 0
             /\ tests'[t]["broken"] = tests[t]["broken"] + tests[t]["open"]
             /\ \A x \in Stages \ {"open", "broken"} : tests'[t][x] = tests[t][x]
  <2>1. PICK f \in [Stages -> 0..MaxRequests] : f = tests[t]
    BY <1>1
  <2>2. f["broken"] + f["open"] \in 0..MaxRequests
    BY <1>2, <2>1
  <2>3. tests'[t] = [f EXCEPT !["broken"] = @ + f["open"], !["open"] = 0]
    BY <1>3, <1>5, <2>1
  <2>4. QED
    BY <1>1, <2>1, <2>2, <2>3 DEF Stages
<1>6. \A t \in Subs \ ss : tests'[t] = tests[t]
  BY <1>3
<1>7. tests' \in [Subs -> [Stages -> 0..MaxRequests]]
  BY <1>1, <1>4, <1>5, <1>6
<1>8. \A t \in Subs : tests[t]["open"] \in Nat /\ tests[t]["broken"] \in Nat
  BY <1>1 DEF Stages
<1>9. QED
  BY <1>5, <1>6, <1>7, <1>8

\* The counters of the stop handlers.
LEMMA ProceedFacts ==
  ASSUME stopping \in [Subs -> [StopStages -> Nat]], NEW s \in Subs,
         Proceed(s, "unregister", "save")
  PROVE  /\ stopping[s]["unregister"] > 0
         /\ stopping' \in [Subs -> [StopStages -> Nat]]
         /\ stopping'[s]["unregister"] = stopping[s]["unregister"] - 1
         /\ stopping'[s]["save"] = stopping[s]["save"] + 1
         /\ \A t \in Subs \ {s} : stopping'[t] = stopping[t]
BY DEF Proceed, StopStages

LEMMA FinishFacts ==
  ASSUME stopping \in [Subs -> [StopStages -> Nat]], NEW s \in Subs, FinishStop(s)
  PROVE  /\ stopping[s]["save"] > 0
         /\ stopping' \in [Subs -> [StopStages -> Nat]]
         /\ stopping'[s]["unregister"] = stopping[s]["unregister"]
         /\ stopping'[s]["save"] = stopping[s]["save"] - 1
         /\ \A t \in Subs \ {s} : stopping'[t] = stopping[t]
BY DEF FinishStop, StopStages

LEMMA BeginFacts ==
  ASSUME stopping \in [Subs -> [StopStages -> Nat]], NEW s \in Subs,
         stopping' = [stopping EXCEPT ![s]["unregister"] = @ + 1]
  PROVE  /\ stopping' \in [Subs -> [StopStages -> Nat]]
         /\ stopping'[s]["save"] = stopping[s]["save"]
         /\ stopping'[s]["unregister"] = stopping[s]["unregister"] + 1
         /\ \A t \in Subs \ {s} : stopping'[t] = stopping[t]
BY DEF StopStages

LEMMA SpendFacts ==
  ASSUME budget \in [Budgets -> Nat], NEW what \in Budgets, Spend(what)
  PROVE  /\ budget' \in [Budgets -> Nat]
         /\ budget'[what] = budget[what] - 1
         /\ \A x \in Budgets \ {what} : budget'[x] = budget[x]
BY DEF Spend, Budgets

LEMMA TypeInit == Init => TypeInv
PROOF
<1> SUFFICES ASSUME Init PROVE TypeInv
  OBVIOUS
<1>1. {MaxRequests, MaxTroubles} \subseteq Nat
  BY BoundsAssumption
<1>2. budget \in [Budgets -> Nat] /\ budget["requests"] = MaxRequests
  BY <1>1 DEF Init, Budgets
<1>3. /\ tests \in [Subs -> [Stages -> 0..MaxRequests]]
      /\ \A s \in Subs, x \in Stages : tests[s][x] = 0
  BY <1>1 DEF Init
<1>4. starting \in [Subs -> 0..MaxRequests] /\ \A s \in Subs : starting[s] = 0
  BY <1>1 DEF Init
<1>5. \A s \in Subs : Pending(s) = 0
  BY <1>3, <1>4 DEF Pending, Stages
<1>6. TypeOK
  BY <1>2, <1>3, <1>4 DEF Init, TypeOK
<1>7. QED
  BY <1>1, <1>2, <1>5, <1>6 DEF TypeInv

\* An action that leaves the tests as they are keeps the types of their counters.
LEMMA SameTests ==
  ASSUME TypeInv, UNCHANGED <<starting, tests>>,
         budget' \in [Budgets -> Nat], budget'["requests"] <= budget["requests"]
  PROVE  /\ starting' \in [Subs -> 0..MaxRequests] /\ tests' \in [Subs -> [Stages -> 0..MaxRequests]]
         /\ \A what \in DOMAIN budget' : budget'[what] \in Nat
         /\ \A s \in Subs : Pending(s)' + budget'["requests"] <= MaxRequests
PROOF
<1>1. \A s \in Subs : Pending(s) \in Nat /\ Pending(s)' = Pending(s)
  BY DEF TypeInv, TypeOK, Pending, Stages
<1>2. MaxRequests \in Nat /\ budget["requests"] \in Nat /\ budget'["requests"] \in Nat
  BY BoundsAssumption DEF TypeInv, Budgets
<1>3. QED
  BY <1>1, <1>2 DEF TypeInv, TypeOK

\* So does one that moves a test on, or lets it go.
LEMMA FewerTests ==
  ASSUME TypeInv, UNCHANGED starting, tests' \in [Subs -> [Stages -> 0..MaxRequests]],
         budget' \in [Budgets -> Nat], budget'["requests"] <= budget["requests"],
         \A s \in Subs : Pending(s)' <= Pending(s)
  PROVE  /\ starting' \in [Subs -> 0..MaxRequests] /\ tests' \in [Subs -> [Stages -> 0..MaxRequests]]
         /\ \A what \in DOMAIN budget' : budget'[what] \in Nat
         /\ \A s \in Subs : Pending(s)' + budget'["requests"] <= MaxRequests
PROOF
<1>1. \A s \in Subs : Pending(s) \in Nat /\ Pending(s)' \in Nat
  BY DEF TypeInv, TypeOK, Pending, Stages
<1>2. MaxRequests \in Nat /\ budget["requests"] \in Nat /\ budget'["requests"] \in Nat
  BY BoundsAssumption DEF TypeInv, Budgets
<1>3. QED
  BY <1>1, <1>2 DEF TypeInv, TypeOK

LEMMA BudgetStep ==
  ASSUME TypeInv, [Next]_vars
  PROVE  budget' \in [Budgets -> Nat] /\ budget'["requests"] <= budget["requests"]
PROOF
<1>1. budget \in [Budgets -> Nat] /\ budget["requests"] \in Nat
  BY DEF TypeInv, Budgets
<1>2. CASE UNCHANGED budget
  BY <1>1, <1>2
<1>3. CASE \E what \in Budgets : Spend(what)
  BY <1>1, <1>3, SpendFacts DEF Budgets
<1>4. CASE \E s \in Subs : RemoveFails(s)
  BY <1>1, <1>4 DEF RemoveFails, Budgets
<1>5. QED
  BY <1>2, <1>3, <1>4
  DEF Next, vars, Submit, Stop, Test, Request, Fault, ReportFault, Blame, Budgets,
      StartContainer, BuildFails, StartFails, Register, RegisterFails, SaveSubmission,
      SaveFails, Unregister, UnregisterFails, SaveStop, SaveStopFails, SpawnTest, SpawnFails,
      Connect, BotReturns, BotHangs, TaskRaises, ReportCompleted,
      ReportFailed, ReportLost, StartTest, MarkTest, StopContainer, KillContestant,
      ProxyRestarts, ApiRestarts

\* What has no counter in it.
ShapeOK ==
  /\ isolated \in BOOLEAN
  /\ container \in [Subs -> {"none", "up", "down"}]
  /\ {address, routes} \subseteq [Subs -> Addresses \cup {None}]
  /\ status \in [Subs -> {None, "running", "stopped"}]
  /\ testStatus \in [Subs -> {None, "ready", "running", "completed", "failed", "stopped"}]
  /\ submitting \in [Subs -> {"no", "register", "save", "over"}]
  /\ stopping \in [Subs -> [StopStages -> Nat]]
  /\ faulty \subseteq Subs /\ unsettled \subseteq Subs /\ unreported \subseteq Subs
  /\ restarted \in BOOLEAN

LEMMA ShapeStep == ShapeOK /\ [Next]_vars => ShapeOK'
PROOF
<1> SUFFICES ASSUME ShapeOK, [Next]_vars PROVE ShapeOK'
  OBVIOUS
<1> USE DEF ShapeOK, network, handlers, history
<1>1. ASSUME NEW s \in Subs, Submit(s) PROVE ShapeOK'
  <2>1. CASE StartContainer(s)
    BY <2>1 DEF StartContainer, Run, Free
  <2>2. CASE BuildFails(s) \/ StartFails(s)
    BY <2>2 DEF BuildFails, StartFails, Fault, Blame
  <2>3. CASE Register(s)
    BY <2>3 DEF Register
  <2>3a. CASE RegisterFails(s)
    BY <2>3a DEF RegisterFails, Fault, Blame
  <2>4. CASE SaveSubmission(s)
    BY <2>4 DEF SaveSubmission
  <2>4a. CASE SaveFails(s)
    <3>1. /\ status' \in {status, [status EXCEPT ![s] = "running"]}
          /\ testStatus' \in {testStatus, [testStatus EXCEPT ![s] = "ready"]}
      BY <2>4a DEF SaveFails
    <3> QED BY <2>4a, <3>1 DEF SaveFails, Fault, Blame
  <2>5. QED
    BY <1>1, <2>1, <2>2, <2>3, <2>3a, <2>4, <2>4a DEF Submit
<1>2. ASSUME NEW s \in Subs, Stop(s) PROVE ShapeOK'
  <2>1. CASE Unregister(s) \/ UnregisterFails(s)
    BY <2>1, ProceedFacts DEF Unregister, UnregisterFails, Fault, Blame
  <2>2. CASE SaveStop(s) \/ SaveStopFails(s)
    <3>1. stopping' \in [Subs -> [StopStages -> Nat]]
      BY <2>2, FinishFacts DEF SaveStop, SaveStopFails
    <3>2. /\ status' \in {status, [status EXCEPT ![s] = "stopped"]}
          /\ testStatus' \in {testStatus, [testStatus EXCEPT ![s] = "stopped"]}
          /\ faulty' \in {faulty, faulty \cup {s}}
      BY <2>2 DEF SaveStop, SaveStopFails, WriteStopped, Fault, Blame
    <3> QED BY <2>2, <3>1, <3>2 DEF SaveStop, SaveStopFails, Fault, Blame
  <2>3. QED
    BY <1>2, <2>1, <2>2 DEF Stop
<1>3. ASSUME NEW s \in Subs, Test(s) PROVE ShapeOK'
  <2>1. CASE SpawnTest(s) \/ ReportCompleted(s) \/ ReportFailed(s)
    BY <2>1 DEF SpawnTest, ReportCompleted, ReportFailed
  <2>2. CASE Connect(s) \/ BotReturns(s)
    BY <2>2 DEF Connect, BotReturns
  <2>3. CASE BotHangs(s) \/ TaskRaises(s)
    BY <2>3 DEF BotHangs, TaskRaises, Fault, Blame
  <2>4. CASE ReportLost(s) \/ SpawnFails(s)
    BY <2>4 DEF ReportLost, SpawnFails, ReportFault, Blame
  <2>5. QED
    BY <1>3, <2>1, <2>2, <2>3, <2>4 DEF Test
<1>4. ASSUME NEW s \in Subs, Request(s) PROVE ShapeOK'
  <2>1. CASE StartTest(s)
    BY <2>1 DEF StartTest
  <2>2. CASE StopContainer(s) \/ RemoveFails(s)
    <3>1. stopping' \in [Subs -> [StopStages -> Nat]]
      BY <2>2, BeginFacts DEF StopContainer, RemoveFails
    <3>2. container' \in {container, [container EXCEPT ![s] = "down"]}
      BY <2>2 DEF StopContainer, RemoveFails
    <3>3. faulty' \in {faulty, faulty \cup {s}} /\ unsettled' = unsettled \cup {s}
      BY <2>2 DEF StopContainer, RemoveFails
    <3> QED BY <2>2, <3>1, <3>2, <3>3 DEF StopContainer, RemoveFails
  <2>3. ASSUME NEW failed \in BOOLEAN, MarkTest(s, failed) PROVE ShapeOK'
    BY <2>3 DEF MarkTest
  <2>4. QED
    BY <1>4, <2>1, <2>2, <2>3 DEF Request
<1>5. ASSUME NEW s \in Subs, KillContestant(s) PROVE ShapeOK'
  BY <1>5 DEF KillContestant
<1>6. CASE ProxyRestarts
  BY <1>6 DEF ProxyRestarts
<1>7. CASE ApiRestarts
  BY <1>7 DEF ApiRestarts
<1>8. CASE UNCHANGED vars
  BY <1>8 DEF vars
<1>9. QED
  BY <1>1, <1>2, <1>3, <1>4, <1>5, <1>6, <1>7, <1>8 DEF Next

CountersOK ==
  /\ starting \in [Subs -> 0..MaxRequests] /\ tests \in [Subs -> [Stages -> 0..MaxRequests]]
  /\ \A what \in DOMAIN budget : budget[what] \in Nat
  /\ \A s \in Subs : Pending(s) + budget["requests"] <= MaxRequests

\* A test is started for a submission whose hash is there.
OnlyStarted == \A s \in Subs : Pending(s)' <= Pending(s) \/ status[s] # None

LEMMA CountersStep == TypeInv /\ [Next]_vars => CountersOK' /\ OnlyStarted
PROOF
<1> SUFFICES ASSUME TypeInv, [Next]_vars PROVE CountersOK' /\ OnlyStarted
  OBVIOUS
<1> USE DEF network, handlers, history
<1>1. budget' \in [Budgets -> Nat] /\ budget'["requests"] <= budget["requests"]
  BY BudgetStep
<1>2. /\ budget["requests"] \in Nat /\ budget'["requests"] \in Nat /\ MaxRequests \in Nat
      /\ starting \in [Subs -> 0..MaxRequests] /\ tests \in [Subs -> [Stages -> 0..MaxRequests]]
  BY <1>1, BoundsAssumption DEF TypeInv, TypeOK, Budgets
<1>3. CASE UNCHANGED <<starting, tests>>
  <2>1. \A t \in Subs : Pending(t)' = Pending(t) /\ Pending(t) \in Nat
    BY <1>2, <1>3 DEF Pending, Stages
  <2>2. QED
    BY <1>1, <1>3, <2>1, SameTests DEF CountersOK, OnlyStarted
<1>4. ASSUME NEW s \in Subs, NEW from \in Stages, NEW to \in Stages, from # to,
             Move(s, from, to), UNCHANGED starting
      PROVE  CountersOK' /\ OnlyStarted
  <2>1. \A t \in Subs : Pending(t)' <= Pending(t)
    BY <1>2, <1>4, MoveFacts DEF Pending, Stages
  <2>2. QED
    BY <1>1, <1>4, <2>1, MoveFacts, FewerTests DEF CountersOK, OnlyStarted
<1>5. ASSUME NEW s \in Subs, NEW from \in Stages, Leave(s, from), UNCHANGED starting
      PROVE  CountersOK' /\ OnlyStarted
  <2>1. \A t \in Subs : Pending(t)' <= Pending(t)
    BY <1>2, <1>5, LeaveFacts DEF Pending, Stages
  <2>2. QED
    BY <1>1, <1>5, <2>1, LeaveFacts, FewerTests DEF CountersOK, OnlyStarted
<1>6. ASSUME NEW ss, tests' = Broken(ss), UNCHANGED starting PROVE CountersOK' /\ OnlyStarted
  <2>1. \A t \in Subs : Pending(t)' <= Pending(t)
    BY <1>2, <1>6, BrokenFacts DEF Pending, Stages
  <2>2. QED
    BY <1>1, <1>6, <2>1, BrokenFacts, FewerTests DEF CountersOK, OnlyStarted
<1>7. ASSUME NEW s \in Subs, StartTest(s) PROVE CountersOK' /\ OnlyStarted
  <2>1. budget["requests"] > 0 /\ budget'["requests"] = budget["requests"] - 1
    BY <1>7, SpendFacts DEF StartTest, TypeInv, Spend, Budgets
  <2>2. /\ starting' = [starting EXCEPT ![s] = @ + 1] /\ UNCHANGED tests
        /\ status[s] # None
    BY <1>7 DEF StartTest
  <2>3. /\ starting[s] + 1 \in 0..MaxRequests /\ \A t \in Subs : Pending(t)' <= Pending(t) + 1
        /\ \A t \in Subs : t # s => Pending(t)' <= Pending(t)
    BY <1>2, <2>1, <2>2 DEF Pending, Stages, TypeInv
  <2>4. \A t \in Subs : Pending(t) \in Nat /\ Pending(t)' \in Nat
    BY <1>2, <2>2, <2>3 DEF Pending, Stages
  <2>5. QED
    BY <1>1, <1>2, <2>1, <2>2, <2>3, <2>4 DEF CountersOK, OnlyStarted, TypeInv
<1>8. ASSUME NEW s \in Subs, SpawnTest(s) PROVE CountersOK' /\ OnlyStarted
  <2>1. /\ starting[s] > 0 /\ starting' = [starting EXCEPT ![s] = @ - 1]
        /\ tests' = [tests EXCEPT ![s]["connecting"] = @ + 1] /\ UNCHANGED budget
    BY <1>8 DEF SpawnTest
  <2>2. starting[s] - 1 \in 0..MaxRequests /\ tests[s]["connecting"] + 1 \in 0..MaxRequests
    BY <1>2, <2>1 DEF TypeInv, Pending, Stages
  <2>3. /\ starting' \in [Subs -> 0..MaxRequests] /\ tests' \in [Subs -> [Stages -> 0..MaxRequests]]
        /\ \A t \in Subs : Pending(t)' = Pending(t)
    BY <1>2, <2>1, <2>2 DEF Pending, Stages
  <2>4. \A t \in Subs : Pending(t) \in Nat
    BY <1>2 DEF Pending, Stages
  <2>5. QED
    BY <1>1, <1>2, <2>1, <2>3, <2>4 DEF CountersOK, OnlyStarted, TypeInv
<1>9. CASE ApiRestarts
  <2>1. /\ starting' = [s \in Subs |-> 0] /\ tests' = [s \in Subs |-> [x \in Stages |-> 0]]
    BY <1>9 DEF ApiRestarts
  <2>2. \A t \in Subs : Pending(t)' = 0
    BY <2>1 DEF Pending, Stages
  <2>3. \A t \in Subs : Pending(t) \in Nat
    BY <1>2 DEF Pending, Stages
  <2>4. QED
    BY <1>1, <1>2, <2>1, <2>2, <2>3 DEF CountersOK, OnlyStarted, TypeInv
<1>10. ASSUME NEW s \in Subs, Test(s) PROVE CountersOK' /\ OnlyStarted
  <2>1. CASE SpawnTest(s)
    BY <1>8, <2>1
  <2>2. CASE Connect(s)
    BY <1>4, <2>2 DEF Connect, Stages
  <2>3. CASE BotReturns(s)
    BY <1>4, <2>3 DEF BotReturns, Stages
  <2>4. CASE BotHangs(s)
    BY <1>4, <2>4 DEF BotHangs, Stages
  <2>5. CASE TaskRaises(s)
    BY <1>4, <2>5 DEF TaskRaises, Stages
  <2>6. CASE ReportCompleted(s) \/ ReportFailed(s) \/ ReportLost(s)
    BY <1>5, <2>6 DEF ReportCompleted, ReportFailed, ReportLost, Stages
  <2>7. CASE SpawnFails(s)
    <3>1. /\ starting[s] > 0 /\ starting' = [starting EXCEPT ![s] = @ - 1]
          /\ tests' = tests
      BY <2>7 DEF SpawnFails
    <3>2. /\ starting' \in [Subs -> 0..MaxRequests]
          /\ \A t \in Subs : Pending(t)' <= Pending(t) /\ Pending(t)' \in Nat
                            /\ Pending(t) \in Nat
      BY <1>2, <3>1 DEF Pending, Stages
    <3> QED BY <1>1, <1>2, <3>1, <3>2 DEF CountersOK, OnlyStarted, TypeInv
  <2>8. QED
    BY <1>10, <2>1, <2>2, <2>3, <2>4, <2>5, <2>6, <2>7 DEF Test
<1>11. ASSUME NEW s \in Subs, Submit(s) \/ Stop(s) PROVE CountersOK' /\ OnlyStarted
  BY <1>3, <1>11
  DEF Submit, Stop, StartContainer, BuildFails, StartFails, Register, RegisterFails,
      SaveSubmission, SaveFails, Unregister, UnregisterFails, SaveStop, SaveStopFails
<1>12. ASSUME NEW s \in Subs, Request(s) PROVE CountersOK' /\ OnlyStarted
  BY <1>3, <1>6, <1>7, <1>12 DEF Request, MarkTest, StopContainer, RemoveFails
<1>13. ASSUME NEW s \in Subs, KillContestant(s) PROVE CountersOK' /\ OnlyStarted
  BY <1>6, <1>13 DEF KillContestant
<1>14. CASE ProxyRestarts
  BY <1>6, <1>14 DEF ProxyRestarts
<1>15. CASE UNCHANGED vars
  BY <1>3, <1>15 DEF vars
<1>16. QED
  BY <1>9, <1>10, <1>11, <1>12, <1>13, <1>14, <1>15 DEF Next

LEMMA TypeStep == TypeInv /\ [Next]_vars => TypeInv'
BY CountersStep, ShapeStep, BudgetStep DEF TypeInv, TypeOK, CountersOK, ShapeOK

\* The types hold whatever happens, in particular no counter of tests exceeds
\* the number of calls of test/start.
THEOREM TypeCorrect == Spec => []TypeOK
PROOF
<1>1. Spec => []TypeInv
  BY TypeInit, TypeStep, PTL DEF Spec
<1>2. TypeInv => TypeOK
  BY DEF TypeInv
<1>3. QED
  BY <1>1, <1>2, PTL

\* Records.
LEMMA RecordStep == TypeInv /\ RecordInv /\ [Next]_vars => RecordInv'
PROOF
<1> SUFFICES ASSUME TypeInv, RecordInv, [Next]_vars PROVE RecordInv'
  OBVIOUS
<1> USE NoneAssumption DEF network, handlers, history
<1>1. /\ ShapeOK
      /\ \A s \in Subs : status[s] # None => submitting[s] = "over"
      /\ \A s \in Subs : BeingStopped(s) => status[s] # None
  BY DEF RecordInv, TypeInv, TypeOK, ShapeOK
<1> DEFINE Goal == \A s \in Subs : /\ status'[s] # None => submitting'[s] = "over"
                                   /\ BeingStopped(s)' => status'[s] # None
                                   /\ status[s] # None => status'[s] # None
<1>2. SUFFICES Goal
  <2>1. /\ \A s \in Subs : Pending(s) \in Nat /\ Pending(s)' \in Nat
        /\ OnlyStarted
    BY CountersStep, TypeStep DEF TypeInv, TypeOK, Pending, Stages
  <2>2. QED
    BY <1>1, <1>2, <2>1 DEF RecordInv, OnlyStarted
<1>3. ASSUME NEW s \in Subs, Submit(s)
      PROVE  /\ \A t \in Subs : status'[t] # None => submitting'[t] = "over"
             /\ stopping' = stopping
             /\ \A t \in Subs : status[t] # None => status'[t] # None
  BY <1>1, <1>3
  DEF Submit, StartContainer, BuildFails, StartFails, Register, RegisterFails,
      SaveSubmission, SaveFails, ShapeOK
<1>4. ASSUME NEW s \in Subs, Stop(s)
      PROVE  Goal
  <2>1. CASE Unregister(s) \/ UnregisterFails(s)
    <3>1. UNCHANGED <<status, submitting>> /\ Proceed(s, "unregister", "save")
      BY <2>1 DEF Unregister, UnregisterFails
    <3>2. \A t \in Subs : BeingStopped(t)' => BeingStopped(t)
      BY <1>1, <3>1, ProceedFacts DEF BeingStopped, StopStages, ShapeOK
    <3> QED BY <1>1, <3>1, <3>2
  <2>2. CASE SaveStop(s) \/ SaveStopFails(s)
    <3>1. /\ FinishStop(s) /\ submitting' = submitting
          /\ UNCHANGED status \/ status' = [status EXCEPT ![s] = "stopped"]
      BY <2>2 DEF SaveStop, SaveStopFails, WriteStopped
    <3>2. stopping[s]["save"] > 0 /\ \A t \in Subs : BeingStopped(t)' => BeingStopped(t)
      BY <1>1, <3>1, FinishFacts DEF BeingStopped, StopStages, ShapeOK
    <3>3. status[s] # None
      BY <1>1, <3>2 DEF BeingStopped, StopStages
    <3> QED BY <1>1, <3>1, <3>2, <3>3 DEF ShapeOK
  <2> QED BY <1>4, <2>1, <2>2 DEF Stop
<1>5. ASSUME NEW s \in Subs, StopContainer(s) \/ RemoveFails(s)
      PROVE  /\ UNCHANGED <<status, submitting>>
             /\ \A t \in Subs : BeingStopped(t)' => status'[t] # None
  <2>1. /\ UNCHANGED <<status, submitting>> /\ status[s] # None
        /\ stopping' = [stopping EXCEPT ![s]["unregister"] = @ + 1]
    BY <1>5 DEF StopContainer, RemoveFails
  <2>2. \A t \in Subs \ {s} : stopping'[t] = stopping[t]
    BY <1>1, <2>1, BeginFacts DEF ShapeOK
  <2> QED BY <1>1, <2>1, <2>2 DEF BeingStopped
<1>6. CASE ApiRestarts
  BY <1>1, <1>6 DEF ApiRestarts, BeingStopped, ShapeOK
<1>7. CASE UNCHANGED <<status, submitting, stopping>>
  BY <1>1, <1>7 DEF BeingStopped
<1>8. ASSUME NEW s \in Subs, Test(s) PROVE UNCHANGED <<status, submitting, stopping>>
  BY <1>8
  DEF Test, SpawnTest, SpawnFails, Connect, BotReturns, BotHangs, TaskRaises,
      ReportCompleted, ReportFailed, ReportLost
<1>9. ASSUME NEW s \in Subs, Request(s)
      PROVE  \/ UNCHANGED <<status, submitting, stopping>>
             \/ StopContainer(s) \/ RemoveFails(s)
  BY <1>9 DEF Request, StartTest, MarkTest
<1>10. ASSUME NEW s \in Subs, KillContestant(s) \/ ProxyRestarts
       PROVE  UNCHANGED <<status, submitting, stopping>>
  BY <1>10 DEF KillContestant, ProxyRestarts
<1>11. CASE ProxyRestarts
  BY <1>7, <1>11 DEF ProxyRestarts
<1>12. CASE UNCHANGED vars
  BY <1>7, <1>12 DEF vars
<1>13. ASSUME NEW s \in Subs, Submit(s) \/ Stop(s) \/ Test(s) \/ Request(s) \/ KillContestant(s)
       PROVE  Goal
  <2>1. CASE Submit(s)
    BY <1>1, <1>3, <2>1 DEF BeingStopped
  <2>2. CASE Stop(s)
    BY <1>4, <2>2
  <2>3. CASE Test(s) \/ KillContestant(s)
    BY <1>7, <1>8, <1>10, <2>3
  <2>4. CASE Request(s)
    BY <1>1, <1>5, <1>7, <1>9, <2>4
  <2>5. QED
    BY <1>13, <2>1, <2>2, <2>3, <2>4
<1>14. QED
  <2> HIDE DEF Goal
  <2>1. QED
    BY <1>6, <1>11, <1>12, <1>13 DEF Next

LEMMA HeldStep == TypeInv /\ HeldInv /\ [Next]_vars => HeldInv'
PROOF
<1> SUFFICES ASSUME TypeInv, HeldInv, [Next]_vars PROVE HeldInv'
  OBVIOUS
<1> USE NoneAssumption DEF network, handlers, history
<1>1. /\ ShapeOK /\ AddressInv /\ HandlerInv /\ HeldByARecord /\ RecordInv'
      /\ \A s \in Subs : status[s] # None => submitting[s] = "over"
      /\ \A s \in Subs : BeingStopped(s) => status[s] # None
  BY RecordStep DEF HeldInv, RecordInv, TypeInv, TypeOK, ShapeOK
<1> DEFINE Goal == AddressInv' /\ HandlerInv' /\ HeldByARecord'
<1>2. SUFFICES Goal
  BY <1>1 DEF HeldInv
<1>2a. /\ stopping \in [Subs -> [StopStages -> Nat]]
       /\ \A s \in Subs : stopping[s]["save"] > 0 => BeingStopped(s)
  BY <1>1 DEF ShapeOK, BeingStopped, StopStages
<1>2b. UNCHANGED stopping => \A t \in Subs : BeingStopped(t)' = BeingStopped(t)
  BY DEF BeingStopped
<1> USE DEF ShapeOK, AddressInv, HandlerInv, HeldByARecord
<1>3. ASSUME NEW s \in Subs, Submit(s) PROVE Goal
  <2>1. CASE StartContainer(s)
    BY <1>1, <1>2b, <2>1 DEF StartContainer, Run, Free
  <2>2. CASE BuildFails(s)
    BY <1>1, <1>2b, <2>2 DEF BuildFails
  <2>3. CASE StartFails(s)
    BY <1>1, <1>2b, <2>3 DEF StartFails, Fault, Blame
  <2>4. CASE Register(s)
    BY <1>1, <1>2a, <1>2b, <2>4 DEF Register
  <2>5. CASE RegisterFails(s)
    BY <1>1, <1>2b, <2>5 DEF RegisterFails, Fault, Blame
  <2>6. CASE SaveSubmission(s)
    BY <1>1, <1>2b, <2>6 DEF SaveSubmission
  <2>7. CASE SaveFails(s)
    BY <1>1, <1>2b, <2>7 DEF SaveFails, Fault, Blame
  <2>8. QED
    BY <1>3, <2>1, <2>2, <2>3, <2>4, <2>5, <2>6, <2>7 DEF Submit
<1>4. ASSUME NEW s \in Subs, Stop(s) PROVE Goal
  <2>1. CASE Unregister(s) \/ UnregisterFails(s)
    <3>1. /\ BeingStopped(s) /\ \A t \in Subs : BeingStopped(t)' => BeingStopped(t)
          /\ \A t \in Subs \ {s} : stopping'[t] = stopping[t]
      BY <1>2a, <2>1, ProceedFacts DEF Unregister, UnregisterFails, BeingStopped, StopStages
    <3>2. /\ UNCHANGED <<container, address, status, submitting, restarted>>
          /\ \/ routes' = [routes EXCEPT ![s] = None] /\ faulty' = faulty
             \/ routes' \in {routes, [routes EXCEPT ![s] = None]} /\ faulty' = faulty \cup {s}
      BY <2>1 DEF Unregister, UnregisterFails, Fault, Blame
    <3> QED BY <1>1, <3>1, <3>2
  <2>2. CASE SaveStop(s) \/ SaveStopFails(s)
    <3>1. /\ stopping[s]["save"] > 0 /\ BeingStopped(s)
          /\ \A t \in Subs : BeingStopped(t)' => BeingStopped(t)
          /\ \A t \in Subs : stopping'[t]["save"] > 0 => stopping[t]["save"] > 0
      BY <1>2a, <2>2, FinishFacts DEF SaveStop, SaveStopFails, BeingStopped, StopStages
    <3>2. /\ UNCHANGED <<container, address, routes, submitting, restarted>>
          /\ faulty' \in {faulty, faulty \cup {s}}
          /\ status' \in {status, [status EXCEPT ![s] = "stopped"]}
      BY <2>2 DEF SaveStop, SaveStopFails, WriteStopped, Fault, Blame
    <3> QED BY <1>1, <3>1, <3>2
  <2>3. QED
    BY <1>4, <2>1, <2>2 DEF Stop
<1>5. ASSUME NEW s \in Subs, StopContainer(s) PROVE Goal
  <2>1. /\ \A t \in Subs \ {s} : stopping'[t] = stopping[t]
        /\ stopping'[s]["save"] = stopping[s]["save"]
    BY <1>2a, <1>5, BeginFacts DEF StopContainer
  <2>2. \A t \in Subs \ {s} : BeingStopped(t)' => BeingStopped(t)
    BY <2>1 DEF BeingStopped
  <2> QED BY <1>1, <1>5, <2>1, <2>2 DEF StopContainer
<1>6. ASSUME NEW s \in Subs, RemoveFails(s) PROVE Goal
  <2>1. \A t \in Subs \ {s} : stopping'[t] = stopping[t]
    BY <1>2a, <1>6, BeginFacts DEF RemoveFails
  <2>2. \A t \in Subs \ {s} : BeingStopped(t)' => BeingStopped(t)
    BY <2>1 DEF BeingStopped
  <2> QED BY <1>1, <1>6, <2>1, <2>2 DEF RemoveFails
<1>7. ASSUME NEW s \in Subs, KillContestant(s) PROVE Goal
  BY <1>1, <1>2b, <1>7 DEF KillContestant
<1>8. CASE ProxyRestarts
  BY <1>1, <1>2b, <1>8 DEF ProxyRestarts
<1>9. CASE ApiRestarts
  <2>1. \A t \in Subs : ~BeingStopped(t)' /\ ~(stopping'[t]["save"] > 0)
    BY <1>9 DEF ApiRestarts, BeingStopped, StopStages
  <2> QED BY <1>1, <1>9, <2>1 DEF ApiRestarts
<1>10. CASE /\ UNCHANGED <<container, address, routes, status, submitting, stopping, restarted>>
            /\ faulty \subseteq faulty'
  BY <1>1, <1>2b, <1>10
<1>11. ASSUME NEW s \in Subs, Test(s) PROVE Goal
  BY <1>10, <1>11
  DEF Test, Fault, ReportFault, Blame, SpawnTest, SpawnFails, Connect, BotReturns, BotHangs, TaskRaises, ReportCompleted,
      ReportFailed, ReportLost
<1>12. ASSUME NEW s \in Subs, Request(s) PROVE Goal
  BY <1>5, <1>6, <1>10, <1>12 DEF Request, StartTest, MarkTest
<1>13. CASE UNCHANGED vars
  BY <1>10, <1>13 DEF vars
<1>14. QED
  BY <1>3, <1>4, <1>7, <1>8, <1>9, <1>11, <1>12, <1>13 DEF Next

---------------------------------------------------------------------------
(* The theorems. *)

LEMMA HeldInit == Init => HeldInv
PROOF
<1>1. Init => RecordInv
  BY DEF Init, RecordInv, BeingStopped, Pending, Stages, StopStages
<1>2. QED
  BY <1>1, NoneAssumption
  DEF Init, HeldInv, AddressInv, HandlerInv, HeldByARecord, BeingStopped, StopStages

LEMMA HeldAlways == Spec => [](TypeInv /\ HeldInv)
BY TypeInit, TypeStep, HeldInit, HeldStep, PTL DEF Spec

\* Containers and routes belong to a submission that is being made or shown as
\* running, with the exceptions HeldByARecord names.
THEOREM NothingLeftOver == Spec => []HeldByARecord
PROOF
<1>1. HeldInv => HeldByARecord
  BY DEF HeldInv
<1>2. QED
  BY <1>1, HeldAlways, PTL

\* A stopped submission stays stopped.
THEOREM StopIsFinal == Spec => StoppedIsFinal
PROOF
<1>1. TypeInv /\ HeldInv /\ [Next]_vars
        => [\A s \in Subs : status[s] = "stopped" => status'[s] = "stopped"]_vars
  <2> SUFFICES ASSUME TypeInv, HeldInv, [Next]_vars
               PROVE  \A s \in Subs : status[s] = "stopped" => status'[s] = "stopped"
    OBVIOUS
  <2> USE DEF network, handlers, history
  <2>1. \A s \in Subs : status[s] # None => submitting[s] = "over"
    BY DEF HeldInv, RecordInv
  <2>2. status \in [Subs -> {None, "running", "stopped"}] /\ None # "stopped"
    BY NoneAssumption DEF TypeInv, TypeOK
  <2>3. CASE UNCHANGED status
    BY <2>3
  <2>4. ASSUME NEW s \in Subs, SaveSubmission(s) \/ SaveFails(s)
        PROVE  \A t \in Subs : status[t] = "stopped" => status'[t] = "stopped"
    BY <2>1, <2>2, <2>4 DEF SaveSubmission, SaveFails
  <2>5. ASSUME NEW s \in Subs, SaveStop(s) \/ SaveStopFails(s)
        PROVE  \A t \in Subs : status[t] = "stopped" => status'[t] = "stopped"
    BY <2>2, <2>5 DEF SaveStop, SaveStopFails, WriteStopped
  <2>6. \/ UNCHANGED status
        \/ \E s \in Subs : \/ SaveSubmission(s) \/ SaveFails(s) \/ SaveStop(s)
                          \/ SaveStopFails(s)
    BY DEF Next, vars, Submit, Stop, Test, Request, StartContainer, BuildFails, StartFails,
           Register, RegisterFails, Unregister, UnregisterFails, SpawnTest, SpawnFails,
           Connect, BotReturns, BotHangs, TaskRaises, ReportCompleted, ReportFailed, ReportLost,
           StartTest, MarkTest, StopContainer, RemoveFails, KillContestant,
           ProxyRestarts, ApiRestarts
  <2>7. QED
    BY <2>3, <2>4, <2>5, <2>6
<1>2. QED
  BY <1>1, HeldAlways, PTL DEF Spec, StoppedIsFinal

\* The routes lead where ConnectsToOwn says, whoever is given an address again.
THEOREM RoutesLeadHome == Spec => ConnectsToOwn
PROOF
<1> DEFINE Home(s) ==
      tests'[s]["open"] > tests[s]["open"]
        => \/ \A t \in Subs : container[t] = "up" /\ address[t] = routes[s] => t = s
           \/ container[s] = "down" /\ (status[s] # "stopped" \/ s \in faulty)
<1>1. TypeInv /\ HeldInv /\ [Next]_vars => [\A s \in Subs : Home(s)]_vars
  <2> SUFFICES ASSUME TypeInv, HeldInv, [Next]_vars, NEW s \in Subs PROVE Home(s)
    OBVIOUS
  <2>1. /\ tests[s]["open"] \in Nat
        /\ container \in [Subs -> {"none", "up", "down"}]
    BY DEF TypeInv, TypeOK, Stages
  <2>2. CASE \E t \in Subs : Connect(t)
    <3>1. PICK t \in Subs : Connect(t)
      BY <2>2
    <3>2. SUFFICES ASSUME tests'[s]["open"] > tests[s]["open"] PROVE Home(s)
      OBVIOUS
    <3>3. s = t /\ routes[s] # None /\ routes[s] \notin Free
      BY <2>1, <3>1, <3>2, MoveFacts DEF Connect, Stages
    <3>4. Pending(s) > 0 /\ status[s] # None
      <4>1. tests[s]["connecting"] > 0
        BY <3>1, <3>3, MoveFacts DEF Connect, Stages
      <4>2. QED
        BY <4>1 DEF TypeInv, TypeOK, Pending, Stages, HeldInv, RecordInv
    <3>5. container[s] # "none" /\ routes[s] = address[s]
      BY <3>3, <3>4 DEF HeldInv, HandlerInv, AddressInv
    <3>6. CASE container[s] = "up"
      BY <3>5, <3>6 DEF HeldInv, AddressInv
    <3>7. CASE container[s] = "down"
      BY <3>3, <3>7 DEF HeldInv, HandlerInv
    <3>8. QED
      BY <2>1, <3>5, <3>6, <3>7
  <2>3. CASE tests'[s]["open"] <= tests[s]["open"]
    BY <2>1, <2>3, TypeStep DEF TypeInv, TypeOK, Stages
  <2>4. ASSUME NEW t \in Subs, NEW from \in Stages, NEW to \in Stages \ {"open"}, from # to,
               Move(t, from, to)
        PROVE  tests'[s]["open"] <= tests[s]["open"]
    BY <2>1, <2>4, MoveFacts DEF Stages
  <2>5. ASSUME NEW t \in Subs, NEW from \in Stages, Leave(t, from)
        PROVE  tests'[s]["open"] <= tests[s]["open"]
    BY <2>1, <2>5, LeaveFacts DEF Stages
  <2>6. ASSUME NEW ss, tests' = Broken(ss)
        PROVE  tests'[s]["open"] <= tests[s]["open"]
    BY <2>6, BrokenFacts
  <2>7. ASSUME NEW t \in Subs, SpawnTest(t)
        PROVE  tests'[s]["open"] <= tests[s]["open"]
    BY <2>1, <2>7 DEF SpawnTest, TypeInv, TypeOK, Stages
  <2>8. CASE ApiRestarts
    BY <2>1, <2>3, <2>8 DEF ApiRestarts, Stages
  <2>9. CASE UNCHANGED tests
    BY <2>1, <2>3, <2>9
  <2>10. ASSUME NEW t \in Subs, Test(t) PROVE Home(s)
    <3>1. CASE Connect(t)
      BY <2>2, <3>1
    <3>2. CASE SpawnTest(t)
      BY <2>3, <2>7, <3>2
    <3>3. CASE BotReturns(t) \/ BotHangs(t) \/ TaskRaises(t)
      BY <2>3, <2>4, <3>3 DEF BotReturns, BotHangs, TaskRaises, Stages
    <3>4. CASE ReportCompleted(t) \/ ReportFailed(t) \/ ReportLost(t)
      BY <2>3, <2>5, <3>4 DEF ReportCompleted, ReportFailed, ReportLost, Stages
    <3>5. CASE SpawnFails(t)
      BY <2>9, <3>5 DEF SpawnFails
    <3>6. QED
      BY <2>10, <3>1, <3>2, <3>3, <3>4, <3>5 DEF Test
  <2>11. \/ \E t \in Subs : Test(t)
         \/ ApiRestarts \/ UNCHANGED tests \/ \E ss : tests' = Broken(ss)
    BY DEF Next, vars, Submit, Stop, Request, StartContainer, BuildFails, StartFails,
           Register, RegisterFails, SaveSubmission, SaveFails, Unregister, UnregisterFails,
           SaveStop, SaveStopFails, StartTest, MarkTest, StopContainer, RemoveFails, KillContestant, ProxyRestarts
  <2>12. QED
    <3> HIDE DEF Home
    <3>1. QED
      BY <2>3, <2>6, <2>8, <2>9, <2>10, <2>11
<1>2. QED
  BY <1>1, HeldAlways, PTL DEF Spec, ConnectsToOwn

LEMMA ReasonStep == TypeInv /\ HeldInv /\ ReasonInv /\ [Next]_vars => ReasonInv'
PROOF
<1> SUFFICES ASSUME TypeInv, HeldInv, ReasonInv, [Next]_vars PROVE ReasonInv'
  OBVIOUS
<1> USE NoneAssumption DEF network, handlers, history
<1>1. /\ ShapeOK /\ ReasonInv
      /\ tests \in [Subs -> [Stages -> Nat]]
      /\ \A s \in Subs : Pending(s) > 0 \/ BeingStopped(s) => status[s] # None
      /\ \A s \in Subs : submitting[s] = "register" => address[s] # None
  BY DEF HeldInv, HandlerInv, AddressInv, RecordInv, TypeInv, TypeOK, ShapeOK
<1>1a. stopping \in [Subs -> [StopStages -> Nat]]
  BY <1>1 DEF ShapeOK
<1>1b. UNCHANGED stopping => \A t \in Subs : BeingStopped(t)' = BeingStopped(t)
  BY DEF BeingStopped
<1> USE DEF ReasonInv, ShapeOK, Stages
<1>2. ASSUME NEW s \in Subs, Submit(s) PROVE ReasonInv'
  <2>1. CASE StartContainer(s)
    BY <1>1, <1>1b, <2>1 DEF StartContainer, Run
  <2>2. CASE BuildFails(s) \/ StartFails(s)
    BY <1>1, <1>1b, <2>2 DEF BuildFails, StartFails, Fault, Blame
  <2>3. CASE Register(s) \/ RegisterFails(s)
    <3>1. /\ submitting[s] = "register"
          /\ \/ submitting' = [submitting EXCEPT ![s] = "save"]
                /\ routes' = [routes EXCEPT ![s] = address[s]]
             \/ submitting' = [submitting EXCEPT ![s] = "over"] /\ s \in faulty'
                /\ routes' \in {routes, [routes EXCEPT ![s] = address[s]]}
      BY <2>3 DEF Register, RegisterFails, Fault, Blame
    <3>2. /\ status' = status /\ testStatus' = testStatus /\ stopping' = stopping
          /\ tests' = tests /\ isolated' = isolated
          /\ faulty \subseteq faulty' /\ unsettled' = unsettled
      BY <2>3 DEF Register, RegisterFails, Fault, Blame
    <3> QED BY <1>1, <1>1b, <3>1, <3>2
  <2>4. CASE SaveSubmission(s)
    BY <1>1, <1>1b, <2>4 DEF SaveSubmission
  <2>5. CASE SaveFails(s)
    <3>1. /\ submitting' = [submitting EXCEPT ![s] = "over"] /\ s \in faulty'
          /\ status' \in {status, [status EXCEPT ![s] = "running"]}
          /\ testStatus' \in {testStatus, [testStatus EXCEPT ![s] = "ready"]}
          /\ UNCHANGED <<isolated, routes, stopping, tests, unsettled>>
          /\ faulty \subseteq faulty'
      BY <2>5 DEF SaveFails, Fault, Blame
    <3> QED BY <1>1, <1>1b, <3>1
  <2>6. QED
    BY <1>2, <2>1, <2>2, <2>3, <2>4, <2>5 DEF Submit
<1>3. ASSUME NEW s \in Subs, Stop(s) PROVE ReasonInv'
  <2>1. CASE Unregister(s) \/ UnregisterFails(s)
    <3>1. /\ Proceed(s, "unregister", "save")
          /\ \A t \in Subs \ {s} : routes'[t] = routes[t]
          /\ status' = status /\ testStatus' = testStatus /\ submitting' = submitting
          /\ tests' = tests /\ isolated' = isolated
          /\ faulty \subseteq faulty' /\ unsettled' = unsettled
      BY <1>1, <2>1 DEF Unregister, UnregisterFails, Fault, Blame
    <3>2. BeingStopped(s) /\ \A t \in Subs : BeingStopped(t)' => BeingStopped(t)
      BY <1>1a, <3>1, ProceedFacts DEF BeingStopped, StopStages
    <3>3. isolated => s \in unsettled
      BY <1>1, <3>2
    <3> QED BY <1>1, <3>1, <3>2, <3>3
  <2>2. CASE SaveStop(s) \/ SaveStopFails(s)
    <3>1. /\ BeingStopped(s) /\ status[s] # None
          /\ \A t \in Subs : BeingStopped(t)' => BeingStopped(t)
      BY <1>1, <1>1a, <2>2, FinishFacts
      DEF SaveStop, SaveStopFails, BeingStopped, StopStages
    <3>2. /\ status' \in {status, [status EXCEPT ![s] = "stopped"]}
          /\ testStatus' \in {testStatus, [testStatus EXCEPT ![s] = "stopped"]}
          /\ UNCHANGED <<isolated, routes, submitting, tests, unsettled>>
          /\ faulty \subseteq faulty'
      BY <2>2 DEF SaveStop, SaveStopFails, WriteStopped, Fault, Blame
    <3> QED BY <1>1, <3>1, <3>2
  <2>3. QED
    BY <1>3, <2>1, <2>2 DEF Stop
<1>4. ASSUME NEW s \in Subs, Connect(s) PROVE ReasonInv'
  <2>1. tests[s]["connecting"] > 0 /\ UNCHANGED <<network, routes, status, testStatus, handlers, history>>
    BY <1>4, MoveFacts DEF Connect
  <2>2. isolated => routes[s] # None \/ s \in faulty \cup unsettled
    <3>1. Pending(s) > 0
      BY <2>1 DEF TypeInv, TypeOK, Pending
    <3>2. QED
      BY <1>1, <3>1
  <2>3. \A t \in Subs : tests'[t]["raised"] > 0
                          => tests[t]["raised"] > 0 \/ (t = s /\ routes[s] = None)
    BY <1>1, <1>4, MoveFacts DEF Connect
  <2>4. QED
    BY <1>1, <1>1b, <2>1, <2>2, <2>3
<1>5. ASSUME NEW s \in Subs, BotReturns(s) PROVE ReasonInv'
  <2>1. \A t \in Subs : tests'[t]["raised"] = tests[t]["raised"]
    BY <1>1, <1>5, MoveFacts DEF BotReturns
  <2>2. QED
    BY <1>1, <1>1b, <1>5, <2>1 DEF BotReturns
<1>6. ASSUME NEW s \in Subs, BotHangs(s) \/ TaskRaises(s) PROVE ReasonInv'
  <2>1. \A t \in Subs : tests'[t]["raised"] > 0 => tests[t]["raised"] > 0 \/ t = s
    BY <1>1, <1>6, MoveFacts DEF BotHangs, TaskRaises
  <2>2. QED
    BY <1>1, <1>1b, <1>6, <2>1 DEF BotHangs, TaskRaises, Fault, Blame
<1>7. ASSUME NEW s \in Subs, ReportCompleted(s) \/ ReportFailed(s) \/ ReportLost(s)
      PROVE  ReasonInv'
  <2>1. \A t \in Subs : tests'[t]["raised"] > 0 => tests[t]["raised"] > 0
    BY <1>1, <1>7, LeaveFacts DEF ReportCompleted, ReportFailed, ReportLost
  <2>2. ReportFailed(s) => tests[s]["raised"] > 0
    BY LeaveFacts DEF ReportFailed
  <2>3. QED
    BY <1>1, <1>1b, <1>7, <2>1, <2>2
    DEF ReportCompleted, ReportFailed, ReportLost, ReportFault, Blame
<1>8. ASSUME NEW s \in Subs, SpawnTest(s) \/ SpawnFails(s) PROVE ReasonInv'
  <2>1. \A t \in Subs : tests'[t]["raised"] = tests[t]["raised"]
    BY <1>1, <1>8 DEF SpawnTest, SpawnFails
  <2>2. /\ testStatus' \in {testStatus, [testStatus EXCEPT ![s] = "running"]}
        /\ UNCHANGED <<isolated, routes, status, submitting, stopping, unsettled>>
        /\ faulty \subseteq faulty'
    BY <1>8 DEF SpawnTest, SpawnFails, ReportFault, Blame
  <2> QED BY <1>1, <1>1b, <2>1, <2>2
<1>9. ASSUME NEW s \in Subs, Request(s) PROVE ReasonInv'
  <2>1. CASE StartTest(s)
    BY <1>1, <1>1b, <2>1 DEF StartTest
  <2>2. CASE StopContainer(s) \/ RemoveFails(s)
    <3>1. \A t \in Subs : tests'[t]["raised"] = tests[t]["raised"]
      BY <2>2, BrokenFacts DEF StopContainer, RemoveFails
    <3>2. /\ stopping' = [stopping EXCEPT ![s]["unregister"] = @ + 1]
          /\ unsettled' = unsettled \cup {s} /\ faulty \subseteq faulty'
          /\ UNCHANGED <<isolated, routes, status, testStatus, submitting>>
      BY <2>2 DEF StopContainer, RemoveFails
    <3>3. \A t \in Subs \ {s} : BeingStopped(t)' => BeingStopped(t)
      BY <1>1a, <3>2, BeginFacts DEF BeingStopped
    <3> QED BY <1>1, <3>1, <3>2, <3>3
  <2>4. ASSUME NEW failed \in BOOLEAN, MarkTest(s, failed) PROVE ReasonInv'
    BY <1>1, <1>1b, <2>4 DEF MarkTest
  <2>5. QED
    BY <1>9, <2>1, <2>2, <2>4 DEF Request
<1>10. ASSUME NEW s \in Subs, KillContestant(s) PROVE ReasonInv'
  <2>1. \A t \in Subs : tests'[t]["raised"] = tests[t]["raised"]
    BY <1>10, BrokenFacts DEF KillContestant
  <2>2. QED
    BY <1>1, <1>1b, <1>10, <2>1 DEF KillContestant
<1>11. CASE ProxyRestarts
  <2>1. \A t \in Subs : tests'[t]["raised"] = tests[t]["raised"]
    BY <1>11, BrokenFacts DEF ProxyRestarts
  <2>2. QED
    BY <1>1, <1>1b, <1>11, <2>1 DEF ProxyRestarts
<1>12. CASE ApiRestarts
  <2>1. \A t \in Subs : ~BeingStopped(t)'
    BY <1>12 DEF ApiRestarts, BeingStopped
  <2> QED BY <1>1, <1>12, <2>1 DEF ApiRestarts
<1>13. CASE UNCHANGED vars
  BY <1>1, <1>1b, <1>13 DEF vars
<1>14. ASSUME NEW s \in Subs, Test(s) PROVE ReasonInv'
  BY <1>4, <1>5, <1>6, <1>7, <1>8, <1>14 DEF Test
<1>15. QED
  BY <1>2, <1>3, <1>9, <1>10, <1>11, <1>12, <1>13, <1>14 DEF Next

\* On the isolated network no test is shown as failed without one of the causes
\* FailsForAReason names.
THEOREM FailuresHaveReasons == Spec => []FailsForAReason
PROOF
<1>1. Init => ReasonInv
  BY NoneAssumption DEF Init, ReasonInv, BeingStopped, Stages
<1>2. ReasonInv => FailsForAReason
  BY DEF ReasonInv, FailsForAReason
<1>3. QED
  BY <1>1, <1>2, HeldAlways, ReasonStep, PTL DEF Spec

---------------------------------------------------------------------------
(* How tests come to an end. *)

StopLeft(s) == 2 * stopping[s]["unregister"] + stopping[s]["save"]

\* What is left to do of the tests of s, and of its DELETEs.
Remaining(s) ==
  6 * starting[s] + 5 * tests[s]["connecting"] + 4 * tests[s]["open"] + 3 * tests[s]["broken"]
    + 2 * tests[s]["returned"] + tests[s]["raised"]
    + StopLeft(s)

\* Every step of a test and of a DELETE leaves less to do, whatever else happens, and
\* only another request makes it more.
RunsDown ==
  [][\A s \in Subs :
       /\ Test(s) \/ Stop(s) => Remaining(s)' < Remaining(s)
       /\ Remaining(s)' > Remaining(s) => StartTest(s) \/ StopContainer(s) \/ RemoveFails(s)]_vars

\* A test that is shown running is there, unless a write of its status has raised or
\* the API has been restarted.
RunningIsHeld ==
  \A s \in Subs :
    testStatus[s] = "running" =>
      s \in unreported \/ restarted \/ \E stage \in Stages : tests[s][stage] > 0

\* What a test at a stage adds to it.
Weight(stage) ==
  IF stage = "connecting" THEN 5 ELSE IF stage = "open" THEN 4 ELSE IF stage = "broken" THEN 3
  ELSE IF stage = "returned" THEN 2 ELSE IF stage = "raised" THEN 1 ELSE 0

LEMMA StopLeftIsNumber ==
  ASSUME TypeInv, NEW s \in Subs
  PROVE  /\ StopLeft(s) \in Nat /\ \A x \in StopStages : stopping[s][x] \in Nat
         /\ UNCHANGED stopping => StopLeft(s)' = StopLeft(s)
BY DEF TypeInv, TypeOK, StopLeft, StopStages

LEMMA MoveRuns ==
  ASSUME TypeInv, NEW s \in Subs, NEW from \in Stages, NEW to \in Stages, from # to,
         Move(s, from, to), Weight(to) < Weight(from), UNCHANGED <<starting, stopping>>
  PROVE  /\ Remaining(s)' < Remaining(s)
         /\ \A t \in Subs : Remaining(t)' <= Remaining(t)
PROOF
<1>1. /\ tests \in [Subs -> [Stages -> 0..MaxRequests]] /\ starting \in [Subs -> 0..MaxRequests]
      /\ MaxRequests \in Nat
  BY BoundsAssumption DEF TypeInv, TypeOK
<1>2. /\ tests' \in [Subs -> [Stages -> 0..MaxRequests]]
      /\ \A t \in Subs, x \in Stages :
           tests'[t][x] = IF t = s /\ x = from THEN tests[t][x] - 1
                          ELSE IF t = s /\ x = to THEN tests[t][x] + 1 ELSE tests[t][x]
  BY MoveFacts
<1>3. \A t \in Subs : /\ starting[t] \in Nat /\ starting'[t] = starting[t] /\ StopLeft(t) \in Nat
                      /\ StopLeft(t)' = StopLeft(t)
  BY <1>1, StopLeftIsNumber
<1>4. ASSUME NEW t \in Subs, t # s PROVE Remaining(t)' = Remaining(t) /\ Remaining(t) \in Nat
  <2>1. \A x \in Stages : tests'[t][x] = tests[t][x] /\ tests[t][x] \in Nat
    BY <1>1, <1>2, <1>4
  <2>2. /\ Remaining(t) = 6 * starting[t] + 5 * tests[t]["connecting"] + 4 * tests[t]["open"]
                            + 3 * tests[t]["broken"] + 2 * tests[t]["returned"]
                            + tests[t]["raised"] + StopLeft(t)
        /\ Remaining(t)' = Remaining(t)
    BY <1>3, <2>1 DEF Remaining, Stages
  <2> QED BY <1>3, <2>1, <2>2 DEF Stages
<1>5. Remaining(s)' < Remaining(s) /\ Remaining(s) \in Nat /\ Remaining(s)' \in Nat
  <2>1. \A x \in Stages : tests[s][x] \in Nat /\ tests'[s][x] \in Nat
    BY <1>1, <1>2
  <2>2. \A x \in Stages : tests'[s][x] = IF x = from THEN tests[s][x] - 1
                                         ELSE IF x = to THEN tests[s][x] + 1 ELSE tests[s][x]
    BY <1>2
  <2> DEFINE a(x) == tests[s][x]
             b(x) == tests'[s][x]
  <2>3. /\ Remaining(s) = 6 * starting[s] + 5 * a("connecting") + 4 * a("open") + 3 * a("broken")
                            + 2 * a("returned") + a("raised") + StopLeft(s)
        /\ Remaining(s)' = 6 * starting[s] + 5 * b("connecting") + 4 * b("open") + 3 * b("broken")
                            + 2 * b("returned") + b("raised") + StopLeft(s)
    BY <1>3 DEF Remaining
  <2>4. \A x \in Stages : a(x) \in Nat /\ b(x) \in Nat
    BY <2>1
  <2>5. \A x \in Stages : b(x) = IF x = from THEN a(x) - 1 ELSE IF x = to THEN a(x) + 1 ELSE a(x)
    BY <2>2
  <2> HIDE DEF a, b
  <2> QED BY <1>3, <2>3, <2>4, <2>5 DEF Stages, Weight
<1> QED BY <1>4, <1>5

LEMMA RemainingIsNumber ==
  ASSUME TypeInv, NEW s \in Subs
  PROVE  Remaining(s) \in Nat /\ \A x \in Stages : tests[s][x] \in Nat
PROOF
<1>1. /\ tests \in [Subs -> [Stages -> 0..MaxRequests]] /\ starting \in [Subs -> 0..MaxRequests]
      /\ MaxRequests \in Nat
  BY BoundsAssumption DEF TypeInv, TypeOK
<1>2. StopLeft(s) \in Nat
  BY StopLeftIsNumber
<1> QED BY <1>1, <1>2 DEF Remaining, Stages

LEMMA RemainingSame ==
  ASSUME TypeInv, NEW s \in Subs, starting'[s] = starting[s],
         \A x \in Stages : tests'[s][x] = tests[s][x],
         stopping'[s] = stopping[s]
  PROVE  Remaining(s)' = Remaining(s) /\ Remaining(s) \in Nat
PROOF
<1>1. Remaining(s)' = Remaining(s)
  BY DEF Remaining, StopLeft, Stages
<1> QED BY <1>1, RemainingIsNumber

\* It goes down when what it is made of does.
LEMMA LessRemains ==
  ASSUME TypeInv, NEW s \in Subs, stopping'[s] = stopping[s],
         NEW d, NEW e, d \in Nat, e \in [Stages -> Int],
         starting'[s] = starting[s] - d, starting[s] >= d,
         \A x \in Stages : tests'[s][x] = tests[s][x] + e[x],
         5 * e["connecting"] + 4 * e["open"] + 3 * e["broken"] + 2 * e["returned"] + e["raised"]
           < 6 * d
  PROVE  Remaining(s)' < Remaining(s) /\ Remaining(s) \in Nat /\ Remaining(s)' \in Int
PROOF
<1> DEFINE a(x) == tests[s][x]
           b(x) == tests'[s][x]
           c(x) == e[x]
           i == starting[s]
           j == starting'[s]
           l == StopLeft(s)
<1>1. /\ Remaining(s) = 6 * i + 5 * a("connecting") + 4 * a("open") + 3 * a("broken")
                          + 2 * a("returned") + a("raised") + l
      /\ Remaining(s)' = 6 * j + 5 * b("connecting") + 4 * b("open") + 3 * b("broken")
                          + 2 * b("returned") + b("raised") + l
  <2>1. StopLeft(s)' = StopLeft(s)
    BY DEF StopLeft
  <2> QED BY <2>1 DEF Remaining
<1>2. Remaining(s) \in Nat /\ i \in Nat /\ l \in Nat
      /\ \A x \in Stages : a(x) \in Nat /\ c(x) \in Int
  BY RemainingIsNumber, StopLeftIsNumber, BoundsAssumption DEF TypeInv, TypeOK
<1>3. j = i - d /\ \A x \in Stages : b(x) = a(x) + c(x)
  OBVIOUS
<1>4. 5 * c("connecting") + 4 * c("open") + 3 * c("broken") + 2 * c("returned") + c("raised")
        < 6 * d
  OBVIOUS
<1> HIDE DEF a, b, c, i, j, l
<1> QED BY <1>1, <1>2, <1>3, <1>4 DEF Stages

LEMMA LeaveRuns ==
  ASSUME TypeInv, NEW s \in Subs, NEW from \in {"returned", "raised"}, Leave(s, from),
         UNCHANGED <<starting, stopping>>
  PROVE  /\ Remaining(s)' < Remaining(s)
         /\ \A t \in Subs : Remaining(t)' <= Remaining(t)
PROOF
<1>1. from \in Stages
  BY DEF Stages
<1>2. \A t \in Subs, x \in Stages :
        tests'[t][x] = IF t = s /\ x = from THEN tests[t][x] - 1 ELSE tests[t][x]
  BY <1>1, LeaveFacts
<1>3. ASSUME NEW t \in Subs, t # s PROVE Remaining(t)' = Remaining(t) /\ Remaining(t) \in Nat
  <2>1. \A x \in Stages : tests'[t][x] = tests[t][x]
    BY <1>2, <1>3
  <2> QED BY <2>1, RemainingSame
<1>4. Remaining(s)' < Remaining(s) /\ Remaining(s) \in Nat /\ Remaining(s)' \in Int
  <2> DEFINE e == [x \in Stages |-> IF x = from THEN -1 ELSE 0]
  <2>1. /\ e \in [Stages -> Int] /\ \A x \in Stages : tests'[s][x] = tests[s][x] + e[x]
        /\ 5 * e["connecting"] + 4 * e["open"] + 3 * e["broken"] + 2 * e["returned"] + e["raised"]
             < 6 * 0
    <3>1. \A x \in Stages : tests[s][x] \in Nat
      BY RemainingIsNumber
    <3> QED BY <1>2, <3>1 DEF Stages
  <2>2. /\ starting[s] \in Nat /\ 0 \in Nat /\ starting[s] >= 0
        /\ starting'[s] = starting[s] - 0 /\ stopping'[s] = stopping[s]
    BY BoundsAssumption DEF TypeInv, TypeOK
  <2> HIDE DEF e
  <2> QED BY <2>1, <2>2, LessRemains
<1> QED BY <1>3, <1>4

LEMMA StepRuns ==
  TypeInv /\ [Next]_vars =>
    [\A s \in Subs :
       /\ Test(s) \/ Stop(s) => Remaining(s)' < Remaining(s)
       /\ Remaining(s)' > Remaining(s) => StartTest(s) \/ StopContainer(s) \/ RemoveFails(s)]_vars
PROOF
<1> SUFFICES ASSUME TypeInv, Next
             PROVE  \A s \in Subs :
                      /\ Test(s) \/ Stop(s) => Remaining(s)' < Remaining(s)
                      /\ Remaining(s)' > Remaining(s)
                           => StartTest(s) \/ StopContainer(s) \/ RemoveFails(s)
  OBVIOUS
<1> USE DEF network, handlers, history
<1>0. /\ starting \in [Subs -> 0..MaxRequests] /\ tests \in [Subs -> [Stages -> 0..MaxRequests]]
      /\ stopping \in [Subs -> [StopStages -> Nat]] /\ MaxRequests \in Nat
  BY BoundsAssumption DEF TypeInv, TypeOK
<1>1. ASSUME NEW s \in Subs, Test(s)
      PROVE  Remaining(s)' < Remaining(s) /\ \A t \in Subs : Remaining(t)' <= Remaining(t)
  <2>1. CASE SpawnTest(s)
    <3>1. /\ starting' = [starting EXCEPT ![s] = @ - 1] /\ stopping' = stopping
          /\ tests' = [tests EXCEPT ![s]["connecting"] = @ + 1] /\ starting[s] > 0
      BY <2>1 DEF SpawnTest
    <3>2. ASSUME NEW t \in Subs, t # s PROVE Remaining(t)' = Remaining(t) /\ Remaining(t) \in Nat
      BY <1>0, <3>1, <3>2, RemainingSame
    <3>3. Remaining(s)' < Remaining(s) /\ Remaining(s) \in Nat /\ Remaining(s)' \in Int
      <4> DEFINE e == [x \in Stages |-> IF x = "connecting" THEN 1 ELSE 0]
      <4>1. /\ e \in [Stages -> Int] /\ \A x \in Stages : tests'[s][x] = tests[s][x] + e[x]
            /\ 5 * e["connecting"] + 4 * e["open"] + 3 * e["broken"] + 2 * e["returned"]
                 + e["raised"] < 6 * 1
        <5>1. \A x \in Stages : tests[s][x] \in Nat
          BY RemainingIsNumber
        <5> QED BY <1>0, <3>1, <5>1 DEF Stages
      <4>2. starting[s] \in Nat /\ starting[s] >= 1 /\ starting'[s] = starting[s] - 1
            /\ stopping'[s] = stopping[s]
        BY <1>0, <3>1
      <4> HIDE DEF e
      <4> QED BY <4>1, <4>2, LessRemains
    <3> QED BY <3>2, <3>3
  <2>2. CASE Connect(s)
    BY <2>2, MoveRuns DEF Connect, Stages, Weight
  <2>3. CASE BotReturns(s)
    BY <2>3, MoveRuns DEF BotReturns, Stages, Weight
  <2>4. CASE BotHangs(s)
    BY <2>4, MoveRuns DEF BotHangs, Stages, Weight
  <2>5. CASE TaskRaises(s)
    BY <2>5, MoveRuns DEF TaskRaises, Stages, Weight
  <2>6. CASE ReportCompleted(s) \/ ReportFailed(s) \/ ReportLost(s)
    BY <2>6, LeaveRuns DEF ReportCompleted, ReportFailed, ReportLost
  <2>7. CASE SpawnFails(s)
    <3>1. /\ starting' = [starting EXCEPT ![s] = @ - 1] /\ stopping' = stopping
          /\ tests' = tests /\ starting[s] > 0
      BY <2>7 DEF SpawnFails
    <3>2. ASSUME NEW t \in Subs, t # s PROVE Remaining(t)' = Remaining(t) /\ Remaining(t) \in Nat
      BY <1>0, <3>1, <3>2, RemainingSame
    <3>3. Remaining(s)' < Remaining(s) /\ Remaining(s) \in Nat /\ Remaining(s)' \in Int
      <4> DEFINE e == [x \in Stages |-> 0]
      <4>1. /\ e \in [Stages -> Int] /\ \A x \in Stages : tests'[s][x] = tests[s][x] + e[x]
            /\ 5 * e["connecting"] + 4 * e["open"] + 3 * e["broken"] + 2 * e["returned"]
                 + e["raised"] < 6 * 1
        <5>1. \A x \in Stages : tests[s][x] \in Nat
          BY RemainingIsNumber
        <5> QED BY <1>0, <3>1, <5>1 DEF Stages
      <4>2. starting[s] \in Nat /\ starting[s] >= 1 /\ starting'[s] = starting[s] - 1
            /\ stopping'[s] = stopping[s]
        BY <1>0, <3>1
      <4> HIDE DEF e
      <4> QED BY <4>1, <4>2, LessRemains
    <3> QED BY <3>2, <3>3
  <2> QED BY <1>1, <2>1, <2>2, <2>3, <2>4, <2>5, <2>6, <2>7 DEF Test
<1>2. ASSUME NEW s \in Subs, Stop(s)
      PROVE  Remaining(s)' < Remaining(s) /\ \A t \in Subs : Remaining(t)' <= Remaining(t)
  <2>1. /\ starting' = starting /\ tests' = tests
        /\ Proceed(s, "unregister", "save") \/ FinishStop(s)
    BY <1>2 DEF Stop, Unregister, UnregisterFails, SaveStop, SaveStopFails
  <2>2. ASSUME NEW t \in Subs, t # s PROVE Remaining(t)' = Remaining(t) /\ Remaining(t) \in Nat
    <3>1. stopping'[t] = stopping[t]
      BY <1>0, <2>1, <2>2, ProceedFacts, FinishFacts
    <3> QED BY <2>1, <3>1, RemainingSame
  <2>3. Remaining(s)' < Remaining(s) /\ Remaining(s) \in Nat /\ Remaining(s)' \in Int
    <3>1. Remaining(s) \in Nat /\ \A x \in Stages : tests[s][x] \in Nat
      BY RemainingIsNumber
    <3>2. StopLeft(s)' = StopLeft(s) - 1
      <4>1. \A x \in StopStages : stopping[s][x] \in Nat
        BY StopLeftIsNumber
      <4>2. CASE Proceed(s, "unregister", "save")
        BY <1>0, <4>1, <4>2, ProceedFacts DEF StopLeft, StopStages
      <4>3. CASE FinishStop(s)
        BY <1>0, <4>1, <4>3, FinishFacts DEF StopLeft, StopStages
      <4> QED BY <2>1, <4>2, <4>3
    <3>3. StopLeft(s) \in Nat /\ starting[s] \in Nat
      BY <1>0, StopLeftIsNumber
    <3>4. /\ Remaining(s)' = 6 * starting[s] + 5 * tests[s]["connecting"]
                              + 4 * tests[s]["open"] + 3 * tests[s]["broken"]
                              + 2 * tests[s]["returned"] + tests[s]["raised"] + StopLeft(s)'
      BY <2>1 DEF Remaining
    <3> QED BY <3>1, <3>2, <3>3, <3>4 DEF Remaining, Stages
  <2> QED BY <2>2, <2>3
<1>3. ASSUME NEW s \in Subs, NEW t \in Subs, StartTest(s) \/ StopContainer(s) \/ RemoveFails(s), s # t
      PROVE  Remaining(t)' = Remaining(t) /\ Remaining(t) \in Nat
  <2>1. /\ starting'[t] = starting[t] /\ stopping'[t] = stopping[t]
        /\ tests' = tests \/ tests' = Broken({s})
    BY <1>0, <1>3, BeginFacts DEF StartTest, StopContainer, RemoveFails
  <2>2. \A x \in Stages : tests'[t][x] = tests[t][x]
    BY <1>3, <2>1 DEF Broken
  <2> QED BY <2>1, <2>2, RemainingSame
<1>4. ASSUME NEW s \in Subs, Submit(s) \/ \E failed \in BOOLEAN : MarkTest(s, failed)
      PROVE  \A t \in Subs : Remaining(t)' <= Remaining(t)
  <2>1. UNCHANGED <<starting, tests, stopping>>
    BY <1>4 DEF Submit, StartContainer, BuildFails, StartFails, Register, RegisterFails,
                SaveSubmission, SaveFails, MarkTest
  <2>2. \A t \in Subs : Remaining(t)' = Remaining(t) /\ Remaining(t) \in Nat
    BY <2>1, RemainingSame
  <2> QED BY <2>2
<1>5. ASSUME NEW ss, tests' = Broken(ss), UNCHANGED <<starting, stopping>>
      PROVE  \A t \in Subs : Remaining(t)' <= Remaining(t)
  <2>1. SUFFICES ASSUME NEW t \in Subs PROVE Remaining(t)' <= Remaining(t)
    OBVIOUS
  <2>2. /\ tests'[t]["open"] <= tests[t]["open"]
        /\ tests'[t]["open"] + tests'[t]["broken"] = tests[t]["open"] + tests[t]["broken"]
        /\ \A x \in Stages \ {"open", "broken"} : tests'[t][x] = tests[t][x]
        /\ \A x \in Stages : tests'[t][x] \in Nat
    BY <1>0, <1>5, BrokenFacts
  <2>3. /\ Remaining(t) \in Nat /\ starting[t] \in Nat /\ \A x \in Stages : tests[t][x] \in Nat
        /\ StopLeft(t) \in Nat /\ StopLeft(t)' = StopLeft(t)
    BY <1>0, <1>5, RemainingIsNumber, StopLeftIsNumber
  <2> QED BY <1>5, <2>2, <2>3 DEF Remaining, Stages
<1>6. ASSUME ApiRestarts PROVE \A t \in Subs : Remaining(t)' <= Remaining(t)
  <2>1. ASSUME NEW t \in Subs PROVE Remaining(t)' = 0 /\ Remaining(t) \in Nat
    <3>1. /\ starting'[t] = 0 /\ \A x \in StopStages : stopping'[t][x] = 0
          /\ \A x \in Stages : tests'[t][x] = 0
      BY <1>6 DEF ApiRestarts
    <3>2. Remaining(t)' = 0
      BY <3>1 DEF Remaining, StopLeft, Stages, StopStages
    <3> QED BY <3>2, RemainingIsNumber
  <2> QED BY <2>1
<1>7. ASSUME NEW t \in Subs PROVE Remaining(t) \in Nat /\ Remaining(t)' \in Nat
  <2>1. TypeInv'
    BY TypeStep
  <2>2. /\ tests' \in [Subs -> [Stages -> 0..MaxRequests]] /\ starting' \in [Subs -> 0..MaxRequests]
        /\ \A x \in Stages : tests'[t][x] \in Nat
        /\ stopping'[t]["unregister"] \in Nat /\ stopping'[t]["save"] \in Nat
    BY <1>0, <2>1 DEF TypeInv, TypeOK, StopStages
  <2>3. StopLeft(t)' \in Nat
    BY <2>2 DEF StopLeft
  <2>4. Remaining(t)' \in Nat
    BY <1>0, <2>2, <2>3 DEF Remaining, Stages
  <2> QED BY <2>4, RemainingIsNumber
<1>8. SUFFICES ASSUME NEW t \in Subs
               PROVE  /\ Test(t) \/ Stop(t) => Remaining(t)' < Remaining(t)
                      /\ \/ Remaining(t)' <= Remaining(t)
                         \/ StartTest(t) \/ StopContainer(t) \/ RemoveFails(t)
  BY <1>7
<1>9. Test(t) \/ Stop(t) => Remaining(t)' < Remaining(t)
  BY <1>1, <1>2
<1>10. CASE \E s \in Subs : Test(s) \/ Stop(s)
  BY <1>1, <1>2, <1>9, <1>10
<1>11. CASE \E s \in Subs : StartTest(s) \/ StopContainer(s) \/ RemoveFails(s)
  BY <1>3, <1>7, <1>9, <1>11
<1>12. CASE \E s \in Subs : Submit(s) \/ \E failed \in BOOLEAN : MarkTest(s, failed)
  BY <1>4, <1>9, <1>12
<1>13. CASE \E s \in Subs : KillContestant(s)
  <2>1. UNCHANGED <<starting, stopping>> /\ \E ss : tests' = Broken(ss)
    BY <1>13 DEF KillContestant
  <2> QED BY <1>5, <1>9, <2>1
<1>14. CASE ProxyRestarts
  <2>1. UNCHANGED <<starting, stopping>> /\ tests' = Broken(Subs)
    BY <1>14 DEF ProxyRestarts
  <2> QED BY <1>5, <1>9, <2>1
<1>15. CASE ApiRestarts
  BY <1>6, <1>9, <1>15
<1>16. \/ \E s \in Subs : Test(s) \/ Stop(s)
       \/ \E s \in Subs : StartTest(s) \/ StopContainer(s) \/ RemoveFails(s)
       \/ \E s \in Subs : Submit(s) \/ \E failed \in BOOLEAN : MarkTest(s, failed)
       \/ \E s \in Subs : KillContestant(s)
       \/ ProxyRestarts \/ ApiRestarts
  BY DEF Next, Request
<1> QED BY <1>9, <1>10, <1>11, <1>12, <1>13, <1>14, <1>15, <1>16

\* For any number of submissions, requests and troubles: no test and no DELETE
\* goes round in circles, however their steps interleave with what happens to them.
THEOREM TestsRunDown == Spec => RunsDown
PROOF
<1>1. Spec => []TypeInv
  BY TypeInit, TypeStep, PTL DEF Spec
<1> QED BY <1>1, StepRuns, PTL DEF Spec, RunsDown

LEMMA HeldTest ==
  ASSUME TypeInv, RunningIsHeld, [Next]_vars, TypeInv'
  PROVE  RunningIsHeld'
PROOF
<1> USE DEF network, handlers, history
<1> DEFINE Lively(s) == \E x \in Stages : tests[s][x] > 0
<1>1. SUFFICES ASSUME NEW t \in Subs, testStatus'[t] = "running", t \notin unreported',
                      ~restarted'
               PROVE  Lively(t)'
  BY DEF RunningIsHeld
<1>2. /\ starting \in [Subs -> 0..MaxRequests] /\ tests \in [Subs -> [Stages -> 0..MaxRequests]]
      /\ tests' \in [Subs -> [Stages -> 0..MaxRequests]] /\ MaxRequests \in Nat
      /\ \A x \in Stages : tests[t][x] \in Nat /\ tests'[t][x] \in Nat
      /\ testStatus \in [Subs -> {None, "ready", "running", "completed", "failed", "stopped"}]
  BY BoundsAssumption DEF TypeInv, TypeOK
<1>3. testStatus[t] = "running" /\ t \notin unreported /\ ~restarted => Lively(t)
  BY DEF RunningIsHeld
<1>4. ASSUME NEW s \in Subs, SpawnTest(s) PROVE Lively(t)'
  <2>1. /\ testStatus' = [testStatus EXCEPT ![s] = "running"]
        /\ tests' = [tests EXCEPT ![s]["connecting"] = @ + 1]
        /\ UNCHANGED <<unreported, restarted>>
    BY <1>4 DEF SpawnTest
  <2>2. CASE t = s
    <3>1. tests'[s]["connecting"] > 0
      BY <1>2, <2>1, <2>2 DEF Stages
    <3> QED BY <2>2, <3>1 DEF Stages
  <2>3. CASE t # s
    <3>1. testStatus'[t] = testStatus[t] /\ tests'[t] = tests[t]
      BY <1>2, <2>1, <2>3
    <3> QED BY <1>1, <1>3, <2>1, <3>1
  <2> QED BY <2>2, <2>3
<1>5. ASSUME NEW s \in Subs, ReportFault(s), testStatus'[t] = testStatus[t] \/ t = s,
             \A u \in Subs \ {s} : tests'[u] = tests[u]
      PROVE  Lively(t)'
  <2>1. t # s /\ t \notin unreported /\ restarted' = restarted
    BY <1>1, <1>5 DEF ReportFault, Blame
  <2> QED BY <1>1, <1>3, <1>5, <2>1
<1>6. ASSUME NEW s \in Subs, NEW from \in Stages, NEW to \in Stages, from # to,
             Move(s, from, to), UNCHANGED <<testStatus, unreported, restarted>>
      PROVE  Lively(t)'
  <2>1. \A x \in Stages : tests'[t][x] = IF t = s /\ x = from THEN tests[t][x] - 1
                                         ELSE IF t = s /\ x = to THEN tests[t][x] + 1
                                         ELSE tests[t][x]
    BY <1>6, MoveFacts
  <2>2. CASE t = s
    <3>1. tests'[t][to] > 0
      BY <1>2, <1>6, <2>1, <2>2
    <3> QED BY <1>6, <3>1
  <2>3. CASE t # s
    <3>1. \A x \in Stages : tests'[t][x] = tests[t][x]
      BY <2>1, <2>3
    <3> QED BY <1>1, <1>3, <1>6, <3>1
  <2> QED BY <2>2, <2>3
<1>7. ASSUME NEW s \in Subs, NEW what, testStatus' = [testStatus EXCEPT ![s] = what],
             what # "running", \A u \in Subs \ {s} : tests'[u] = tests[u],
             UNCHANGED <<unreported, restarted>>
      PROVE  Lively(t)'
  <2>1. t # s
    BY <1>1, <1>2, <1>7
  <2>2. testStatus'[t] = testStatus[t] /\ tests'[t] = tests[t]
    BY <1>2, <1>7, <2>1
  <2> QED BY <1>1, <1>3, <1>7, <2>2
<1>8. ASSUME testStatus' = testStatus, tests' = tests, UNCHANGED <<unreported, restarted>>
      PROVE  Lively(t)'
  BY <1>1, <1>3, <1>8
<1>9. ASSUME NEW ss, tests' = Broken(ss), UNCHANGED <<testStatus, unreported, restarted>>
      PROVE  Lively(t)'
  <2>1. PICK x \in Stages : tests[t][x] > 0
    BY <1>1, <1>3, <1>9
  <2>2. /\ tests'[t]["open"] + tests'[t]["broken"] = tests[t]["open"] + tests[t]["broken"]
        /\ \A y \in Stages \ {"open", "broken"} : tests'[t][y] = tests[t][y]
    BY <1>9, BrokenFacts
  <2>3. CASE x \in {"open", "broken"}
    <3>1. tests'[t]["open"] > 0 \/ tests'[t]["broken"] > 0
      BY <1>2, <2>1, <2>2, <2>3 DEF Stages
    <3> QED BY <3>1 DEF Stages
  <2>4. CASE x \notin {"open", "broken"}
    BY <2>1, <2>2, <2>4
  <2> QED BY <2>3, <2>4
<1>10. ASSUME NEW s \in Subs, Test(s) PROVE Lively(t)'
  <2>1. CASE Connect(s)
    BY <1>6, <2>1 DEF Connect, Stages
  <2>2. CASE BotReturns(s)
    BY <1>6, <2>2 DEF BotReturns, Stages
  <2>3. CASE BotHangs(s)
    BY <1>6, <2>3 DEF BotHangs, Fault, Blame, Stages
  <2>4. CASE TaskRaises(s)
    BY <1>6, <2>4 DEF TaskRaises, Fault, Blame, Stages
  <2>5. CASE ReportCompleted(s)
    <3>1. \A u \in Subs \ {s} : tests'[u] = tests[u]
      BY <1>2, <2>5 DEF ReportCompleted, Leave
    <3> QED BY <1>7, <2>5, <3>1 DEF ReportCompleted
  <2>6. CASE ReportFailed(s)
    <3>1. \A u \in Subs \ {s} : tests'[u] = tests[u]
      BY <1>2, <2>6 DEF ReportFailed, Leave
    <3> QED BY <1>7, <2>6, <3>1 DEF ReportFailed
  <2>7. CASE ReportLost(s)
    BY <1>5, <2>7 DEF ReportLost, Leave
  <2>8. CASE SpawnFails(s)
    <3>1. testStatus'[t] = testStatus[t] \/ t = s
      BY <1>2, <2>8 DEF SpawnFails
    <3> QED BY <1>5, <2>8, <3>1 DEF SpawnFails
  <2> QED BY <1>4, <1>10, <2>1, <2>2, <2>3, <2>4, <2>5, <2>6, <2>7, <2>8 DEF Test
<1>11. ASSUME NEW s \in Subs, Submit(s) \/ Stop(s) PROVE Lively(t)'
  <2>1. CASE SaveSubmission(s) \/ SaveFails(s)
    <3>1. /\ testStatus' = testStatus \/ testStatus' = [testStatus EXCEPT ![s] = "ready"]
          /\ tests' = tests /\ UNCHANGED <<unreported, restarted>>
      BY <2>1 DEF SaveSubmission, SaveFails, Fault, Blame
    <3> QED BY <1>7, <1>8, <3>1
  <2>2. CASE SaveStop(s) \/ SaveStopFails(s)
    <3>1. /\ testStatus' = testStatus \/ testStatus' = [testStatus EXCEPT ![s] = "stopped"]
          /\ tests' = tests /\ UNCHANGED <<unreported, restarted>>
      BY <2>2 DEF SaveStop, SaveStopFails, WriteStopped, Fault, Blame
    <3> QED BY <1>7, <1>8, <3>1
  <2>3. CASE \/ StartContainer(s) \/ BuildFails(s) \/ StartFails(s) \/ Register(s)
             \/ RegisterFails(s) \/ Unregister(s) \/ UnregisterFails(s)
    BY <1>8, <2>3 DEF StartContainer, BuildFails, StartFails, Register, RegisterFails, Unregister,
                      UnregisterFails, Fault, Blame
  <2> QED BY <1>11, <2>1, <2>2, <2>3 DEF Submit, Stop
<1>12. ASSUME NEW s \in Subs, Request(s) PROVE Lively(t)'
  <2>1. CASE StartTest(s) \/ RemoveFails(s)
    BY <1>8, <2>1 DEF StartTest, RemoveFails
  <2>2. CASE StopContainer(s)
    BY <1>9, <2>2 DEF StopContainer
  <2>3. ASSUME NEW failed \in BOOLEAN, MarkTest(s, failed) PROVE Lively(t)'
    <3>1. testStatus' = [testStatus EXCEPT ![s] = IF failed THEN "failed" ELSE "completed"]
      BY <2>3 DEF MarkTest
    <3> QED BY <1>7, <2>3, <3>1 DEF MarkTest
  <2> QED BY <1>12, <2>1, <2>2, <2>3 DEF Request
<1>13. ASSUME NEW s \in Subs, KillContestant(s) PROVE Lively(t)'
  BY <1>9, <1>13 DEF KillContestant
<1>14. CASE ProxyRestarts
  BY <1>9, <1>14 DEF ProxyRestarts
<1>15. CASE ApiRestarts
  BY <1>1, <1>15 DEF ApiRestarts
<1>16. CASE UNCHANGED vars
  BY <1>8, <1>16 DEF vars
<1> QED BY <1>10, <1>11, <1>12, <1>13, <1>14, <1>15, <1>16 DEF Next

\* With any number of submissions, requests and troubles.
THEOREM RunningTestsAreHeld == Spec => []RunningIsHeld
PROOF
<1>1. Init => RunningIsHeld
  BY NoneAssumption DEF Init, RunningIsHeld
<1>2. TypeInv /\ RunningIsHeld /\ [Next]_vars => TypeInv' /\ RunningIsHeld'
  BY TypeStep, HeldTest
<1> QED BY <1>1, <1>2, TypeInit, PTL DEF Spec
=============================================================================
