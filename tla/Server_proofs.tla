---------------------------- MODULE Server_proofs ----------------------------
(***************************************************************************)
(* Theorems about Server: for any number of calls, pages and starts, a     *)
(* shutdown cuts no call off, and what was acknowledged is stored and seen.*)
(***************************************************************************)
EXTENDS Server, FiniteSetTheorems, TLAPS

USE ServerAssumption DEF signals, process, database

-----------------------------------------------------------------------------
(* What a step does to the calls and to the database.                      *)

\* A call that is not over goes on, or fails, without a trace.
GoesOn(d) ==
  \/ call'[d] = call[d]
  \/ /\ call[d].stage \in {"sent", "handling", "abandoned"}
     /\ \E stage \in {"handling", "abandoned", "failed"} :
          call'[d] = [call[d] EXCEPT !.stage = stage]

Quiet ==
  /\ call' \in [Calls -> Call] /\ \A d \in Calls : GoesOn(d)
  /\ UNCHANGED database

\* A Remember saves the node and edges, and all of them if it answers "ok".
Stores(c) ==
  /\ Handling(c, "Remember") /\ call[c].request.node # None
  /\ UNCHANGED <<process, page>>
  /\ \E saved \in SUBSET call[c].request.edges :
       /\ Put(c, saved)
       /\ Becomes(c, "failed") \/ (Becomes(c, "ok") /\ saved = call[c].request.edges)

LEMMA BecomesGoesOn ==
  ASSUME TypeOK, NEW c \in Calls, NEW stage \in {"handling", "abandoned", "failed"},
         Becomes(c, stage), call[c].stage \in {"sent", "handling", "abandoned"}
  PROVE  call' \in [Calls -> Call] /\ \A d \in Calls : GoesOn(d)
BY DEF TypeOK, Becomes, GoesOn, Call

LEMMA ExitGoesOn ==
  ASSUME TypeOK, Exit
  PROVE  Quiet
<1>1. call' = [c \in Calls |-> IF Handled(c) THEN [call[c] EXCEPT !.stage = "failed"] ELSE call[c]]
  BY DEF Exit
<1>2. \A c \in Calls : call[c] \in Call /\ [call[c] EXCEPT !.stage = "failed"] \in Call
  BY DEF TypeOK, Call
<1>3. call' \in [Calls -> Call]
  BY <1>1, <1>2
<1>4. \A d \in Calls : GoesOn(d)
  BY <1>1 DEF GoesOn, Handled
<1> QED BY <1>3, <1>4 DEF Exit, Quiet

LEMMA StepKinds ==
  ASSUME TypeOK, [Next]_vars
  PROVE  Quiet \/ \E c \in Calls : Send(c) \/ Recall(c) \/ Stores(c)
<1>1. UNCHANGED <<call, database>> => Quiet
  BY DEF Quiet, GoesOn, TypeOK
<1>2. Start \/ MainStep \/ Kill \/ Signal \/ EarlySignal \/ StopperReceives \/ StopperIsDone => Quiet
  BY <1>1, ExitGoesOn
     DEF Start, MainStep, Kill, Signal, EarlySignal, StopperReceives, StopperIsDone,
         Listen, ListenFails, Notify, Serve, ServeReturns, VizStops, CloseEngine, Return
<1>3. WebStarts \/ WebFails => Quiet
  BY <1>1, ExitGoesOn DEF WebStarts, WebFails
<1>4. ASSUME NEW t \in Pages,
             OpenPage(t) \/ Fetch(t) \/ FetchFails(t) \/ Draw(t) \/ Reload(t)
      PROVE  Quiet
  BY <1>1, <1>4 DEF OpenPage, Fetch, FetchFails, Draw, Reload
<1>5. ASSUME NEW c \in Calls, Accept(c) \/ Unavailable(c) \/ GiveUp(c) PROVE Quiet
  BY <1>5, BecomesGoesOn DEF Accept, Unavailable, GiveUp, Quiet
<1>6. ASSUME NEW c \in Calls, RememberFails(c) PROVE Quiet \/ Stores(c)
  <2>1. CASE UNCHANGED database
    BY <1>6, <2>1, BecomesGoesOn DEF RememberFails, Handling, Handled, Quiet
  <2>2. CASE ~UNCHANGED database
    BY <1>6, <2>2 DEF RememberFails, Stores
  <2> QED BY <2>1, <2>2
<1>7. ASSUME NEW c \in Calls, Remember(c) PROVE Stores(c)
  <2>1. Becomes(c, "failed") \/ Becomes(c, "ok")
    BY <1>7 DEF Remember, Answer
  <2> QED BY <1>7, <2>1 DEF Remember, Stores
<1>8. CASE UNCHANGED vars BY <1>1, <1>8 DEF vars
<1> QED BY <1>2, <1>3, <1>4, <1>5, <1>6, <1>7, <1>8 DEF Next, Finish

\* A Recall finds what is stored and meets its filters, or as many nodes as it
\* has room for.
LEMMA RecallEffect ==
  ASSUME TypeOK, NEW c \in Calls, Recall(c)
  PROVE  /\ Handling(c, "Recall") /\ UNCHANGED database
         /\ \E stage \in {"ok", "failed"}, got \in SUBSET Stored :
              /\ call' = [call EXCEPT ![c].stage = stage, ![c].got = got]
              /\ \/ WithContent(call[c].request.meets) \subseteq got
                 \/ Cardinality(got) = LimitOf(call[c].request)
<1> DEFINE request == call[c].request
           meeting == WithContent(request.meets)
<1>0. PICK others \in SUBSET WithContent(request.mayMeet) :
        \E got \in TopOf(meeting \cup others, LimitOf(request)) :
          call' = [call EXCEPT ![c].stage = Answer(c), ![c].got = got]
  BY DEF Recall
<1>1. PICK got \in TopOf(meeting \cup others, LimitOf(request)) :
        call' = [call EXCEPT ![c].stage = Answer(c), ![c].got = got]
  BY <1>0
<1>2. meeting \cup others \in SUBSET Stored
  BY DEF WithContent
<1>3. /\ got \in SUBSET (meeting \cup others)
      /\ got = meeting \cup others \/ Cardinality(got) = LimitOf(request)
  BY DEF TopOf
<1>4. Answer(c) \in {"ok", "failed"}
  BY DEF Answer
<1> QED BY <1>1, <1>2, <1>3, <1>4 DEF Recall

-----------------------------------------------------------------------------
(* Types.                                                                  *)

\* What was sent is a request, and a Remember that succeeded has a node.
CallInv == \A c \in Calls :
  /\ call[c].stage # "new" => call[c].request # None
  /\ Remembered(c) => call[c].request.node # None

LEMMA AcknowledgedType ==
  ASSUME TypeOK, CallInv
  PROVE  Acknowledged \in SUBSET NodeIds
<1> SUFFICES ASSUME NEW c \in Calls, Remembered(c) PROVE call[c].request.node \in NodeIds
  BY DEF Acknowledged
<1>1. call[c].request \in Request /\ call[c].request.node # None
  BY DEF CallInv, Remembered, TypeOK, Call
<1> QED BY <1>1 DEF Request

LEMMA RequestType ==
  ASSUME TypeOK, CallInv, NEW c \in Calls, Handled(c)
  PROVE  /\ call[c].request \in Request
         /\ call[c].request.node # None => call[c].request.node \in NodeIds
         /\ call[c].request.edges \in SUBSET EdgeIds
         /\ call[c] \in Call
<1>1. call[c].request \in Request /\ call[c] \in Call
  BY DEF TypeOK, Call, CallInv, Handled
<1> QED BY <1>1 DEF Request

\* The goroutines and the web server.
ProcessType ==
  /\ mode \in {"serve", "viz"}
  /\ main \in {"down", "open", "listening", "ready", "serving", "closing", "closed"}
  /\ web \in {"off", "starting", "up"}
  /\ signalled \in BOOLEAN /\ sigChan \in BOOLEAN
  /\ stopper \in {"none", "waiting", "draining", "done"}
  /\ isOpen \in BOOLEAN /\ starts \in Nat

LEMMA CallerKeepsProcess ==
  ASSUME NEW c \in Calls, Send(c) \/ Accept(c) \/ Unavailable(c) \/ GiveUp(c) \/ Finish(c)
  PROVE  UNCHANGED <<process, page>>
<1>1. CASE Send(c) BY <1>1 DEF Send
<1>2. CASE Accept(c) \/ Unavailable(c) \/ GiveUp(c)
  BY <1>2 DEF Accept, Unavailable, GiveUp
<1>3. CASE RememberFails(c) BY <1>3 DEF RememberFails
<1>4. CASE Remember(c) BY <1>4 DEF Remember
<1>5. CASE Recall(c) BY <1>5 DEF Recall
<1> QED BY <1>1, <1>2, <1>3, <1>4, <1>5 DEF Finish

LEMMA ProcessStep ==
  ASSUME ProcessType, [Next]_vars
  PROVE  ProcessType'
<1> USE DEF ProcessType
<1>1. Exit => ProcessType'
  BY DEF Exit
<1>2. CASE Start BY <1>2 DEF Start
<1>3. CASE MainStep
  BY <1>1, <1>3 DEF MainStep, Listen, ListenFails, Notify, Serve, ServeReturns, VizStops,
                    CloseEngine, Return
<1>4. CASE Kill \/ EarlySignal BY <1>1, <1>4 DEF Kill, EarlySignal
<1>5. CASE Signal \/ StopperReceives \/ StopperIsDone
  BY <1>5 DEF Signal, StopperReceives, StopperIsDone
<1>6. CASE WebStarts \/ WebFails
  BY <1>1, <1>6 DEF WebStarts, WebFails
<1>7. ASSUME NEW c \in Calls,
             Send(c) \/ Accept(c) \/ Unavailable(c) \/ GiveUp(c) \/ Finish(c)
      PROVE  ProcessType'
  <2>1. UNCHANGED process
    BY <1>7, CallerKeepsProcess
  <2> QED BY <2>1
<1>8. ASSUME NEW t \in Pages,
             OpenPage(t) \/ Fetch(t) \/ FetchFails(t) \/ Draw(t) \/ Reload(t)
      PROVE  ProcessType'
  BY <1>8 DEF OpenPage, Fetch, FetchFails, Draw, Reload
<1>9. CASE UNCHANGED vars BY <1>9 DEF vars
<1> QED BY <1>2, <1>3, <1>4, <1>5, <1>6, <1>7, <1>8, <1>9 DEF Next

\* A page changes by its own steps, which leave the database alone.
LEMMA PageKinds ==
  ASSUME [Next]_vars
  PROVE  page' = page \/ \E t \in Pages :
           OpenPage(t) \/ Fetch(t) \/ FetchFails(t) \/ Draw(t) \/ Reload(t)
BY DEF Next, vars, Start, MainStep, Listen, ListenFails, Notify, Serve, ServeReturns,
       VizStops, CloseEngine, Return, Exit, Kill, Signal, EarlySignal, StopperReceives,
       StopperIsDone, WebStarts, WebFails, Send, Accept, Unavailable, GiveUp, Finish,
       RememberFails, Remember, Recall

LEMMA PageStep ==
  ASSUME TypeOK, CallInv, [Next]_vars
  PROVE  page' \in [Pages -> Page]
<1>1. ASSUME NEW t \in Pages, OpenPage(t) PROVE page' \in [Pages -> Page]
  BY <1>1, AcknowledgedType DEF OpenPage, TypeOK, Page
<1>2. ASSUME NEW t \in Pages, Fetch(t) PROVE page' \in [Pages -> Page]
  <2>1. PICK list \in Listings :
          page' = [page EXCEPT ![t].stage = "loaded",
                               ![t].graph = [nodes |-> list, edges |-> LinksOf(list)]]
    BY <1>2 DEF Fetch
  <2>2. list \in Listing /\ LinksOf(list) \in SUBSET EdgeIds
    BY DEF Listings, TopOf, Listing, Stored, LinksOf, TypeOK
  <2>3. [nodes |-> list, edges |-> LinksOf(list)] \in Graph
    BY <2>2 DEF Graph
  <2>4. page[t] \in Page
    BY DEF TypeOK
  <2>5. [page[t] EXCEPT !.stage = "loaded", !.graph = [nodes |-> list, edges |-> LinksOf(list)]] \in Page
    BY <2>3, <2>4 DEF Page
  <2>6. page' = [page EXCEPT ![t] = [page[t] EXCEPT !.stage = "loaded",
                   !.graph = [nodes |-> list, edges |-> LinksOf(list)]]]
    BY <2>1 DEF TypeOK
  <2> QED BY <2>5, <2>6 DEF TypeOK
<1>3. ASSUME NEW t \in Pages, FetchFails(t) PROVE page' \in [Pages -> Page]
  BY <1>3 DEF FetchFails, TypeOK, Page
<1>4. ASSUME NEW t \in Pages, Draw(t) PROVE page' \in [Pages -> Page]
  BY <1>4 DEF Draw, TypeOK, Page
<1>5. ASSUME NEW t \in Pages, Reload(t) PROVE page' \in [Pages -> Page]
  BY <1>5 DEF Reload, TypeOK, Page, BlankPage
<1> QED BY <1>1, <1>2, <1>3, <1>4, <1>5, PageKinds DEF TypeOK

\* The calls and the database, in each kind of step.
LEMMA CallStep ==
  ASSUME TypeOK, CallInv, [Next]_vars
  PROVE  /\ call' \in [Calls -> Call] /\ CallInv'
         /\ nodes' \in [NodeIds -> Calls \cup {Earlier, None}]
         /\ edges' \in SUBSET EdgeIds /\ awaited' \in SUBSET NodeIds
<1> DEFINE Goal == /\ call' \in [Calls -> Call] /\ CallInv'
                   /\ nodes' \in [NodeIds -> Calls \cup {Earlier, None}]
                   /\ edges' \in SUBSET EdgeIds /\ awaited' \in SUBSET NodeIds
<1>1. CASE Quiet
  <2>1. \A d \in Calls : GoesOn(d)
    BY <1>1 DEF Quiet
  <2>2. \A d \in Calls : /\ call'[d].stage # "new" => call'[d].request # None
                         /\ Remembered(d)' => call'[d].request.node # None
    <3> SUFFICES ASSUME NEW d \in Calls
                 PROVE  /\ call'[d].stage # "new" => call'[d].request # None
                        /\ Remembered(d)' => call'[d].request.node # None
      OBVIOUS
    <3>1. CASE call'[d] = call[d]
      BY <3>1 DEF CallInv, Remembered
    <3>2. ASSUME NEW stage \in {"handling", "abandoned", "failed"},
                 call[d].stage \in {"sent", "handling", "abandoned"},
                 call'[d] = [call[d] EXCEPT !.stage = stage]
          PROVE  call'[d].request # None /\ ~Remembered(d)'
      BY <3>2 DEF CallInv, Remembered, TypeOK, Call
    <3> QED BY <2>1, <3>1, <3>2 DEF GoesOn
  <2> QED BY <1>1, <2>2 DEF Quiet, CallInv, TypeOK
<1>2. ASSUME NEW c \in Calls, Send(c) PROVE Goal
  <2>1. PICK request \in Requests :
          call' = [call EXCEPT ![c] = [NewCall EXCEPT
            !.stage = "sent", !.request = request, !.before = Over, !.known = Acknowledged]]
    BY <1>2 DEF Send
  <2>2. [NewCall EXCEPT !.stage = "sent", !.request = request, !.before = Over,
                        !.known = Acknowledged] \in Call
    BY AcknowledgedType DEF NewCall, Call, Over
  <2>3. call' \in [Calls -> Call] /\ CallInv'
    BY <2>1, <2>2 DEF TypeOK, CallInv, Remembered, NewCall
  <2> QED BY <1>2, <2>3 DEF Send, TypeOK
<1>3. ASSUME NEW c \in Calls, Recall(c) PROVE Goal
  <2>1. PICK stage \in {"ok", "failed"}, got \in SUBSET Stored :
          call' = [call EXCEPT ![c].stage = stage, ![c].got = got]
    BY <1>3, RecallEffect
  <2>2. call[c] \in Call /\ call[c].request # None /\ call[c].request.method = "Recall"
    BY <1>3, RecallEffect DEF Handling, Handled, TypeOK, CallInv
  <2>3. call' \in [Calls -> Call]
    <3>1. got \in SUBSET NodeIds
      BY DEF Stored
    <3>2. [call[c] EXCEPT !.stage = stage, !.got = got] \in Call
      BY <2>2, <3>1 DEF Call
    <3>3. call' = [call EXCEPT ![c] = [call[c] EXCEPT !.stage = stage, !.got = got]]
      BY <2>1 DEF TypeOK
    <3> QED BY <3>2, <3>3 DEF TypeOK
  <2>4. CallInv'
    BY <2>1, <2>2 DEF TypeOK, CallInv, Remembered, Call
  <2> QED BY <1>3, <2>3, <2>4 DEF Recall, TypeOK
<1>4. ASSUME NEW c \in Calls, Stores(c) PROVE Goal
  <2>1. PICK saved \in SUBSET call[c].request.edges :
          Put(c, saved) /\ (Becomes(c, "failed") \/ Becomes(c, "ok"))
    BY <1>4 DEF Stores
  <2>2. /\ call[c].request \in Request /\ call[c].request.node \in NodeIds
        /\ saved \in SUBSET EdgeIds /\ call[c] \in Call
    BY <1>4, RequestType DEF Stores, Handling
  <2>3. UNION {EndsOf[e] : e \in saved} \in SUBSET NodeIds
    BY <2>2
  <2>4. /\ nodes' \in [NodeIds -> Calls \cup {Earlier, None}]
        /\ edges' \in SUBSET EdgeIds /\ awaited' \in SUBSET NodeIds
    BY <2>1, <2>2, <2>3 DEF Put, TypeOK
  <2>5. call' \in [Calls -> Call]
    BY <2>1, <2>2 DEF Becomes, TypeOK, Call
  <2>6. CallInv'
    <3>1. call'[c].request = call[c].request /\ \A d \in Calls : d # c => call'[d] = call[d]
      BY <2>1, <2>2 DEF Becomes, TypeOK, Call
    <3>2. call[c].request # None /\ call[c].request.node # None
      BY <1>4, <2>2 DEF Stores
    <3> QED BY <3>1, <3>2 DEF CallInv, Remembered
  <2> QED BY <2>4, <2>5, <2>6
<1> QED BY <1>1, <1>2, <1>3, <1>4, StepKinds

\* The goroutines, the calls, the pages and the database keep their types.
LEMMA BaseInvariant == Spec => [](TypeOK /\ CallInv)
<1>1. Init => TypeOK /\ CallInv
  <2> SUFFICES ASSUME Init PROVE TypeOK /\ CallInv
    OBVIOUS
  <2>1. NewCall \in Call /\ BlankPage \in Page
    BY DEF NewCall, Call, BlankPage, Page
  <2> QED BY <2>1 DEF Init, TypeOK, CallInv, Remembered, NewCall
<1>2. TypeOK /\ CallInv /\ [Next]_vars => TypeOK' /\ CallInv'
  <2>1. TypeOK => ProcessType
    BY DEF TypeOK, ProcessType
  <2> QED BY <2>1, ProcessStep, PageStep, CallStep DEF TypeOK, ProcessType
<1> QED BY <1>1, <1>2, PTL DEF Spec

THEOREM TypeCorrect == Spec => []TypeOK
BY BaseInvariant, PTL

-----------------------------------------------------------------------------
(* The shutdown.                                                           *)

\* Handlers run only until GracefulStop is done, and the engine is open as long
\* as Serve has not returned.
ServingInv ==
  /\ isOpen <=> main \notin {"down", "closed"}
  /\ \A c \in Calls : Handled(c) => main = "serving" /\ stopper \in {"waiting", "draining"}

\* Only Accept gives rise to a handler.
LEMMA HandlersStay ==
  ASSUME TypeOK, [Next]_vars
  PROVE  \/ \A c \in Calls : Handled(c)' => Handled(c)
         \/ Accepting /\ UNCHANGED process
<1>1. CASE \E c \in Calls : Accept(c)
  BY <1>1 DEF Accept
<1>2. CASE \A c \in Calls : ~Accept(c)
  <2> SUFFICES ASSUME NEW d \in Calls, Handled(d)' PROVE Handled(d)
    OBVIOUS
  <2> USE DEF Handled
  <2>1. UNCHANGED call => Handled(d)
    OBVIOUS
  <2>2. Exit => FALSE
    <3> SUFFICES ASSUME Exit PROVE FALSE
      OBVIOUS
    <3>1. call'[d].stage = "failed" \/ (call'[d] = call[d] /\ ~Handled(d))
      BY DEF Exit, TypeOK, Call
    <3> QED BY <3>1
  <2>3. Start \/ MainStep \/ Kill \/ Signal \/ EarlySignal \/ StopperReceives \/ StopperIsDone
          \/ WebStarts \/ WebFails => Handled(d)
    BY <2>1, <2>2
       DEF Start, MainStep, Kill, Signal, EarlySignal, StopperReceives, StopperIsDone, Listen,
           ListenFails, Notify, Serve, ServeReturns, VizStops, CloseEngine, Return, WebStarts,
           WebFails
  <2>4. (\E t \in Pages : OpenPage(t) \/ Fetch(t) \/ FetchFails(t) \/ Draw(t) \/ Reload(t))
          => Handled(d)
    BY <2>1 DEF OpenPage, Fetch, FetchFails, Draw, Reload
  <2>5. ASSUME NEW c \in Calls, Send(c) PROVE Handled(d)
    BY <2>5 DEF Send, TypeOK, NewCall
  <2>6. ASSUME NEW c \in Calls, NEW stage \in {"ok", "failed"}, Becomes(c, stage)
        PROVE  Handled(d)
    BY <2>6 DEF Becomes, TypeOK, Call
  <2>7. ASSUME NEW c \in Calls, Unavailable(c) \/ RememberFails(c) \/ Remember(c)
        PROVE  Handled(d)
    BY <2>6, <2>7 DEF Unavailable, RememberFails, Remember, Answer
  <2>8. ASSUME NEW c \in Calls, GiveUp(c) PROVE Handled(d)
    BY <2>8 DEF GiveUp, Becomes, TypeOK, Call
  <2>9. ASSUME NEW c \in Calls, Recall(c) PROVE Handled(d)
    <3>1. PICK stage \in {"ok", "failed"}, got \in SUBSET Stored :
            call' = [call EXCEPT ![c].stage = stage, ![c].got = got]
      BY <2>9, RecallEffect
    <3> QED BY <3>1 DEF TypeOK, Call
  <2>10. CASE UNCHANGED vars BY <2>1, <2>10 DEF vars
  <2> QED BY <1>2, <2>3, <2>4, <2>5, <2>7, <2>8, <2>9, <2>10 DEF Next, Finish
<1> QED BY <1>1, <1>2

LEMMA ServingStep == TypeOK /\ ServingInv /\ [Next]_vars => ServingInv'
<1> SUFFICES ASSUME TypeOK, ServingInv, [Next]_vars PROVE ServingInv'
  OBVIOUS
<1>1. CASE Accepting /\ UNCHANGED process
  BY <1>1 DEF ServingInv, Accepting
<1>2. CASE \A c \in Calls : Handled(c)' => Handled(c)
  <2>0. main' = main /\ stopper' = stopper /\ isOpen' = isOpen => ServingInv'
    BY <1>2 DEF ServingInv
  <2>1. CASE Exit
    <3>1. \A c \in Calls : ~Handled(c)'
      BY <2>1 DEF Exit, Handled, TypeOK, Call
    <3> QED BY <2>1, <3>1 DEF Exit, ServingInv
  <2>2. CASE Start BY <1>2, <2>2 DEF Start, ServingInv
  <2>3. CASE MainStep
    <3>1. CASE Listen \/ Notify \/ Serve \/ VizStops \/ CloseEngine
      BY <1>2, <3>1 DEF Listen, Notify, Serve, VizStops, CloseEngine, ServingInv
    <3>2. CASE ServeReturns
      BY <1>2, <3>2 DEF ServeReturns, ServingInv
    <3> QED BY <2>1, <2>3, <3>1, <3>2 DEF MainStep, ListenFails, Return
  <2>4. CASE Kill \/ EarlySignal BY <2>1, <2>4 DEF Kill, EarlySignal
  <2>5. CASE Signal BY <2>0, <2>5 DEF Signal
  <2>6. CASE StopperReceives \/ StopperIsDone
    BY <1>2, <2>6 DEF StopperReceives, StopperIsDone, ServingInv
  <2>7. CASE WebStarts \/ WebFails
    BY <2>0, <2>1, <2>7 DEF WebStarts, WebFails
  <2>8. ASSUME NEW c \in Calls,
               Send(c) \/ Accept(c) \/ Unavailable(c) \/ GiveUp(c) \/ Finish(c)
        PROVE  ServingInv'
    BY <2>0, <2>8, CallerKeepsProcess
  <2>9. ASSUME NEW t \in Pages,
               OpenPage(t) \/ Fetch(t) \/ FetchFails(t) \/ Draw(t) \/ Reload(t)
        PROVE  ServingInv'
    BY <2>0, <2>9 DEF OpenPage, Fetch, FetchFails, Draw, Reload
  <2>10. CASE UNCHANGED vars BY <2>0, <2>10 DEF vars
  <2> QED BY <2>2, <2>3, <2>4, <2>5, <2>6, <2>7, <2>8, <2>9, <2>10 DEF Next
<1> QED BY <1>1, <1>2, HandlersStay

\* The engine is closed under no handler.
THEOREM ShutdownIsGraceful == Spec => []NoneCutOff
<1>1. Init => ServingInv
  BY DEF Init, ServingInv, Handled, NewCall
<1>2. ServingInv => NoneCutOff
  BY DEF ServingInv, NoneCutOff
<1> QED BY <1>1, <1>2, ServingStep, BaseInvariant, PTL DEF Spec

-----------------------------------------------------------------------------
(* What was acknowledged.                                                  *)

\* A call that is over stays over, and only such were before another.
BeforeInv == \A c \in Calls : call[c].before \subseteq Over

AnswerInv == AnsweredStands /\ BeforeInv

LEMMA AnswerStep == TypeOK /\ CallInv /\ AnswerInv /\ [Next]_vars => AnswerInv'
<1> SUFFICES ASSUME TypeOK, CallInv, AnswerInv, [Next]_vars PROVE AnswerInv'
  OBVIOUS
<1>0. TypeOK => \A c \in Calls : call[c] \in Call
  BY DEF TypeOK
<1>1. CASE Quiet
  <2> SUFFICES ASSUME NEW c \in Calls
               PROVE  /\ Remembered(c)' => Remembered(c) /\ call'[c] = call[c]
                      /\ call'[c].before = call[c].before
                      /\ c \in Over => call'[c] = call[c]
    BY <1>1 DEF Quiet, AnswerInv, AnsweredStands, BeforeInv, Over
  <2>1. CASE call'[c] = call[c] BY <2>1 DEF Remembered
  <2>2. ASSUME NEW stage \in {"handling", "abandoned", "failed"},
               call[c].stage \in {"sent", "handling", "abandoned"},
               call'[c] = [call[c] EXCEPT !.stage = stage]
        PROVE  ~Remembered(c)' /\ call'[c].before = call[c].before /\ c \notin Over
    BY <2>2 DEF Remembered, Over, TypeOK, Call
  <2> QED BY <1>1, <2>1, <2>2 DEF Quiet, GoesOn
<1>2. ASSUME NEW c \in Calls, ~Handled(c) => call[c].stage = "new",
             \A d \in Calls : d # c => call'[d] = call[d],
             call'[c].before \subseteq Over,
             \A d \in Calls : Remembered(d) /\ d # c =>
               /\ nodes'[call[d].request.node] \in {nodes[call[d].request.node], c}
               /\ call[d].request.edges \subseteq edges',
             Remembered(c)' =>
               /\ nodes'[call'[c].request.node] = c
               /\ call'[c].request.edges \subseteq edges'
      PROVE  AnswerInv'
  <2>1. c \notin Over /\ ~Remembered(c)
    BY <1>2 DEF Over, Handled, Remembered
  <2>2. Over \subseteq Over'
    BY <1>2, <2>1 DEF Over
  <2>3. BeforeInv'
    BY <1>2, <2>2 DEF AnswerInv, BeforeInv
  <2>4. ASSUME NEW d \in Calls, Remembered(d)'
        PROVE  /\ nodes'[call'[d].request.node] \notin call'[d].before \cup {Earlier, None}
               /\ call'[d].request.edges \subseteq edges'
    <3>1. CASE d = c
      BY <1>2, <2>1, <2>4, <3>1
    <3>2. CASE d # c
      <4>1. call'[d] = call[d] /\ Remembered(d)
        BY <1>2, <2>4, <3>2 DEF Remembered
      <4>2. /\ nodes[call[d].request.node] \notin call[d].before \cup {Earlier, None}
            /\ call[d].before \subseteq Over
        BY <4>1 DEF AnswerInv, AnsweredStands, BeforeInv
      <4>3. c \notin call[d].before \cup {Earlier, None}
        BY <2>1, <4>2
      <4> QED BY <1>2, <3>2, <4>1, <4>2, <4>3
    <3> QED BY <3>1, <3>2
  <2> QED BY <2>3, <2>4 DEF AnswerInv, AnsweredStands
<1>3. ASSUME NEW c \in Calls, Send(c) PROVE AnswerInv'
  <2>1. PICK request \in Requests :
          call' = [call EXCEPT ![c] = [NewCall EXCEPT
            !.stage = "sent", !.request = request, !.before = Over, !.known = Acknowledged]]
    BY <1>3 DEF Send
  <2>2. /\ call'[c].before = Over /\ ~Remembered(c)'
        /\ \A d \in Calls : d # c => call'[d] = call[d]
    BY <2>1 DEF NewCall, Remembered, TypeOK
  <2> QED BY <1>2, <1>3, <2>2 DEF Send, AnswerInv, AnsweredStands
<1>4. ASSUME NEW c \in Calls, Recall(c) PROVE AnswerInv'
  <2>1. PICK stage \in {"ok", "failed"}, got \in SUBSET Stored :
          call' = [call EXCEPT ![c].stage = stage, ![c].got = got]
    BY <1>4, RecallEffect
  <2>2. /\ call'[c].before = call[c].before /\ call'[c].request = call[c].request
        /\ \A d \in Calls : d # c => call'[d] = call[d]
    BY <1>0, <2>1 DEF TypeOK, Call
  <2>3. Handling(c, "Recall") /\ ~Remembered(c)' /\ UNCHANGED database
    BY <1>4, <2>2, RecallEffect DEF Handling, Remembered
  <2> QED BY <1>2, <2>2, <2>3 DEF Handling, AnswerInv, AnsweredStands, BeforeInv
<1>5. ASSUME NEW c \in Calls, Stores(c) PROVE AnswerInv'
  <2>1. PICK saved \in SUBSET call[c].request.edges :
          /\ Put(c, saved)
          /\ Becomes(c, "failed") \/ (Becomes(c, "ok") /\ saved = call[c].request.edges)
    BY <1>5 DEF Stores
  <2>2. /\ call'[c].before = call[c].before /\ call'[c].request = call[c].request
        /\ call'[c].stage = "ok" => saved = call[c].request.edges
        /\ \A d \in Calls : d # c => call'[d] = call[d]
    BY <1>0, <2>1 DEF Becomes, TypeOK, Call
  <2>3. Handled(c) /\ call[c].request.node \in NodeIds
    BY <1>5, RequestType DEF Stores, Handling
  <2>4. /\ nodes' = [nodes EXCEPT ![call[c].request.node] = c]
        /\ edges' = edges \cup saved
    BY <2>1 DEF Put
  <2>5. nodes'[call[c].request.node] = c
    BY <2>3, <2>4 DEF TypeOK
  <2>6. \A n : n # call[c].request.node => nodes'[n] = nodes[n]
    BY <2>4 DEF TypeOK
  <2>7. \A d \in Calls : Remembered(d) /\ d # c =>
          /\ nodes'[call[d].request.node] \in {nodes[call[d].request.node], c}
          /\ call[d].request.edges \subseteq edges'
    BY <2>4, <2>5, <2>6 DEF AnswerInv, AnsweredStands
  <2>8. Remembered(c)' =>
          /\ nodes'[call'[c].request.node] = c
          /\ call'[c].request.edges \subseteq edges'
    BY <2>2, <2>4, <2>5 DEF Remembered
  <2> QED BY <1>2, <2>2, <2>3, <2>7, <2>8 DEF AnswerInv, BeforeInv
<1> QED BY <1>1, <1>3, <1>4, <1>5, StepKinds

\* An acknowledged Remember is stored, and no call that was over when it was
\* made has overwritten it.
THEOREM AcknowledgedIsStored == Spec => []AnsweredStands
<1>1. Init => AnswerInv
  BY DEF Init, AnswerInv, AnsweredStands, BeforeInv, Remembered, NewCall
<1>2. AnswerInv => AnsweredStands
  BY DEF AnswerInv
<1> QED BY <1>1, <1>2, AnswerStep, BaseInvariant, PTL DEF Spec

-----------------------------------------------------------------------------
(* What readers see.                                                       *)

\* The nodes that a call stored last.
Kept == {n \in NodeIds : nodes[n] \in Calls}

\* It was a Remember of the node.
WriterInv ==
  \A n \in Kept : call[nodes[n]].stage # "new" /\ call[nodes[n]].request.node = n

\* A Recall that gave less than its limit gave all that was known.
Shown(c) ==
  /\ call[c].stage = "ok" /\ call[c].request.method = "Recall"
  /\ Cardinality(call[c].got) < LimitOf(call[c].request)
  => \A n \in call[c].known :
       Versions(c, n) \subseteq call[c].request.meets => n \in call[c].got

\* A graph holds what was known when its page was opened, or is full.
KnownInv ==
  /\ WriterInv
  /\ \A c \in Calls : call[c].known \subseteq Kept /\ Shown(c)
  /\ \A t \in Pages :
       /\ page[t].known \subseteq Stored
       /\ page[t].graph # None =>
            /\ page[t].graph.nodes \subseteq Stored
            /\ page[t].known \subseteq page[t].graph.nodes
                 \/ Cardinality(page[t].graph.nodes) = ListLimit

LEMMA AcknowledgedKept ==
  ASSUME TypeOK, CallInv, AnsweredStands
  PROVE  Acknowledged \subseteq Kept
<1> SUFFICES ASSUME NEW c \in Calls, Remembered(c) PROVE call[c].request.node \in Kept
  BY DEF Acknowledged
<1>1. call[c].request.node \in NodeIds
  BY AcknowledgedType DEF Acknowledged
<1>2. nodes[call[c].request.node] \in Calls
  BY <1>1 DEF AnsweredStands, TypeOK
<1> QED BY <1>1, <1>2 DEF Kept

LEMMA KeptStored == Kept \subseteq Stored
BY DEF Kept, Stored

\* Nothing that serve or viz does removes a node.
LEMMA StoredGrows ==
  ASSUME TypeOK, CallInv, [Next]_vars
  PROVE  Stored \subseteq Stored' /\ Kept \subseteq Kept'
<1>1. CASE UNCHANGED database BY <1>1 DEF Stored, Kept
<1>2. ASSUME NEW c \in Calls, Stores(c) PROVE Stored \subseteq Stored' /\ Kept \subseteq Kept'
  <2>1. nodes' = [nodes EXCEPT ![call[c].request.node] = c]
    BY <1>2 DEF Stores, Put
  <2> QED BY <2>1 DEF Stored, Kept, TypeOK
<1> QED BY <1>1, <1>2, StepKinds, RecallEffect DEF Quiet, Send

\* What was asked for stays as it was, and an answer too.
LEMMA CallsStay ==
  ASSUME TypeOK, CallInv, [Next]_vars, NEW d \in Calls, call[d].stage # "new"
  PROVE  /\ call'[d].stage # "new"
         /\ call'[d].request = call[d].request /\ call'[d].before = call[d].before
         /\ call'[d].known = call[d].known
         /\ d \in Over => call'[d] = call[d]
<1> DEFINE Goal == /\ call'[d].stage # "new"
                   /\ call'[d].request = call[d].request /\ call'[d].before = call[d].before
                   /\ call'[d].known = call[d].known
                   /\ d \in Over => call'[d] = call[d]
<1>0. call[d] \in Call
  BY DEF TypeOK
<1>1. CASE call'[d] = call[d] BY <1>1
<1>2. ASSUME NEW stage \in {"handling", "abandoned", "failed"},
             call[d].stage \in {"sent", "handling", "abandoned"},
             call'[d] = [call[d] EXCEPT !.stage = stage]
      PROVE  Goal
  BY <1>0, <1>2 DEF Call, Over
<1>3. CASE Quiet
  BY <1>1, <1>2, <1>3 DEF Quiet, GoesOn
<1>4. ASSUME NEW c \in Calls, Send(c) PROVE Goal
  BY <1>1, <1>4 DEF Send, TypeOK
<1>5. ASSUME NEW c \in Calls, Recall(c) PROVE Goal
  <2>1. PICK stage \in {"ok", "failed"}, got \in SUBSET Stored :
          call' = [call EXCEPT ![c].stage = stage, ![c].got = got]
    BY <1>5, RecallEffect
  <2>2. Handled(c)
    BY <1>5, RecallEffect DEF Handling
  <2> QED BY <1>0, <1>1, <2>1, <2>2 DEF Handled, Over, TypeOK, Call
<1>6. ASSUME NEW c \in Calls, Stores(c) PROVE Goal
  <2>1. PICK stage \in {"ok", "failed"} : Becomes(c, stage)
    BY <1>6 DEF Stores
  <2>2. Handled(c)
    BY <1>6 DEF Stores, Handling
  <2> QED BY <1>0, <1>1, <2>1, <2>2 DEF Becomes, Handled, Over, TypeOK, Call
<1> QED BY <1>3, <1>4, <1>5, <1>6, StepKinds

LEMMA VersionsStay ==
  ASSUME TypeOK, CallInv, [Next]_vars, NEW c, NEW n
  PROVE  Versions(c, n) \subseteq Versions(c, n)'
<1> SUFFICES ASSUME NEW d \in Calls, call[d].stage # "new", call[d].request.node = n,
                    c \notin call[d].before
             PROVE  call[d].request.content \in Versions(c, n)'
  BY DEF Versions
<1>1. /\ call'[d].stage # "new" /\ call'[d].request = call[d].request
      /\ call'[d].before = call[d].before
  BY CallsStay
<1> QED BY <1>1 DEF Versions

LEMMA WriterStep ==
  ASSUME TypeOK, CallInv, WriterInv, [Next]_vars
  PROVE  WriterInv'
<1>1. CASE UNCHANGED database
  <2> SUFFICES ASSUME NEW n \in Kept
               PROVE  call'[nodes[n]].stage # "new" /\ call'[nodes[n]].request.node = n
    BY <1>1 DEF WriterInv, Kept
  <2> QED BY CallsStay DEF WriterInv, Kept
<1>2. ASSUME NEW c \in Calls, Stores(c) PROVE WriterInv'
  <2>1. nodes' = [nodes EXCEPT ![call[c].request.node] = c]
    BY <1>2 DEF Stores, Put
  <2>2. call[c].stage # "new"
    BY <1>2 DEF Stores, Handling, Handled
  <2> SUFFICES ASSUME NEW n \in Kept'
               PROVE  call'[nodes'[n]].stage # "new" /\ call'[nodes'[n]].request.node = n
    BY DEF WriterInv
  <2>3. CASE n = call[c].request.node
    <3>1. nodes'[n] = c
      BY <2>1, <2>3 DEF TypeOK, Kept
    <3> QED BY <2>2, <2>3, <3>1, CallsStay
  <2>4. CASE n # call[c].request.node
    <3>1. nodes'[n] = nodes[n] /\ n \in Kept /\ nodes[n] \in Calls
      BY <2>1, <2>4 DEF TypeOK, Kept
    <3> QED BY <3>1, CallsStay DEF WriterInv
  <2> QED BY <2>3, <2>4
<1> QED BY <1>1, <1>2, StepKinds, RecallEffect DEF Quiet, Send

\* The Recall itself: the stored version of what was known is one that it may
\* have to show.
LEMMA RecallShows ==
  ASSUME TypeOK, CallInv, BeforeInv, KnownInv, [Next]_vars, NEW c \in Calls, Recall(c)
  PROVE  Shown(c)'
<1>1. PICK stage \in {"ok", "failed"}, got \in SUBSET Stored :
        /\ call' = [call EXCEPT ![c].stage = stage, ![c].got = got]
        /\ \/ WithContent(call[c].request.meets) \subseteq got
           \/ Cardinality(got) = LimitOf(call[c].request)
  BY RecallEffect
<1>2. /\ call'[c].got = got /\ call'[c].request = call[c].request
      /\ call'[c].known = call[c].known
  BY <1>1 DEF TypeOK, Call
<1>3. c \notin Over /\ call[c].request \in Request
  BY RequestType, RecallEffect DEF Handling, Handled, Over
<1>4. CASE Cardinality(got) = LimitOf(call[c].request)
  <2>1. LimitOf(call[c].request) \in Int
    BY <1>3 DEF LimitOf, Request
  <2>2. LimitOf(call[c].request)' = LimitOf(call[c].request)
    BY <1>2 DEF LimitOf
  <2> QED BY <1>2, <1>4, <2>1, <2>2 DEF Shown
<1>5. CASE WithContent(call[c].request.meets) \subseteq got
  <2> SUFFICES ASSUME NEW n \in call[c].known,
                      Versions(c, n)' \subseteq call[c].request.meets
               PROVE  n \in got
    BY <1>2 DEF Shown
  <2>1. n \in Kept
    BY DEF KnownInv
  <2>2. nodes[n] \in Calls /\ call[nodes[n]].stage # "new" /\ call[nodes[n]].request.node = n
    BY <2>1 DEF KnownInv, WriterInv, Kept
  <2>3. c \notin call[nodes[n]].before
    BY <1>3, <2>2 DEF BeforeInv
  <2>4. call[nodes[n]].request.content \in Versions(c, n)
    BY <2>2, <2>3 DEF Versions
  <2>5. call[nodes[n]].request.content \in call[c].request.meets
    BY <2>4, VersionsStay
  <2>6. n \in WithContent(call[c].request.meets)
    BY <2>1, <2>2, <2>5, KeptStored DEF WithContent, ContentOf
  <2> QED BY <1>5, <2>6
<1> QED BY <1>1, <1>4, <1>5

\* The calls.
LEMMA KnownToCalls ==
  ASSUME TypeOK, CallInv, AnswerInv, KnownInv, [Next]_vars, NEW d \in Calls
  PROVE  call'[d].known \subseteq Kept' /\ Shown(d)'
<1>0. /\ Kept \subseteq Kept' /\ call[d] \in Call
      /\ call[d].known \subseteq Kept
  BY StoredGrows DEF TypeOK, KnownInv
<1>1. CASE call[d].stage = "ok"
  <2>1. call'[d] = call[d]
    BY <1>1, CallsStay DEF Over
  <2>2. LimitOf(call[d].request)' = LimitOf(call[d].request)
    BY <2>1 DEF LimitOf
  <2>3. Shown(d)
    BY DEF KnownInv
  <2>4. Shown(d)'
    BY <2>1, <2>2, <2>3, VersionsStay DEF Shown
  <2> QED BY <1>0, <2>1, <2>4
<1>2. CASE call'[d].stage # "ok" /\ call[d].stage # "new"
  BY <1>0, <1>2, CallsStay DEF Shown
<1>3. CASE Recall(d)
  <2>1. call[d].stage # "new"
    BY <1>3, RecallEffect DEF Handling, Handled
  <2>2. Shown(d)'
    BY <1>3, RecallShows DEF AnswerInv
  <2> QED BY <1>0, <2>1, <2>2, CallsStay
<1>4. CASE Stores(d)
  <2>1. call[d].stage # "new" /\ call[d].request.method = "Remember"
    BY <1>4 DEF Stores, Handling, Handled
  <2> QED BY <1>0, <2>1, CallsStay DEF Shown
<1>5. CASE Send(d)
  <2>1. PICK request \in Requests :
          call' = [call EXCEPT ![d] = [NewCall EXCEPT
            !.stage = "sent", !.request = request, !.before = Over, !.known = Acknowledged]]
    BY <1>5 DEF Send
  <2>2. call'[d].stage = "sent" /\ call'[d].known = Acknowledged
    BY <2>1 DEF NewCall, TypeOK
  <2> QED BY <1>0, <2>2, AcknowledgedKept DEF Shown, AnswerInv
<1>6. CASE call'[d] = call[d] /\ call[d].stage = "new"
  BY <1>0, <1>6 DEF Shown
<1>7. CASE Quiet
  <2>1. CASE call'[d] = call[d] BY <1>1, <1>2, <1>6, <2>1
  <2>2. ASSUME NEW stage \in {"handling", "abandoned", "failed"},
               call[d].stage \in {"sent", "handling", "abandoned"},
               call'[d] = [call[d] EXCEPT !.stage = stage]
        PROVE  call'[d].stage # "ok" /\ call[d].stage # "new"
    BY <1>0, <2>2 DEF Call
  <2> QED BY <1>2, <1>7, <2>1, <2>2 DEF Quiet, GoesOn
<1>8. ASSUME NEW c \in Calls, c # d, Send(c) \/ Recall(c) \/ Stores(c)
      PROVE  call'[d] = call[d]
  <2>1. CASE Send(c)
    <3>1. PICK request \in Requests :
            call' = [call EXCEPT ![c] = [NewCall EXCEPT
              !.stage = "sent", !.request = request, !.before = Over, !.known = Acknowledged]]
      BY <2>1 DEF Send
    <3> QED BY <1>8, <3>1 DEF TypeOK
  <2>2. CASE Recall(c)
    <3>1. PICK stage \in {"ok", "failed"}, got \in SUBSET Stored :
            call' = [call EXCEPT ![c].stage = stage, ![c].got = got]
      BY <2>2, RecallEffect
    <3> QED BY <1>8, <3>1 DEF TypeOK
  <2>3. CASE Stores(c) BY <1>8, <2>3 DEF Stores, Becomes, TypeOK
  <2> QED BY <1>8, <2>1, <2>2, <2>3
<1>9. CASE call'[d] = call[d]
  BY <1>1, <1>2, <1>6, <1>9
<1> QED BY <1>3, <1>4, <1>5, <1>7, <1>8, <1>9, StepKinds

\* The pages.
LEMMA KnownToPages ==
  ASSUME TypeOK, CallInv, AnsweredStands, KnownInv, [Next]_vars, NEW p \in Pages
  PROVE  /\ page'[p].known \subseteq Stored'
         /\ page'[p].graph # None =>
              /\ page'[p].graph.nodes \subseteq Stored'
              /\ page'[p].known \subseteq page'[p].graph.nodes
                   \/ Cardinality(page'[p].graph.nodes) = ListLimit
<1> DEFINE Goal == /\ page'[p].known \subseteq Stored'
                   /\ page'[p].graph # None =>
                        /\ page'[p].graph.nodes \subseteq Stored'
                        /\ page'[p].known \subseteq page'[p].graph.nodes
                             \/ Cardinality(page'[p].graph.nodes) = ListLimit
<1>0. Stored \subseteq Stored' /\ page[p] \in Page
  BY StoredGrows DEF TypeOK
<1>1. page'[p].known = page[p].known /\ page'[p].graph = page[p].graph => Goal
  BY <1>0 DEF KnownInv
<1>2. ASSUME NEW t \in Pages, OpenPage(t) PROVE Goal
  <2>1. CASE t = p
    <3>1. page'[p].known = Acknowledged /\ page'[p].graph = None
      BY <1>2, <2>1 DEF OpenPage, TypeOK
    <3> QED BY <1>0, <3>1, AcknowledgedKept, KeptStored
  <2>2. CASE t # p BY <1>1, <1>2, <2>2 DEF OpenPage, TypeOK
  <2> QED BY <2>1, <2>2
<1>3. ASSUME NEW t \in Pages, Fetch(t) PROVE Goal
  <2>1. PICK list \in Listings :
          page' = [page EXCEPT ![t].stage = "loaded",
                               ![t].graph = [nodes |-> list, edges |-> LinksOf(list)]]
    BY <1>3 DEF Fetch
  <2>2. list \subseteq Stored /\ (list = Stored \/ Cardinality(list) = ListLimit)
    BY DEF Listings, TopOf
  <2>3. CASE t = p
    <3>1. page'[p].known = page[p].known /\ page'[p].graph.nodes = list
      BY <1>0, <2>1, <2>3 DEF TypeOK, Page
    <3> QED BY <1>0, <2>2, <3>1 DEF KnownInv
  <2>4. CASE t # p BY <1>1, <2>1, <2>4 DEF TypeOK
  <2> QED BY <2>3, <2>4
<1>4. ASSUME NEW t \in Pages, FetchFails(t) \/ Draw(t) PROVE Goal
  <2>1. PICK stage \in {"drawn", "stuck"} : page' = [page EXCEPT ![t].stage = stage]
    BY <1>4 DEF FetchFails, Draw
  <2>2. page'[p].known = page[p].known /\ page'[p].graph = page[p].graph
    BY <1>0, <2>1 DEF TypeOK, Page
  <2> QED BY <1>1, <2>2
<1>5. ASSUME NEW t \in Pages, Reload(t) PROVE Goal
  <2>1. CASE t = p
    <3>1. page'[p].known = {} /\ page'[p].graph = None
      BY <1>5, <2>1 DEF Reload, BlankPage, TypeOK
    <3> QED BY <3>1
  <2>2. CASE t # p BY <1>1, <1>5, <2>2 DEF Reload, TypeOK
  <2> QED BY <2>1, <2>2
<1>6. CASE page' = page BY <1>1, <1>6
<1> QED BY <1>2, <1>3, <1>4, <1>5, <1>6, PageKinds

LEMMA FullGraph ==
  ASSUME TypeOK, KnownInv
  PROVE  ReadersAreCurrent
<1>1. ASSUME NEW t \in Pages, page[t].graph # None, Cardinality(Stored) <= ListLimit
      PROVE  page[t].known \subseteq page[t].graph.nodes
  <2>1. CASE page[t].known \subseteq page[t].graph.nodes
    BY <2>1
  <2>2. CASE Cardinality(page[t].graph.nodes) = ListLimit
    <3>1. page[t].graph.nodes \subseteq Stored /\ page[t].known \subseteq Stored
      BY <1>1 DEF KnownInv
    <3>2. IsFiniteSet(Stored)
      BY FS_Subset DEF Stored
    <3>3. Cardinality(page[t].graph.nodes) <= Cardinality(Stored)
          /\ Cardinality(Stored) \in Nat
      BY <3>1, <3>2, FS_Subset, FS_CardinalityType
    <3>4. Cardinality(page[t].graph.nodes) = Cardinality(Stored)
      BY <1>1, <2>2, <3>3
    <3>5. page[t].graph.nodes = Stored
      BY <3>1, <3>2, <3>4, FS_Subset
    <3> QED BY <3>1, <3>5
  <2> QED BY <1>1, <2>1, <2>2 DEF KnownInv
<1> QED BY <1>1 DEF ReadersAreCurrent, KnownInv, Shown

\* A Recall that gives less than its limit shows what was acknowledged before
\* it and meets its filters; a dashboard with room for all shows the rest too.
THEOREM ReadersSeeAcknowledged == Spec => []ReadersAreCurrent
<1>1. Init => KnownInv /\ AnswerInv
  <2>1. Init => Kept = {}
    BY DEF Init, Kept
  <2> QED BY <2>1 DEF Init, KnownInv, WriterInv, Shown, AnswerInv, AnsweredStands, BeforeInv,
                      Remembered, NewCall, BlankPage
<1>2. TypeOK /\ CallInv /\ AnswerInv /\ KnownInv /\ [Next]_vars => KnownInv'
  <2> SUFFICES ASSUME TypeOK, CallInv, AnswerInv, KnownInv, [Next]_vars PROVE KnownInv'
    OBVIOUS
  <2>1. WriterInv'
    BY WriterStep DEF KnownInv
  <2>2. \A c \in Calls : call'[c].known \subseteq Kept' /\ Shown(c)'
    BY KnownToCalls
  <2> QED BY <2>1, <2>2, KnownToPages DEF KnownInv, AnswerInv
<1>3. TypeOK /\ KnownInv => ReadersAreCurrent
  BY FullGraph
<1>4. AnswerInv /\ TypeOK /\ CallInv /\ [Next]_vars => AnswerInv'
  BY AnswerStep
<1> QED BY <1>1, <1>2, <1>3, <1>4, BaseInvariant, PTL DEF Spec

-----------------------------------------------------------------------------
(* What is drawn.                                                          *)

\* A graph lacks the end of an edge only if it is awaited or there was no room.
DrawInv ==
  /\ \A e \in edges : EndsOf[e] \subseteq Stored \cup awaited
  /\ \A t \in Pages :
       /\ page[t].stage \in {"blank", "loading"} => page[t].graph = None
       /\ page[t].graph # None =>
            /\ page[t].stage = "stuck" => ~Drawable(page[t].graph)
            /\ \/ Cardinality(Stored) > ListLimit
               \/ \A e \in page[t].graph.edges : EndsOf[e] \subseteq page[t].graph.nodes \cup awaited

LEMMA EndsAwaited ==
  ASSUME TypeOK, CallInv, DrawInv, [Next]_vars
  PROVE  /\ awaited \subseteq awaited'
         /\ \A e \in edges' : EndsOf[e] \subseteq Stored' \cup awaited'
<1>1. CASE UNCHANGED database BY <1>1 DEF DrawInv, Stored
<1>2. ASSUME NEW c \in Calls, Stores(c)
      PROVE  /\ awaited \subseteq awaited'
             /\ \A e \in edges' : EndsOf[e] \subseteq Stored' \cup awaited'
  <2>1. PICK saved \in SUBSET call[c].request.edges : Put(c, saved)
    BY <1>2 DEF Stores
  <2>2. call[c].request.node \in NodeIds
    BY <1>2, RequestType DEF Stores, Handling
  <2>3. call[c].request.node \in Stored'
    BY <2>1, <2>2 DEF Put, Stored, TypeOK
  <2>4. /\ edges' = edges \cup saved
        /\ awaited' = awaited \cup ((UNION {EndsOf[e] : e \in saved})
                                      \ (Stored \cup {call[c].request.node}))
    BY <2>1 DEF Put
  <2>5. \A e \in saved : EndsOf[e] \subseteq UNION {EndsOf[f] : f \in saved}
    OBVIOUS
  <2>6. \A e \in saved : EndsOf[e] \subseteq awaited' \cup Stored \cup {call[c].request.node}
    BY <2>4, <2>5
  <2>7. \A e \in edges : EndsOf[e] \subseteq Stored' \cup awaited'
    BY <2>4, StoredGrows DEF DrawInv
  <2> QED BY <2>3, <2>4, <2>6, <2>7, StoredGrows
<1> QED BY <1>1, <1>2, StepKinds, RecallEffect DEF Quiet, Send

LEMMA StoredCount ==
  ASSUME TypeOK, CallInv, [Next]_vars
  PROVE  /\ Cardinality(Stored) \in Nat /\ Cardinality(Stored') \in Nat
         /\ Cardinality(Stored) <= Cardinality(Stored')
<1>1. IsFiniteSet(Stored) /\ IsFiniteSet(Stored')
  BY FS_Subset DEF Stored
<1> QED BY <1>1, StoredGrows, FS_Subset, FS_CardinalityType

\* What a page is after a step.
PageDrawInv(p, someStored, someAwaited) ==
  /\ p.stage \in {"blank", "loading"} => p.graph = None
  /\ p.graph # None =>
       /\ p.stage = "stuck" => ~Drawable(p.graph)
       /\ \/ Cardinality(someStored) > ListLimit
          \/ \A e \in p.graph.edges : EndsOf[e] \subseteq p.graph.nodes \cup someAwaited

LEMMA PagesDrawn ==
  ASSUME TypeOK, CallInv, DrawInv, [Next]_vars, NEW p \in Pages
  PROVE  PageDrawInv(page'[p], Stored', awaited')
<1>0. page[p] \in Page /\ PageDrawInv(page[p], Stored, awaited) /\ Drawable(page[p].graph) \in BOOLEAN
  BY DEF DrawInv, PageDrawInv, TypeOK, Drawable
<1>1. ASSUME page'[p].graph = page[p].graph,
             \/ page'[p].stage = page[p].stage
             \/ page'[p].stage = "drawn"
             \/ page'[p].stage = "stuck" /\ (page[p].graph # None => ~Drawable(page[p].graph))
      PROVE  PageDrawInv(page'[p], Stored', awaited')
  <2>1. Cardinality(Stored) > ListLimit => Cardinality(Stored') > ListLimit
    BY StoredCount
  <2>2. awaited \subseteq awaited'
    BY EndsAwaited
  <2> QED BY <1>0, <1>1, <2>1, <2>2 DEF PageDrawInv
<1>2. ASSUME NEW t \in Pages, OpenPage(t) \/ Reload(t), t = p
      PROVE  PageDrawInv(page'[p], Stored', awaited')
  <2>1. page'[p].graph = None
    BY <1>2 DEF OpenPage, Reload, BlankPage, TypeOK
  <2> QED BY <2>1 DEF PageDrawInv
<1>3. ASSUME NEW t \in Pages, Fetch(t), t = p
      PROVE  PageDrawInv(page'[p], Stored', awaited')
  <2>1. PICK list \in Listings :
          page' = [page EXCEPT ![t].stage = "loaded",
                               ![t].graph = [nodes |-> list, edges |-> LinksOf(list)]]
    BY <1>3 DEF Fetch
  <2>2. /\ page'[p].stage = "loaded"
        /\ page'[p].graph = [nodes |-> list, edges |-> LinksOf(list)]
    BY <1>0, <1>3, <2>1 DEF TypeOK, Page
  <2>3. Stored' = Stored /\ awaited' = awaited
    BY <1>3 DEF Fetch, database, Stored
  <2>4. CASE list = Stored
    BY <2>2, <2>3, <2>4 DEF PageDrawInv, DrawInv, LinksOf
  <2>5. CASE list # Stored
    <3>1. list \in SUBSET Stored /\ Cardinality(list) = ListLimit
      BY <2>5 DEF Listings, TopOf
    <3>2. IsFiniteSet(Stored)
      BY FS_Subset DEF Stored
    <3>3. Cardinality(list) <= Cardinality(Stored) /\ Cardinality(Stored) # Cardinality(list)
      BY <2>5, <3>1, <3>2, FS_Subset
    <3>4. Cardinality(Stored) > ListLimit
      BY <3>1, <3>3, StoredCount
    <3> QED BY <2>2, <2>3, <3>4 DEF PageDrawInv
  <2> QED BY <2>4, <2>5
<1>4. ASSUME NEW t \in Pages, FetchFails(t) \/ Draw(t), t = p
      PROVE  PageDrawInv(page'[p], Stored', awaited')
  <2>1. page'[p].graph = page[p].graph
    BY <1>0, <1>4 DEF FetchFails, Draw, TypeOK, Page
  <2>2. CASE FetchFails(t)
    <3>1. page'[p].stage = "stuck" /\ page[p].graph = None
      BY <1>0, <1>4, <2>2 DEF FetchFails, TypeOK, Page, PageDrawInv
    <3> QED BY <1>1, <2>1, <3>1
  <2>3. CASE Draw(t)
    <3>1. page'[p].stage = "drawn" \/ (page'[p].stage = "stuck" /\ ~Drawable(page[p].graph))
      BY <1>0, <1>4, <2>3 DEF Draw, TypeOK, Page
    <3> QED BY <1>1, <2>1, <3>1
  <2> QED BY <1>4, <2>2, <2>3
<1>5. ASSUME NEW t \in Pages, t # p,
             OpenPage(t) \/ Fetch(t) \/ FetchFails(t) \/ Draw(t) \/ Reload(t)
      PROVE  page'[p] = page[p]
  BY <1>5 DEF OpenPage, Fetch, FetchFails, Draw, Reload, TypeOK
<1>6. CASE page'[p] = page[p] BY <1>1, <1>6
<1> QED BY <1>2, <1>3, <1>4, <1>5, <1>6, PageKinds

\* With room for all nodes, and edges stored after their ends, a page that got
\* its graph is drawn.
THEOREM GraphIsDrawn == Spec => []CompleteGraphIsDrawn
<1>1. Init => DrawInv
  BY DEF Init, DrawInv, BlankPage
<1>2. TypeOK /\ CallInv /\ DrawInv /\ [Next]_vars => DrawInv'
  <2> SUFFICES ASSUME TypeOK, CallInv, DrawInv, [Next]_vars PROVE DrawInv'
    OBVIOUS
  <2>1. \A e \in edges' : EndsOf[e] \subseteq Stored' \cup awaited'
    BY EndsAwaited
  <2>2. \A p \in Pages : PageDrawInv(page'[p], Stored', awaited')
    BY PagesDrawn
  <2> QED BY <2>1, <2>2 DEF DrawInv, PageDrawInv, Drawable
<1>3. TypeOK /\ DrawInv => CompleteGraphIsDrawn
  <2> SUFFICES ASSUME TypeOK, DrawInv, awaited = {}, Cardinality(Stored) <= ListLimit,
                      NEW t \in Pages, page[t].stage = "stuck", page[t].graph # None
               PROVE  FALSE
    BY DEF CompleteGraphIsDrawn
  <2>1. IsFiniteSet(Stored)
    BY FS_Subset DEF Stored
  <2>2. ~(Cardinality(Stored) > ListLimit)
    BY <2>1, FS_CardinalityType
  <2>3. \A e \in page[t].graph.edges : EndsOf[e] \subseteq page[t].graph.nodes
    BY <2>2 DEF DrawInv
  <2> QED BY <2>3 DEF DrawInv, Drawable
<1> QED BY <1>1, <1>2, <1>3, BaseInvariant, PTL DEF Spec
=============================================================================
