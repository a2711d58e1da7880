------------------------------- MODULE Server -------------------------------
(***************************************************************************)
(* The `serve' and `viz' commands (cmd/criteriadb/main.go) with the        *)
(* handlers of pkg/server: gRPC calls and dashboard pages on one engine,   *)
(* which the command closes when a signal has stopped it.  The goroutines  *)
(* are main, the one that waits for the signal, the web server's and one   *)
(* for each call and page.                                                 *)
(*                                                                         *)
(* The gRPC library, the HTTP library, the page's D3 and the callers are   *)
(* modelled as far as the code relies on them.  An operation of the engine *)
(* is one step (MemoryEngineView), at any time of the handler's life: an   *)
(* embedding may come first, within its ten seconds.                       *)
(***************************************************************************)
EXTENDS Integers, FiniteSets

CONSTANTS
  Calls,        \* gRPC calls, each made once
  Pages,        \* dashboards in browsers
  NodeIds, EdgeIds,
  EndsOf,       \* the ends of each edge
  Requests,     \* what callers ask for
  Contents,     \* what a node can be, as far as filters tell
  EarlierNodes, \* what commands before these have stored
  EarlierContent,
  DefaultLimit, \* 20
  ListLimit,    \* 1000
  MaxStarts,    \* bound on the commands started
  Earlier,      \* stands for their calls
  None

\* A Recall has no node, nor has a Remember that the engine rejects.  A node
\* meets the filters of a Recall by its content, or may meet them: it depends
\* on the time, on the query's embedding and on the facts around the node.
Request == [method : {"Remember", "Recall"},
            node : NodeIds \cup {None}, content : Contents, edges : SUBSET EdgeIds,
            meets : SUBSET Contents, mayMeet : SUBSET Contents, limit : Int]
\* What /api/graph answers.
Listing == {list \in SUBSET NodeIds : Cardinality(list) <= ListLimit}
Graph == [nodes : Listing, edges : SUBSET EdgeIds]

ASSUME ServerAssumption ==
  /\ IsFiniteSet(NodeIds)
  /\ None \notin NodeIds \cup EdgeIds \cup Calls \cup Graph \cup Request
  /\ Earlier \notin Calls \cup {None}
  /\ EarlierNodes \subseteq SUBSET NodeIds /\ EarlierContent \in [NodeIds -> Contents]
  /\ EndsOf \in [EdgeIds -> SUBSET NodeIds]
  /\ Requests \subseteq Request
  /\ DefaultLimit \in Nat \ {0} /\ ListLimit \in Nat /\ MaxStarts \in Nat

VARIABLES
  mode,         \* which of the two commands
  main,         \* how far its main goroutine is
  web,          \* the web server
  signalled,    \* a signal has come after signal.Notify
  sigChan,      \* it is in the channel
  stopper,      \* the goroutine that receives it
  isOpen,       \* the engine has its store open
  nodes, edges, \* the database: the call that stored a node last, the edges
  awaited,      \* the nodes that an edge was stored without
  call, page,
  starts

signals == <<signalled, sigChan, stopper>>
process == <<mode, main, web, signals, isOpen, starts>>
database == <<nodes, edges, awaited>>
vars == <<process, database, call, page>>

\* A caller gives up a call: the handler goes on, nobody hears the answer.
Call == [stage : {"new", "sent", "handling", "abandoned", "ok", "failed"},
         request : Requests \cup {None},
         before : SUBSET Calls,         \* the calls that were over when it was made
         known : SUBSET NodeIds,        \* the nodes acknowledged by then
         got : SUBSET NodeIds]          \* what a Recall found
\* A page that could not be drawn shows "Loading graph..." for ever.
Page == [stage : {"blank", "loading", "loaded", "drawn", "stuck"},
         known : SUBSET NodeIds,        \* as in a call
         graph : Graph \cup {None}]     \* what /api/graph answered

\* The goroutines are where they can be, the database holds what calls stored,
\* and no page has more nodes than the endpoint lists.
TypeOK ==
  /\ mode \in {"serve", "viz"}
  /\ main \in {"down", "open", "listening", "ready", "serving", "closing", "closed"}
  /\ web \in {"off", "starting", "up"}
  /\ signalled \in BOOLEAN /\ sigChan \in BOOLEAN
  /\ stopper \in {"none", "waiting", "draining", "done"}
  /\ isOpen \in BOOLEAN
  /\ nodes \in [NodeIds -> Calls \cup {Earlier, None}] /\ edges \subseteq EdgeIds
  /\ awaited \subseteq NodeIds
  /\ call \in [Calls -> Call] /\ page \in [Pages -> Page]
  /\ starts \in Nat

NewCall == [stage |-> "new", request |-> None, before |-> {}, known |-> {}, got |-> {}]
BlankPage == [stage |-> "blank", known |-> {}, graph |-> None]

Init ==
  /\ mode = "serve" /\ main = "down" /\ web = "off"
  /\ signalled = FALSE /\ sigChan = FALSE /\ stopper = "none"
  /\ isOpen = FALSE
  /\ \E earlier \in EarlierNodes :
       nodes = [n \in NodeIds |-> IF n \in earlier THEN Earlier ELSE None]
  /\ edges = {} /\ awaited = {}
  /\ call = [c \in Calls |-> NewCall] /\ page = [t \in Pages |-> BlankPage]
  /\ starts = 0

Handled(c) == call[c].stage \in {"handling", "abandoned"}
Over == {c \in Calls : call[c].stage \in {"ok", "failed"}}
Stored == {n \in NodeIds : nodes[n] # None}
Remembered(c) == call[c].stage = "ok" /\ call[c].request.method = "Remember"
Acknowledged == {call[c].request.node : c \in {d \in Calls : Remembered(d)}}

-----------------------------------------------------------------------------
(* The main goroutine.                                                     *)

Start == \E m \in {"serve", "viz"}, w \in {"off", "starting"} :
  /\ main = "down" /\ starts < MaxStarts
  /\ m = "viz" => w = "starting"
  /\ mode' = m /\ main' = "open" /\ web' = w
  /\ isOpen' = TRUE
  /\ starts' = starts + 1
  /\ UNCHANGED <<signals, database, call, page>>

\* The process ends, and with it every goroutine and handler.
Exit ==
  /\ main' = "down" /\ web' = "off"
  /\ signalled' = FALSE /\ sigChan' = FALSE /\ stopper' = "none"
  /\ isOpen' = FALSE
  /\ call' = [c \in Calls |-> IF Handled(c) THEN [call[c] EXCEPT !.stage = "failed"] ELSE call[c]]
  /\ UNCHANGED <<mode, database, page, starts>>

Listen ==
  /\ mode = "serve" /\ main = "open"
  /\ main' = "listening"
  /\ UNCHANGED <<mode, web, signals, isOpen, starts, database, call, page>>

ListenFails == mode = "serve" /\ main = "open" /\ Exit

\* signal.Notify.
Notify ==
  /\ main = IF mode = "serve" THEN "listening" ELSE "open"
  /\ main' = "ready"
  /\ UNCHANGED <<mode, web, signals, isOpen, starts, database, call, page>>

\* `go func() { <-sigChan ...' starts the goroutine, and Serve follows.  When
\* GracefulStop comes first, Serve returns at once, and main ignores its error.
Serve ==
  /\ mode = "serve" /\ main = "ready"
  /\ main' = "serving" /\ stopper' = "waiting"
  /\ UNCHANGED <<mode, web, signalled, sigChan, isOpen, starts, database, call, page>>

\* External: Serve waits for a GracefulStop to end, and that for the handlers;
\* Stop waits for no handler.
ServeReturns_stop ==
  /\ main = "serving" /\ stopper \in {"draining", "done"}
  /\ main' = "closing"
  /\ UNCHANGED <<mode, web, signals, isOpen, starts, database, call, page>>
ServeReturns ==
  /\ main = "serving" /\ stopper = "done"
  /\ main' = "closing"
  /\ UNCHANGED <<mode, web, signals, isOpen, starts, database, call, page>>

\* `viz': <-sigChan.
VizStops ==
  /\ mode = "viz" /\ main = "ready" /\ sigChan
  /\ sigChan' = FALSE /\ main' = "closing"
  /\ UNCHANGED <<mode, web, signalled, stopper, isOpen, starts, database, call, page>>

\* The deferred engine.Close().
CloseEngine ==
  /\ main = "closing"
  /\ isOpen' = FALSE /\ main' = "closed"
  /\ UNCHANGED <<mode, web, signals, starts, database, call, page>>

Return == main = "closed" /\ Exit

\* The process is killed, or crashes.
Kill == main # "down" /\ Exit

-----------------------------------------------------------------------------
(* Signals.                                                                *)

\* The channel has room for one signal; more than that are dropped.
Signal_unbuffered ==
  /\ main \notin {"down", "open", "listening"}
  /\ signalled' = TRUE
  /\ sigChan' = (stopper = "waiting" \/ mode = "viz")
  /\ UNCHANGED <<mode, main, web, stopper, isOpen, starts, database, call, page>>
Signal ==
  /\ main \notin {"down", "open", "listening"}
  /\ signalled' = TRUE /\ sigChan' = TRUE
  /\ UNCHANGED <<mode, main, web, stopper, isOpen, starts, database, call, page>>

\* Before signal.Notify a signal ends the process.
EarlySignal == main \in {"open", "listening"} /\ Exit

StopperReceives ==
  /\ stopper = "waiting" /\ sigChan
  /\ sigChan' = FALSE /\ stopper' = "draining"
  /\ UNCHANGED <<mode, main, web, signalled, isOpen, starts, database, call, page>>

\* External: GracefulStop returns when no handler is left.
StopperIsDone ==
  /\ stopper = "draining"
  /\ \A c \in Calls : ~Handled(c)
  /\ stopper' = "done"
  /\ UNCHANGED <<mode, main, web, signalled, sigChan, isOpen, starts, database, call, page>>

-----------------------------------------------------------------------------
(* gRPC calls.                                                             *)

Send(c) == \E request \in Requests :
  /\ call[c].stage = "new"
  /\ call' = [call EXCEPT ![c] = [NewCall EXCEPT
       !.stage = "sent", !.request = request, !.before = Over, !.known = Acknowledged]]
  /\ UNCHANGED <<process, database, page>>

Becomes(c, stage) == call' = [call EXCEPT ![c].stage = stage]

\* A handler's answer is lost on a caller who gave up.
Answer(c) == IF call[c].stage = "abandoned" THEN "failed" ELSE "ok"

\* External: GracefulStop accepts no more calls.
Accepting == main = "serving" /\ stopper = "waiting"

Accept(c) ==
  /\ call[c].stage = "sent" /\ Accepting
  /\ Becomes(c, "handling")
  /\ UNCHANGED <<process, database, page>>

Unavailable(c) ==
  /\ call[c].stage = "sent" /\ ~Accepting
  /\ Becomes(c, "failed")
  /\ UNCHANGED <<process, database, page>>

\* The caller's deadline passes, or it cancels.
GiveUp(c) ==
  /\ call[c].stage = "handling"
  /\ Becomes(c, "abandoned")
  /\ UNCHANGED <<process, database, page>>

\* SaveNode and the SaveEdge calls of Remember.
Put(c, saved) ==
  LET request == call[c].request IN
    /\ nodes' = [nodes EXCEPT ![request.node] = c]
    /\ edges' = edges \cup saved
    /\ awaited' = awaited \cup ((UNION {EndsOf[e] : e \in saved}) \ (Stored \cup {request.node}))

Handling(c, method) == Handled(c) /\ call[c].request.method = method

\* The node was blank, or the engine could not save all.
RememberFails(c) ==
  /\ Handling(c, "Remember")
  /\ Becomes(c, "failed")
  /\ \/ UNCHANGED database
     \/ /\ isOpen /\ call[c].request.node # None
        /\ \E saved \in SUBSET call[c].request.edges :
             saved # call[c].request.edges /\ Put(c, saved)
  /\ UNCHANGED <<process, page>>

\* An answer before the engine has stored the node.
Remember_queued(c) ==
  /\ Handling(c, "Remember")
  /\ call[c].request.node # None /\ isOpen
  /\ \/ Becomes(c, Answer(c)) /\ UNCHANGED database
     \/ Becomes(c, Answer(c)) /\ Put(c, call[c].request.edges)
  /\ UNCHANGED <<process, page>>
Remember(c) ==
  /\ Handling(c, "Remember")
  /\ call[c].request.node # None /\ isOpen
  /\ Put(c, call[c].request.edges)
  /\ Becomes(c, Answer(c))
  /\ UNCHANGED <<process, page>>

\* MemoryEngine.Recall ranks what it found and cuts it to the limit.  Which
\* nodes that leaves out is up to their scores and, at equal scores, chance.
TopOf_uncut(found, limit) == {found}
TopOf_short(found, limit) ==
  {list \in SUBSET found : Cardinality(list) < limit
     /\ (list = found \/ Cardinality(list) + 1 = limit)}
TopOf(found, limit) ==
  {list \in SUBSET found : Cardinality(list) <= limit
     /\ (list = found \/ Cardinality(list) = limit)}

LimitOf(request) == IF request.limit <= 0 THEN DefaultLimit ELSE request.limit

ContentOf(n) ==
  IF nodes[n] = Earlier THEN EarlierContent[n] ELSE call[nodes[n]].request.content
WithContent(contents) == {n \in Stored : ContentOf(n) \in contents}

\* From the maps, which serve a closed engine too.
Recall(c) ==
  LET request == call[c].request IN
    /\ Handling(c, "Recall")
    /\ \E others \in SUBSET WithContent(request.mayMeet) :
         \E got \in TopOf(WithContent(request.meets) \cup others, LimitOf(request)) :
           call' = [call EXCEPT ![c].stage = Answer(c), ![c].got = got]
    /\ UNCHANGED <<process, database, page>>

-----------------------------------------------------------------------------
(* The dashboard.                                                          *)

WebStarts ==
  /\ web = "starting" /\ main # "down"
  /\ web' = "up"
  /\ UNCHANGED <<mode, main, signals, isOpen, starts, database, call, page>>

\* The port is taken: `serve' logs it, `viz' gives up.
WebFails ==
  /\ web = "starting"
  /\ IF mode = "viz" THEN Exit
     ELSE web' = "off" /\ UNCHANGED <<mode, main, signals, isOpen, starts, database, call, page>>

OpenPage(t) ==
  /\ page[t].stage = "blank" /\ web = "up"
  /\ page' = [page EXCEPT ![t] = [stage |-> "loading", known |-> Acknowledged, graph |-> None]]
  /\ UNCHANGED <<process, database, call>>

\* A Recall of everything.
Listings == TopOf(Stored, ListLimit)

LinksOf(list) == {e \in edges : EndsOf[e] \cap list # {}}

\* /api/graph.
Fetch(t) ==
  /\ page[t].stage = "loading" /\ web = "up"
  /\ \E list \in Listings :
       page' = [page EXCEPT ![t].stage = "loaded",
                            ![t].graph = [nodes |-> list, edges |-> LinksOf(list)]]
  /\ UNCHANGED <<process, database, call>>

\* The server has gone before it answered.
FetchFails(t) ==
  /\ page[t].stage = "loading" /\ web # "up"
  /\ page' = [page EXCEPT ![t].stage = "stuck"]
  /\ UNCHANGED <<process, database, call>>

\* External: d3.forceLink throws on a link to a node that is not there, and
\* nothing catches it.
Drawable(graph) == \A e \in graph.edges : EndsOf[e] \subseteq graph.nodes

Draw(t) ==
  /\ page[t].stage = "loaded"
  /\ page' = [page EXCEPT ![t].stage = IF Drawable(page[t].graph) THEN "drawn" ELSE "stuck"]
  /\ UNCHANGED <<process, database, call>>

Reload(t) ==
  /\ page[t].stage \in {"drawn", "stuck"}
  /\ page' = [page EXCEPT ![t] = BlankPage]
  /\ UNCHANGED <<process, database, call>>

-----------------------------------------------------------------------------
MainStep ==
  \/ Listen \/ ListenFails \/ Notify \/ Serve \/ ServeReturns \/ VizStops
  \/ CloseEngine \/ Return

Finish(c) == RememberFails(c) \/ Remember(c) \/ Recall(c)

Next ==
  \/ Start \/ MainStep \/ Kill
  \/ Signal \/ EarlySignal \/ StopperReceives \/ StopperIsDone
  \/ WebStarts \/ WebFails
  \/ \E c \in Calls : Send(c) \/ Accept(c) \/ Unavailable(c) \/ GiveUp(c) \/ Finish(c)
  \/ \E t \in Pages : OpenPage(t) \/ Fetch(t) \/ FetchFails(t) \/ Draw(t) \/ Reload(t)

\* Goroutines that can go on do, and a handler ends: its embedding times out.
Fairness ==
  /\ WF_vars(MainStep) /\ WF_vars(StopperReceives) /\ WF_vars(StopperIsDone)
  /\ \A c \in Calls : WF_vars(Finish(c))

Spec == Init /\ [][Next]_vars /\ Fairness

-----------------------------------------------------------------------------
(* Properties.                                                             *)

\* A graceful shutdown closes the engine under no handler: a call that was
\* accepted does not fail because of the shutdown.
NoneCutOff == \A c \in Calls : Handled(c) => isOpen

\* What a Remember acknowledged is stored, through shutdowns, crashes and
\* restarts, and no call that was over before has overwritten it.
AnsweredStands ==
  \A c \in Calls : Remembered(c) =>
    /\ nodes[call[c].request.node] \notin call[c].before \cup {Earlier, None}
    /\ call[c].request.edges \subseteq edges

\* What a node can have been until c was over, if any call stored it.
Versions(c, n) ==
  {call[d].request.content : d \in
     {e \in Calls : call[e].stage # "new" /\ call[e].request.node = n /\ c \notin call[e].before}}

\* A Recall that gives less than its limit, be that asked for or the default,
\* has left out no memory that was acknowledged before it was made and meets
\* its filters in each of its versions.  A dashboard with room for all shows
\* every memory that was acknowledged before it was opened.
ReadersAreCurrent ==
  /\ \A c \in Calls :
       /\ call[c].stage = "ok" /\ call[c].request.method = "Recall"
       /\ Cardinality(call[c].got) < LimitOf(call[c].request)
       => \A n \in call[c].known :
            Versions(c, n) \subseteq call[c].request.meets => n \in call[c].got
  /\ \A t \in Pages :
       page[t].graph # None /\ Cardinality(Stored) <= ListLimit =>
         page[t].known \subseteq page[t].graph.nodes

\* As long as there is room for all nodes and edges are stored after the nodes
\* at their ends, a page that got its graph is drawn.
CompleteGraphIsDrawn ==
  awaited = {} /\ Cardinality(Stored) <= ListLimit =>
    \A t \in Pages : page[t].stage = "stuck" => page[t].graph = None

\* One signal is enough to end the process, whenever it comes.
SignalEnds == signalled ~> main = "down"
=============================================================================
