--------------------------- MODULE Ingester_proofs ---------------------------
(***************************************************************************)
(* Theorems about Ingester, for every file, with failures and restarts:    *)
(* the command's edges are the steps of its file, all of them if nothing   *)
(* fails, and several workers chain each workflow without forking it.      *)
(***************************************************************************)
EXTENDS Ingester, Integers, FiniteSetTheorems, FunctionTheorems, TLAPS

USE IngestAssumption DEF use

\* The lines that have gone through the mutex, when k is the only worker.
Linked(k) == IF call[k].stage = "parsed" THEN read - 1 ELSE read

\* Line i is the last of workflow w among the first n.
LastOf(i, n, w) ==
  /\ i \in 1..n /\ Of(i, w)
  /\ \A m \in 1..n : i < m => ~Of(m, w)

\* The map names the last event of each workflow that went through the mutex.
LastInv(k) == \A w \in Workflows : last[w] # None =>
  \E i \in Lines : LastOf(i, Linked(k), w) /\ log[i].id = last[w]

\* The line in hand is the last one read, its edge is one of the file's.
HandInv(k) ==
  /\ call[k].stage = "parsed" => call[k].line = read /\ call[k].edges = {}
  /\ call[k].stage = "idle" => call[k] = Idle
  /\ call[k].edges \subseteq Steps

\* Nobody else has a line.
Alone(k) == crew = {k} /\ \A j \in Workers \ {k} : call[j].stage = "idle"

StepInv(k) == TypeOK /\ Alone(k) /\ LastInv(k) /\ HandInv(k) /\ edges \subseteq Steps

\* The lines, the map and the store keep their types.
LEMMA TypeInit == Init => TypeOK
BY DEF Init, TypeOK, Call, Idle

LEMMA LogType ==
  ASSUME TypeOK
  PROVE  /\ Len(log) \in Nat
         /\ \A i \in Lines : log[i] \in Event
BY DEF TypeOK, Lines

LEMMA EventType ==
  ASSUME TypeOK, NEW k \in Workers, call[k].stage # "idle"
  PROVE  event(k).id \in EventIds /\ event(k).workflow \in Workflows \cup {None}
<1>1. call[k].line \in Lines
  BY LogType DEF TypeOK, Lines
<1> QED BY <1>1, LogType DEF event, Event

LEMMA TypeStep == TypeOK /\ [Next]_vars => TypeOK'
<1> SUFFICES ASSUME TypeOK, [Next]_vars PROVE TypeOK'
  OBVIOUS
<1>0. Len(log) \in Nat /\ Idle \in Call
  BY LogType DEF Idle, Call
<1>1. ASSUME NEW k \in Workers, ReadLine(k) PROVE TypeOK'
  BY <1>0, <1>1 DEF ReadLine, TypeOK, Call, Idle, store
<1>2. ASSUME NEW k \in Workers, Link(k) PROVE TypeOK'
  <2>1. event(k).id \in EventIds /\ event(k).workflow \in Workflows
    BY <1>2, EventType DEF Link
  <2>2. EdgesFrom(last[event(k).workflow], event(k).id) \in SUBSET Edge
    BY <2>1 DEF EdgesFrom, TypeOK, Edge
  <2>3. call' \in [Workers -> Call]
    BY <1>2, <2>2 DEF Link, TypeOK, Call
  <2>4. \A j \in Workers : call'[j].stage # "idle" => call'[j].line \in 1..read'
    BY <1>2 DEF Link, TypeOK, Call
  <2>5. last' \in [Workflows -> EventIds \cup {None}]
    BY <1>2, <2>1 DEF Link, TypeOK
  <2> QED BY <1>2, <2>3, <2>4, <2>5 DEF Link, TypeOK, store
<1>3. ASSUME NEW k \in Workers, LinkNothing(k) PROVE TypeOK'
  BY <1>3 DEF LinkNothing, TypeOK, Call, store
<1>4. ASSUME NEW k \in Workers, Return(k), read' = read
      PROVE  /\ call' \in [Workers -> Call]
             /\ \A j \in Workers : call'[j].stage # "idle" => call'[j].line \in 1..read'
  BY <1>0, <1>4 DEF Return, TypeOK, Idle
<1>5. ASSUME NEW k \in Workers, Remember(k) PROVE TypeOK'
  <2>1. event(k).id \in EventIds
    BY <1>5, EventType DEF Remember
  <2>2. call[k].edges \subseteq Edge
    BY DEF TypeOK, Call
  <2> QED BY <1>4, <1>5, <2>1, <2>2 DEF Remember, TypeOK
<1>6. ASSUME NEW k \in Workers, RememberFails(k) PROVE TypeOK'
  <2>1. event(k).id \in EventIds
    BY <1>6, EventType DEF RememberFails
  <2> QED BY <1>4, <1>6, <2>1 DEF RememberFails, TypeOK
<1>7. CASE Restart
  BY <1>0, <1>7 DEF Restart, TypeOK, Idle, store
<1>8. CASE UNCHANGED vars
  BY <1>8 DEF vars, store, TypeOK
<1> QED BY <1>1, <1>2, <1>3, <1>5, <1>6, <1>7, <1>8 DEF Next

\* The file, the map, the calls and the store keep their types.
THEOREM TypeCorrect == Spec => []TypeOK
BY TypeInit, TypeStep, PTL DEF Spec

\* The event that the map names and the one in hand are a step of the file.
LEMMA LinkIsStep ==
  ASSUME NEW k \in Workers, StepInv(k), Link(k)
  PROVE  EdgesFrom(last[event(k).workflow], event(k).id) \subseteq Steps
<1> DEFINE w == event(k).workflow
           prev == last[w]
           edge == [source |-> prev, target |-> event(k).id]
<1>1. /\ TypeOK /\ call[k].stage = "parsed" /\ call[k].line = read
      /\ read \in Lines /\ read \in Nat /\ Len(log) \in Nat
  BY LogType DEF StepInv, HandInv, Link, TypeOK, Lines
<1>2. event(k).id \in EventIds /\ w \in Workflows
  BY <1>1, EventType DEF Link
<1> SUFFICES ASSUME prev # None, prev # event(k).id
             PROVE  edge \in Steps
  BY DEF EdgesFrom
<1>3. PICK i \in Lines : LastOf(i, read - 1, w) /\ log[i].id = prev
  BY <1>1, <1>2 DEF StepInv, LastInv, Linked
<1>4. NextOf(i, read)
  <2>1. i < read /\ Of(i, w) /\ log[i].workflow # None
    BY <1>1, <1>2, <1>3 DEF LastOf, Of
  <2>2. Of(read, w)
    BY <1>1 DEF Of, event
  <2>3. \A m \in Lines : i < m /\ m < read => ~Of(m, w)
    BY <1>1, <1>3 DEF LastOf, Lines
  <2> QED BY <2>1, <2>2, <2>3 DEF NextOf, Of
<1>5. edge \in Edge /\ edge.source # edge.target
  BY <1>1, <1>2 DEF TypeOK, Edge
<1>6. edge.source = log[i].id /\ edge.target = log[read].id
  BY <1>1, <1>3 DEF event
<1> QED BY <1>1, <1>3, <1>4, <1>5, <1>6 DEF Steps

\* Going through the mutex makes the line in hand the last of its workflow.
LEMMA LinkKeepsLast ==
  ASSUME NEW k \in Workers, StepInv(k), Link(k)
  PROVE  LastInv(k)'
<1>1. /\ TypeOK /\ call[k].stage = "parsed" /\ call[k].line = read
      /\ read \in Lines /\ read \in Nat /\ Len(log) \in Nat
  BY LogType DEF StepInv, HandInv, Link, TypeOK, Lines
<1>2. log' = log /\ Lines' = Lines /\ read' = read /\ Linked(k) = read - 1
  BY <1>1 DEF Link, Lines, Linked
<1>3. Linked(k)' = read
  BY <1>1, <1>2 DEF Link, Linked, TypeOK, Call
<1>4. \A v \in Workflows :
        last'[v] = IF v = event(k).workflow THEN event(k).id ELSE last[v]
  BY <1>1 DEF Link, TypeOK
<1> SUFFICES ASSUME NEW v \in Workflows, last'[v] # None
             PROVE  \E i \in Lines : LastOf(i, read, v) /\ log[i].id = last'[v]
  BY <1>2, <1>3 DEF LastInv, LastOf, Of
<1>5. CASE v = event(k).workflow
  <2>1. LastOf(read, read, v) /\ log[read].id = last'[v]
    BY <1>1, <1>4, <1>5 DEF LastOf, Of, event, Lines
  <2> QED BY <1>1, <2>1
<1>6. CASE v # event(k).workflow
  <2>1. PICK i \in Lines : LastOf(i, read - 1, v) /\ log[i].id = last[v]
    BY <1>2, <1>4, <1>6 DEF StepInv, LastInv
  <2>2. ~Of(read, v)
    BY <1>1, <1>6 DEF Of, event
  <2>3. LastOf(i, read, v)
    BY <1>1, <2>1, <2>2 DEF LastOf
  <2> QED BY <1>4, <1>6, <2>1, <2>3
<1> QED BY <1>5, <1>6

\* The other steps of a call leave the lines behind the mutex as they are.
LEMMA SameLast ==
  ASSUME NEW k \in Workers, StepInv(k), log' = log, last' = last, Linked(k)' = Linked(k)
  PROVE  LastInv(k)'
BY DEF StepInv, LastInv, LastOf, Of, Lines

LEMMA SameSteps == log' = log => Steps' = Steps
BY DEF Steps, NextOf, Of, Lines

\* With no other worker only k takes a step.
LEMMA OnlyOne ==
  ASSUME NEW k \in Workers, StepInv(k), [Next]_vars
  PROVE  \/ ReadLine(k) \/ Link(k) \/ LinkNothing(k) \/ Remember(k) \/ RememberFails(k)
         \/ Restart \/ UNCHANGED vars
<1> SUFFICES ASSUME NEW j \in Workers, j # k,
                    ReadLine(j) \/ Link(j) \/ LinkNothing(j) \/ Remember(j) \/ RememberFails(j)
             PROVE  FALSE
  BY DEF Next
<1>1. crew = {k} /\ call[j].stage = "idle"
  BY DEF StepInv, Alone
<1> QED BY <1>1 DEF ReadLine, Link, LinkNothing, Remember, RememberFails

LEMMA CrewStays == [Next]_vars => crew' = crew
BY DEF Next, ReadLine, Link, LinkNothing, Remember, RememberFails, Restart, vars

\* Only k's call changes, unless all become idle.
LEMMA AloneStep ==
  ASSUME NEW k \in Workers, StepInv(k), [Next]_vars
  PROVE  Alone(k)'
<1>1. crew = {k} /\ \A j \in Workers \ {k} : call[j].stage = "idle"
  BY DEF StepInv, Alone
<1>2. call \in [Workers -> Call]
  BY DEF StepInv, TypeOK
<1>3. crew' = crew
  BY CrewStays
<1>4. \A j \in Workers \ {k} : call'[j].stage = "idle"
  <2>1. CASE ReadLine(k)
    BY <1>1, <1>2, <2>1 DEF ReadLine
  <2>2. CASE Link(k)
    BY <1>1, <1>2, <2>2 DEF Link
  <2>3. CASE LinkNothing(k)
    BY <1>1, <1>2, <2>3 DEF LinkNothing
  <2>4. CASE Remember(k)
    BY <1>1, <1>2, <2>4 DEF Remember, Return
  <2>5. CASE RememberFails(k)
    BY <1>1, <1>2, <2>5 DEF RememberFails, Return
  <2>6. CASE Restart
    BY <2>6 DEF Restart, Idle
  <2>7. CASE UNCHANGED vars
    BY <1>1, <2>7 DEF vars
  <2> QED BY <2>1, <2>2, <2>3, <2>4, <2>5, <2>6, <2>7, OnlyOne
<1> QED BY <1>1, <1>3, <1>4 DEF Alone

LEMMA StepStep ==
  ASSUME NEW k \in Workers, StepInv(k), [Next]_vars
  PROVE  StepInv(k)'
<1> DEFINE Rest == LastInv(k)' /\ HandInv(k)' /\ (edges \subseteq Steps)'
<1>0. TypeOK /\ TypeOK' /\ HandInv(k) /\ edges \subseteq Steps /\ Alone(k)'
  BY TypeStep, AloneStep DEF StepInv
<1>t. read \in Nat /\ call[k] \in Call
  BY <1>0, LogType DEF TypeOK
<1> SUFFICES Rest
  BY <1>0 DEF StepInv
<1> USE DEF HandInv
<1>1. CASE ReadLine(k)
  <2>1. call'[k] = [stage |-> "parsed", line |-> read', edges |-> {}]
    BY <1>0, <1>1 DEF ReadLine, Idle, TypeOK
  <2>2. Linked(k)' = Linked(k)
    BY <1>1, <1>t, <2>1 DEF ReadLine, Linked, Idle
  <2>3. LastInv(k)'
    BY <1>1, <2>2, SameLast DEF ReadLine
  <2>4. log' = log /\ edges' = edges
    BY <1>1 DEF ReadLine, store
  <2>5. HandInv(k)'
    BY <2>1
  <2> QED BY <1>0, <2>3, <2>4, <2>5, SameSteps
<1>2. CASE Link(k)
  <2>1. /\ call'[k].stage = "linked"
        /\ call'[k].edges = EdgesFrom(last[event(k).workflow], event(k).id)
    BY <1>2, <1>t, <1>0 DEF Link, TypeOK, Call
  <2> QED BY <1>0, <1>2, <2>1, LinkIsStep, LinkKeepsLast, SameSteps DEF Link, store
<1>3. CASE LinkNothing(k)
  <2>1. call'[k].stage = "linked" /\ call'[k].edges = call[k].edges
    BY <1>3, <1>t, <1>0 DEF LinkNothing, TypeOK, Call
  <2>2. LastInv(k)'
    <3>1. log' = log /\ last' = last /\ read' = read /\ call[k].line = read /\ read \in Lines
      BY <1>0, <1>3, LogType DEF LinkNothing, TypeOK, Lines
    <3>2. Linked(k) = read - 1 /\ Linked(k)' = read
      BY <1>3, <2>1, <3>1 DEF LinkNothing, Linked
    <3>3. \A v \in Workflows : ~Of(read, v)
      BY <1>3, <3>1 DEF LinkNothing, Of, event
    <3> SUFFICES ASSUME NEW v \in Workflows, last[v] # None
                 PROVE  \E i \in Lines : LastOf(i, read, v) /\ log[i].id = last[v]
      BY <3>1, <3>2 DEF LastInv, LastOf, Of, Lines
    <3>4. PICK i \in Lines : LastOf(i, read - 1, v) /\ log[i].id = last[v]
      BY <3>2 DEF StepInv, LastInv
    <3>5. LastOf(i, read, v)
      BY <1>t, <3>3, <3>4 DEF LastOf
    <3> QED BY <3>4, <3>5
  <2> QED BY <1>0, <1>3, <2>1, <2>2, SameSteps DEF LinkNothing, store
<1>4. ASSUME call[k].stage = "linked", Return(k),
             UNCHANGED <<log, read, last>>, edges' \subseteq edges \cup call[k].edges
      PROVE  Rest
  <2>1. call'[k] = Idle
    BY <1>0, <1>4 DEF Return, TypeOK
  <2>2. Linked(k)' = Linked(k)
    BY <1>4, <2>1 DEF Linked, Idle
  <2>3. LastInv(k)'
    BY <1>4, <2>2, SameLast
  <2> QED BY <1>0, <1>4, <2>1, <2>3, SameSteps DEF Idle
<1>5. CASE Remember(k)
  BY <1>4, <1>5 DEF Remember
<1>6. CASE RememberFails(k)
  BY <1>4, <1>6 DEF RememberFails
<1>7. CASE Restart
  <2>1. call'[k] = Idle /\ last' = [w \in Workflows |-> None] /\ edges' = edges /\ log' = log
    BY <1>7 DEF Restart, store
  <2> QED BY <1>0, <2>1, SameSteps DEF Idle, LastInv
<1>8. CASE UNCHANGED vars
  <2>1. UNCHANGED <<log, last, call, edges, read>>
    BY <1>8 DEF vars, store
  <2>2. LastInv(k)'
    BY <2>1, SameLast DEF Linked
  <2> QED BY <1>0, <2>1, <2>2, SameSteps
<1> QED BY <1>1, <1>2, <1>3, <1>5, <1>6, <1>7, <1>8, OnlyOne

\* The edges that the command stores are steps of its file, whatever fails and
\* however often the process starts again.
THEOREM EdgesFollowTheFile == Spec => []EdgesAreSteps
<1> DEFINE Inv == TypeOK /\ \A k \in Workers : crew = {k} => StepInv(k)
<1>1. Init => Inv
  BY TypeInit DEF Init, StepInv, Alone, LastInv, HandInv, Idle
<1>2. Inv /\ [Next]_vars => Inv'
  <2> SUFFICES ASSUME Inv, [Next]_vars, NEW k \in Workers, crew' = {k}
               PROVE  StepInv(k)'
    BY TypeStep
  <2>1. crew = {k}
    BY CrewStays
  <2> QED BY <2>1, StepStep
<1>3. Inv => EdgesAreSteps
  BY DEF EdgesAreSteps, IsCommand, StepInv
<1> QED BY <1>1, <1>2, <1>3, PTL DEF Spec

-----------------------------------------------------------------------------
\* What the map names is stored, has failed, or is in the hands of the worker.
KnownInv(k) ==
  /\ \A w \in Workflows : last[w] # None =>
       \/ last[w] \in nodes \cup failed
       \/ call[k].stage = "linked" /\ last[w] = event(k).id
  /\ \A e \in call[k].edges :
       e.source \in nodes \cup failed /\ e.target = event(k).id

DanglingInv(k) ==
  KnownInv(k) /\ \A e \in edges : {e.source, e.target} \subseteq nodes \cup failed

LEMMA DanglingStep ==
  ASSUME NEW k \in Workers, StepInv(k), DanglingInv(k), [Next]_vars
  PROVE  DanglingInv(k)'
<1>0. TypeOK /\ HandInv(k) /\ call[k] \in Call
  BY DEF StepInv, TypeOK
<1> USE DEF KnownInv, DanglingInv
<1>1. CASE ReadLine(k)
  <2>1. call'[k].edges = {} /\ call[k].stage # "linked"
    BY <1>0, <1>1 DEF ReadLine, Idle, TypeOK
  <2>2. UNCHANGED <<last, nodes, edges, failed>>
    BY <1>1 DEF ReadLine, store
  <2> QED BY <2>1, <2>2
<1>2. CASE Link(k)
  <2>1. UNCHANGED <<nodes, edges, failed, log>>
    BY <1>2 DEF Link, store
  <2>2. /\ call'[k].stage = "linked" /\ call'[k].line = call[k].line
        /\ call'[k].edges = EdgesFrom(last[event(k).workflow], event(k).id)
    BY <1>0, <1>2 DEF Link, TypeOK, Call
  <2>3. event(k)' = event(k)
    BY <2>1, <2>2 DEF event
  <2>4. \A w \in Workflows :
          last'[w] = IF w = event(k).workflow THEN event(k).id ELSE last[w]
    BY <1>0, <1>2 DEF Link, TypeOK
  <2>5. call[k].stage = "parsed" /\ event(k).workflow \in Workflows
    BY <1>0, <1>2, EventType DEF Link
  <2> QED BY <2>1, <2>2, <2>3, <2>4, <2>5 DEF EdgesFrom
<1>3. CASE LinkNothing(k)
  <2>1. UNCHANGED <<last, nodes, edges, failed, log>>
    BY <1>3 DEF LinkNothing, store
  <2>2. /\ call[k].stage = "parsed"
        /\ call'[k].edges = call[k].edges /\ call[k].edges = {}
    BY <1>0, <1>3 DEF LinkNothing, TypeOK, Call, HandInv
  <2> QED BY <2>1, <2>2
<1>4. ASSUME call[k].stage = "linked", Return(k), UNCHANGED <<log, last>>,
             nodes \subseteq nodes', failed \subseteq failed',
             event(k).id \in nodes' \cup failed',
             edges' \subseteq edges \cup call[k].edges
      PROVE  DanglingInv(k)'
  <2>1. call'[k] = Idle
    BY <1>0, <1>4 DEF Return, TypeOK
  <2> QED BY <1>4, <2>1 DEF Idle
<1>5. CASE Remember(k)
  BY <1>4, <1>5 DEF Remember
<1>6. CASE RememberFails(k)
  BY <1>4, <1>6 DEF RememberFails
<1>7. CASE Restart
  BY <1>7 DEF Restart, store, Idle
<1>8. CASE UNCHANGED vars
  BY <1>8 DEF vars, store, event
<1> QED BY <1>1, <1>2, <1>3, <1>5, <1>6, <1>7, <1>8, OnlyOne

\* An edge of the command lacks an end only if storing that event failed.
THEOREM DanglingEdgesFailed == Spec => []DanglingMeansFailed
<1> DEFINE Inv == TypeOK /\ \A k \in Workers : crew = {k} => StepInv(k) /\ DanglingInv(k)
<1>1. Init => Inv
  BY TypeInit DEF Init, StepInv, Alone, LastInv, HandInv, Idle, DanglingInv, KnownInv
<1>2. Inv /\ [Next]_vars => Inv'
  <2> SUFFICES ASSUME Inv, [Next]_vars, NEW k \in Workers, crew' = {k}
               PROVE  StepInv(k)' /\ DanglingInv(k)'
    BY TypeStep
  <2>1. crew = {k}
    BY CrewStays
  <2> QED BY <2>1, StepStep, DanglingStep
<1>3. Inv => DanglingMeansFailed
  BY DEF DanglingMeansFailed, IsCommand, DanglingInv
<1> QED BY <1>1, <1>2, <1>3, PTL DEF Spec

-----------------------------------------------------------------------------
(* What the command leaves in the store when nothing fails.                *)

\* The lines that the command is done with, when k is its worker.
Stored(k) == IF call[k].stage = "idle" THEN read ELSE read - 1

\* Every workflow that a line has gone through the mutex for is in the map; the
\* lines done with are stored, and the steps that led to a line past the mutex
\* are too, but for one in hand.  A restart keeps what is stored.
CompleteInv(k) ==
  /\ call[k].stage # "idle" => call[k].line = read
  /\ \A w \in Workflows : \A i \in 1..Linked(k) : Of(i, w) => last[w] # None
  /\ nodes \subseteq {log[i].id : i \in Lines}
  /\ failed = {} =>
       /\ \A i \in 1..Stored(k) : log[i].id \in nodes
       /\ \A i, j \in 1..Linked(k) : NextOf(i, j) /\ log[i].id # log[j].id =>
            [source |-> log[i].id, target |-> log[j].id] \in edges \cup call[k].edges

\* Where the counts of a worker stand.
LEMMA Counters ==
  ASSUME NEW k \in Workers, StepInv(k)
  PROVE  /\ read \in Nat /\ Len(log) \in Nat /\ read <= Len(log)
         /\ Linked(k) \in Int /\ Stored(k) \in Int
         /\ Linked(k) <= read /\ Stored(k) <= Linked(k)
         /\ call[k].stage \in {"idle", "parsed", "linked"}
         /\ call[k].stage = "parsed" => read \in Lines /\ call[k].line = read
<1>1. /\ TypeOK /\ call[k] \in Call /\ read \in Nat /\ Len(log) \in Nat
      /\ read <= Len(log)
  BY LogType DEF StepInv, TypeOK
<1>2. call[k].stage \in {"idle", "parsed", "linked"}
  BY <1>1 DEF Call
<1>3. call[k].stage = "parsed" => read \in Lines /\ call[k].line = read
  BY <1>1 DEF StepInv, HandInv, TypeOK, Lines
<1> QED BY <1>1, <1>2, <1>3 DEF Linked, Stored

\* The line before a line in hand that goes through the mutex is the one whose
\* event the map names.
LEMMA LinkMakesStep ==
  ASSUME NEW k \in Workers, StepInv(k), CompleteInv(k), Link(k),
         NEW i \in 1..read - 1, NextOf(i, read), log[i].id # log[read].id
  PROVE  [source |-> log[i].id, target |-> log[read].id]
           \in EdgesFrom(last[event(k).workflow], event(k).id)
<1> DEFINE w == event(k).workflow
<1>1. /\ TypeOK /\ call[k].stage = "parsed" /\ call[k].line = read
      /\ read \in Lines /\ read \in Nat /\ Len(log) \in Nat
      /\ Linked(k) = read - 1
  BY Counters DEF Link, StepInv, Linked
<1>2. event(k) = log[read] /\ w \in Workflows /\ w # None
  BY <1>1, EventType DEF Link, event
<1>3. Of(i, w) /\ \A m \in Lines : i < m /\ m < read => ~Of(m, w)
  BY <1>2 DEF NextOf, Of
<1>4. last[w] # None
  BY <1>1, <1>2, <1>3 DEF CompleteInv
<1>5. PICK j \in Lines : LastOf(j, read - 1, w) /\ log[j].id = last[w]
  BY <1>1, <1>2, <1>4 DEF StepInv, LastInv
<1>6. j = i
  <2>1. ~(i < j)
    BY <1>1, <1>3, <1>5 DEF LastOf, Lines
  <2>2. ~(j < i)
    BY <1>1, <1>3, <1>5 DEF LastOf, Lines
  <2> QED BY <1>1, <2>1, <2>2 DEF Lines
<1> QED BY <1>2, <1>4, <1>5, <1>6 DEF EdgesFrom

LEMMA SameOrder ==
  ASSUME log' = log
  PROVE  /\ Lines' = Lines
         /\ \A i, w : Of(i, w)' <=> Of(i, w)
         /\ \A i, j : NextOf(i, j)' <=> NextOf(i, j)
BY DEF NextOf, Of, Lines

LEMMA CompleteStep ==
  ASSUME NEW k \in Workers, StepInv(k), CompleteInv(k), [Next]_vars
  PROVE  CompleteInv(k)'
<1>0. /\ TypeOK /\ call[k] \in Call
      /\ call[k].stage = "parsed" => call[k].edges = {}
      /\ call[k].stage = "idle" => call[k] = Idle
  BY DEF StepInv, TypeOK, HandInv
<1>c. /\ read \in Nat /\ Len(log) \in Nat /\ read <= Len(log)
      /\ Linked(k) \in Int /\ Stored(k) \in Int
  BY Counters
\* A step that neither moves a line on nor stores one, or stores more.
<1>a. ASSUME log' = log, last' = last, Linked(k)' = Linked(k), Stored(k)' = Stored(k),
             nodes' = nodes, edges \cup call[k].edges \subseteq edges' \cup call'[k].edges,
             failed' = {} => failed = {},
             call'[k].stage # "idle" => call'[k].line = read'
      PROVE  CompleteInv(k)'
  BY <1>a, SameOrder DEF CompleteInv
<1>1. CASE ReadLine(k)
  <2>1. call'[k] = [stage |-> "parsed", line |-> read', edges |-> {}] /\ call[k] = Idle
    BY <1>0, <1>1 DEF ReadLine, Idle, TypeOK
  <2>2. Linked(k)' = Linked(k) /\ Stored(k)' = Stored(k)
    BY <1>1, <1>c, <2>1 DEF ReadLine, Linked, Stored, Idle
  <2>3. UNCHANGED <<log, last, nodes, edges, failed>> /\ call[k].edges = {}
    BY <1>1, <2>1 DEF ReadLine, store, Idle
  <2> QED BY <1>a, <2>1, <2>2, <2>3
<1>2. CASE Link(k)
  <2>1. UNCHANGED <<log, read, nodes, edges, failed>>
    BY <1>2 DEF Link, store
  <2>2. /\ call'[k].stage = "linked"
        /\ call'[k].edges = EdgesFrom(last[event(k).workflow], event(k).id)
        /\ call[k].stage = "parsed" /\ call[k].line = read /\ call[k].edges = {}
        /\ call'[k].line = read
    BY <1>0, <1>2, Counters DEF Link, TypeOK, Call
  <2>3. Linked(k) = read - 1 /\ Linked(k)' = read /\ Stored(k)' = Stored(k)
    BY <2>1, <2>2 DEF Linked, Stored
  <2>4. ASSUME NEW w \in Workflows, NEW i \in 1..read, Of(i, w) PROVE last'[w] # None
    <3>1. last'[w] = IF w = event(k).workflow THEN event(k).id ELSE last[w]
      BY <1>0, <1>2 DEF Link, TypeOK
    <3>2. CASE w = event(k).workflow
      BY <1>0, <2>2, <3>1, <3>2, EventType
    <3>3. CASE w # event(k).workflow
      <4>1. i # read
        BY <2>2, <2>4, <3>3 DEF Of, event
      <4> QED BY <1>c, <2>3, <2>4, <3>1, <3>3, <4>1 DEF CompleteInv
    <3> QED BY <3>2, <3>3
  <2>5. ASSUME failed = {}, NEW i \in 1..read, NEW j \in 1..read,
               NextOf(i, j), log[i].id # log[j].id
        PROVE  [source |-> log[i].id, target |-> log[j].id] \in edges \cup call'[k].edges
    <3>1. i < j
      BY <2>5 DEF NextOf
    <3>2. CASE j = read
      <4>1. i \in 1..read - 1
        BY <1>c, <3>1, <3>2
      <4> QED BY <1>2, <2>2, <2>5, <3>2, <4>1, LinkMakesStep
    <3>3. CASE j # read
      <4>1. i \in 1..Linked(k) /\ j \in 1..Linked(k)
        BY <1>c, <2>3, <3>1, <3>3
      <4> QED BY <2>2, <2>5, <4>1 DEF CompleteInv
    <3> QED BY <3>2, <3>3
  <2>6. nodes \subseteq {log[i].id : i \in Lines}
        /\ (failed = {} => \A i \in 1..Stored(k) : log[i].id \in nodes)
    BY DEF CompleteInv
  <2> QED BY <2>1, <2>2, <2>3, <2>4, <2>5, <2>6, SameOrder DEF CompleteInv
<1>3. CASE LinkNothing(k)
  <2>1. UNCHANGED <<log, read, last, nodes, edges, failed>>
    BY <1>3 DEF LinkNothing, store
  <2>2. /\ call'[k].stage = "linked" /\ call'[k].edges = call[k].edges
        /\ call[k].stage = "parsed" /\ call[k].line = read /\ call'[k].line = read
    BY <1>0, <1>3, Counters DEF LinkNothing, TypeOK, Call
  <2>3. Linked(k) = read - 1 /\ Linked(k)' = read /\ Stored(k)' = Stored(k)
    BY <2>1, <2>2 DEF Linked, Stored
  <2>4. log[read].workflow = None
    BY <1>3, <2>2 DEF LinkNothing, event
  <2>5. ASSUME NEW w \in Workflows, NEW i \in 1..read, Of(i, w) PROVE last[w] # None
    <3>1. i # read
      BY <2>4, <2>5 DEF Of
    <3> QED BY <1>c, <2>3, <2>5, <3>1 DEF CompleteInv
  <2>6. ASSUME failed = {}, NEW i \in 1..read, NEW j \in 1..read,
               NextOf(i, j), log[i].id # log[j].id
        PROVE  [source |-> log[i].id, target |-> log[j].id] \in edges \cup call[k].edges
    <3>1. i < j /\ j # read
      BY <2>4, <2>6 DEF NextOf, Of
    <3>2. i \in 1..Linked(k) /\ j \in 1..Linked(k)
      BY <1>c, <2>3, <3>1
    <3> QED BY <2>6, <3>2 DEF CompleteInv
  <2>7. nodes \subseteq {log[i].id : i \in Lines}
        /\ (failed = {} => \A i \in 1..Stored(k) : log[i].id \in nodes)
    BY DEF CompleteInv
  <2> QED BY <2>1, <2>2, <2>3, <2>5, <2>6, <2>7, SameOrder DEF CompleteInv
<1>4. ASSUME call[k].stage = "linked", Return(k), UNCHANGED <<log, read, last>>,
             nodes' \subseteq nodes \cup {event(k).id},
             failed' = {} => /\ failed = {} /\ nodes' = nodes \cup {event(k).id}
                             /\ edges' = edges \cup call[k].edges
      PROVE  CompleteInv(k)'
  <2>1. call'[k] = Idle
    BY <1>0, <1>4 DEF Return, TypeOK
  <2>2. Linked(k) = read /\ Linked(k)' = read /\ Stored(k) = read - 1 /\ Stored(k)' = read
    BY <1>4, <2>1 DEF Linked, Stored, Idle
  <2>3. call[k].line \in Lines
    BY <1>0, <1>4, <1>c DEF TypeOK, Lines
  <2>4. nodes' \subseteq {log[i].id : i \in Lines}
    BY <1>4, <2>3 DEF CompleteInv, event
  <2>5. failed' = {} => \A i \in 1..read : log[i].id \in nodes'
    <3>1. call[k].line = read
      BY <1>4 DEF CompleteInv
    <3>2. \A i \in 1..read : i = read \/ i \in 1..Stored(k)
      BY <1>c, <2>2
    <3> QED BY <1>4, <3>1, <3>2 DEF CompleteInv, event
  <2>6. failed' = {} => \A i, j \in 1..Linked(k) : NextOf(i, j) /\ log[i].id # log[j].id =>
          [source |-> log[i].id, target |-> log[j].id] \in edges'
    BY <1>4 DEF CompleteInv
  <2>7. \A w \in Workflows : \A i \in 1..Linked(k) : Of(i, w) => last[w] # None
    BY DEF CompleteInv
  <2>8. call'[k].stage = "idle"
    BY <2>1 DEF Idle
  <2> QED BY <1>4, <2>2, <2>4, <2>5, <2>6, <2>7, <2>8, SameOrder DEF CompleteInv
<1>5. CASE Remember(k)
  BY <1>4, <1>5 DEF Remember
<1>6. CASE RememberFails(k)
  <2>1. failed' # {} /\ nodes' \subseteq nodes \cup {event(k).id}
    BY <1>6 DEF RememberFails
  <2> QED BY <1>4, <1>6, <2>1 DEF RememberFails
<1>7. CASE Restart
  <2>1. /\ read' = 0 /\ call'[k] = Idle
        /\ UNCHANGED <<log, nodes, edges, failed>>
    BY <1>7 DEF Restart, store
  <2>2. Linked(k)' = 0 /\ Stored(k)' = 0
    BY <2>1 DEF Linked, Stored, Idle
  <2>3. \A i \in 1..0 : FALSE
    OBVIOUS
  <2>4. nodes' \subseteq {log'[i].id : i \in Lines'}
    BY <2>1, SameOrder DEF CompleteInv
  <2>5. call'[k].stage = "idle"
    BY <2>1 DEF Idle
  <2> QED BY <2>2, <2>3, <2>4, <2>5 DEF CompleteInv
<1>8. CASE UNCHANGED vars
  <2>1. UNCHANGED <<log, last, call, nodes, edges, failed, read>>
    BY <1>8 DEF vars, store
  <2>2. Linked(k)' = Linked(k) /\ Stored(k)' = Stored(k)
    BY <2>1 DEF Linked, Stored
  <2>3. call[k].stage # "idle" => call[k].line = read
    BY DEF CompleteInv
  <2> QED BY <1>a, <2>1, <2>2, <2>3
<1> QED BY <1>1, <1>2, <1>3, <1>5, <1>6, <1>7, <1>8, OnlyOne

LEMMA CompleteAtEnd ==
  ASSUME NEW k \in Workers, StepInv(k), CompleteInv(k), AtEnd, failed = {}
  PROVE  nodes = {log[i].id : i \in Lines} /\ edges = Steps
<1>1. call[k] = Idle /\ read = Len(log) /\ TypeOK
  BY DEF AtEnd, StepInv
<1>2. Stored(k) = Len(log) /\ Linked(k) = Len(log) /\ call[k].edges = {}
  BY <1>1 DEF Stored, Linked, Idle
<1>3. nodes = {log[i].id : i \in Lines}
  BY <1>2 DEF CompleteInv, Lines
<1>4. ASSUME NEW e \in Steps PROVE e \in edges
  <2>1. PICK i \in Lines, j \in Lines : NextOf(i, j) /\ e.source = log[i].id /\ e.target = log[j].id
    BY DEF Steps
  <2>2. e.source # e.target /\ e = [source |-> e.source, target |-> e.target]
    BY DEF Steps, Edge
  <2> QED BY <1>2, <2>1, <2>2 DEF CompleteInv, Lines
<1>5. edges \subseteq Steps
  BY DEF StepInv
<1> QED BY <1>3, <1>4, <1>5

\* A command that was never refused has stored its whole file, however often it
\* started again on the way.
THEOREM CommandStoresItsFile == Spec => []StoreIsTheLog
<1> DEFINE Inv == TypeOK /\ \A k \in Workers : crew = {k} => StepInv(k) /\ CompleteInv(k)
<1>1. Init => Inv
  <2> SUFFICES ASSUME Init, NEW k \in Workers, crew = {k} PROVE StepInv(k) /\ CompleteInv(k)
    BY TypeInit
  <2>1. StepInv(k)
    BY TypeInit DEF Init, StepInv, Alone, LastInv, HandInv, Idle
  <2>2. call[k] = Idle /\ read = 0 /\ Linked(k) = 0 /\ Stored(k) = 0 /\ nodes = {}
    BY DEF Init, Linked, Stored, Idle
  <2>3. \A i \in 1..0 : FALSE
    OBVIOUS
  <2>4. CompleteInv(k)
    BY <2>2, <2>3 DEF CompleteInv, Idle
  <2> QED BY <2>1, <2>4
<1>2. Inv /\ [Next]_vars => Inv'
  <2> SUFFICES ASSUME Inv, [Next]_vars, NEW k \in Workers, crew' = {k}
               PROVE  StepInv(k)' /\ CompleteInv(k)'
    BY TypeStep
  <2>1. crew = {k}
    BY CrewStays
  <2> QED BY <2>1, StepStep, CompleteStep
<1>3. Inv => StoreIsTheLog
  BY CompleteAtEnd DEF StoreIsTheLog, IsCommand
<1> QED BY <1>1, <1>2, <1>3, PTL DEF Spec

-----------------------------------------------------------------------------
(* Workers that overtake one another.                                      *)

\* The edges stored and in the hands of the workers.
InPlay == {e \in Edge : e \in edges \/ \E k \in Workers : e \in call[k].edges}

\* Line i has gone through the mutex.
Past(i) == i \in 1..read /\ \A k \in Workers : call[k].stage = "parsed" => call[k].line # i

PastIds(w) == {log[i].id : i \in {m \in Lines : Past(m) /\ Of(m, w)}}

\* No two workers have the same line, and a parsed one has no edges yet.
HandsInv ==
  /\ \A j, k \in Workers :
       call[j].stage # "idle" /\ call[k].stage # "idle" /\ call[j].line = call[k].line => j = k
  /\ \A k \in Workers : /\ call[k].stage = "parsed" => call[k].edges = {}
                        /\ call[k].stage = "idle" => call[k] = Idle

\* The map names events past the mutex, each of its workflow.
MapInv ==
  \A w \in Workflows : last[w] # None => last[w] \in PastIds(w)

\* So do the edges, which form no fork; an event that the map names has no
\* successor yet.
ForkInv ==
  /\ \A e \in InPlay :
       /\ \E i \in Lines : Past(i) /\ log[i].id = e.source
       /\ \E i \in Lines : Past(i) /\ log[i].id = e.target
       /\ \A w \in Workflows : last[w] # e.source
  /\ \A e, f \in InPlay : e.source = f.source \/ e.target = f.target => e = f

OnceInLog == \A i, j \in Lines : log[i].id = log[j].id => i = j

CrewInv == TypeOK /\ OnceInLog /\ HandsInv /\ MapInv /\ ForkInv

LEMMA PastInLines ==
  ASSUME TypeOK
  PROVE  \A i : Past(i) => i \in Lines
BY LogType DEF TypeOK, Past, Lines

\* What a step does to the lines in hand.
LEMMA HandsStep ==
  ASSUME TypeOK, HandsInv, ~IsCommand, [Next]_vars
  PROVE  HandsInv'
<1>0. call \in [Workers -> Call] /\ read \in Nat /\ Len(log) \in Nat
  BY LogType DEF TypeOK
<1>1. ASSUME NEW k \in Workers, ReadLine(k) PROVE HandsInv'
  <2>1. /\ call'[k] = [stage |-> "parsed", line |-> read + 1, edges |-> {}]
        /\ \A j \in Workers \ {k} : call'[j] = call[j]
    BY <1>0, <1>1 DEF ReadLine, Idle
  <2>2. \A j \in Workers : call[j].stage # "idle" => call[j].line # read + 1
    BY <1>0 DEF TypeOK
  <2> QED BY <2>1, <2>2 DEF HandsInv
<1>2. ASSUME NEW k \in Workers, Link(k) \/ LinkNothing(k) PROVE HandsInv'
  <2>1. /\ call'[k].stage = "linked" /\ call'[k].line = call[k].line
        /\ call[k].stage = "parsed"
        /\ \A j \in Workers \ {k} : call'[j] = call[j]
    BY <1>0, <1>2 DEF Link, LinkNothing, Call
  <2> QED BY <2>1 DEF HandsInv
<1>3. ASSUME NEW k \in Workers, Remember(k) \/ RememberFails(k) PROVE HandsInv'
  <2>1. call'[k] = Idle /\ \A j \in Workers \ {k} : call'[j] = call[j]
    BY <1>0, <1>3 DEF Remember, RememberFails, Return
  <2> QED BY <2>1 DEF HandsInv, Idle
<1>4. CASE UNCHANGED vars
  BY <1>4 DEF vars, HandsInv
<1> QED BY <1>1, <1>2, <1>3, <1>4 DEF Next, Restart

\* Most steps let no line past the mutex and make no edge.
LEMMA QuietStep ==
  ASSUME TypeOK, HandsInv, NEW k \in Workers,
         ReadLine(k) \/ Remember(k) \/ RememberFails(k)
  PROVE  /\ UNCHANGED <<log, last>> /\ InPlay' \subseteq InPlay
         /\ \A i : Past(i)' <=> Past(i)
         /\ failed' = {} => failed = {} /\ InPlay' = InPlay
<1>0. call \in [Workers -> Call] /\ read \in Nat /\ Len(log) \in Nat
  BY LogType DEF TypeOK
<1>1. CASE ReadLine(k)
  <2>1. /\ call'[k] = [stage |-> "parsed", line |-> read + 1, edges |-> {}]
        /\ call[k] = Idle /\ \A j \in Workers \ {k} : call'[j] = call[j]
        /\ UNCHANGED <<log, last, edges, failed>> /\ read' = read + 1
    BY <1>0, <1>1 DEF ReadLine, Idle, store
  <2>2. InPlay' = InPlay
    BY <2>1 DEF InPlay, Idle
  <2>3. ASSUME NEW i PROVE Past(i)' <=> Past(i)
    <3>1. i \in 1..read' <=> i \in 1..read \/ i = read + 1
      BY <1>0, <2>1
    <3>2. read + 1 \notin 1..read
      BY <1>0
    <3>3. (\A j \in Workers : call'[j].stage = "parsed" => call'[j].line # i)
            <=> i # read + 1 /\ \A j \in Workers : call[j].stage = "parsed" => call[j].line # i
      BY <2>1 DEF Idle
    <3> QED BY <3>1, <3>2, <3>3 DEF Past
  <2> QED BY <2>1, <2>2, <2>3
<1>2. CASE Remember(k) \/ RememberFails(k)
  <2>1. /\ call'[k] = Idle /\ \A j \in Workers \ {k} : call'[j] = call[j]
        /\ UNCHANGED <<log, last, read>> /\ call[k].stage = "linked"
        /\ edges' \subseteq edges \cup call[k].edges
        /\ failed' = {} => failed = {} /\ edges' = edges \cup call[k].edges
    BY <1>0, <1>2 DEF Remember, RememberFails, Return
  <2>2. InPlay' \subseteq InPlay
    BY <2>1 DEF InPlay, Idle
  <2>3. failed' = {} => InPlay \subseteq InPlay'
    BY <2>1 DEF InPlay
  <2>4. \A i : Past(i)' <=> Past(i)
    BY <2>1 DEF Past, Idle
  <2> QED BY <2>1, <2>2, <2>3, <2>4
<1> QED BY <1>1, <1>2

\* Two steps let the line in hand past it.
LEMMA PassStep ==
  ASSUME TypeOK, HandsInv, NEW k \in Workers, Link(k) \/ LinkNothing(k)
  PROVE  /\ UNCHANGED <<log, failed>>
         /\ call[k].line \in Lines /\ ~Past(call[k].line)
         /\ event(k) = log[call[k].line]
         /\ \A i : Past(i)' <=> Past(i) \/ i = call[k].line
         /\ Link(k) => InPlay' = InPlay \cup EdgesFrom(last[event(k).workflow], event(k).id)
         /\ LinkNothing(k) => InPlay' = InPlay
<1>0. call \in [Workers -> Call] /\ read \in Nat /\ Len(log) \in Nat
  BY LogType DEF TypeOK
<1>1. /\ call'[k].stage = "linked" /\ call[k].stage = "parsed" /\ call[k].edges = {}
      /\ \A j \in Workers \ {k} : call'[j] = call[j]
      /\ UNCHANGED <<log, failed, edges, read>>
      /\ Link(k) => call'[k].edges = EdgesFrom(last[event(k).workflow], event(k).id)
      /\ LinkNothing(k) => call'[k].edges = {}
  BY <1>0 DEF Link, LinkNothing, Call, HandsInv, store
<1>2. call[k].line \in 1..read /\ call[k].line \in Lines
  BY <1>0, <1>1 DEF TypeOK, Lines
<1>3. ASSUME NEW i PROVE Past(i)' <=> Past(i) \/ i = call[k].line
  <2>1. CASE i = call[k].line
    BY <1>1, <1>2, <2>1 DEF Past, HandsInv
  <2>2. CASE i # call[k].line
    BY <1>1, <2>2 DEF Past
  <2> QED BY <2>1, <2>2
<1>4. Link(k) => EdgesFrom(last[event(k).workflow], event(k).id) \subseteq Edge
  <2> SUFFICES ASSUME Link(k) PROVE EdgesFrom(last[event(k).workflow], event(k).id) \subseteq Edge
    OBVIOUS
  <2>1. event(k).id \in EventIds /\ event(k).workflow \in Workflows
    BY <1>1, EventType DEF Link
  <2> QED BY <2>1 DEF EdgesFrom, TypeOK, Edge
<1>5. Link(k) => InPlay' = InPlay \cup EdgesFrom(last[event(k).workflow], event(k).id)
  <2> DEFINE new == EdgesFrom(last[event(k).workflow], event(k).id)
  <2> SUFFICES ASSUME Link(k) PROVE InPlay' = InPlay \cup new
    OBVIOUS
  <2>1. new \subseteq Edge /\ call'[k].edges = new
    BY <1>1, <1>4
  <2> HIDE DEF new
  <2> QED BY <1>1, <2>1 DEF InPlay
<1>6. LinkNothing(k) => InPlay' = InPlay
  BY <1>1 DEF InPlay
<1>7. ~Past(call[k].line)
  BY <1>1 DEF Past
<1> QED BY <1>1, <1>2, <1>3, <1>5, <1>6, <1>7 DEF event

LEMMA PastIdsOf ==
  ASSUME TypeOK, NEW w
  PROVE  \A id : id \in PastIds(w) <=> \E i \in Lines : Past(i) /\ Of(i, w) /\ log[i].id = id
BY DEF PastIds

\* The event in hand is not yet known, to the map or to any edge.
LEMMA InHandIsNew ==
  ASSUME CrewInv, NEW k \in Workers, Link(k)
  PROVE  /\ \A w : event(k).id \notin PastIds(w)
         /\ \A w \in Workflows : last[w] # event(k).id
         /\ \A e \in InPlay : e.source # event(k).id /\ e.target # event(k).id
<1>1. /\ call[k].line \in Lines /\ ~Past(call[k].line)
      /\ event(k) = log[call[k].line]
  BY PassStep DEF CrewInv
<1>2. \A i \in Lines : Past(i) => log[i].id # event(k).id
  BY <1>1 DEF CrewInv, OnceInLog
<1>3. \A w : event(k).id \notin PastIds(w)
  BY <1>2 DEF PastIds
<1>4. \A w \in Workflows : last[w] # event(k).id
  <2>1. event(k).id # None
    BY EventType DEF CrewInv, Link
  <2> QED BY <1>3, <2>1 DEF CrewInv, MapInv
<1> QED BY <1>2, <1>3, <1>4 DEF CrewInv, ForkInv

\* An event is of one workflow.
LEMMA OneWorkflow ==
  ASSUME CrewInv, NEW v, NEW w, NEW id, id \in PastIds(v), id \in PastIds(w)
  PROVE  v = w
<1>1. PICK i \in Lines : Of(i, v) /\ log[i].id = id
  BY DEF PastIds
<1>2. PICK j \in Lines : Of(j, w) /\ log[j].id = id
  BY DEF PastIds
<1> QED BY <1>1, <1>2 DEF CrewInv, OnceInLog, Of

\* The only step that makes an edge, and moves the map on.
LEMMA LinkStep ==
  ASSUME CrewInv, NEW k \in Workers, Link(k)
  PROVE  MapInv' /\ ForkInv'
<1>0. PICK u, id, line, new :
        /\ u = event(k).workflow /\ id = event(k).id /\ line = call[k].line
        /\ new = EdgesFrom(last[u], id)
  OBVIOUS
<1>1. /\ UNCHANGED log /\ line \in Lines /\ event(k) = log[line]
      /\ \A i : Past(i)' <=> Past(i) \/ i = line
      /\ InPlay' = InPlay \cup new
  BY <1>0, PassStep DEF CrewInv
<1>2. Lines' = Lines /\ \A i, w : Of(i, w)' <=> Of(i, w)
  BY <1>1, SameOrder
<1>3. id \in EventIds /\ u \in Workflows /\ Of(line, u) /\ log[line].id = id
  BY <1>0, <1>1, EventType DEF CrewInv, Link, Of
<1>4. \A w \in Workflows : last'[w] = IF w = u THEN id ELSE last[w]
  BY <1>0 DEF CrewInv, Link, TypeOK
<1>5. /\ \A w : id \notin PastIds(w)
      /\ \A w \in Workflows : last[w] # id
      /\ \A e \in InPlay : e.source # id /\ e.target # id
  BY <1>0, InHandIsNew
<1>6. \A w : PastIds(w) \subseteq PastIds(w)'
  BY <1>1, <1>2 DEF PastIds
<1>7. id \in PastIds(u)'
  BY <1>1, <1>2, <1>3 DEF PastIds
<1>8. MapInv'
  BY <1>4, <1>6, <1>7 DEF CrewInv, MapInv
<1>9. \A e \in new : e.source = last[u] /\ e.target = id /\ last[u] # None
  BY <1>0 DEF EdgesFrom
<1>10. ASSUME NEW e \in InPlay'
       PROVE  e \in InPlay \/ (e.source = last[u] /\ e.target = id /\ last[u] # None)
  <2>1. e \in InPlay \/ e \in new
    BY <1>1, Zenon
  <2> QED BY <1>9, <2>1, Zenon
<1>11. last[u] # None => /\ last[u] \in PastIds(u)
                         /\ \E i \in Lines : Past(i) /\ log[i].id = last[u]
  BY <1>3 DEF CrewInv, MapInv, PastIds
<1>12. ASSUME NEW w \in Workflows, last[w] # None, last[w] = last[u] PROVE w = u
  BY <1>3, <1>12, OneWorkflow DEF CrewInv, MapInv
<1>13. ASSUME NEW e \in InPlay'
       PROVE  /\ \E i \in Lines' : Past(i)' /\ log'[i].id = e.source
              /\ \E i \in Lines' : Past(i)' /\ log'[i].id = e.target
              /\ \A w \in Workflows : last'[w] # e.source
  <2>1. CASE e \in InPlay
    BY <1>1, <1>2, <1>4, <1>5, <2>1 DEF CrewInv, ForkInv
  <2>2. CASE e.source = last[u] /\ e.target = id /\ last[u] # None
    <3>1. \E i \in Lines' : Past(i)' /\ log'[i].id = e.source
      BY <1>1, <1>2, <1>11, <2>2
    <3>2. \E i \in Lines' : Past(i)' /\ log'[i].id = e.target
      BY <1>1, <1>2, <1>3, <2>2
    <3>3. \A w \in Workflows : last'[w] # e.source
      BY <1>3, <1>4, <1>5, <1>12, <2>2
    <3> QED BY <3>1, <3>2, <3>3
  <2> QED BY <1>10, <2>1, <2>2
<1>14. ASSUME NEW e \in InPlay', NEW f \in InPlay', e.source = f.source \/ e.target = f.target
       PROVE  e = f
  <2>1. CASE e \in InPlay /\ f \in InPlay
    BY <1>14, <2>1 DEF CrewInv, ForkInv
  <2>2. \A g \in InPlay : g.source # last[u] /\ g.target # id
    BY <1>3, <1>5 DEF CrewInv, ForkInv
  <2>3. e \in Edge /\ f \in Edge
    BY DEF InPlay
  <2>4. CASE e.source = last[u] /\ e.target = id /\ f.source = last[u] /\ f.target = id
    BY <2>3, <2>4 DEF Edge
  <2> QED BY <1>10, <1>14, <2>1, <2>2, <2>4
<1> QED BY <1>8, <1>13, <1>14 DEF ForkInv

LEMMA CrewStep ==
  ASSUME CrewInv, ~IsCommand, [Next]_vars
  PROVE  CrewInv' /\ ~IsCommand'
<1>1. ~IsCommand' /\ UNCHANGED log
  BY CrewStays DEF IsCommand, Next, ReadLine, Link, LinkNothing, Remember, RememberFails,
                   Restart, vars
<1>2. TypeOK' /\ HandsInv' /\ OnceInLog'
  BY <1>1, TypeStep, HandsStep DEF CrewInv, OnceInLog, Lines
<1>3. Lines' = Lines /\ \A i, w : Of(i, w)' <=> Of(i, w)
  BY <1>1, SameOrder
<1>4. ASSUME UNCHANGED last, InPlay' \subseteq InPlay, \A i : Past(i) => Past(i)'
      PROVE  MapInv' /\ ForkInv'
  <2>1. \A w : PastIds(w) \subseteq PastIds(w)'
    BY <1>1, <1>3, <1>4 DEF PastIds
  <2>2. MapInv'
    BY <1>4, <2>1 DEF CrewInv, MapInv
  <2>3. ForkInv'
    BY <1>1, <1>3, <1>4 DEF CrewInv, ForkInv
  <2> QED BY <2>2, <2>3
<1>5. ASSUME NEW k \in Workers, ReadLine(k) \/ Remember(k) \/ RememberFails(k)
      PROVE  MapInv' /\ ForkInv'
  BY <1>4, <1>5, QuietStep DEF CrewInv
<1>6. ASSUME NEW k \in Workers, LinkNothing(k) PROVE MapInv' /\ ForkInv'
  <2>1. UNCHANGED last
    BY <1>6 DEF LinkNothing
  <2> QED BY <1>4, <1>6, <2>1, PassStep DEF CrewInv
<1>7. ASSUME UNCHANGED vars PROVE MapInv' /\ ForkInv'
  <2>1. UNCHANGED <<last, call, edges, read>>
    BY <1>7 DEF vars, store
  <2>2. UNCHANGED last /\ InPlay' \subseteq InPlay
    BY <2>1 DEF InPlay
  <2>3. \A i : Past(i) => Past(i)'
    BY <2>1 DEF Past
  <2> QED BY <1>4, <2>2, <2>3
<1> QED BY <1>1, <1>2, <1>5, <1>6, <1>7, LinkStep DEF Next, Restart, CrewInv

LEMMA CrewInit ==
  ASSUME DistinctIds, Init, ~IsCommand
  PROVE  CrewInv
<1>1. TypeOK
  BY TypeInit
<1>2. OnceInLog
  BY DEF DistinctIds, Init, IsCommand, OnceInLog, Lines
<1>3. HandsInv /\ MapInv /\ InPlay = {}
  BY DEF Init, HandsInv, MapInv, InPlay, Idle
<1> QED BY <1>1, <1>2, <1>3 DEF CrewInv, ForkInv

\* However the workers overtake one another, no event has two successors or two
\* predecessors.
THEOREM WorkersDoNotFork ==
  ASSUME DistinctIds
  PROVE  Spec => []NoFork
<1> DEFINE Inv == TypeOK /\ (IsCommand \/ CrewInv)
<1>1. Init => Inv
  BY TypeInit, CrewInit
<1>2. Inv /\ [Next]_vars => Inv'
  <2>1. IsCommand /\ [Next]_vars => IsCommand'
    BY CrewStays DEF IsCommand
  <2> QED BY <2>1, TypeStep, CrewStep
<1>3. Inv => NoFork
  BY DEF NoFork, CrewInv, ForkInv, InPlay, TypeOK
<1> QED BY <1>1, <1>2, <1>3, PTL DEF Spec

-----------------------------------------------------------------------------
(* The chain that they make of a workflow.                                 *)

\* The first n members of s are the events of w past the mutex, in the order in
\* which they came by it: the map names the last of them, and the edges in play
\* join each to the next.
ChainedBy(s, n, w) ==
  /\ \A i, j \in 1..n : s[i] = s[j] => i = j
  /\ \A id : id \in PastIds(w) <=> \E i \in 1..n : s[i] = id
  /\ last[w] = IF n = 0 THEN None ELSE s[n]
  /\ \A e \in Edge : e \in InPlay /\ e.source \in PastIds(w) <=>
       \E i \in 1..n - 1 : e.source = s[i] /\ e.target = s[i + 1]

Orderings == [Nat -> EventIds \cup {None}]

ChainInv == failed = {} =>
  \A w \in Workflows : \E n \in Nat, s \in Orderings : ChainedBy(s, n, w)

LEMMA SameChain ==
  ASSUME NEW w, NEW s, NEW n, ChainedBy(s, n, w),
         last'[w] = last[w], PastIds(w)' = PastIds(w),
         \A e \in Edge : e.source \in PastIds(w) => (e \in InPlay' <=> e \in InPlay)
  PROVE  ChainedBy(s, n, w)'
BY DEF ChainedBy, Edge

\* The event that goes through the mutex becomes the last of its chain.
LEMMA LinkExtends ==
  ASSUME CrewInv, NEW k \in Workers, Link(k),
         NEW w \in Workflows, w = event(k).workflow,
         NEW n \in Nat, NEW s \in Orderings, ChainedBy(s, n, w)
  PROVE  \E t \in Orderings : ChainedBy(t, n + 1, w)'
<1>0. PICK id : id = event(k).id
  OBVIOUS
<1> DEFINE t == [s EXCEPT ![n + 1] = id]
<1>1. /\ id \in EventIds /\ last'[w] = id /\ last[w] # id
      /\ id \notin PastIds(w) /\ \A e \in InPlay : e.source # id
  BY <1>0, EventType, InHandIsNew DEF CrewInv, Link, TypeOK
<1>2. t \in Orderings /\ t[n + 1] = id /\ \A i \in 1..n : t[i] = s[i]
  BY <1>1 DEF Orderings
<1> HIDE DEF t
<1>3. /\ \A i, j \in 1..n : s[i] = s[j] => i = j
      /\ \A x : x \in PastIds(w) <=> \E i \in 1..n : s[i] = x
      /\ last[w] = IF n = 0 THEN None ELSE s[n]
      /\ \A e \in Edge : e \in InPlay /\ e.source \in PastIds(w) <=>
           \E i \in 1..n - 1 : e.source = s[i] /\ e.target = s[i + 1]
  BY DEF ChainedBy
<1>4. \A i \in 1..n + 1 : i \in 1..n \/ i = n + 1
  OBVIOUS
<1>5. PastIds(w)' = PastIds(w) \cup {id}
  <2>1. PICK line : /\ line \in Lines /\ Of(line, w) /\ log[line].id = id /\ UNCHANGED log
                    /\ \A i : Past(i)' <=> Past(i) \/ i = line
    BY <1>0, PassStep DEF CrewInv, Of
  <2>2. Lines' = Lines /\ \A i, v : Of(i, v)' <=> Of(i, v)
    BY <2>1, SameOrder
  <2> QED BY <2>1, <2>2 DEF PastIds
<1>6. InPlay' = InPlay \cup EdgesFrom(last[w], id)
  BY <1>0, PassStep DEF CrewInv
<1>7. \A i, j \in 1..n + 1 : t[i] = t[j] => i = j
  BY <1>1, <1>2, <1>3, <1>4
<1>8. \A x : x \in PastIds(w)' <=> \E i \in 1..n + 1 : t[i] = x
  <2>1. n + 1 \in 1..n + 1 /\ \A i \in 1..n : i \in 1..n + 1
    OBVIOUS
  <2> QED BY <1>2, <1>3, <1>4, <1>5, <2>1
<1>9. last'[w] = IF n + 1 = 0 THEN None ELSE t[n + 1]
  BY <1>1, <1>2
<1>10. ASSUME NEW e \in Edge
       PROVE  e \in InPlay' /\ e.source \in PastIds(w)' <=>
                \E i \in 1..(n + 1) - 1 : e.source = t[i] /\ e.target = t[i + 1]
  <2>1. e \in InPlay' /\ e.source \in PastIds(w)' <=>
          \/ e \in InPlay /\ e.source \in PastIds(w)
          \/ n # 0 /\ e.source = s[n] /\ e.target = id
    <3>1. e \in InPlay => e.source # id
      BY <1>1
    <3>2. e \in EdgesFrom(last[w], id) <=> n # 0 /\ e.source = s[n] /\ e.target = id
      <4>1. last[w] = None <=> n = 0
        <5>1. n # 0 => s[n] \in PastIds(w)
          BY <1>3
        <5>2. None \notin PastIds(w)
          BY LogType DEF PastIds, CrewInv, Event
        <5> QED BY <1>3, <5>1, <5>2
      <4>2. EdgesFrom(last[w], id) = IF n = 0 THEN {} ELSE {[source |-> s[n], target |-> id]}
        BY <1>1, <1>3, <4>1 DEF EdgesFrom
      <4>3. e = [source |-> s[n], target |-> id] <=> e.source = s[n] /\ e.target = id
        BY DEF Edge
      <4> QED BY <4>2, <4>3
    <3>3. n # 0 => s[n] \in PastIds(w)
      BY <1>3
    <3> QED BY <1>5, <1>6, <3>1, <3>2, <3>3
  <2>2. \A i \in 1..n - 1 : i \in 1..n /\ i + 1 \in 1..n
    OBVIOUS
  <2>3. (\E i \in 1..n : e.source = t[i] /\ e.target = t[i + 1]) <=>
          \/ \E i \in 1..n - 1 : e.source = s[i] /\ e.target = s[i + 1]
          \/ n # 0 /\ e.source = s[n] /\ e.target = id
    <3>1. \A i \in 1..n - 1 : t[i] = s[i] /\ t[i + 1] = s[i + 1]
      BY <1>2, <2>2
    <3>2. n # 0 => n \in 1..n /\ t[n] = s[n] /\ t[n + 1] = id
      BY <1>2
    <3>3. \A i \in 1..n : i \in 1..n - 1 \/ (i = n /\ n # 0)
      OBVIOUS
    <3> QED BY <2>2, <3>1, <3>2, <3>3
  <2>4. (n + 1) - 1 = n
    OBVIOUS
  <2> QED BY <1>3, <2>1, <2>3, <2>4
<1>11. ChainedBy(t, n + 1, w)'
  BY <1>7, <1>8, <1>9, <1>10 DEF ChainedBy
<1> QED BY <1>2, <1>11

LEMMA ChainStep ==
  ASSUME CrewInv, ChainInv, ~IsCommand, [Next]_vars
  PROVE  ChainInv'
<1> SUFFICES ASSUME failed' = {}, NEW w \in Workflows
             PROVE  \E n \in Nat, s \in Orderings : ChainedBy(s, n, w)'
  BY DEF ChainInv, Orderings
<1>1. ASSUME failed = {}, last'[w] = last[w], PastIds(w)' = PastIds(w),
             \A e \in Edge : e.source \in PastIds(w) => (e \in InPlay' <=> e \in InPlay)
      PROVE  \E n \in Nat, s \in Orderings : ChainedBy(s, n, w)'
  BY <1>1, SameChain DEF ChainInv
<1>2. ASSUME NEW k \in Workers, ReadLine(k) \/ Remember(k) \/ RememberFails(k)
      PROVE  \E n \in Nat, s \in Orderings : ChainedBy(s, n, w)'
  <2>1. /\ UNCHANGED <<log, last>> /\ failed = {} /\ InPlay' = InPlay
        /\ \A i : Past(i)' <=> Past(i)
    BY <1>2, QuietStep DEF CrewInv
  <2>2. PastIds(w)' = PastIds(w)
    BY <2>1, SameOrder DEF PastIds
  <2> QED BY <1>1, <2>1, <2>2
<1>3. ASSUME NEW k \in Workers, Link(k) \/ LinkNothing(k), event(k).workflow # w
      PROVE  \E n \in Nat, s \in Orderings : ChainedBy(s, n, w)'
  <2>1. /\ UNCHANGED <<log, failed>> /\ event(k) = log[call[k].line]
        /\ \A i : Past(i)' <=> Past(i) \/ i = call[k].line
    BY <1>3, PassStep DEF CrewInv
  <2>2. ~Of(call[k].line, w)
    BY <1>3, <2>1 DEF Of
  <2>3. PastIds(w)' = PastIds(w)
    BY <2>1, <2>2, SameOrder DEF PastIds
  <2>4. CASE LinkNothing(k)
    <3>1. InPlay' = InPlay /\ last' = last
      BY <2>4, PassStep DEF CrewInv, LinkNothing
    <3> QED BY <1>1, <2>1, <2>3, <3>1
  <2>5. CASE Link(k)
    <3>1. PICK v, id : /\ v = event(k).workflow /\ v \in Workflows
                       /\ InPlay' = InPlay \cup EdgesFrom(last[v], id)
      BY <2>5, PassStep, EventType DEF CrewInv, Link
    <3>2. last'[w] = last[w]
      BY <1>3, <2>5 DEF Link, CrewInv, TypeOK
    <3>3. \A e \in EdgesFrom(last[v], id) : e.source \in PastIds(v)
      BY <3>1 DEF EdgesFrom, CrewInv, MapInv
    <3>4. \A e \in EdgesFrom(last[v], id) : e.source \notin PastIds(w)
      BY <1>3, <3>1, <3>3, OneWorkflow
    <3>5. \A e \in Edge : e.source \in PastIds(w) => (e \in InPlay' <=> e \in InPlay)
      BY <3>1, <3>4
    <3> QED BY <1>1, <2>1, <2>3, <3>2, <3>5
  <2> QED BY <1>3, <2>4, <2>5
<1>4. ASSUME NEW k \in Workers, Link(k) \/ LinkNothing(k), event(k).workflow = w
      PROVE  \E n \in Nat, s \in Orderings : ChainedBy(s, n, w)'
  <2>1. Link(k) /\ failed = {}
    BY <1>4, PassStep DEF LinkNothing, CrewInv
  <2>2. PICK n \in Nat, s \in Orderings : ChainedBy(s, n, w)
    BY <2>1 DEF ChainInv
  <2>3. PICK t \in Orderings : ChainedBy(t, n + 1, w)'
    BY <1>4, <2>1, <2>2, LinkExtends
  <2>4. n + 1 \in Nat
    OBVIOUS
  <2> QED BY <2>3, <2>4
<1>5. ASSUME UNCHANGED vars
      PROVE  \E n \in Nat, s \in Orderings : ChainedBy(s, n, w)'
  <2>1. UNCHANGED <<log, last, call, edges, read, failed>>
    BY <1>5 DEF vars, store
  <2>2. InPlay' = InPlay /\ \A i : Past(i)' <=> Past(i)
    BY <2>1 DEF InPlay, Past
  <2>3. PastIds(w)' = PastIds(w)
    BY <2>1, <2>2, SameOrder DEF PastIds
  <2> QED BY <1>1, <2>1, <2>2, <2>3
<1> QED BY <1>2, <1>3, <1>4, <1>5 DEF Next, Restart

\* A chain has as many members as events, and no more than the file has lines.
LEMMA ChainLength ==
  ASSUME CrewInv, NEW w, NEW n \in Nat, NEW s \in Orderings, ChainedBy(s, n, w)
  PROVE  Cardinality(PastIds(w)) = n /\ n <= Len(log)
<1>1. /\ \A i, j \in 1..n : s[i] = s[j] => i = j
      /\ \A id : id \in PastIds(w) <=> \E i \in 1..n : s[i] = id
  BY DEF ChainedBy
<1> DEFINE f == [i \in 1..n |-> s[i]]
           g == [i \in 1..n |-> CHOOSE m \in Lines : log[m].id = s[i]]
<1>2. f \in [1..n -> PastIds(w)] /\ (\A i, j \in 1..n : f[i] = f[j] => i = j)
      /\ \A id \in PastIds(w) : \E i \in 1..n : f[i] = id
  BY <1>1
<1>3. f \in Bijection(1..n, PastIds(w))
  BY <1>2, Fun_IsBij
<1>4. Cardinality(PastIds(w)) = n
  <2>1. ExistsBijection(1..n, PastIds(w))
    BY <1>3 DEF ExistsBijection
  <2> QED BY <2>1, FS_CountingElements
<1>5. \A i \in 1..n : g[i] \in Lines /\ log[g[i]].id = s[i]
  <2> SUFFICES ASSUME NEW i \in 1..n PROVE g[i] \in Lines /\ log[g[i]].id = s[i]
    OBVIOUS
  <2>1. \E m \in Lines : log[m].id = s[i]
    BY <1>1 DEF PastIds
  <2> QED BY <2>1
<1>6. g \in [1..n -> Lines] /\ \A i, j \in 1..n : g[i] = g[j] => i = j
  <2>1. g = [i \in 1..n |-> g[i]]
    OBVIOUS
  <2> HIDE DEF g
  <2>2. g \in [1..n -> Lines]
    BY <1>5, <2>1
  <2> QED BY <1>1, <1>5, <2>2
<1>7. g \in Injection(1..n, Lines)
  BY <1>6, Fun_IsInj
<1>8. IsFiniteSet(Lines) /\ Cardinality(Lines) = Len(log) /\ Cardinality(1..n) = n
  <2>1. Len(log) \in Nat
    BY LogType DEF CrewInv
  <2>2. \A m \in Nat : IsFiniteSet(1..m) /\ Cardinality(1..m) = m
    <3> SUFFICES ASSUME NEW m \in Nat PROVE IsFiniteSet(1..m) /\ Cardinality(1..m) = m
      OBVIOUS
    <3> QED BY FS_Interval
  <2> QED BY <2>1, <2>2 DEF Lines
<1>9. Cardinality(1..n) <= Cardinality(Lines)
  BY <1>7, <1>8, FS_Injection
<1> QED BY <1>4, <1>8, <1>9

LEMMA ChainAtEnd ==
  ASSUME CrewInv, ChainInv, AtEnd, failed = {}, NEW w \in Workflows
  PROVE  LET ids == {log[i].id : i \in {m \in Lines : Of(m, w)}}
         IN  IsChain(ids, {e \in edges : e.source \in ids})
<1> DEFINE ids == {log[i].id : i \in {m \in Lines : Of(m, w)}}
           links == {e \in edges : e.source \in ids}
<1>1. PICK n \in Nat, s \in Orderings : ChainedBy(s, n, w)
  BY DEF ChainInv
<1>2. ids = PastIds(w)
  <2>1. \A i \in Lines : Past(i)
    BY DEF AtEnd, Past, Idle, Lines
  <2> QED BY <2>1 DEF PastIds
<1>3. InPlay = edges
  BY DEF InPlay, AtEnd, Idle, CrewInv, TypeOK
<1>4. Cardinality(ids) = n /\ n <= Len(log) /\ Len(log) \in Nat
  BY <1>1, <1>2, ChainLength, LogType DEF CrewInv
<1>5. /\ \A id : id \in ids <=> \E i \in 1..n : s[i] = id
      /\ \A e \in Edge : e \in links <=> \E i \in 1..n - 1 : e.source = s[i] /\ e.target = s[i + 1]
  BY <1>1, <1>2, <1>3 DEF ChainedBy
<1>6. ids \subseteq EventIds /\ links \subseteq Edge /\ \A i \in 1..Len(log) : log[i].id \in EventIds
  BY LogType DEF CrewInv, TypeOK, Event, Lines
<1> HIDE DEF ids, links
<1> DEFINE q == [i \in 1..Len(log) |-> IF i <= n THEN s[i] ELSE log[i].id]
<1>7. q \in [1..Len(log) -> EventIds] /\ \A i \in 1..n : q[i] = s[i]
  BY <1>4, <1>5, <1>6
<1> HIDE DEF q
<1>8. ids = {q[i] : i \in 1..n}
  BY <1>5, <1>7
<1>9. links = {[source |-> q[i], target |-> q[i + 1]] : i \in 1..n - 1}
  <2>1. \A i \in 1..n - 1 : q[i] = s[i] /\ q[i + 1] = s[i + 1] /\ s[i] \in EventIds /\ s[i + 1] \in EventIds
    <3>1. \A i \in 1..n - 1 : i \in 1..n /\ i + 1 \in 1..n
      OBVIOUS
    <3> QED BY <1>5, <1>6, <1>7, <3>1
  <2>2. ASSUME NEW e \in links
        PROVE  e \in {[source |-> q[i], target |-> q[i + 1]] : i \in 1..n - 1}
    <3>1. e \in Edge /\ e = [source |-> e.source, target |-> e.target]
      BY <1>6 DEF Edge
    <3> QED BY <1>5, <2>1, <3>1
  <2>3. ASSUME NEW i \in 1..n - 1 PROVE [source |-> q[i], target |-> q[i + 1]] \in links
    <3>1. [source |-> q[i], target |-> q[i + 1]] \in Edge
      BY <2>1 DEF Edge
    <3> QED BY <1>5, <2>1, <3>1
  <2> QED BY <2>2, <2>3
<1>10. IsChain(ids, links)
  BY <1>4, <1>7, <1>8, <1>9 DEF IsChain
<1> QED BY <1>10 DEF ids, links

\* If nothing failed, the workers have made one chain of each workflow, with all
\* its events, whatever the order they came in.
THEOREM WorkersChainEachWorkflow ==
  ASSUME DistinctIds
  PROVE  Spec => []WorkflowIsAChain
<1> DEFINE Inv == TypeOK /\ (IsCommand \/ (CrewInv /\ ChainInv))
<1>1. Init => Inv
  <2> SUFFICES ASSUME Init, ~IsCommand PROVE CrewInv /\ ChainInv
    BY TypeInit
  <2>1. CrewInv
    BY CrewInit
  <2> DEFINE s == [i \in Nat |-> None]
  <2>2. s \in Orderings /\ 0 \in Nat
    BY DEF Orderings
  <2>3. ASSUME NEW w \in Workflows PROVE ChainedBy(s, 0, w)
    <3>1. PastIds(w) = {} /\ last[w] = None
      BY DEF Init, PastIds, Past
    <3>2. \A i \in 1..0 : FALSE
      OBVIOUS
    <3>3. \A i \in 1..0 - 1 : FALSE
      OBVIOUS
    <3> QED BY <3>1, <3>2, <3>3 DEF ChainedBy
  <2> QED BY <2>1, <2>2, <2>3 DEF ChainInv
<1>2. Inv /\ [Next]_vars => Inv'
  <2>1. IsCommand /\ [Next]_vars => IsCommand'
    BY CrewStays DEF IsCommand
  <2> QED BY <2>1, TypeStep, CrewStep, ChainStep
<1>3. Inv => WorkflowIsAChain
  BY ChainAtEnd DEF WorkflowIsAChain
<1> QED BY <1>1, <1>2, <1>3, PTL DEF Spec
=============================================================================
