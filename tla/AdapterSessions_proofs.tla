------------------------ MODULE AdapterSessions_proofs ------------------------
(***************************************************************************)
(* Theorems about AdapterSessions: for any number of requests, engines and *)
(* memories, what the adapter acknowledged is stored and found again, and  *)
(* no engine gets lost.                                                    *)
(***************************************************************************)
EXTENDS AdapterSessions, TLAPS

USE AdapterAssumption DEF handles

\* a.mu is held exactly while an engine is being made, and there is none then.
MuInv == \A r \in Requests : call[r].stage = "opening" => amu = r /\ engine = None

\* a.engine is open.  A request's handle is a.engine or has been closed.
HandleInv ==
  /\ engine # None => engine \in isOpen
  /\ \A r \in Requests : call[r].stage = "using" =>
       /\ call[r].handle \in Engines
       /\ call[r].handle \in isOpen => call[r].handle = engine

\* The current engine knows what was acknowledged here.
LoadedInv == engine # None => acked.here \subseteq cache[engine]

\* The file lock: while the other process has the store, this one has not, and
\* an engine that has it knows everything.
FileLockInv ==
  exclusive =>
    /\ other => isOpen \cup leaked = {}
    /\ engine # None => acked.elsewhere \subseteq cache[engine]

AdapterInv ==
  /\ TypeOK /\ MuInv /\ HandleInv /\ AckedReachStore
  /\ LoadedInv /\ ReadsOwnWrites

\* Handles, memories and requests keep their types.
LEMMA TypeStep == TypeOK /\ [Next]_vars => TypeOK'
<1> SUFFICES ASSUME TypeOK, [Next]_vars PROVE TypeOK'
  OBVIOUS
<1> USE DEF TypeOK, Call, Acked
<1>0. Idle \in Call /\ Nothing \in Acked
  BY DEF Idle, Nothing
<1>1. ASSUME NEW r \in Requests, Arrive(r) PROVE TypeOK'
  <2>1. PICK stage \in {"open", "execute", "close"} : Arrive(r)!(stage)
    BY <1>1 DEF Arrive
  <2>2. [call[r] EXCEPT !.stage = stage] \in Call
    BY <2>1 DEF Idle
  <2>3. call' \in [Requests -> Call]
    BY <2>1, <2>2
  <2> QED BY <2>1, <2>3 DEF store
<1>2. ASSUME NEW r \in Requests, Answer(r) PROVE call' \in [Requests -> Call]
  BY <1>0, <1>2 DEF Answer
<1>3. ASSUME NEW r \in Requests, Lock(r) PROVE TypeOK'
  <2>1. CASE JoinSession(r) BY <1>2, <2>1 DEF JoinSession, store
  <2>2. CASE BeginOpen(r) BY <2>2 DEF BeginOpen, store
  <2>3. CASE Refuse(r) BY <1>2, <2>3 DEF Refuse, store
  <2>4. CASE TakeHandle(r) BY <2>4 DEF TakeHandle, store
  <2>5. CASE CloseSession(r) BY <1>2, <2>5 DEF CloseSession, store
  <2> QED BY <1>3, <2>1, <2>2, <2>3, <2>4, <2>5 DEF Lock
<1>4. ASSUME NEW r \in Requests, Proceed(r) PROVE TypeOK'
  <2>1. CASE NewEngine(r) BY <1>2, <2>1 DEF NewEngine, Unused, store
  <2>2. CASE OpenFails(r) BY <1>2, <2>2 DEF OpenFails, store
  <2>3. CASE LoadFails(r) BY <1>2, <2>3 DEF LoadFails, Unused, store
  <2>4. CASE Remember(r) BY <1>2, <2>4 DEF Remember
  <2>5. CASE Recall(r) BY <1>2, <2>5 DEF Recall, store
  <2> QED BY <1>4, <2>1, <2>2, <2>3, <2>4, <2>5 DEF Proceed
<1>5. CASE Kill BY <1>0, <1>5 DEF Kill, store
<1>6. CASE OtherOpens BY <1>6 DEF OtherOpens
<1>7. CASE OtherRemembers BY <1>7 DEF OtherRemembers
<1>8. CASE OtherCloses BY <1>8 DEF OtherCloses
<1>9. CASE UNCHANGED vars BY <1>9 DEF vars, store
<1> QED BY <1>1, <1>3, <1>4, <1>5, <1>6, <1>7, <1>8, <1>9 DEF Next

\* The lock, the engines, the memories and the requests keep their types.
THEOREM TypeCorrect == Spec => []TypeOK
<1>1. Init => TypeOK
  <2>1. Idle \in Call /\ Nothing \in Acked
    BY DEF Idle, Call, Nothing, Acked
  <2> QED BY <2>1 DEF Init, TypeOK
<1> QED BY <1>1, TypeStep, PTL DEF Spec

\* A request that is answered is idle, the others are where they were.
LEMMA AnswerStage ==
  ASSUME TypeOK, NEW r \in Requests, Answer(r)
  PROVE  /\ call'[r].stage = "idle"
         /\ \A q \in Requests : call'[q].stage # "idle" => q # r /\ call'[q] = call[q]
BY DEF TypeOK, Answer, Idle

\* The adapter's invariant holds in every reachable state.
LEMMA AdapterStep == AdapterInv /\ [Next]_vars => AdapterInv'
<1> SUFFICES ASSUME AdapterInv, [Next]_vars PROVE AdapterInv'
  OBVIOUS
<1>0. TypeOK /\ TypeOK' BY TypeStep DEF AdapterInv
<1> USE <1>0
<1> DEFINE Rest == MuInv /\ HandleInv /\ AckedReachStore /\ LoadedInv /\ ReadsOwnWrites
<1> SUFFICES Rest' BY DEF AdapterInv
<1>r. Rest BY DEF AdapterInv
<1> USE DEF MuInv, HandleInv, AckedReachStore, LoadedInv, ReadsOwnWrites
<1>1. ASSUME NEW r \in Requests, Arrive(r) PROVE Rest'
  <2>1. \A q \in Requests : call'[q].stage \in {"opening", "using"} => call'[q] = call[q]
    BY <1>1 DEF Arrive, TypeOK
  <2> QED BY <1>r, <1>1, <2>1 DEF Arrive, store
<1>2. ASSUME NEW r \in Requests, Lock(r) PROVE Rest'
  <2>1. CASE JoinSession(r)
    BY <1>r, <2>1, AnswerStage DEF JoinSession, store
  <2>2. CASE BeginOpen(r)
    <3>1. \A q \in Requests : q # r => call'[q] = call[q]
      BY <2>2 DEF BeginOpen, TypeOK
    <3>2. call'[r].stage = "opening"
      BY <2>2 DEF BeginOpen, TypeOK, Call
    <3>3. \A q \in Requests : call[q].stage # "opening"
      BY <1>r, <2>2 DEF BeginOpen, TypeOK
    <3> QED BY <1>r, <2>2, <3>1, <3>2, <3>3 DEF BeginOpen, store
  <2>3. CASE Refuse(r)
    BY <1>r, <2>3, AnswerStage DEF Refuse, store
  <2>4. CASE TakeHandle(r)
    <3>1. \A q \in Requests : q # r => call'[q] = call[q]
      BY <2>4 DEF TakeHandle, TypeOK
    <3>2. call'[r] = [stage |-> "using", handle |-> engine, known |-> acked]
      BY <2>4 DEF TakeHandle, TypeOK
    <3> QED BY <1>r, <2>4, <3>1, <3>2 DEF TakeHandle, store, TypeOK
  <2>5. CASE CloseSession(r)
    <3>1. \A q \in Requests : call[q].stage # "opening"
      BY <1>r, <2>5 DEF CloseSession, TypeOK
    <3> QED BY <1>r, <2>5, <3>1, AnswerStage DEF CloseSession, store
  <2> QED BY <1>2, <2>1, <2>2, <2>3, <2>4, <2>5 DEF Lock
<1>3. ASSUME NEW r \in Requests, Proceed(r) PROVE Rest'
  <2>1. CASE NewEngine(r)
    <3>1. PICK g \in Unused : NewEngine(r)!(g)
      BY <2>1 DEF NewEngine
    <3>2. cache'[g] = disk /\ \A h \in Engines : h # g => cache'[h] = cache[h]
      BY <3>1 DEF TypeOK, Unused
    <3>3. \A q \in Requests : call[q].handle # g
      BY <3>1 DEF Unused
    <3>4. engine = None /\ \A q \in Requests : q # r => call[q].stage # "opening"
      BY <1>r, <3>1 DEF TypeOK
    <3>5. \A q \in Requests : call'[q].stage # "idle" => q # r /\ call'[q] = call[q]
      BY <3>1, AnswerStage
    <3>6. g \in Engines /\ g # None
      BY <3>1 DEF Unused
    <3>7. MuInv'
      BY <3>1, <3>4, <3>5
    <3>8. HandleInv'
      BY <1>r, <3>1, <3>3, <3>4, <3>5, <3>6
    <3>9. AckedReachStore' /\ LoadedInv'
      BY <1>r, <3>1, <3>2 DEF store
    <3>10. ReadsOwnWrites'
      BY <1>r, <3>1, <3>2, <3>3, <3>5
    <3> QED BY <3>7, <3>8, <3>9, <3>10
  <2>2. CASE OpenFails(r)
    <3>1. \A q \in Requests : q # r => call[q].stage # "opening"
      BY <1>r, <2>2 DEF OpenFails
    <3> QED BY <1>r, <2>2, <3>1, AnswerStage DEF OpenFails, store
  <2>3. CASE LoadFails(r)
    <3>1. PICK g \in Unused : LoadFails(r)!(g)
      BY <2>3 DEF LoadFails
    <3>2. \A q \in Requests : call[q].handle # g
      BY <3>1 DEF Unused
    <3>3. \A q \in Requests : q # r => call[q].stage # "opening"
      BY <1>r, <3>1
    <3>4. \A q \in Requests : call'[q].stage # "idle" => q # r /\ call'[q] = call[q]
      BY <3>1, AnswerStage
    <3> QED BY <1>r, <3>1, <3>2, <3>3, <3>4 DEF store
  <2>4. CASE Remember(r)
    <3>1. PICK m \in Memories \ disk : Remember(r)!(m)
      BY <2>4 DEF Remember
    <3>2. call[r].handle = engine /\ engine \in Engines
      BY <1>r, <3>1
    <3>3. cache'[engine] = cache[engine] \cup {m}
          /\ \A h \in Engines : h # engine => cache'[h] = cache[h]
      BY <3>1, <3>2 DEF TypeOK
    <3>4. acked'.here = acked.here \cup {m} /\ acked'.elsewhere = acked.elsewhere
      BY <3>1 DEF TypeOK, Acked
    <3>5. \A q \in Requests : call'[q].stage # "idle" => q # r /\ call'[q] = call[q]
      BY <3>1, AnswerStage
    <3>6. MuInv' /\ HandleInv'
      BY <1>r, <3>1, <3>5
    <3>7. AckedReachStore' /\ LoadedInv'
      BY <1>r, <3>1, <3>3, <3>4
    <3>8. ReadsOwnWrites'
      BY <1>r, <3>2, <3>3, <3>5
    <3> QED BY <3>6, <3>7, <3>8
  <2>5. CASE Recall(r)
    BY <1>r, <2>5, AnswerStage DEF Recall, store
  <2> QED BY <1>3, <2>1, <2>2, <2>3, <2>4, <2>5 DEF Proceed
<1>4. CASE Kill
  BY <1>r, <1>4 DEF Kill, Idle, store
<1>5. CASE OtherOpens
  BY <1>r, <1>5 DEF OtherOpens
<1>6. CASE OtherRemembers
  <2>1. PICK m \in Memories \ disk : OtherRemembers!(m)
    BY <1>6 DEF OtherRemembers
  <2>2. acked'.here = acked.here /\ acked'.elsewhere = acked.elsewhere \cup {m}
    BY <2>1 DEF TypeOK, Acked
  <2> QED BY <1>r, <2>1, <2>2
<1>7. CASE OtherCloses
  BY <1>r, <1>7 DEF OtherCloses
<1>8. CASE UNCHANGED vars
  BY <1>r, <1>8 DEF vars, store
<1> QED BY <1>1, <1>2, <1>3, <1>4, <1>5, <1>6, <1>7, <1>8 DEF Next

LEMMA InitType == Init => TypeOK
<1>1. Idle \in Call /\ Nothing \in Acked
  BY DEF Idle, Nothing, Call, Acked
<1> QED BY <1>1 DEF Init, TypeOK

LEMMA InvAlways == Spec => []AdapterInv
<1>1. Init => AdapterInv
  BY InitType DEF Init, AdapterInv, MuInv, HandleInv, AckedReachStore, LoadedInv,
                  ReadsOwnWrites, Idle, Nothing
<1> QED BY <1>1, AdapterStep, PTL DEF Spec

\* Whatever sessions come and go, a request that copied its handle finds what
\* the adapter had acknowledged by then.
THEOREM OwnWritesAreRead == Spec => []ReadsOwnWrites
<1>1. AdapterInv => ReadsOwnWrites BY DEF AdapterInv
<1> QED BY <1>1, InvAlways, PTL

\* What was acknowledged, here or by the other process, is in the store.
THEOREM AcksReachStore == Spec => []AckedReachStore
<1>1. AdapterInv => AckedReachStore BY DEF AdapterInv
<1> QED BY <1>1, InvAlways, PTL

-----------------------------------------------------------------------------
(* The file lock.                                                          *)

FileInv == FileLockInv /\ ReadsOthersWrites

LEMMA FileStep ==
  ASSUME AdapterInv, AdapterInv', FileInv, [Next]_vars
  PROVE  FileInv'
<1> USE DEF FileInv, FileLockInv, ReadsOthersWrites
<1>0. TypeOK /\ HandleInv /\ AckedReachStore
  BY DEF AdapterInv
<1>1. ASSUME NEW r \in Requests, Arrive(r) PROVE FileInv'
  <2>1. \A q \in Requests : call'[q].stage = "using" => call'[q] = call[q]
    BY <1>0, <1>1 DEF Arrive, TypeOK
  <2> QED BY <1>1, <2>1 DEF Arrive, store
<1>2. ASSUME NEW r \in Requests, Lock(r) PROVE FileInv'
  <2>1. CASE JoinSession(r)
    BY <1>0, <2>1, AnswerStage DEF JoinSession, store
  <2>2. CASE BeginOpen(r)
    <3>1. \A q \in Requests : call'[q].stage = "using" => call'[q] = call[q]
      BY <1>0, <2>2 DEF BeginOpen, TypeOK
    <3> QED BY <2>2, <3>1 DEF BeginOpen, store
  <2>3. CASE Refuse(r)
    BY <1>0, <2>3, AnswerStage DEF Refuse, store
  <2>4. CASE TakeHandle(r)
    <3>1. \A q \in Requests : q # r => call'[q] = call[q]
      BY <1>0, <2>4 DEF TakeHandle, TypeOK
    <3>2. call'[r] = [stage |-> "using", handle |-> engine, known |-> acked]
      BY <1>0, <2>4 DEF TakeHandle, TypeOK
    <3> QED BY <2>4, <3>1, <3>2 DEF TakeHandle, store
  <2>5. CASE CloseSession(r)
    BY <1>0, <2>5, AnswerStage DEF CloseSession, store
  <2> QED BY <1>2, <2>1, <2>2, <2>3, <2>4, <2>5 DEF Lock
<1>3. ASSUME NEW r \in Requests, Proceed(r) PROVE FileInv'
  <2>1. CASE NewEngine(r)
    <3>1. PICK g \in Unused : NewEngine(r)!(g)
      BY <2>1 DEF NewEngine
    <3>2. cache'[g] = disk /\ \A h \in Engines : h # g => cache'[h] = cache[h]
      BY <1>0, <3>1 DEF TypeOK, Unused
    <3>3. \A q \in Requests : call[q].handle # g
      BY <3>1 DEF Unused
    <3>4. \A q \in Requests : call'[q].stage # "idle" => call'[q] = call[q]
      BY <1>0, <3>1, AnswerStage
    <3>5. \A q \in Requests : call[q].stage = "using" => call[q].handle \in Engines
      BY <1>0 DEF HandleInv
    <3>6. FileLockInv'
      BY <1>0, <3>1, <3>2 DEF AckedReachStore, StoreIsFree, store
    <3>7. ReadsOthersWrites'
      BY <3>1, <3>2, <3>3, <3>4, <3>5 DEF store
    <3> QED BY <3>6, <3>7
  <2>2. CASE OpenFails(r)
    BY <1>0, <2>2, AnswerStage DEF OpenFails, store
  <2>3. CASE LoadFails(r)
    BY <1>0, <2>3, AnswerStage DEF LoadFails, StoreIsFree, store
  <2>4. CASE Remember(r)
    <3>1. PICK m \in Memories \ disk : Remember(r)!(m)
      BY <2>4 DEF Remember
    <3>2. \A h \in Engines : cache[h] \subseteq cache'[h]
      BY <1>0, <3>1 DEF TypeOK
    <3>3. acked'.elsewhere = acked.elsewhere
      BY <1>0, <3>1 DEF TypeOK, Acked
    <3>4. \A q \in Requests : call'[q].stage # "idle" => call'[q] = call[q]
      BY <1>0, <3>1, AnswerStage
    <3>5. \A q \in Requests : call[q].stage = "using" => call[q].handle \in Engines
      BY <1>0 DEF HandleInv
    <3>6. engine # None => cache[engine] \subseteq cache'[engine]
      BY <1>0, <3>2 DEF TypeOK
    <3>7. FileLockInv'
      BY <3>1, <3>3, <3>6
    <3>8. ReadsOthersWrites'
      BY <3>1, <3>2, <3>3, <3>4, <3>5
    <3> QED BY <3>7, <3>8
  <2>5. CASE Recall(r)
    BY <1>0, <2>5, AnswerStage DEF Recall, store
  <2> QED BY <1>3, <2>1, <2>2, <2>3, <2>4, <2>5 DEF Proceed
<1>4. CASE Kill
  BY <1>4 DEF Kill, Idle, store
<1>5. CASE OtherOpens
  BY <1>5 DEF OtherOpens, StoreIsFree
<1>6. CASE OtherRemembers
  BY <1>0, <1>6 DEF OtherRemembers, HandleInv
<1>7. CASE OtherCloses
  BY <1>7 DEF OtherCloses
<1>8. CASE UNCHANGED vars
  BY <1>8 DEF vars, store
<1> QED BY <1>1, <1>2, <1>3, <1>4, <1>5, <1>6, <1>7, <1>8 DEF Next

\* With bbolt a request finds what other processes had acknowledged as well.
THEOREM OthersWritesAreRead == Spec => []ReadsOthersWrites
<1>1. Init => FileInv
  BY DEF Init, FileInv, FileLockInv, ReadsOthersWrites, Idle
<1>2. AdapterInv /\ AdapterInv' /\ FileInv /\ [Next]_vars => FileInv'
  BY FileStep
<1>3. FileInv => ReadsOthersWrites BY DEF FileInv
<1> QED BY <1>1, <1>2, <1>3, InvAlways, PTL DEF Spec

-----------------------------------------------------------------------------
(* No engine gets lost.                                                    *)

LEMMA OpenStep == AdapterInv /\ OpenIsCurrent /\ [Next]_vars => OpenIsCurrent'
<1> SUFFICES ASSUME AdapterInv, OpenIsCurrent, [Next]_vars PROVE OpenIsCurrent'
  OBVIOUS
<1>0. TypeOK /\ MuInv
  BY DEF AdapterInv
<1> USE DEF OpenIsCurrent
<1>1. ASSUME NEW r \in Requests, Arrive(r) PROVE OpenIsCurrent'
  BY <1>1 DEF Arrive
<1>2. ASSUME NEW r \in Requests, Lock(r) PROVE OpenIsCurrent'
  BY <1>2 DEF Lock, JoinSession, BeginOpen, Refuse, TakeHandle, CloseSession
<1>3. ASSUME NEW r \in Requests, Proceed(r) PROVE OpenIsCurrent'
  <2>1. CASE NewEngine(r)
    <3>1. engine = None
      BY <1>0, <2>1 DEF MuInv, NewEngine
    <3>2. isOpen = {}
      BY <1>0, <3>1 DEF TypeOK
    <3> QED BY <2>1, <3>2 DEF NewEngine
  <2>2. CASE OpenFails(r) \/ LoadFails(r) \/ Remember(r) \/ Recall(r)
    BY <2>2 DEF OpenFails, LoadFails, Remember, Recall
  <2> QED BY <1>3, <2>1, <2>2 DEF Proceed
<1>4. CASE Kill BY <1>4 DEF Kill
<1>5. CASE OtherOpens BY <1>5 DEF OtherOpens
<1>6. CASE OtherRemembers BY <1>6 DEF OtherRemembers
<1>7. CASE OtherCloses BY <1>7 DEF OtherCloses
<1>8. CASE UNCHANGED vars BY <1>8 DEF vars
<1> QED BY <1>1, <1>2, <1>3, <1>4, <1>5, <1>6, <1>7, <1>8 DEF Next

\* The only engine ever open is the one that the next CloseSession will close.
THEOREM NoEngineIsLost == Spec => []OpenIsCurrent
<1>1. Init => OpenIsCurrent
  BY DEF Init, OpenIsCurrent
<1> QED BY <1>1, OpenStep, InvAlways, PTL DEF Spec
=============================================================================
