------------------------- MODULE MCMemoryEngineView -------------------------
(* MemoryEngineView on the small instance of MCMemoryEngine.               *)
EXTENDS MemoryEngineView, MCMemoryEngine

\* A goroutine that holds a lock keeps running (Fairness of MemoryEngine).
FairViewSpec == ViewSpec /\ Fairness
=============================================================================
