---------------------------- MODULE SeqMapProofs ----------------------------
(***************************************************************************)
(* Proofs about the sequence map, for every set of clients and of numbers. *)
(***************************************************************************)
EXTENDS SeqMap, TLAPS

\* A step hands out a number or takes entries out (seq.py: all four methods).
LEMMA StepAllocatesOrForgets ==
  ASSUME SeqMapNext
  PROVE  \/ \E c \in Clients, n \in ClientSeqs : Allocate(c, n)
         \/ \E stale : pending' = Forget(stale) /\ nextSeq' = nextSeq
BY DEF SeqMapNext, Resolve, Cleanup, Expire

\* Whatever is taken out, the other entries stay what they are.
LEMMA ForgettingKeepsTheRest ==
  ASSUME NEW stale, pending' = Forget(stale)
  PROVE  /\ DOMAIN pending' = DOMAIN pending \ stale
         /\ \A s \in DOMAIN pending' : pending'[s] = pending[s]
         /\ pending' = [s \in DOMAIN pending' |-> pending'[s]]
BY DEF Forget, Restrict

\* The map holds requests of clients, under positive numbers (seq.py:23-28,
\* 49-51).
THEOREM SeqMapTypeCorrect == SeqMapSpec => []SeqMapTypeOK
<1>1. SeqMapInit => SeqMapTypeOK
  BY DEF SeqMapInit, SeqMapTypeOK
<1>2. SeqMapTypeOK /\ [SeqMapNext]_seqMapVars => SeqMapTypeOK'
  <2> SUFFICES ASSUME SeqMapTypeOK, [SeqMapNext]_seqMapVars PROVE SeqMapTypeOK'
    OBVIOUS
  <2>1. CASE UNCHANGED seqMapVars
    BY <2>1 DEF seqMapVars, SeqMapTypeOK
  <2>2. CASE \E c \in Clients, n \in ClientSeqs : Allocate(c, n)
    BY <2>2 DEF Allocate, SeqMapTypeOK, PendingRequest
  <2>3. CASE \E stale : pending' = Forget(stale) /\ nextSeq' = nextSeq
    BY <2>3, ForgettingKeepsTheRest DEF SeqMapTypeOK
  <2> QED
    BY <2>1, <2>2, <2>3, StepAllocatesOrForgets
<1> QED
  BY <1>1, <1>2, PTL DEF SeqMapSpec

\* Allocation never overwrites an entry (seq.py: allocate).
THEOREM PendingAllocated == SeqMapSpec => []PendingWasAllocated
<1>1. SeqMapInit => PendingWasAllocated
  BY DEF SeqMapInit, PendingWasAllocated
<1>2. SeqMapTypeOK /\ PendingWasAllocated /\ [SeqMapNext]_seqMapVars => PendingWasAllocated'
  <2> SUFFICES ASSUME SeqMapTypeOK, PendingWasAllocated, [SeqMapNext]_seqMapVars
               PROVE  PendingWasAllocated'
    OBVIOUS
  <2>1. CASE UNCHANGED seqMapVars
    BY <2>1 DEF seqMapVars, PendingWasAllocated
  <2>2. CASE \E c \in Clients, n \in ClientSeqs : Allocate(c, n)
    BY <2>2 DEF Allocate, SeqMapTypeOK, PendingWasAllocated
  <2>3. CASE \E stale : pending' = Forget(stale) /\ nextSeq' = nextSeq
    BY <2>3, ForgettingKeepsTheRest DEF PendingWasAllocated
  <2> QED
    BY <2>1, <2>2, <2>3, StepAllocatesOrForgets
<1> QED
  BY <1>1, <1>2, SeqMapTypeCorrect, PTL DEF SeqMapSpec

\* A number is used for one request only, ever (seq.py: resolve, cleanup,
\* expire).
THEOREM NumbersAreFresh == SeqMapSpec => NumbersNeverReturn
<1> DEFINE Fresh == \A s \in DOMAIN pending' :
                      IF s \in DOMAIN pending THEN pending'[s] = pending[s] ELSE s >= nextSeq
<1>1. SeqMapTypeOK /\ PendingWasAllocated /\ [SeqMapNext]_seqMapVars => [Fresh]_seqMapVars
  <2> SUFFICES ASSUME SeqMapTypeOK, PendingWasAllocated, SeqMapNext PROVE Fresh
    OBVIOUS
  <2>1. CASE \E c \in Clients, n \in ClientSeqs : Allocate(c, n)
    BY <2>1 DEF Allocate, SeqMapTypeOK, PendingWasAllocated
  <2>2. CASE \E stale : pending' = Forget(stale) /\ nextSeq' = nextSeq
    BY <2>2, ForgettingKeepsTheRest
  <2> QED
    BY <2>1, <2>2, StepAllocatesOrForgets
<1> QED
  BY <1>1, SeqMapTypeCorrect, PendingAllocated, PTL DEF SeqMapSpec, NumbersNeverReturn

=============================================================================
