------------------------------- MODULE SeqMap -------------------------------
(***************************************************************************)
(* The sequence map of dap_mux/seq.py: requests of several clients, each   *)
(* with sequence numbers of its own, go upstream under one proxy numbering *)
(* and a response's request_seq is resolved back to the client and the     *)
(* number the client used.  The map is synchronous, so every method is one *)
(* action.                                                                 *)
(***************************************************************************)
EXTENDS Naturals, FiniteSets, Functions

CONSTANTS
  Clients,     \* client identifiers; the multiplexer never reuses one
  ClientSeqs   \* the sequence numbers clients put on their requests

VARIABLES
  nextSeq, \* _next_seq: the proxy number the next request gets
  pending  \* _pending: proxy number -> the request awaiting its response

seqMapVars == <<nextSeq, pending>>

\* The timestamp is left out: expire compares it with a cutoff of the same
\* monotonic clock, so it removes the entries allocated before some number.
PendingRequest == [client : Clients, clientSeq : ClientSeqs]

SeqMapTypeOK ==
  /\ nextSeq \in Nat \ {0}
  /\ pending = [s \in DOMAIN pending |-> pending[s]]
  /\ \A s \in DOMAIN pending : s \in Nat /\ pending[s] \in PendingRequest

\* Variant for mutation: the numbering starts at 0.
SeqMapInitAtZero ==
  /\ nextSeq = 0
  /\ pending = [s \in {} |-> {}]

SeqMapInit ==
  /\ nextSeq = 1
  /\ pending = [s \in {} |-> {}]

-----------------------------------------------------------------------------
(* The entries of clients, the numbers they wait under.                    *)

Owners == {pending[s].client : s \in DOMAIN pending}

\* Drop the entries of the proxy numbers in stale.
Forget(stale) == Restrict(pending, DOMAIN pending \ stale)

\* Variants for mutation: the number is advanced before it is used; the number
\* is taken from how many requests are pending.
AllocateAfterAdvancing(c, clientSeq) ==
  /\ pending' = [s \in DOMAIN pending \cup {nextSeq + 1} |->
                   IF s = nextSeq + 1 THEN [client |-> c, clientSeq |-> clientSeq]
                   ELSE pending[s]]
  /\ nextSeq' = nextSeq + 1

AllocateByCount(c, clientSeq) ==
  /\ pending' = [s \in DOMAIN pending \cup {Cardinality(DOMAIN pending) + 1} |->
                   IF s \in DOMAIN pending THEN pending[s]
                   ELSE [client |-> c, clientSeq |-> clientSeq]]
  /\ nextSeq' = nextSeq + 1

\* allocate(): the request clientSeq of client c goes upstream as nextSeq.
Allocate(c, clientSeq) ==
  /\ pending' = [s \in DOMAIN pending \cup {nextSeq} |->
                   IF s = nextSeq THEN [client |-> c, clientSeq |-> clientSeq]
                   ELSE pending[s]]
  /\ nextSeq' = nextSeq + 1

\* resolve(): the entry of proxySeq, if there is one, is taken out.
Resolve(proxySeq) ==
  /\ pending' = Forget({proxySeq})
  /\ UNCHANGED nextSeq

\* cleanup(): every entry of a client that disconnected is taken out.
Cleanup(c) ==
  /\ pending' = Forget({s \in DOMAIN pending : pending[s].client = c})
  /\ UNCHANGED nextSeq

\* expire(): every entry older than the cutoff is taken out; cutoff is the
\* first number that was allocated recently enough.
Expire(cutoff) ==
  /\ pending' = Forget({s \in DOMAIN pending : s < cutoff})
  /\ UNCHANGED nextSeq

\* Resolving a number that is not pending changes nothing.
SeqMapNext ==
  \/ \E c \in Clients, n \in ClientSeqs : Allocate(c, n)
  \/ \E s \in DOMAIN pending : Resolve(s)
  \/ \E c \in Clients : Cleanup(c)
  \/ \E s \in 1..nextSeq : Expire(s)

\* What the map promises its caller, whatever the calls.
SeqMapSpec == SeqMapInit /\ [][SeqMapNext]_seqMapVars

-----------------------------------------------------------------------------
(* Safety.                                                                 *)

\* Only numbers that were handed out are pending, so that allocate never
\* overwrites an entry of the dictionary (seq.py: allocate).
PendingWasAllocated == \A s \in DOMAIN pending : s < nextSeq

\* A number that left the map, whether answered, cleaned up or expired, never
\* comes back, and an entry never changes its owner while it waits: a late or
\* a repeated answer cannot reach a request it was not the answer to
\* (seq.py: resolve, cleanup, expire).
NumbersNeverReturn ==
  [][\A s \in DOMAIN pending' :
       IF s \in DOMAIN pending THEN pending'[s] = pending[s] ELSE s >= nextSeq]_seqMapVars

=============================================================================
