-------------------------------- MODULE Amac ---------------------------------
(***************************************************************************)
(* apl.c built with AMAC: the allocations of an 'a' request are interleaved*)
(* by workers, one for each access point.  The loop meets them in turn; a  *)
(* worker prefetches the first node of its access point, then reads it and *)
(* prefetches the one behind it, and then deletes.  It starts over with    *)
(* the second step while at least as many allocations are left as there    *)
(* are workers, and idles once there are fewer.                            *)
(*                                                                         *)
(* What is deleted is the first node of the *active* access point, by the  *)
(* functions of AccessPoints; the workers only prepare the cache.          *)
(***************************************************************************)
EXTENDS AccessPoints, FiniteSets

VARIABLES
  workers,        \* stage of every worker, and the node it has read
  worker_ptr,     \* the worker met last
  requesting,     \* whether an 'a' request is being served
  request_arg,    \* how many allocations it asks for
  num_finished,   \* how many are done (both are locals of the request)
  shift           \* 'd' requests less 'f' requests so far, modulo the access
                  \* points: an observer's variable

amac_vars == <<workers, worker_ptr, requesting, request_arg, num_finished, shift>>
all_vars == <<vars, amac_vars>>

N_AMAC_WORKERS == N_ACCESS_POINTS
Worker == AP

\* access_points[w].next; NULL stands for a sentinel.
FirstNode(w) == IF seg[w] = <<>> THEN NULL ELSE Head(seg[w])

AmacInit ==
  /\ Init
  /\ workers = [w \in Worker |-> [stage |-> 0, node |-> NULL]]
  /\ worker_ptr = -1
  /\ requesting = FALSE
  /\ request_arg = 0
  /\ num_finished = 0
  /\ shift = 0

-----------------------------------------------------------------------------
(* An 'a' request.  A legal file asks for no more blocks than are free.    *)

Request(n) ==
  /\ Serving
  /\ ~ requesting
  /\ n <= Cardinality(FreeBlocks)
  /\ requesting' = TRUE
  /\ request_arg' = n
  /\ UNCHANGED <<vars, workers, worker_ptr, num_finished, shift>>

\* The turn of a worker.
Turn(w) ==
  /\ requesting
  /\ num_finished < request_arg
  /\ w = (worker_ptr + 1) % N_AMAC_WORKERS
  /\ worker_ptr' = w
  /\ UNCHANGED <<requesting, request_arg, shift>>

\* The worker after a turn in which it deletes nothing: it prefetches its
\* access point, reads the node, or idles.
Prepared(worker, node) ==
  CASE worker.stage = 0 -> [worker EXCEPT !.stage = 1]
    [] worker.stage = 1 -> [stage |-> 2, node |-> node]
    [] OTHER -> worker

Prepare(w) ==
  /\ Turn(w)
  /\ workers[w].stage # 2
  /\ workers' = [workers EXCEPT ![w] = Prepared(@, FirstNode(w))]
  /\ UNCHANGED <<vars, num_finished>>

\* Whether the worker will be needed again.  A mutant counts the allocation
\* that is just being made among those done, and is off by one.
MutNeededAgain == request_arg - (num_finished + 1) > N_AMAC_WORKERS
NeededAgain == request_arg - num_finished >= N_AMAC_WORKERS

\* The node the worker has read when it goes on; a mutant keeps the old one.
MutNextNode(w) == workers[w].node
NextNode(w) == FirstNode(w)'

Delete(w) ==
  /\ Turn(w)
  /\ workers[w].stage = 2
  /\ apl_delete_single
  /\ workers' = [workers EXCEPT ![w] =
                   IF NeededAgain THEN [stage |-> 2, node |-> NextNode(w)]
                                  ELSE [@ EXCEPT !.stage = 3]]
  /\ num_finished' = num_finished + 1

\* The workers once the request has been served: back in stage 0, in which
\* nobody looks at the node they keep.  A mutant leaves them in their stages.
MutReset == [w \in Worker |-> [workers[w] EXCEPT !.node = NULL]]
Reset == [w \in Worker |-> [stage |-> 0, node |-> NULL]]

Served ==
  /\ requesting
  /\ ~ num_finished < request_arg
  /\ workers' = Reset
  /\ requesting' = FALSE
  /\ request_arg' = 0
  /\ num_finished' = 0
  /\ UNCHANGED <<vars, worker_ptr, shift>>

-----------------------------------------------------------------------------
(* The other requests, and populating the list, are those of AccessPoints. *)

Populate ==
  /\ PlaceAccessPoint
  /\ UNCHANGED amac_vars

Release(b) ==
  /\ ~ requesting
  /\ apl_insert_single(b)
  /\ shift' = (shift - 1) % N_ACCESS_POINTS
  /\ UNCHANGED <<workers, worker_ptr, requesting, request_arg, num_finished>>

Claim(b) ==
  /\ ~ requesting
  /\ apl_delete_by_reference(b)
  /\ shift' = (shift + 1) % N_ACCESS_POINTS
  /\ UNCHANGED <<workers, worker_ptr, requesting, request_arg, num_finished>>

Work == (\E w \in Worker : Prepare(w) \/ Delete(w)) \/ Served

AmacNext ==
  \/ Populate
  \/ \E n \in 0 .. Cardinality(Block) : Request(n)
  \/ Work
  \/ \E b \in Block : Release(b) \/ Claim(b)

\* One thread: the loop of a request does not wait for anything.  Nothing is
\* assumed of the arrival of requests.
AmacSpec == AmacInit /\ [][AmacNext]_all_vars /\ WF_all_vars(Work)

-----------------------------------------------------------------------------
(* Properties.                                                             *)

\* Types of the variables (apl.c:70-77, 448-454).
AmacTypeOK ==
  /\ workers \in [Worker -> [stage : 0 .. 3, node : Block \cup {NULL}]]
  /\ worker_ptr \in -1 .. N_AMAC_WORKERS - 1
  /\ requesting \in BOOLEAN
  /\ request_arg \in Nat
  /\ num_finished \in 0 .. request_arg
  /\ shift \in AP

\* A worker that idles does so for the rest of the request (apl.c:503-507), so
\* the others must suffice: while k allocations are left, none of the next k
\* workers idles.  So the loop meets none that does.
EnoughWorkers ==
  requesting =>
    \A k \in 1 .. N_AMAC_WORKERS :
      k <= request_arg - num_finished =>
        workers[(worker_ptr + k) % N_AMAC_WORKERS].stage # 3

\* A request is served to the end (apl.c:452), though the loop would also
\* go round over workers that do nothing.
RequestEnds == requesting ~> ~ requesting

\* "after delete, the node after the deleted node is already prefetched"
\* (apl.c:494-495).  Only `pos` decides what is deleted, and it moves on an
\* 'f' and a 'd' request too.  The worker whose turn it is deletes from the
\* access point `shift` places after its own; so what it has read is what
\* it deletes as long as 'f' and 'd' requests balance.
InStep ==
  [][ \A w \in Worker : Delete(w) =>
        /\ pos = (w + shift) % N_ACCESS_POINTS
        /\ shift = 0 => workers[w].node = FirstNode(pos) ]_all_vars
=============================================================================
