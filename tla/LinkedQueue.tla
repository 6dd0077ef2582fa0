---------------------------- MODULE LinkedQueue ----------------------------
(***************************************************************************)
(* The request queue as it is in memory: the linked list of                *)
(* src/shared/queue.c, in which the main thread of server.c puts requests  *)
(* and from which the balconies take them under the mutex and the          *)
(* semaphores of sync.c.  Each request and each node is allocated by one   *)
(* thread and freed by another, or by the same one on another path.        *)
(*                                                                         *)
(* A pointer to a request is the number of the request; a pointer to a     *)
(* node is a cell.  malloc does not fail.  How requests come and are       *)
(* answered is the subject of Server, Accounts and Delivery.               *)
(***************************************************************************)
EXTENDS Integers, Sequences, FiniteSets, SequencesExt

CONSTANTS
    Balconies,  \* the threads that take requests
    Main,       \* the thread that puts them
    Nobody,     \* owner of a free mutex
    Arrivals,   \* how many requests are sent
    Shutdowns,  \* those of them that close the service
    Cells,      \* the memory for the nodes
    NULL        \* the null pointer

n_threads == Cardinality(Balconies)
Requests == 1 .. Arrivals
NoRequest == 0

ASSUME BalconiesAssumption ==
    /\ IsFiniteSet(Balconies) /\ Balconies # {}
    /\ Main \notin Balconies
    /\ Nobody \notin Balconies \cup {Main}
ASSUME ArrivalsAssumption == Arrivals \in Nat /\ Shutdowns \subseteq Requests
ASSUME CellsAssumption ==
    IsFiniteSet(Cells) /\ Cardinality(Cells) > n_threads /\ NULL \notin Cells

VARIABLES
    pc,             \* where each thread is
    front,          \* request_queue->front
    node,           \* what is in each cell
    allocated,      \* the requests that are allocated
    new_node, iter, \* local variables of queue_push
    request,        \* local variable of main
    last_read,      \* the number of the last request that was read
    posted,         \* the posts of the last loop of main
    first_request,  \* the request that each balcony took
    queue_empty,    \* what each balcony saw in its last look at the queue
    full, empty,    \* the semaphores
    mutex,          \* the owner of req_queue_mutex
    balcony_open,   \* the flag that a shutdown clears
    state           \* "live", "deleted" (the queue) or "aborted"

memVars == <<front, node, allocated>>
mainVars == <<new_node, iter, request, last_read, posted>>
balconyVars == <<first_request, queue_empty>>
syncVars == <<full, empty, mutex>>
vars == <<pc, memVars, mainVars, balconyVars, syncVars, balcony_open, state>>

Free == [val |-> NoRequest, next |-> NULL]

Init ==
    /\ pc = [t \in Balconies \cup {Main} |-> IF t = Main THEN "read" ELSE "wait_full"]
    /\ front = NULL
    /\ node = [c \in Cells |-> Free]
    /\ allocated = {}
    /\ new_node = NULL
    /\ iter = NULL
    /\ request = NoRequest
    /\ last_read = 0
    /\ posted = 0
    /\ first_request = [b \in Balconies |-> NoRequest]
    /\ queue_empty = [b \in Balconies |-> FALSE]
    /\ full = 0
    /\ empty = n_threads
    /\ mutex = Nobody
    /\ balcony_open = TRUE
    /\ state = "live"

\* Thread t goes from one point of its code to another.
Move(t, from, to) ==
    /\ state # "aborted"
    /\ pc[t] = from
    /\ pc' = [pc EXCEPT ![t] = to]

\* Mutant: does not wait for the mutex.
Lock_skips(t, from, to) ==
    /\ Move(t, from, to)
    /\ UNCHANGED <<memVars, mainVars, balconyVars, syncVars, balcony_open, state>>

Lock(t, from, to) ==
    /\ Move(t, from, to)
    /\ mutex = Nobody
    /\ mutex' = t
    /\ UNCHANGED <<memVars, mainVars, balconyVars, full, empty, balcony_open, state>>

-----------------------------------------------------------------------------
(* The main thread.                                                        *)

ReadRequest ==
    /\ last_read < Arrivals
    /\ Move(Main, "read", "check")
    /\ last_read' = last_read + 1
    /\ request' = last_read + 1
    /\ allocated' = allocated \cup {last_read + 1}
    /\ UNCHANGED <<front, node, new_node, iter, posted, balconyVars, syncVars,
                   balcony_open, state>>

\* The last writer is gone: what was allocated for a request is freed at once.
ReadEndOfFile ==
    /\ ~balcony_open
    /\ Move(Main, "read", "post_final")
    /\ UNCHANGED <<memVars, mainVars, balconyVars, syncVars, balcony_open, state>>

\* Mutant: leaves the loop without free(request).
CheckRequest_leaks ==
    /\ Move(Main, "check", IF balcony_open THEN "wait_empty" ELSE "post_final")
    /\ request' = IF balcony_open THEN request ELSE NoRequest
    /\ UNCHANGED <<memVars, new_node, iter, last_read, posted, balconyVars, syncVars, balcony_open, state>>

CheckRequest ==
    /\ Move(Main, "check", IF balcony_open THEN "wait_empty" ELSE "post_final")
    /\ IF balcony_open
       THEN UNCHANGED <<allocated, request>>
       ELSE allocated' = allocated \ {request} /\ request' = NoRequest
    /\ UNCHANGED <<front, node, new_node, iter, last_read, posted, balconyVars, syncVars, balcony_open, state>>

\* Mutant: does not wait for a free place.
WaitEmpty_forgets ==
    /\ Move(Main, "wait_empty", "lock")
    /\ UNCHANGED <<memVars, mainVars, balconyVars, syncVars, balcony_open, state>>

WaitEmpty ==
    /\ Move(Main, "wait_empty", "lock")
    /\ empty > 0
    /\ empty' = empty - 1
    /\ UNCHANGED <<memVars, mainVars, balconyVars, full, mutex, balcony_open, state>>

new_queue_node(val) == [val |-> val, next |-> NULL]

\* queue_push: a new node, which is the front of an empty queue.
PushNew ==
    /\ Move(Main, "push", IF front = NULL THEN "unlock" ELSE "walk")
    /\ \E c \in Cells :
        /\ node[c] = Free
        /\ node' = [node EXCEPT ![c] = new_queue_node(request)]
        /\ new_node' = c
        /\ front' = IF front = NULL THEN c ELSE front
    /\ iter' = front
    /\ UNCHANGED <<allocated, request, last_read, posted, balconyVars, syncVars,
                   balcony_open, state>>

PushWalk ==
    /\ Move(Main, "walk", "walk")
    /\ node[iter].next # NULL
    /\ iter' = node[iter].next
    /\ UNCHANGED <<memVars, new_node, request, last_read, posted, balconyVars,
                   syncVars, balcony_open, state>>

\* Mutant: links the new node behind the first one.
PushLink_atFront ==
    /\ Move(Main, "walk", "unlock")
    /\ node' = [node EXCEPT ![iter].next = new_node, ![new_node].next = node[iter].next]
    /\ UNCHANGED <<front, allocated, mainVars, balconyVars, syncVars, balcony_open, state>>

PushLink ==
    /\ Move(Main, "walk", "unlock")
    /\ node[iter].next = NULL
    /\ node' = [node EXCEPT ![iter].next = new_node]
    /\ UNCHANGED <<front, allocated, mainVars, balconyVars, syncVars, balcony_open, state>>

\* unlock_queue_mutex and, later, post_sem_full: the pid that both log is read
\* from the request, which is in the queue by now.
MainUnlock ==
    /\ Move(Main, "unlock", "post_full")
    /\ mutex' = Nobody
    /\ UNCHANGED <<memVars, mainVars, balconyVars, full, empty, balcony_open, state>>

PostFull ==
    /\ Move(Main, "post_full", "read")
    /\ full' = full + 1
    /\ UNCHANGED <<memVars, mainVars, balconyVars, empty, mutex, balcony_open, state>>

PostFinal ==
    /\ posted < n_threads
    /\ Move(Main, "post_final", "post_final")
    /\ posted' = posted + 1
    /\ full' = full + 1
    /\ UNCHANGED <<memVars, new_node, iter, request, last_read, balconyVars, empty,
                   mutex, balcony_open, state>>

\* pthread_join of every balcony.
Join ==
    /\ posted = n_threads
    /\ \A b \in Balconies : pc[b] = "done"
    /\ Move(Main, "post_final", "delete")
    /\ UNCHANGED <<memVars, mainVars, balconyVars, syncVars, balcony_open, state>>

\* del_queue, whose empty_queue pops one node after the other.
DeleteQueue ==
    /\ IF front # NULL
       THEN /\ Move(Main, "delete", "delete")
            /\ front' = node[front].next
            /\ node' = [node EXCEPT ![front] = Free]
            /\ UNCHANGED state
       ELSE /\ Move(Main, "delete", "del_sync")
            /\ state' = "deleted"
            /\ UNCHANGED <<front, node>>
    /\ UNCHANGED <<allocated, mainVars, balconyVars, syncVars, balcony_open>>

\* The semaphores and the mutex are destroyed.
DelSync ==
    /\ Move(Main, "del_sync", "done")
    /\ full' = 0
    /\ empty' = 0
    /\ UNCHANGED <<memVars, mainVars, balconyVars, mutex, balcony_open, state>>

-----------------------------------------------------------------------------
(* A balcony.                                                              *)

WaitFull(b) ==
    /\ Move(b, "wait_full", "lock_check")
    /\ full > 0
    /\ full' = full - 1
    /\ UNCHANGED <<memVars, mainVars, balconyVars, empty, mutex, balcony_open, state>>

\* is_queue_empty and unlock_queue_mutex.
IsQueueEmpty(b) ==
    /\ Move(b, "check", "decide")
    /\ queue_empty' = [queue_empty EXCEPT ![b] = front = NULL]
    /\ mutex' = Nobody
    /\ UNCHANGED <<memVars, mainVars, first_request, full, empty, balcony_open, state>>

Decide(b) ==
    /\ Move(b, "decide", IF ~balcony_open /\ queue_empty[b] THEN "done" ELSE "lock_take")
    /\ UNCHANGED <<memVars, mainVars, balconyVars, syncVars, balcony_open, state>>

QueueFront(b) ==
    /\ front # NULL
    /\ Move(b, "take", "pop")
    /\ first_request' = [first_request EXCEPT ![b] = node[front].val]
    /\ UNCHANGED <<memVars, mainVars, queue_empty, syncVars, balcony_open, state>>

\* NULL from queue_front: exit(RC_OTHER).
QueueFrontFails(b) ==
    /\ front = NULL
    /\ Move(b, "take", "take")
    /\ state' = "aborted"
    /\ UNCHANGED <<memVars, mainVars, balconyVars, syncVars, balcony_open>>

\* queue_pop and unlock_queue_mutex.
QueuePop(b) ==
    /\ Move(b, "pop", "post_empty")
    /\ front' = node[front].next
    /\ node' = [node EXCEPT ![front] = Free]
    /\ mutex' = Nobody
    /\ UNCHANGED <<allocated, mainVars, balconyVars, full, empty, balcony_open, state>>

PostEmpty(b) ==
    /\ Move(b, "post_empty", "serve")
    /\ empty' = empty + 1
    /\ UNCHANGED <<memVars, mainVars, balconyVars, full, mutex, balcony_open, state>>

\* The handlers read the request; the one of a shutdown clears the flag.
Serve(b) ==
    /\ Move(b, "serve", "free")
    /\ balcony_open' = (balcony_open /\ first_request[b] \notin Shutdowns)
    /\ UNCHANGED <<memVars, mainVars, balconyVars, syncVars, state>>

FreeRequest(b) ==
    /\ Move(b, "free", "wait_full")
    /\ allocated' = allocated \ {first_request[b]}
    /\ first_request' = [first_request EXCEPT ![b] = NoRequest]
    /\ UNCHANGED <<front, node, mainVars, queue_empty, syncVars, balcony_open, state>>

-----------------------------------------------------------------------------

MainStep ==
    \/ ReadRequest
    \/ ReadEndOfFile
    \/ CheckRequest
    \/ WaitEmpty
    \/ Lock(Main, "lock", "push")
    \/ PushNew
    \/ PushWalk
    \/ PushLink
    \/ MainUnlock
    \/ PostFull
    \/ PostFinal
    \/ Join
    \/ DeleteQueue
    \/ DelSync

BalconyStep(b) ==
    \/ WaitFull(b)
    \/ Lock(b, "lock_check", "check")
    \/ IsQueueEmpty(b)
    \/ Decide(b)
    \/ Lock(b, "lock_take", "take")
    \/ QueueFront(b)
    \/ QueueFrontFails(b)
    \/ QueuePop(b)
    \/ PostEmpty(b)
    \/ Serve(b)
    \/ FreeRequest(b)

Next == MainStep \/ \E b \in Balconies : BalconyStep(b)

Spec == Init /\ [][Next]_vars

-----------------------------------------------------------------------------
(* Properties.                                                             *)

Pointers == Cells \cup {NULL}
Unlinked == {"check", "wait_empty", "lock", "push", "walk"}
Holding == {"pop", "post_empty", "serve", "free"}

\* The semaphore empty never exceeds the places of the queue, and full never the
\* requests and the posts of the shutdown.
TypeOK ==
    /\ pc \in [Balconies \cup {Main} ->
                  {"read", "check", "wait_empty", "lock", "push", "walk", "unlock",
                   "post_full", "post_final", "delete", "del_sync", "wait_full", "lock_check",
                   "decide", "lock_take", "take", "done"} \cup Holding]
    /\ front \in Pointers
    /\ node \in [Cells -> [val : Requests, next : Pointers] \cup {Free}]
    /\ allocated \subseteq Requests
    /\ new_node \in Pointers
    /\ iter \in Pointers
    /\ request \in Requests \cup {NoRequest}
    /\ last_read \in 0 .. Arrivals
    /\ posted \in 0 .. n_threads
    /\ first_request \in [Balconies -> Requests \cup {NoRequest}]
    /\ queue_empty \in [Balconies -> BOOLEAN]
    /\ full \in 0 .. 2 * n_threads
    /\ empty \in 0 .. n_threads
    /\ mutex \in Balconies \cup {Main, Nobody}
    /\ balcony_open \in BOOLEAN
    /\ state \in {"live", "deleted", "aborted"}

\* The pointers that the list goes through, from front on, as long as a walk over
\* all cells can be, and the nodes among them.
link[i \in 0 .. Cardinality(Cells)] ==
    IF i = 0 THEN front
    ELSE IF link[i-1] \in Cells THEN node[link[i-1]].next ELSE NULL

Length == Cardinality({i \in 1 .. Cardinality(Cells) : link[i-1] \in Cells})
List == [i \in 1 .. Length |-> link[i-1]]

\* No thread uses what was freed.  In particular main still reads the request
\* when it has put it in the queue and unlocked it (server.c:187, 193), and no
\* balcony can have taken, answered and freed it by then; main never walks over
\* a node that a balcony frees; no request is freed twice; and nobody uses the
\* queue or the semaphores after del_queue and del_sync.
NoUseAfterFree ==
    state # "aborted" =>
        /\ pc[Main] = "walk" => node[iter] # Free
        /\ pc[Main] \in {"unlock", "post_full"} => request \in allocated
        /\ \A b \in Balconies :
            /\ pc[b] = "pop" => front \in Cells /\ node[front] # Free
            /\ pc[b] \in Holding => first_request[b] \in allocated
            /\ pc[b] # "done" => state = "live"

\* Nothing leaks: a node is in the list, or is the one that main is linking; a
\* request is in the list, or is held by main or by one balcony.  So all of them
\* are free when the server ends normally, though del_queue frees no request.
NoLeak ==
    state # "aborted" =>
        /\ {c \in Cells : node[c] # Free} =
               ToSet(List) \cup (IF pc[Main] = "walk" THEN {new_node} ELSE {})
        /\ allocated =
               {node[c].val : c \in ToSet(List)}
               \cup (IF pc[Main] \in Unlinked THEN {request} ELSE {})
               \cup {first_request[b] : b \in {a \in Balconies : pc[a] \in Holding}}

\* The memory, read as the queue that it stands for.  A request is in the queue
\* once a pointer of the list leads to it and until it is popped; main has not
\* put the last request that it read while it holds it, or when it freed it.
NotPut == pc[Main] \in Unlinked \/ (request = NoRequest /\ last_read > 0)
Put == IF NotPut THEN last_read - 1 ELSE last_read

InQueue == [i \in DOMAIN List |-> node[List[i]].val]
Taken == [b \in Balconies |-> IF pc[b] = "pop" THEN NoRequest ELSE first_request[b]]

Q == INSTANCE OrderedQueue WITH
        Capacity <- n_threads, waiting <- InQueue, arrived <- Put, hand <- Taken

\* The list in memory, its mutex and its semaphores implement the bounded queue
\* that the documents promise: no request is lost, doubled or overtaken, though
\* a balcony that passed the semaphore and looked at the queue gives the mutex
\* back before it takes from it.
QueueSpec == Q!Spec

=============================================================================
