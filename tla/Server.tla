------------------------------ MODULE Server ------------------------------
(***************************************************************************)
(* The server process (src/server_f/server.c): the main thread reads       *)
(* requests from the server FIFO and puts them in request_queue, the       *)
(* balconies take them from it, serve them and reply; the semaphores full  *)
(* and empty and a mutex protect the queue (sync.c); a shutdown request    *)
(* ends the service.  A request is named after the user that sent it.      *)
(*                                                                         *)
(* Serving a request on the accounts is one step here: module Accounts     *)
(* shows that the handlers may be seen that way.  A reply reaches its user *)
(* at once.  The users and the FIFO are external to the server; failures   *)
(* of calls for lack of memory or descriptors are left out.                *)
(***************************************************************************)
EXTENDS Integers, Sequences, FiniteSets

CONSTANTS
    Users,      \* the user processes, each with one request
    Shutdowns,  \* those that ask, as the administrator, for the shutdown
    Balconies,  \* the balcony threads
    Main,       \* the main thread
    Nobody,     \* owner of a free mutex
    NoRequest   \* no request

ASSUME UsersAssumption == IsFiniteSet(Users) /\ Shutdowns \subseteq Users
ASSUME BalconiesAssumption == IsFiniteSet(Balconies) /\ Balconies # {}
ASSUME NamesAssumption ==
    /\ Main \notin Balconies
    /\ Nobody \notin Balconies \cup {Main}
    /\ NoRequest \notin Users

n_threads == Cardinality(Balconies)

VARIABLES
    fifo,           \* bytes of the server FIFO, as a sequence of requests
    fifo_mode,      \* "rw", then "r" after fchmod, then "unlinked"
    reader,         \* secure_srv is open
    writer_came,    \* somebody opened the FIFO for writing since reader is
    dummy,          \* dummy_connection is open
    upc,            \* where each user is
    mpc,            \* where the main thread is
    request,        \* the request that the main thread has read
    ret_val,        \* what read_request returned
    posted,         \* the posts of the final loop done so far
    database,       \* "none", "allocated", "ready" (with admin) or "freed"
    queue,          \* request_queue
    full, empty,    \* the two semaphores
    mutex,          \* req_queue_mutex: its owner or Nobody
    balcony_open,   \* the flag that a shutdown clears
    active_offices, \* the counter of active_offices.c
    bpc,            \* where each balcony is
    first_request,  \* the request that each balcony took
    queue_empty,    \* what each balcony saw in its last look at the queue
    replies,        \* how many replies each user was sent
    discarded,      \* the requests that the main thread read and dropped
    exit_code       \* "running", or the status of the process

fifoVars == <<fifo, fifo_mode, reader, writer_came, dummy>>
mainVars == <<mpc, request, ret_val, posted, database>>
queueVars == <<queue, full, empty, mutex>>
balconyVars == <<bpc, first_request, queue_empty>>
serviceVars == <<balcony_open, active_offices>>
outcomeVars == <<replies, discarded, exit_code>>
vars == <<fifoVars, upc, mainVars, queueVars, balconyVars, serviceVars, outcomeVars>>

Init ==
    /\ fifo = <<>>
    /\ fifo_mode = "rw"
    /\ reader = FALSE
    /\ writer_came = FALSE
    /\ dummy = FALSE
    /\ upc = [u \in Users |-> "start"]
    /\ mpc = "create_balconies"
    /\ request = NoRequest
    /\ ret_val = 0
    /\ posted = 0
    /\ database = "none"
    /\ queue = <<>>
    /\ full = 0
    /\ empty = n_threads
    /\ mutex = Nobody
    /\ balcony_open = TRUE
    /\ active_offices = 0
    /\ bpc = [b \in Balconies |-> "unborn"]
    /\ first_request = [b \in Balconies |-> NoRequest]
    /\ queue_empty = [b \in Balconies |-> FALSE]
    /\ replies = [u \in Users |-> 0]
    /\ discarded = {}
    /\ exit_code = "running"

Running == exit_code = "running"

\* Somebody holds a descriptor of the FIFO open for writing.
HasWriter == dummy \/ \E u \in Users : upc[u] \in {"opened", "sent"}

-----------------------------------------------------------------------------
(* The users (user.c) and the FIFO between them and the server.            *)

UserGoto(u, l) == upc' = [upc EXCEPT ![u] = l]

\* open(SERVER_FIFO_PATH, O_WRONLY | O_NONBLOCK) succeeds.
UserOpen(u) ==
    /\ upc[u] = "start"
    /\ fifo_mode = "rw" /\ reader
    /\ UserGoto(u, "opened")
    /\ writer_came' = TRUE
    /\ UNCHANGED <<fifo, fifo_mode, reader, dummy, mainVars, queueVars,
                   balconyVars, serviceVars, outcomeVars>>

\* The same call fails: the user reports RC_SRV_DOWN.
UserFindsServerDown(u) ==
    /\ upc[u] = "start"
    /\ ~(fifo_mode = "rw" /\ reader)
    /\ UserGoto(u, "down")
    /\ UNCHANGED <<fifoVars, mainVars, queueVars, balconyVars, serviceVars, outcomeVars>>

\* write_request is one write, and atomic; without a reader SIGPIPE kills.
UserSend(u) ==
    /\ upc[u] = "opened"
    /\ IF reader
       THEN fifo' = Append(fifo, u) /\ UserGoto(u, "sent")
       ELSE UserGoto(u, "killed") /\ UNCHANGED fifo
    /\ UNCHANGED <<fifo_mode, reader, writer_came, dummy, mainVars, queueVars,
                   balconyVars, serviceVars, outcomeVars>>

\* The user is killed between its open and its write.
UserKilled(u) ==
    /\ upc[u] = "opened"
    /\ UserGoto(u, "killed")
    /\ UNCHANGED <<fifoVars, mainVars, queueVars, balconyVars, serviceVars, outcomeVars>>

\* exit_user_process, after the reply or after the alarm of FIFO_TIMEOUT_SECS.
UserLeave(u) ==
    /\ upc[u] = "sent"
    /\ UserGoto(u, "left")
    /\ UNCHANGED <<fifoVars, mainVars, queueVars, balconyVars, serviceVars, outcomeVars>>

-----------------------------------------------------------------------------
(* The main thread.                                                        *)

MainAt(l) == Running /\ mpc = l

CreateBalcony(b) ==
    /\ MainAt("create_balconies")
    /\ bpc[b] = "unborn"
    /\ bpc' = [bpc EXCEPT ![b] = "wait_full"]
    /\ mpc' = IF \A c \in Balconies \ {b} : bpc[c] # "unborn"
              THEN "allocate" ELSE mpc
    /\ UNCHANGED <<fifoVars, upc, request, ret_val, posted, database, queueVars,
                   first_request, queue_empty, serviceVars, outcomeVars>>

AllocateDatabase ==
    /\ MainAt("allocate")
    /\ database' = "allocated"
    /\ mpc' = "create_admin"
    /\ UNCHANGED <<fifoVars, upc, request, ret_val, posted, queueVars,
                   balconyVars, serviceVars, outcomeVars>>

CreateAdmin ==
    /\ MainAt("create_admin")
    /\ database' = "ready"
    /\ mpc' = "open_fifo"
    /\ UNCHANGED <<fifoVars, upc, request, ret_val, posted, queueVars,
                   balconyVars, serviceVars, outcomeVars>>

\* open(SERVER_FIFO_PATH, O_RDONLY): users can connect from here on, ...
OpenFifo ==
    /\ MainAt("open_fifo")
    /\ reader' = TRUE
    /\ mpc' = "wait_writer"
    /\ UNCHANGED <<fifo, fifo_mode, writer_came, dummy, upc, request, ret_val,
                   posted, database, queueVars, balconyVars, serviceVars, outcomeVars>>

\* ... and the call returns when one has done so.  Then main opens its own
\* write end, so that the FIFO is never without a writer.
OpenDummy ==
    /\ MainAt("wait_writer")
    /\ writer_came
    /\ dummy' = TRUE
    /\ mpc' = "read"
    /\ UNCHANGED <<fifo, fifo_mode, reader, writer_came, upc, request, ret_val,
                   posted, database, queueVars, balconyVars, serviceVars, outcomeVars>>

\* What read_request returns after a whole request, and at the end of file.
READ_OK == 0
READ_EOF == 0

ReadRequest ==
    /\ MainAt("read")
    /\ fifo # <<>>
    /\ request' = Head(fifo)
    /\ fifo' = Tail(fifo)
    /\ ret_val' = READ_OK
    /\ mpc' = "check"
    /\ UNCHANGED <<fifo_mode, reader, writer_came, dummy, upc, posted, database,
                   queueVars, balconyVars, serviceVars, outcomeVars>>

ReadEndOfFile ==
    /\ MainAt("read")
    /\ fifo = <<>>
    /\ ~HasWriter
    /\ ret_val' = READ_EOF
    /\ mpc' = "check"
    /\ UNCHANGED <<fifoVars, upc, request, posted, database, queueVars,
                   balconyVars, serviceVars, outcomeVars>>

\* free(request) and leave the loop, or go on with the request.
CheckRequest ==
    /\ MainAt("check")
    /\ IF ~balcony_open /\ ret_val = 0
       THEN /\ mpc' = "post_final"
            /\ discarded' = discarded \cup ({request} \ {NoRequest})
            /\ request' = NoRequest
       ELSE /\ mpc' = "wait_empty"
            /\ UNCHANGED <<discarded, request>>
    /\ UNCHANGED <<fifoVars, upc, ret_val, posted, database, queueVars,
                   balconyVars, serviceVars, replies, exit_code>>

\* Mutant: does not claim a place in the queue.
MainWaitEmpty_forgets ==
    /\ MainAt("wait_empty")
    /\ mpc' = "lock"
    /\ UNCHANGED <<fifoVars, upc, request, ret_val, posted, database, queueVars,
                   balconyVars, serviceVars, outcomeVars>>

MainWaitEmpty ==
    /\ MainAt("wait_empty")
    /\ empty > 0
    /\ empty' = empty - 1
    /\ mpc' = "lock"
    /\ UNCHANGED <<fifoVars, upc, request, ret_val, posted, database, queue, full,
                   mutex, balconyVars, serviceVars, outcomeVars>>

MainLock ==
    /\ MainAt("lock")
    /\ mutex = Nobody
    /\ mutex' = Main
    /\ mpc' = "push"
    /\ UNCHANGED <<fifoVars, upc, request, ret_val, posted, database, queue, full,
                   empty, balconyVars, serviceVars, outcomeVars>>

\* queue_push and unlock_queue_mutex.
MainPush ==
    /\ MainAt("push")
    /\ queue' = Append(queue, request)
    /\ request' = NoRequest
    /\ mutex' = Nobody
    /\ mpc' = "post_full"
    /\ UNCHANGED <<fifoVars, upc, ret_val, posted, database, full, empty,
                   balconyVars, serviceVars, outcomeVars>>

\* Mutants: no post, and one too many.
MainPostFull_forgets ==
    /\ MainAt("post_full")
    /\ mpc' = "read"
    /\ UNCHANGED <<fifoVars, upc, request, ret_val, posted, database, queueVars,
                   balconyVars, serviceVars, outcomeVars>>

MainPostFull_twice ==
    /\ MainAt("post_full")
    /\ full' = full + 2
    /\ mpc' = "read"
    /\ UNCHANGED <<fifoVars, upc, request, ret_val, posted, database, queue, empty,
                   mutex, balconyVars, serviceVars, outcomeVars>>

MainPostFull ==
    /\ MainAt("post_full")
    /\ full' = full + 1
    /\ mpc' = "read"
    /\ UNCHANGED <<fifoVars, upc, request, ret_val, posted, database, queue, empty,
                   mutex, balconyVars, serviceVars, outcomeVars>>

\* The loop that lets every balcony see that the service is closed.
MainPostFinal ==
    /\ MainAt("post_final")
    /\ posted < n_threads
    /\ full' = full + 1
    /\ posted' = posted + 1
    /\ UNCHANGED <<fifoVars, upc, mpc, request, ret_val, database, queue, empty,
                   mutex, balconyVars, serviceVars, outcomeVars>>

\* Mutant: does not join the balconies.
MainJoin_skips ==
    /\ MainAt("post_final")
    /\ posted = n_threads
    /\ mpc' = "cleanup"
    /\ UNCHANGED <<fifoVars, upc, request, ret_val, posted, database, queueVars,
                   balconyVars, serviceVars, outcomeVars>>

\* pthread_join of every balcony.
MainJoin ==
    /\ MainAt("post_final")
    /\ posted = n_threads
    /\ \A b \in Balconies : bpc[b] = "done"
    /\ mpc' = "cleanup"
    /\ UNCHANGED <<fifoVars, upc, request, ret_val, posted, database, queueVars,
                   balconyVars, serviceVars, outcomeVars>>

\* del_queue, del_sync, free of the accounts.
MainCleanup ==
    /\ MainAt("cleanup")
    /\ queue' = <<>>
    /\ database' = "freed"
    /\ mpc' = "close"
    /\ UNCHANGED <<fifoVars, upc, request, ret_val, posted, full, empty, mutex,
                   balconyVars, serviceVars, outcomeVars>>

\* Without a reader or a writer the kernel drops what is left in the FIFO.
MainClose ==
    /\ MainAt("close")
    /\ reader' = FALSE
    /\ mpc' = "unlink"
    /\ UNCHANGED <<fifo, fifo_mode, writer_came, dummy, upc, request, ret_val,
                   posted, database, queueVars, balconyVars, serviceVars, outcomeVars>>

MainExit ==
    /\ MainAt("unlink")
    /\ fifo_mode' = "unlinked"
    /\ mpc' = "exited"
    /\ exit_code' = "RC_OK"
    /\ UNCHANGED <<fifo, reader, writer_came, dummy, upc, request, ret_val, posted,
                   database, queueVars, balconyVars, serviceVars, replies, discarded>>

-----------------------------------------------------------------------------
(* A balcony.                                                              *)

BalconyAt(b, l) == Running /\ bpc[b] = l
Goto(b, l) == bpc' = [bpc EXCEPT ![b] = l]

WaitFull(b) ==
    /\ BalconyAt(b, "wait_full")
    /\ full > 0
    /\ full' = full - 1
    /\ Goto(b, "lock_check")
    /\ UNCHANGED <<fifoVars, upc, mainVars, queue, empty, mutex, first_request,
                   queue_empty, serviceVars, outcomeVars>>

LockToCheck(b) ==
    /\ BalconyAt(b, "lock_check")
    /\ mutex = Nobody
    /\ mutex' = b
    /\ Goto(b, "check")
    /\ UNCHANGED <<fifoVars, upc, mainVars, queue, full, empty, first_request,
                   queue_empty, serviceVars, outcomeVars>>

\* Mutant: forgets to unlock.
CheckQueue_keepsMutex(b) ==
    /\ BalconyAt(b, "check")
    /\ queue_empty' = [queue_empty EXCEPT ![b] = queue = <<>>]
    /\ Goto(b, "decide")
    /\ UNCHANGED <<fifoVars, upc, mainVars, queueVars, first_request,
                   serviceVars, outcomeVars>>

\* is_queue_empty and unlock_queue_mutex.
CheckQueue(b) ==
    /\ BalconyAt(b, "check")
    /\ queue_empty' = [queue_empty EXCEPT ![b] = queue = <<>>]
    /\ mutex' = Nobody
    /\ Goto(b, "decide")
    /\ UNCHANGED <<fifoVars, upc, mainVars, queue, full, empty, first_request,
                   serviceVars, outcomeVars>>

\* Mutant: ends as soon as the service is closed.
Decide_ignoresQueue(b) ==
    /\ BalconyAt(b, "decide")
    /\ Goto(b, IF ~balcony_open THEN "done" ELSE "increase")
    /\ queue_empty' = [queue_empty EXCEPT ![b] = FALSE]
    /\ UNCHANGED <<fifoVars, upc, mainVars, queueVars, first_request,
                   serviceVars, outcomeVars>>

\* The flag is read after the mutex was given back.  queue_empty is not read
\* again; its dead value is reset.
Decide(b) ==
    /\ BalconyAt(b, "decide")
    /\ Goto(b, IF ~balcony_open /\ queue_empty[b] THEN "done" ELSE "increase")
    /\ queue_empty' = [queue_empty EXCEPT ![b] = FALSE]
    /\ UNCHANGED <<fifoVars, upc, mainVars, queueVars, first_request,
                   serviceVars, outcomeVars>>

\* Mutant: does not count.
IncreaseActiveOffices_forgets(b) ==
    /\ BalconyAt(b, "increase")
    /\ Goto(b, "lock_take")
    /\ UNCHANGED <<fifoVars, upc, mainVars, queueVars, first_request, queue_empty,
                   serviceVars, outcomeVars>>

IncreaseActiveOffices(b) ==
    /\ BalconyAt(b, "increase")
    /\ active_offices' = active_offices + 1
    /\ Goto(b, "lock_take")
    /\ UNCHANGED <<fifoVars, upc, mainVars, queueVars, first_request, queue_empty,
                   balcony_open, outcomeVars>>

LockToTake(b) ==
    /\ BalconyAt(b, "lock_take")
    /\ mutex = Nobody
    /\ mutex' = b
    /\ Goto(b, "take")
    /\ UNCHANGED <<fifoVars, upc, mainVars, queue, full, empty, first_request,
                   queue_empty, serviceVars, outcomeVars>>

\* Mutant: queue_front without queue_pop.
Take_withoutPop(b) ==
    /\ BalconyAt(b, "take")
    /\ queue # <<>>
    /\ first_request' = [first_request EXCEPT ![b] = Head(queue)]
    /\ mutex' = Nobody
    /\ Goto(b, "post_empty")
    /\ UNCHANGED <<fifoVars, upc, mainVars, queue, full, empty, queue_empty,
                   serviceVars, outcomeVars>>

\* queue_front, queue_pop and unlock_queue_mutex.
Take(b) ==
    /\ BalconyAt(b, "take")
    /\ queue # <<>>
    /\ first_request' = [first_request EXCEPT ![b] = Head(queue)]
    /\ queue' = Tail(queue)
    /\ mutex' = Nobody
    /\ Goto(b, "post_empty")
    /\ UNCHANGED <<fifoVars, upc, mainVars, full, empty, queue_empty,
                   serviceVars, outcomeVars>>

\* queue_front finds nothing: exit(RC_OTHER) ends the whole server; its
\* descriptors are closed, its FIFO stays in the file system.
TakeNothing(b) ==
    /\ BalconyAt(b, "take")
    /\ queue = <<>>
    /\ exit_code' = "RC_OTHER"
    /\ reader' = FALSE
    /\ dummy' = FALSE
    /\ UNCHANGED <<fifo, fifo_mode, writer_came, upc, mainVars, queueVars,
                   balconyVars, serviceVars, replies, discarded>>

PostEmpty(b) ==
    /\ BalconyAt(b, "post_empty")
    /\ empty' = empty + 1
    /\ Goto(b, "serve")
    /\ UNCHANGED <<fifoVars, upc, mainVars, queue, full, mutex, first_request,
                   queue_empty, serviceVars, outcomeVars>>

\* create_request, transfer_request, balance_request, or a refused shutdown.
ServeAccounts(b) ==
    /\ BalconyAt(b, "serve")
    /\ first_request[b] \notin Shutdowns
    /\ Goto(b, "reply")
    /\ UNCHANGED <<fifoVars, upc, mainVars, queueVars, first_request, queue_empty,
                   serviceVars, outcomeVars>>

\* Mutant: closes the dummy writer but leaves the flag.
ShutdownFlag_forgets(b) ==
    /\ BalconyAt(b, "serve")
    /\ first_request[b] \in Shutdowns
    /\ Goto(b, "close_dummy")
    /\ UNCHANGED <<fifoVars, upc, mainVars, queueVars, first_request, queue_empty,
                   serviceVars, outcomeVars>>

\* shutdown_request: clear the flag, close the dummy writer, fchmod the FIFO.
ShutdownFlag(b) ==
    /\ BalconyAt(b, "serve")
    /\ first_request[b] \in Shutdowns
    /\ balcony_open' = FALSE
    /\ Goto(b, "close_dummy")
    /\ UNCHANGED <<fifoVars, upc, mainVars, queueVars, first_request, queue_empty,
                   active_offices, outcomeVars>>

\* Mutant: leaves the dummy writer open.
ShutdownClose_forgets(b) ==
    /\ BalconyAt(b, "close_dummy")
    /\ Goto(b, "fchmod")
    /\ UNCHANGED <<fifoVars, upc, mainVars, queueVars, first_request, queue_empty,
                   serviceVars, outcomeVars>>

\* A second shutdown finds the descriptor closed, and returns early, or closes
\* whatever file has got its number since, and goes on.
ShutdownClose(b) ==
    /\ BalconyAt(b, "close_dummy")
    /\ dummy' = FALSE
    /\ \E next \in IF dummy THEN {"fchmod"} ELSE {"fchmod", "reply"} : Goto(b, next)
    /\ UNCHANGED <<fifo, fifo_mode, reader, writer_came, upc, mainVars, queueVars,
                   first_request, queue_empty, serviceVars, outcomeVars>>

ShutdownMode(b) ==
    /\ BalconyAt(b, "fchmod")
    /\ fifo_mode' = "r"
    /\ Goto(b, "reply")
    /\ UNCHANGED <<fifo, reader, writer_came, dummy, upc, mainVars, queueVars,
                   first_request, queue_empty, serviceVars, outcomeVars>>

SendReply(b) ==
    /\ BalconyAt(b, "reply")
    /\ replies' = [replies EXCEPT ![first_request[b]] = @ + 1]
    /\ first_request' = [first_request EXCEPT ![b] = NoRequest]
    /\ Goto(b, "decrease")
    /\ UNCHANGED <<fifoVars, upc, mainVars, queueVars, queue_empty, serviceVars,
                   discarded, exit_code>>

\* Mutant: does not count back.
DecreaseActiveOffices_forgets(b) ==
    /\ BalconyAt(b, "decrease")
    /\ Goto(b, "wait_full")
    /\ UNCHANGED <<fifoVars, upc, mainVars, queueVars, first_request, queue_empty,
                   serviceVars, outcomeVars>>

DecreaseActiveOffices(b) ==
    /\ BalconyAt(b, "decrease")
    /\ active_offices' = active_offices - 1
    /\ Goto(b, "wait_full")
    /\ UNCHANGED <<fifoVars, upc, mainVars, queueVars, first_request, queue_empty,
                   balcony_open, outcomeVars>>

-----------------------------------------------------------------------------

UserStep(u) ==
    \/ UserOpen(u)
    \/ UserFindsServerDown(u)
    \/ UserSend(u)
    \/ UserKilled(u)
    \/ UserLeave(u)

MainStep ==
    \/ \E b \in Balconies : CreateBalcony(b)
    \/ AllocateDatabase
    \/ CreateAdmin
    \/ OpenFifo
    \/ OpenDummy
    \/ ReadRequest
    \/ ReadEndOfFile
    \/ CheckRequest
    \/ MainWaitEmpty
    \/ MainLock
    \/ MainPush
    \/ MainPostFull
    \/ MainPostFinal
    \/ MainJoin
    \/ MainCleanup
    \/ MainClose
    \/ MainExit

BalconyStep(b) ==
    \/ WaitFull(b)
    \/ LockToCheck(b)
    \/ CheckQueue(b)
    \/ Decide(b)
    \/ IncreaseActiveOffices(b)
    \/ LockToTake(b)
    \/ Take(b)
    \/ TakeNothing(b)
    \/ PostEmpty(b)
    \/ ServeAccounts(b)
    \/ ShutdownFlag(b)
    \/ ShutdownClose(b)
    \/ ShutdownMode(b)
    \/ SendReply(b)
    \/ DecreaseActiveOffices(b)

Next ==
    \/ \E u \in Users : UserStep(u)
    \/ MainStep
    \/ \E b \in Balconies : BalconyStep(b)

Spec == Init /\ [][Next]_vars

\* The scheduler keeps running every thread, and a user that has connected
\* writes its request and leaves: its alarm ends it after FIFO_TIMEOUT_SECS.
\* Nobody has to start a user, and nothing is assumed of the order in which
\* threads get the queue mutex.
Fairness ==
    /\ WF_vars(MainStep)
    /\ \A b \in Balconies : WF_vars(BalconyStep(b))
    /\ \A u \in Users : WF_vars(UserSend(u) \/ UserKilled(u) \/ UserLeave(u))

FairSpec == Spec /\ Fairness

-----------------------------------------------------------------------------
(* Properties.                                                             *)

UserPoints == {"start", "opened", "sent", "left", "down", "killed"}
BalconyPoints ==
    {"unborn", "wait_full", "lock_check", "check", "decide", "increase", "lock_take",
     "take", "post_empty", "serve", "close_dummy", "fchmod", "reply", "decrease", "done"}

TypeOK ==
    /\ fifo \in Seq(Users)
    /\ fifo_mode \in {"rw", "r", "unlinked"}
    /\ reader \in BOOLEAN
    /\ writer_came \in BOOLEAN
    /\ dummy \in BOOLEAN
    /\ upc \in [Users -> UserPoints]
    /\ mpc \in {"create_balconies", "allocate", "create_admin", "open_fifo",
                "wait_writer", "read", "check", "wait_empty", "lock", "push",
                "post_full", "post_final", "cleanup", "close", "unlink", "exited"}
    /\ request \in Users \cup {NoRequest}
    /\ ret_val \in Int
    /\ posted \in 0 .. n_threads
    /\ database \in {"none", "allocated", "ready", "freed"}
    /\ queue \in Seq(Users)
    /\ full \in Nat
    /\ empty \in Nat
    /\ mutex \in Balconies \cup {Main, Nobody}
    /\ balcony_open \in BOOLEAN
    /\ active_offices \in Nat
    /\ bpc \in [Balconies -> BalconyPoints]
    /\ first_request \in [Balconies -> Users \cup {NoRequest}]
    /\ queue_empty \in [Balconies -> BOOLEAN]
    /\ replies \in [Users -> Nat]
    /\ discarded \in SUBSET Users
    /\ exit_code \in {"running", "RC_OK", "RC_OTHER"}

BalconiesAt(points) == {b \in Balconies : bpc[b] \in points}
One(condition) == IF condition THEN 1 ELSE 0

\* Every unit of empty is a free place of the queue, or a place that the main
\* thread or a balcony has claimed or not yet given back (server.c:166-196,
\* 286-316): the queue never holds more than n_threads requests.
EmptyAccounting ==
    mpc \notin {"close", "unlink", "exited"} =>
        empty + Len(queue) + One(mpc \in {"lock", "push"})
              + Cardinality(BalconiesAt({"post_empty"})) = n_threads

\* Every unit of full stands for a request in the queue, or for one of the n
\* posts of the shutdown; a balcony that passed the semaphore holds one until
\* it takes a request or ends.
FullAccounting ==
    mpc \notin {"close", "unlink", "exited"} =>
        full + Cardinality(BalconiesAt({"lock_check", "check", "decide",
                                        "increase", "lock_take", "take", "done"}))
             + One(mpc = "post_full")
        = Len(queue) + posted

\* A balcony finds the queue empty, and aborts the server, only during a
\* shutdown: before it, whoever passed the semaphore has a request to take,
\* though the queue was unlocked between its look and its take.
NoAbortInService == exit_code = "RC_OTHER" => ~balcony_open /\ posted > 0

\* Every copy of the request of user u, wherever it is.
Copies(u) ==
    Cardinality({i \in DOMAIN fifo : fifo[i] = u}) + One(request = u)
    + Cardinality({i \in DOMAIN queue : queue[i] = u})
    + Cardinality({b \in Balconies : first_request[b] = u})
    + One(u \in discarded) + replies[u]

\* A request that was sent is always in exactly one place, and ends with one
\* reply at most: it is never duplicated, overwritten or forgotten on its way
\* from the FIFO through the queue to a balcony, and nobody gets a reply
\* without a request.  (The one place where requests are dropped is discarded.)
OneCopy ==
    \A u \in Users : Copies(u) = One(upc[u] \in {"sent", "left"})

\* The end of file of the FIFO is never taken for a request: the flag is
\* cleared before the dummy writer is closed (requests.c:158-161), so main
\* sees the service closed when read returns 0 bytes.
NoPhantomRequest ==
    mpc \in {"wait_empty", "lock", "push"} => request # NoRequest

\* The counter of active offices is the number of balconies that are busy, so
\* what a shutdown reports, one less, counts the others and is never negative.
ActiveOfficesExact ==
    active_offices =
        Cardinality(BalconiesAt({"lock_take", "take", "post_empty", "serve",
                                 "close_dummy", "fchmod", "reply", "decrease"}))

\* Balconies run before the accounts are allocated and main frees them at the
\* end, yet no balcony serves a request when there are none: requests wait for
\* the FIFO, which main opens last (server.c:103-141), and the free for the
\* joins (server.c:204-225).
AccountsThereWhenServing ==
    BalconiesAt({"serve", "close_dummy", "fchmod"}) # {} => database = "ready"

\* When the server ends with RC_OK, every request that reached the queue was
\* answered: only those read after the shutdown, or left in the FIFO, are not.
AcceptedAreAnswered ==
    exit_code = "RC_OK" =>
        \A u \in Users : upc[u] \in {"sent", "left"} =>
            \/ replies[u] = 1
            \/ u \in discarded
            \/ \E i \in DOMAIN fifo : fifo[i] = u

\* A shutdown ends the server, whatever the requests it still has.
ShutdownEnds == ~balcony_open ~> ~Running

\* A request in the queue is answered, unless a shutdown aborts the server.
QueuedIsAnswered ==
    \A u \in Users :
        (\E i \in DOMAIN queue : queue[i] = u)
            ~> (replies[u] = 1 \/ exit_code = "RC_OTHER")

-----------------------------------------------------------------------------
(* Statements of the documents that the server does not keep.              *)

\* project.pdf, "Encerramento do servidor": the requests still pending, those
\* in the buffer of the FIFO included, are processed before the program ends.
PendingAreServed ==
    exit_code = "RC_OK" =>
        \A u \in Users : upc[u] \in {"sent", "left"} => replies[u] = 1

\* project.pdf, same place: the program ends only after all pending requests and
\* operations were processed, so none is cut short by a balcony that aborts.
OperationsAreFinished ==
    exit_code = "RC_OTHER" => \A b \in Balconies : first_request[b] = NoRequest

=============================================================================
