----------------------------- MODULE Delivery -----------------------------
(***************************************************************************)
(* The life of a user process (src/user_f/user.c) and the way of its reply *)
(* (the second half of balconies in src/server_f/server.c): the FIFO that  *)
(* each user makes for its replies, opens that block until the other end   *)
(* comes, the alarm of the user, the logs of both sides, users that are    *)
(* killed, and the descriptors of the server, whose numbers are used again *)
(* after a close.                                                          *)
(*                                                                         *)
(* Each user has a name of its own for its FIFO.  The way of a request to  *)
(* a balcony, and when exactly a shutdown ends the server, are the subject *)
(* of module Server; the codes of the handlers that of module Accounts.    *)
(***************************************************************************)
EXTENDS Naturals, Sequences, FiniteSets, FiniteSetsExt, SequencesExt

CONSTANTS
    Users,      \* the user processes
    Balconies,  \* the threads of the server
    Results,    \* what the handlers on the accounts return
    Nobody      \* no user, no balcony

ASSUME UsersAssumption == IsFiniteSet(Users)
ASSUME BalconiesAssumption == IsFiniteSet(Balconies) /\ Balconies # {}
ASSUME ResultsAssumption == Results \subseteq {"RC_OK", "RC_LOGIN_FAIL"}
ASSUME NobodyAssumption == Nobody \notin Users \cup Balconies

VARIABLES
    upc,            \* where each user is
    ret_user,       \* the code that it ends with
    armed,          \* its alarm is set
    logged_request, \* its two flags
    logged_reply,
    request_reply,  \* the reply that it has read
    ulog,           \* its records in the user log, oldest first
    linked,         \* the name of its FIFO is in the file system
    reading,        \* its reading end: "closed", "opening" or "open"
    content,        \* the replies in its FIFO
    server,         \* "up", "ended", or "killed" by SIGPIPE
    accepting,      \* the mode of the server FIFO still lets users write
    pending,        \* requests on their way to a balcony
    fd,             \* the descriptor table of the server, from its number on
    misclosed,      \* a second shutdown closed a descriptor of somebody else
    bpc,            \* where each balcony is
    first_request,  \* the user that it serves
    req_ret,        \* the code of its reply
    user_fifo,      \* number of its descriptor, or BadFd
    log_mutex,      \* the balcony that writes a record in the server log
    log_buffer,     \* the buffer of atomicPrintf; what was written is dead
    slog            \* the records of the server log about each user, oldest first

userVars == <<upc, ret_user, armed, logged_request, logged_reply, request_reply, ulog>>
fifoVars == <<linked, reading, content>>
serverVars == <<server, accepting, pending, misclosed, slog>>
balconyVars == <<bpc, first_request, req_ret, user_fifo>>
logVars == <<log_mutex, log_buffer>>
vars == <<userVars, fifoVars, serverVars, fd, balconyVars, logVars>>

\* Numbers from the one of dummy_connection on, which is the lowest that is not
\* taken for the whole life of the server.
Dummy == 0
Numbers == 0 .. Cardinality(Balconies)
BadFd == Cardinality(Balconies) + 1

\* What a number stands for.
Free == [file |-> "none"]
DummyEnd == [file |-> "server FIFO"]
Opening(u) == [file |-> "user FIFO", user |-> u, returned |-> FALSE]
Opened(u) == [file |-> "user FIFO", user |-> u, returned |-> TRUE]

NoCode == "no code"
Codes == {"RC_OK", "RC_SRV_DOWN", "RC_SRV_TIMEOUT", "RC_USR_DOWN",
          "RC_LOGIN_FAIL", "RC_OTHER"}
NoReply == [user |-> Nobody, ret_code |-> NoCode]

\* The records of both logs.
RequestRecord == [kind |-> "request", ret_code |-> NoCode]
ReplyRecord(code) == [kind |-> "reply", ret_code |-> code]
NoRecord == [user |-> Nobody, record |-> RequestRecord]

Init ==
    /\ upc = [u \in Users |-> "mkfifo"]
    /\ ret_user = [u \in Users |-> NoCode]
    /\ armed = [u \in Users |-> FALSE]
    /\ logged_request = [u \in Users |-> FALSE]
    /\ logged_reply = [u \in Users |-> FALSE]
    /\ request_reply = [u \in Users |-> NoReply]
    /\ ulog = [u \in Users |-> <<>>]
    /\ linked = [u \in Users |-> FALSE]
    /\ reading = [u \in Users |-> "closed"]
    /\ content = [u \in Users |-> <<>>]
    /\ server = "up"
    /\ accepting = TRUE
    /\ pending = {}
    /\ fd = [n \in Numbers |-> IF n = Dummy THEN DummyEnd ELSE Free]
    /\ misclosed = FALSE
    /\ bpc = [b \in Balconies |-> "idle"]
    /\ first_request = [b \in Balconies |-> Nobody]
    /\ req_ret = [b \in Balconies |-> NoCode]
    /\ user_fifo = [b \in Balconies |-> BadFd]
    /\ log_mutex = Nobody
    /\ log_buffer = NoRecord
    /\ slog = [u \in Users |-> <<>>]

\* Somebody has, or waits to have, the FIFO of u open for writing.
HasWriter(u) == \E n \in Numbers : fd[n] \in {Opening(u), Opened(u)}

-----------------------------------------------------------------------------
(* A user process.                                                         *)

UserGoto(u, l) == upc' = [upc EXCEPT ![u] = l]

\* Mutant: the FIFO is not made.
MakeFifo_forgets(u) ==
    /\ upc[u] = "mkfifo"
    /\ UserGoto(u, "open_server")
    /\ UNCHANGED <<ret_user, armed, logged_request, logged_reply, request_reply,
                   ulog, fifoVars, serverVars, fd, balconyVars, logVars>>

MakeFifo(u) ==
    /\ upc[u] = "mkfifo"
    /\ linked' = [linked EXCEPT ![u] = TRUE]
    /\ UserGoto(u, "open_server")
    /\ UNCHANGED <<ret_user, armed, logged_request, logged_reply, request_reply,
                   ulog, reading, content, serverVars, fd, balconyVars, logVars>>

\* Go to exit_user_process with this code.
ExitWith(u, code) ==
    /\ ret_user' = [ret_user EXCEPT ![u] = code]
    /\ UserGoto(u, "exit")

OpenServer(u) ==
    /\ upc[u] = "open_server"
    /\ IF server = "up" /\ accepting
       THEN UserGoto(u, "write") /\ UNCHANGED ret_user
       ELSE ExitWith(u, "RC_SRV_DOWN")
    /\ UNCHANGED <<armed, logged_request, logged_reply, request_reply, ulog,
                   fifoVars, serverVars, fd, balconyVars, logVars>>

\* The end of the process: its memory is gone, its reading end is closed, and
\* the kernel drops what nobody can read any more.
Terminate(u, l) ==
    /\ UserGoto(u, l)
    /\ reading' = [reading EXCEPT ![u] = "closed"]
    /\ content' = [content EXCEPT ![u] = <<>>]
    /\ armed' = [armed EXCEPT ![u] = FALSE]
    /\ logged_request' = [logged_request EXCEPT ![u] = FALSE]
    /\ logged_reply' = [logged_reply EXCEPT ![u] = FALSE]
    /\ request_reply' = [request_reply EXCEPT ![u] = NoReply]

\* write_request; when the server has gone SIGPIPE kills the user.
WriteRequest(u) ==
    /\ upc[u] = "write"
    /\ IF server = "up"
       THEN /\ pending' = pending \cup {u}
            /\ UserGoto(u, "alarm")
            /\ UNCHANGED <<reading, content, armed, logged_request, logged_reply,
                           request_reply>>
       ELSE Terminate(u, "killed") /\ UNCHANGED pending
    /\ UNCHANGED <<ret_user, ulog, linked, server, accepting, misclosed, slog, fd, balconyVars, logVars>>

\* Mutant: no alarm.
SetAlarm_forgets(u) ==
    /\ upc[u] = "alarm"
    /\ UserGoto(u, "log_request")
    /\ UNCHANGED <<ret_user, armed, logged_request, logged_reply, request_reply,
                   ulog, fifoVars, serverVars, fd, balconyVars, logVars>>

SetAlarm(u) ==
    /\ upc[u] = "alarm"
    /\ armed' = [armed EXCEPT ![u] = TRUE]
    /\ UserGoto(u, "log_request")
    /\ UNCHANGED <<ret_user, logged_request, logged_reply, request_reply,
                   ulog, fifoVars, serverVars, fd, balconyVars, logVars>>

\* logRequest, and then its flag: the alarm may come in between.
LogRequest(u) ==
    /\ upc[u] = "log_request"
    /\ ulog' = [ulog EXCEPT ![u] = Append(@, RequestRecord)]
    /\ UserGoto(u, "flag_request")
    /\ UNCHANGED <<ret_user, armed, logged_request, logged_reply, request_reply,
                   fifoVars, serverVars, fd, balconyVars, logVars>>

FlagRequest(u) ==
    /\ upc[u] = "flag_request"
    /\ logged_request' = [logged_request EXCEPT ![u] = TRUE]
    /\ UserGoto(u, "open_own")
    /\ UNCHANGED <<ret_user, armed, logged_reply, request_reply, ulog,
                   fifoVars, serverVars, fd, balconyVars, logVars>>

\* open(secure_fifo_name, O_RDONLY): it meets a writer that waits, whose open
\* returns as well, or starts to wait for one.
OpenOwn(u) ==
    /\ upc[u] = "open_own"
    /\ reading' = [reading EXCEPT ![u] = IF HasWriter(u) THEN "open" ELSE "opening"]
    /\ fd' = [n \in Numbers |-> IF fd[n] = Opening(u) THEN Opened(u) ELSE fd[n]]
    /\ UserGoto(u, "read")
    /\ UNCHANGED <<ret_user, armed, logged_request, logged_reply, request_reply,
                   ulog, linked, content, serverVars, balconyVars, logVars>>

\* The open returns when a writer has come; read_reply then waits for a reply,
\* or for the last writer to go.
ReadReply(u) ==
    /\ upc[u] = "read"
    /\ content[u] # <<>>
    /\ request_reply' = [request_reply EXCEPT ![u] = Head(content[u])]
    /\ content' = [content EXCEPT ![u] = Tail(@)]
    /\ UserGoto(u, "cancel_alarm")
    /\ UNCHANGED <<ret_user, armed, logged_request, logged_reply, ulog, linked,
                   reading, serverVars, fd, balconyVars, logVars>>

\* Mutant: does not look at what read_reply returns.
ReadEndOfFile_goesOn(u) ==
    /\ upc[u] = "read"
    /\ reading[u] = "open" /\ content[u] = <<>>
    /\ ~HasWriter(u)
    /\ UserGoto(u, "cancel_alarm")
    /\ UNCHANGED <<ret_user, armed, logged_request, logged_reply, request_reply,
                   ulog, fifoVars, serverVars, fd, balconyVars, logVars>>

\* At the end of file: exit(RC_OTHER), without exit_user_process.
ReadEndOfFile(u) ==
    /\ upc[u] = "read"
    /\ reading[u] = "open" /\ content[u] = <<>>
    /\ ~HasWriter(u)
    /\ ret_user' = [ret_user EXCEPT ![u] = "RC_OTHER"]
    /\ Terminate(u, "failed")
    /\ UNCHANGED <<ulog, linked, serverVars, fd, balconyVars, logVars>>

\* Mutant: the alarm stays set.
CancelAlarm_forgets(u) ==
    /\ upc[u] = "cancel_alarm"
    /\ UserGoto(u, "log_reply")
    /\ UNCHANGED <<ret_user, armed, logged_request, logged_reply, request_reply,
                   ulog, fifoVars, serverVars, fd, balconyVars, logVars>>

CancelAlarm(u) ==
    /\ upc[u] = "cancel_alarm"
    /\ armed' = [armed EXCEPT ![u] = FALSE]
    /\ UserGoto(u, "log_reply")
    /\ UNCHANGED <<ret_user, logged_request, logged_reply, request_reply,
                   ulog, fifoVars, serverVars, fd, balconyVars, logVars>>

\* Without the alarm nothing comes between the record and its flag.
LogReply(u) ==
    /\ upc[u] = "log_reply"
    /\ ulog' = [ulog EXCEPT ![u] = Append(@, ReplyRecord(request_reply[u].ret_code))]
    /\ logged_reply' = [logged_reply EXCEPT ![u] = TRUE]
    /\ ExitWith(u, "RC_OK")
    /\ UNCHANGED <<armed, logged_request, request_reply,
                   fifoVars, serverVars, fd, balconyVars, logVars>>

\* sigalarm_handler interrupts the user wherever it is.
Alarm(u) ==
    /\ armed[u]
    /\ armed' = [armed EXCEPT ![u] = FALSE]
    /\ ExitWith(u, "RC_SRV_TIMEOUT")
    /\ UNCHANGED <<logged_request, logged_reply, request_reply, ulog,
                   fifoVars, serverVars, fd, balconyVars, logVars>>

\* The records that exit_user_process still has to write, as the flags say.
MissingRecords(u) ==
    (IF logged_request[u] THEN <<>> ELSE <<RequestRecord>>)
        \o (IF logged_reply[u] THEN <<>> ELSE <<ReplyRecord(ret_user[u])>>)

\* Mutant: does not look at logged_reply.
ExitUserProcess_logsAgain(u) ==
    /\ upc[u] = "exit"
    /\ ulog' = [ulog EXCEPT ![u] =
                    @ \o (IF logged_request[u] THEN <<>> ELSE <<RequestRecord>>)
                      \o <<ReplyRecord(ret_user[u])>>]
    /\ linked' = [linked EXCEPT ![u] = FALSE]
    /\ Terminate(u, "left")
    /\ UNCHANGED <<ret_user, serverVars, fd, balconyVars, logVars>>

\* exit_user_process: records, closes, unlink and exit.
ExitUserProcess(u) ==
    /\ upc[u] = "exit"
    /\ ulog' = [ulog EXCEPT ![u] = @ \o MissingRecords(u)]
    /\ linked' = [linked EXCEPT ![u] = FALSE]
    /\ Terminate(u, "left")
    /\ UNCHANGED <<ret_user, serverVars, fd, balconyVars, logVars>>

Ended(u) == upc[u] \in {"left", "failed", "killed"}

\* A user is killed at any point; its FIFO stays in the file system.
UserKilled(u) ==
    /\ ~Ended(u)
    /\ ret_user' = [ret_user EXCEPT ![u] = NoCode]
    /\ Terminate(u, "killed")
    /\ UNCHANGED <<ulog, linked, serverVars, fd, balconyVars, logVars>>

-----------------------------------------------------------------------------
(* The server: from the request that a balcony takes to the next one.      *)

BalconyAt(b, l) == server = "up" /\ bpc[b] = l
Goto(b, l) == bpc' = [bpc EXCEPT ![b] = l]

LockLogMutex(b) == log_mutex = Nobody /\ log_mutex' = b
UnlockLogMutex == log_mutex' = Nobody

\* Mutant: does not take log_mutex.
SyncLog_unlocked(b, record) ==
    /\ log_buffer' = [user |-> first_request[b], record |-> record]
    /\ UNCHANGED log_mutex

\* The way of every record into the server log: a function of sync_log.c takes
\* log_mutex, and atomicPrintf prints in its buffer, one for all threads.  Only
\* the records about a request and its reply are kept here.
SyncLog(b, record) ==
    /\ LockLogMutex(b)
    /\ log_buffer' = [user |-> first_request[b], record |-> record]

\* atomicPrintf writes what is in its buffer, and log_mutex is given back.
WriteLog ==
    /\ slog' = [u \in Users |-> IF log_buffer.user = u
                                THEN Append(slog[u], log_buffer.record) ELSE slog[u]]
    /\ UnlockLogMutex
    /\ log_buffer' = NoRecord

TakeRequest(b) ==
    /\ BalconyAt(b, "idle")
    /\ \E u \in pending :
        /\ first_request' = [first_request EXCEPT ![b] = u]
        /\ pending' = pending \ {u}
    /\ Goto(b, "log_request")
    /\ UNCHANGED <<userVars, fifoVars, server, accepting, misclosed, slog, fd,
                   req_ret, user_fifo, logVars>>

SyncLogRequest(b) ==
    /\ BalconyAt(b, "log_request")
    /\ SyncLog(b, RequestRecord)
    /\ Goto(b, "write_log_request")
    /\ UNCHANGED <<userVars, fifoVars, serverVars, fd, first_request, req_ret, user_fifo>>

WriteLogRequest(b) ==
    /\ BalconyAt(b, "write_log_request")
    /\ WriteLog
    /\ Goto(b, "serve")
    /\ UNCHANGED <<userVars, fifoVars, server, accepting, pending, misclosed, fd,
                   first_request, req_ret, user_fifo>>

\* create_request, transfer_request, balance_request, or a refused shutdown.
ServeAccounts(b) ==
    /\ BalconyAt(b, "serve")
    /\ \E result \in Results : req_ret' = [req_ret EXCEPT ![b] = result]
    /\ Goto(b, "open")
    /\ UNCHANGED <<userVars, fifoVars, serverVars, fd, first_request, user_fifo, logVars>>

\* A number that close accepts: its open has returned.
CanClose(n) == fd[n] = DummyEnd \/ \E u \in Users : fd[n] = Opened(u)

\* shutdown_request closes the number of dummy_connection, whatever it stands
\* for by now.
ServeShutdown(b) ==
    /\ BalconyAt(b, "serve")
    /\ IF CanClose(Dummy)
       THEN /\ fd' = [fd EXCEPT ![Dummy] = Free]
            /\ misclosed' = (misclosed \/ fd[Dummy] # DummyEnd)
            /\ accepting' = FALSE
            /\ req_ret' = [req_ret EXCEPT ![b] = "RC_OK"]
       ELSE /\ req_ret' = [req_ret EXCEPT ![b] = "RC_OTHER"]
            /\ UNCHANGED <<fd, misclosed, accepting>>
    /\ Goto(b, "open")
    /\ UNCHANGED <<userVars, fifoVars, server, pending, slog, first_request, user_fifo, logVars>>

\* open(secure_fifo_name, O_WRONLY) takes the lowest free number and waits for
\* the user, unless the user waits already.
OpenUserFifo(b) ==
    /\ BalconyAt(b, "open")
    /\ LET u == first_request[b]
           n == Min({m \in Numbers : fd[m] = Free})
       IN
        /\ linked[u]
        /\ user_fifo' = [user_fifo EXCEPT ![b] = n]
        /\ fd' = [fd EXCEPT ![n] = IF reading[u] = "closed" THEN Opening(u) ELSE Opened(u)]
        /\ reading' = [reading EXCEPT ![u] = IF @ = "closed" THEN @ ELSE "open"]
    /\ Goto(b, "log_reply")
    /\ UNCHANGED <<userVars, linked, content, serverVars, first_request, req_ret, logVars>>

\* free(first_request), and the next turn of the loop.
NextTurn(b) ==
    /\ Goto(b, "idle")
    /\ first_request' = [first_request EXCEPT ![b] = Nobody]
    /\ req_ret' = [req_ret EXCEPT ![b] = NoCode]
    /\ user_fifo' = [user_fifo EXCEPT ![b] = BadFd]

\* Mutant: gives the request up at once, as the lines that are commented out.
OpenUserFifoFails_skips(b) ==
    /\ BalconyAt(b, "open")
    /\ ~linked[first_request[b]]
    /\ NextTurn(b)
    /\ UNCHANGED <<userVars, fifoVars, serverVars, fd, logVars>>

\* The FIFO is not there.  The code that tells so only replaces another error.
OpenUserFifoFails(b) ==
    /\ BalconyAt(b, "open")
    /\ ~linked[first_request[b]]
    /\ user_fifo' = [user_fifo EXCEPT ![b] = BadFd]
    /\ req_ret' = [req_ret EXCEPT ![b] = IF @ # "RC_OK" THEN "RC_USR_DOWN" ELSE @]
    /\ Goto(b, "log_reply")
    /\ UNCHANGED <<userVars, fifoVars, serverVars, fd, first_request, logVars>>

\* The open of balcony b has not returned.
Waiting(b) == \E n \in Numbers : n = user_fifo[b] /\ fd[n] = Opening(first_request[b])

\* The reply that balcony b sends.
Reply(b) == [user |-> first_request[b], ret_code |-> req_ret[b]]

SyncLogReply(b) ==
    /\ BalconyAt(b, "log_reply")
    /\ ~Waiting(b)
    /\ SyncLog(b, ReplyRecord(req_ret[b]))
    /\ Goto(b, "write_log_reply")
    /\ UNCHANGED <<userVars, fifoVars, serverVars, fd, first_request, req_ret, user_fifo>>

\* Without a descriptor nothing is sent to the user.
WriteLogReply(b) ==
    /\ BalconyAt(b, "write_log_reply")
    /\ WriteLog
    /\ IF user_fifo[b] # BadFd
       THEN Goto(b, "write") /\ UNCHANGED <<first_request, req_ret, user_fifo>>
       ELSE NextTurn(b)
    /\ UNCHANGED <<userVars, fifoVars, server, accepting, pending, misclosed, fd>>

\* Mutant: sends successes only.
WriteReply_successOnly(b) ==
    /\ BalconyAt(b, "write")
    /\ \A u \in Users : fd[user_fifo[b]] = Opened(u) => reading[u] # "closed"
    /\ content' = [u \in Users |->
                      IF fd[user_fifo[b]] = Opened(u) /\ req_ret[b] = "RC_OK"
                      THEN Append(content[u], Reply(b)) ELSE content[u]]
    /\ Goto(b, "close")
    /\ UNCHANGED <<userVars, linked, reading, serverVars, fd, first_request,
                   req_ret, user_fifo, logVars>>

\* write_reply into the file that the number stands for: it fails when the
\* number is not open.
WriteReply(b) ==
    /\ BalconyAt(b, "write")
    /\ \A u \in Users : fd[user_fifo[b]] = Opened(u) => reading[u] # "closed"
    /\ content' = [u \in Users |->
                      IF fd[user_fifo[b]] = Opened(u)
                      THEN Append(content[u], Reply(b)) ELSE content[u]]
    /\ Goto(b, "close")
    /\ UNCHANGED <<userVars, linked, reading, serverVars, fd, first_request,
                   req_ret, user_fifo, logVars>>

\* The end of the server closes all of its descriptors; its threads are gone.
StopServer(how) ==
    /\ server' = how
    /\ pending' = {}
    /\ fd' = [n \in Numbers |-> Free]
    /\ log_mutex' = Nobody
    /\ log_buffer' = NoRecord
    /\ bpc' = [b \in Balconies |-> "idle"]
    /\ first_request' = [b \in Balconies |-> Nobody]
    /\ req_ret' = [b \in Balconies |-> NoCode]
    /\ user_fifo' = [b \in Balconies |-> BadFd]

\* Nobody has the FIFO open for reading: SIGPIPE, which the server does not
\* handle, kills it.
WriteReplyKills(b) ==
    /\ BalconyAt(b, "write")
    /\ \E u \in Users : fd[user_fifo[b]] = Opened(u) /\ reading[u] = "closed"
    /\ StopServer("killed")
    /\ UNCHANGED <<userVars, fifoVars, accepting, misclosed, slog>>

\* Mutant: forgets to close.
CloseUserFifo_forgets(b) ==
    /\ BalconyAt(b, "close")
    /\ NextTurn(b)
    /\ UNCHANGED <<userVars, fifoVars, serverVars, fd, logVars>>

CloseUserFifo(b) ==
    /\ BalconyAt(b, "close")
    /\ fd' = IF CanClose(user_fifo[b]) THEN [fd EXCEPT ![user_fifo[b]] = Free] ELSE fd
    /\ NextTurn(b)
    /\ UNCHANGED <<userVars, fifoVars, serverVars, logVars>>

\* After a shutdown the server may end, even with a balcony at work: see
\* module Server.
ServerEnds ==
    /\ server = "up"
    /\ ~accepting
    /\ StopServer("ended")
    /\ UNCHANGED <<userVars, fifoVars, accepting, misclosed, slog>>

-----------------------------------------------------------------------------

UserStep(u) ==
    \/ MakeFifo(u)
    \/ OpenServer(u)
    \/ WriteRequest(u)
    \/ SetAlarm(u)
    \/ LogRequest(u)
    \/ FlagRequest(u)
    \/ OpenOwn(u)
    \/ ReadReply(u)
    \/ ReadEndOfFile(u)
    \/ CancelAlarm(u)
    \/ LogReply(u)
    \/ ExitUserProcess(u)

BalconyStep(b) ==
    \/ TakeRequest(b)
    \/ SyncLogRequest(b)
    \/ WriteLogRequest(b)
    \/ ServeAccounts(b)
    \/ ServeShutdown(b)
    \/ OpenUserFifo(b)
    \/ OpenUserFifoFails(b)
    \/ SyncLogReply(b)
    \/ WriteLogReply(b)
    \/ WriteReply(b)
    \/ WriteReplyKills(b)
    \/ CloseUserFifo(b)

Next ==
    \/ \E u \in Users : UserStep(u) \/ Alarm(u) \/ UserKilled(u)
    \/ \E b \in Balconies : BalconyStep(b)
    \/ ServerEnds

Spec == Init /\ [][Next]_vars

\* Threads and processes keep running, and an alarm that stays set goes off.
\* Users need not be killed, nor the server be ended.
Fairness ==
    /\ \A u \in Users : WF_vars(UserStep(u)) /\ WF_vars(Alarm(u))
    /\ \A b \in Balconies : WF_vars(BalconyStep(b))

FairSpec == Spec /\ Fairness

-----------------------------------------------------------------------------
(* Properties.                                                             *)

Records == {RequestRecord} \cup {ReplyRecord(c) : c \in Codes}
Replies == [user : Users \cup {Nobody}, ret_code : Codes \cup {NoCode}]
Files == {Free, DummyEnd} \cup {Opening(u) : u \in Users} \cup {Opened(u) : u \in Users}

TypeOK ==
    /\ upc \in [Users -> {"mkfifo", "open_server", "write", "alarm", "log_request",
                          "flag_request", "open_own", "read", "cancel_alarm",
                          "log_reply", "exit", "left", "failed", "killed"}]
    /\ ret_user \in [Users -> Codes \cup {NoCode}]
    /\ armed \in [Users -> BOOLEAN]
    /\ logged_request \in [Users -> BOOLEAN]
    /\ logged_reply \in [Users -> BOOLEAN]
    /\ request_reply \in [Users -> Replies]
    /\ ulog \in [Users -> Seq(Records)]
    /\ linked \in [Users -> BOOLEAN]
    /\ reading \in [Users -> {"closed", "opening", "open"}]
    /\ content \in [Users -> Seq(Replies)]
    /\ server \in {"up", "ended", "killed"}
    /\ accepting \in BOOLEAN
    /\ pending \in SUBSET Users
    /\ fd \in [Numbers -> Files]
    /\ misclosed \in BOOLEAN
    /\ bpc \in [Balconies -> {"idle", "log_request", "write_log_request", "serve",
                              "open", "log_reply", "write_log_reply", "write", "close"}]
    /\ first_request \in [Balconies -> Users \cup {Nobody}]
    /\ req_ret \in [Balconies -> Codes \cup {NoCode}]
    /\ user_fifo \in [Balconies -> Numbers \cup {BadFd}]
    /\ log_mutex \in Balconies \cup {Nobody}
    /\ log_buffer \in [user : Users \cup {Nobody}, record : Records]
    /\ slog \in [Users -> Seq(Records)]

\* Where the reply records are in the log of a user.
RepliesLogged(u) == {i \in DOMAIN ulog[u] : ulog[u][i].kind = "reply"}

\* A user that leaves by exit_user_process leaves one reply record, after its
\* request record, though the alarm may interrupt it before, between or after
\* its own records and flags (user.c:119-157 and 162-190); the request record is
\* there twice only if the alarm came between logRequest and its flag.
UserLogComplete ==
    \A u \in Users :
        upc[u] = "left" =>
            /\ RepliesLogged(u) = {Len(ulog[u])}
            /\ ulog[u][1] = RequestRecord
            /\ Len(ulog[u]) > 2 => ret_user[u] = "RC_SRV_TIMEOUT"

\* The two logs agree: the server records the request of a user and the reply
\* that the user records last, each once and in this order, though all balconies
\* print in one buffer (log.c:149), unless the user was never heard or gave up on
\* the server, or a second shutdown mixed up the descriptors.
LogsAgree ==
    \A u \in Users :
        /\ upc[u] = "left" /\ ret_user[u] # "RC_OK" =>
            Last(ulog[u]) = ReplyRecord(ret_user[u])
        /\ upc[u] = "left" /\ ret_user[u] = "RC_OK" /\ ~misclosed =>
            slog[u] = <<RequestRecord, Last(ulog[u])>>

\* The server records RC_USR_DOWN only for a user that has given up: no user
\* that still waits, or was served, is taken for one that is down.
UserDownIsTrue ==
    \A u \in Users :
        ReplyRecord("RC_USR_DOWN") \in ToSet(slog[u]) => ret_user[u] = "RC_SRV_TIMEOUT"

\* The balconies that are between the open and the close of a user FIFO.
Using(b) ==
    /\ bpc[b] \in {"log_reply", "write_log_reply", "write", "close"}
    /\ user_fifo[b] # BadFd

\* Whatever the replies that fail, the server has no more descriptors open than
\* balconies that use one (server.c:351-383): none is leaked.
NoDescriptorLeak ==
    Cardinality({n \in Numbers : fd[n] \notin {Free, DummyEnd}})
        <= Cardinality({b \in Balconies : Using(b)})

\* A user ends without a reply or a timeout (user.c:137) only if the server went
\* away, or a second shutdown closed the FIFO that its balcony was using.
FailureHasACause == \A u \in Users : upc[u] = "failed" => server # "up" \/ misclosed

\* Every user that has sent its request ends: the alarm resolves each wait, in
\* open or in read, for a server that will not answer.
UserEnds == \A u \in Users : upc[u] = "log_request" ~> Ended(u)

\* The balcony waits for a user that ended before it opened its FIFO.
Stuck(b) == bpc[b] = "log_reply" /\ Waiting(b) /\ Ended(first_request[b])

\* Every request is served, and the server records its reply, while the server
\* is up: a request only waits for ever when its balcony, or every balcony, is
\* lost to a user that ended before it opened its FIFO (server.c:351).
RequestServed ==
    \A u \in Users :
        u \in pending ~>
            \/ Len(slog[u]) = 2
            \/ server # "up"
            \/ \E b \in Balconies : Stuck(b) /\ first_request[b] = u
            \/ \A b \in Balconies : Stuck(b)

-----------------------------------------------------------------------------
(* Statements of the documents that the server does not keep.              *)

\* project.pdf: both programs go on normally when one end of the communication
\* is closed abruptly.
ServerSurvives == server # "killed"

\* README.md: "each user receives their response from a dedicated FIFO".
DedicatedFifo ==
    \A u \in Users : \A i \in DOMAIN content[u] : content[u][i].user = u

\* types.h:22: RC_USR_DOWN means "unable to send reply message to user".
UserDownIsRecorded ==
    \A b \in Balconies :
        bpc[b] = "log_reply" /\ user_fifo[b] = BadFd => req_ret[b] = "RC_USR_DOWN"

=============================================================================
